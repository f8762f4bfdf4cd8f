------------------------------ MODULE OtpProofs ------------------------------
(* Proofs about Otp, for every set of phones, challenges and calls and every *)
(* value of the caps.  The two caps are inductive once they count, with what *)
(* the counters hold, the calls that have passed a check and not yet paid.   *)
EXTENDS Otp, FiniteSetTheorems, TLAPS

USE OtpAssumption

\* What every reachable state satisfies.
IInv == SendsCapped /\ CapsOvershoot

-----------------------------------------------------------------------------
(* Counting *)

\* A set of which one element may have come or gone.
LEMMA OneElement ==
    ASSUME NEW S, NEW T, NEW x, IsFiniteSet(S), T \ {x} = S \ {x}
    PROVE  /\ IsFiniteSet(T)
           /\ Cardinality(S) \in Nat /\ Cardinality(T) \in Nat
           /\ (x \in S <=> x \in T) => Cardinality(T) = Cardinality(S)
           /\ x \in S /\ x \notin T => Cardinality(T) = Cardinality(S) - 1
           /\ x \notin S /\ x \in T => Cardinality(T) = Cardinality(S) + 1
<1>1. IsFiniteSet(S \ {x}) /\ x \notin S \ {x}
  BY FS_RemoveElement
<1>2. /\ IsFiniteSet((S \ {x}) \cup {x})
      /\ Cardinality((S \ {x}) \cup {x}) = Cardinality(S \ {x}) + 1
  BY <1>1, FS_AddElement
<1>3. /\ x \in S => S = (S \ {x}) \cup {x}
      /\ x \notin S => S = S \ {x}
  OBVIOUS
<1>4. /\ x \in T => T = (S \ {x}) \cup {x}
      /\ x \notin T => T = S \ {x}
  OBVIOUS
<1>5. IsFiniteSet(T)
  BY <1>1, <1>2, <1>4
<1>6. Cardinality(S) \in Nat /\ Cardinality(T) \in Nat /\ Cardinality(S \ {x}) \in Nat
  BY <1>1, <1>5, FS_CardinalityType
<1>7. x \in S => Cardinality(S) = Cardinality(S \ {x}) + 1
  BY <1>2, <1>3
<1>8. x \notin S => Cardinality(S) = Cardinality(S \ {x})
  BY <1>3
<1>9. x \in T => Cardinality(T) = Cardinality(S \ {x}) + 1
  BY <1>2, <1>4
<1>10. x \notin T => Cardinality(T) = Cardinality(S \ {x})
  BY <1>4
<1> QED
  BY <1>5, <1>6, <1>7, <1>8, <1>9, <1>10

\* The sets that are counted are finite, and no more calls are under way than
\* there are slots.
LEMMA Counts ==
    /\ Overshoot \in Nat
    /\ \A p, d : /\ IsFiniteSet(Sends(p, d)) /\ Cardinality(Sends(p, d)) \in Nat
                 /\ IsFiniteSet(Sending(p, d)) /\ Cardinality(Sending(p, d)) \in Nat
    /\ \A k : /\ IsFiniteSet(Trying(k)) /\ Cardinality(Trying(k)) \in Nat
              /\ Cardinality(Trying(k)) <= Overshoot
    /\ \A p : /\ IsFiniteSet(Failing(p)) /\ Cardinality(Failing(p)) \in Nat
              /\ Cardinality(Failing(p)) <= Overshoot
<1>1. Overshoot \in Nat
  BY FS_CardinalityType DEF Overshoot
<1>2. \A S \in SUBSET Calls : /\ IsFiniteSet(S) /\ Cardinality(S) \in Nat
                              /\ Cardinality(S) <= Overshoot
  <2> TAKE S \in SUBSET Calls
  <2>1. IsFiniteSet(S) /\ Cardinality(S) <= Overshoot
    BY FS_Subset DEF Overshoot
  <2> QED
    BY <2>1, FS_CardinalityType
<1>3. \A S \in SUBSET Challenges : IsFiniteSet(S) /\ Cardinality(S) \in Nat
  <2> TAKE S \in SUBSET Challenges
  <2>1. IsFiniteSet(S)
    BY FS_Subset
  <2> QED
    BY <2>1, FS_CardinalityType
<1>4. \A p, d : Sends(p, d) \in SUBSET Challenges /\ Sending(p, d) \in SUBSET Calls
  BY DEF Sends, Sending
<1>5. /\ \A k : Trying(k) \in SUBSET Calls
      /\ \A p : Failing(p) \in SUBSET Calls
  BY DEF Trying, Failing
<1> QED
  BY <1>1, <1>2, <1>3, <1>4, <1>5
-----------------------------------------------------------------------------
(* One call moves at a time *)

\* What one slot does in a step.
Step(t) ==
    \/ \E p \in Phones : RequestCode(t, p)
    \/ \E k \in Challenges : LoadChallenge(t, k)
    \/ Continue(t)
    \/ Crash(t)

\* The other slots stay as they are.
LEMMA OthersKeep ==
    ASSUME TypeOK, NEW t \in Calls, Step(t)
    PROVE  /\ call' = [call EXCEPT ![t] = call'[t]]
           /\ \A u \in Calls : u # t => call'[u] = call[u]
<1> USE DEF TypeOK, Start, Goto, Finish
<1>1. CASE \E p \in Phones : RequestCode(t, p)
  BY <1>1 DEF RequestCode
<1>2. CASE \E k \in Challenges : LoadChallenge(t, k)
  BY <1>2 DEF LoadChallenge
<1>3. CASE ReserveCooldown(t) \/ IncrDaily(t) \/ \E k \in Challenges : CreateChallenge(t, k)
  BY <1>3 DEF ReserveCooldown, IncrDaily, CreateChallenge
<1>4. CASE (\E right \in BOOLEAN : Judge(t, right)) \/ Consume(t) \/ CountAttempt(t)
  BY <1>4 DEF Judge, Consume, CountAttempt
<1>5. CASE CountFailure(t) \/ StartWindow(t)
  BY <1>5 DEF CountFailure, StartWindow, WrongCode
<1>6. CASE Crash(t)
  BY <1>6 DEF Crash
<1> QED
  BY <1>1, <1>2, <1>3, <1>4, <1>5, <1>6 DEF Step, Continue

\* So each set of calls that is counted changes by the slot that moves.
LEMMA OneSlot ==
    ASSUME TypeOK, NEW t \in Calls, Step(t)
    PROVE  /\ \A p, d : Sending(p, d)' \ {t} = Sending(p, d) \ {t}
           /\ \A k : Trying(k)' \ {t} = Trying(k) \ {t}
           /\ \A p : Failing(p)' \ {t} = Failing(p) \ {t}
  BY OthersKeep DEF Sending, Trying, Failing

\* The calls that wait to send, before and after a step of t.
LEMMA SendingMoves ==
    ASSUME TypeOK, NEW t \in Calls, Step(t), NEW p, NEW d
    PROVE  LET n == Cardinality(Sending(p, d))
               m == Cardinality(Sending(p, d)')
           IN  /\ m \in Nat
               /\ (t \in Sending(p, d) <=> t \in Sending(p, d)') => m = n
               /\ t \in Sending(p, d) /\ t \notin Sending(p, d)' => m = n - 1
               /\ t \notin Sending(p, d) /\ t \in Sending(p, d)' => m = n + 1
<1>1. Sending(p, d)' \ {t} = Sending(p, d) \ {t} /\ IsFiniteSet(Sending(p, d))
  BY OneSlot, Counts
<1> QED
  BY <1>1, OneElement

\* The same of the calls that have an attempt left on k.
LEMMA TryingMoves ==
    ASSUME TypeOK, NEW t \in Calls, Step(t), NEW k
    PROVE  LET n == Cardinality(Trying(k))
               m == Cardinality(Trying(k)')
           IN  /\ m \in Nat /\ m <= Overshoot
               /\ (t \in Trying(k) <=> t \in Trying(k)') => m = n
               /\ t \in Trying(k) /\ t \notin Trying(k)' => m = n - 1
<1>1. Trying(k)' \ {t} = Trying(k) \ {t} /\ IsFiniteSet(Trying(k))
  BY OneSlot, Counts
<1>2. IsFiniteSet(Trying(k)') /\ Trying(k)' \in SUBSET Calls
  BY <1>1, OneElement DEF Trying
<1>3. Cardinality(Trying(k)') <= Overshoot
  BY <1>2, FS_Subset DEF Overshoot
<1> QED
  BY <1>1, <1>3, OneElement

\* The same of the calls that have a failure of p to count.
LEMMA FailingMoves ==
    ASSUME TypeOK, NEW t \in Calls, Step(t), NEW p
    PROVE  LET n == Cardinality(Failing(p))
               m == Cardinality(Failing(p)')
           IN  /\ m \in Nat /\ m <= Overshoot
               /\ (t \in Failing(p) <=> t \in Failing(p)') => m = n
               /\ t \in Failing(p) /\ t \notin Failing(p)' => m = n - 1
<1>1. Failing(p)' \ {t} = Failing(p) \ {t} /\ IsFiniteSet(Failing(p))
  BY OneSlot, Counts
<1>2. IsFiniteSet(Failing(p)') /\ Failing(p)' \in SUBSET Calls
  BY <1>1, OneElement DEF Failing
<1>3. Cardinality(Failing(p)') <= Overshoot
  BY <1>2, FS_Subset DEF Overshoot
<1> QED
  BY <1>1, <1>3, OneElement

\* A failed attempt that is still to be counted has room under the cap.
LEMMA RoomForOne ==
    ASSUME IInv, NEW t \in Calls
    PROVE  /\ call[t].pc = "count" =>
                 /\ call[t].k \in Challenges
                 /\ chal[call[t].k].attempts + 1 < MaxAttempts + Overshoot
           /\ call[t].pc = "count_phone" =>
                 /\ call[t].phone \in Phones
                 /\ vfail[call[t].phone].count + 1 < VerifyFailCap + Overshoot
<1>1. CASE call[t].pc = "count"
  <2>1. call[t].k \in Challenges /\ t \in Trying(call[t].k)
    BY <1>1 DEF IInv, SendsCapped, TypeOK, CallShape, Trying, Slot
  <2>2. PICK k \in Challenges : k = call[t].k
    BY <2>1
  <2>3. Cardinality(Trying(k)) # 0
    BY <2>1, <2>2, Counts, FS_EmptySet
  <2>4. chal[k].attempts \in Nat
    BY DEF IInv, SendsCapped, TypeOK, Hash, Failures
  <2> QED
    BY <1>1, <2>2, <2>3, <2>4, Counts DEF IInv, CapsOvershoot
<1>2. CASE call[t].pc = "count_phone"
  <2>1. call[t].phone \in Phones /\ t \in Failing(call[t].phone)
    BY <1>2 DEF IInv, SendsCapped, TypeOK, CallShape, Failing, Slot
  <2>2. PICK p \in Phones : p = call[t].phone
    BY <2>1
  <2>3. Cardinality(Failing(p)) # 0
    BY <2>1, <2>2, Counts, FS_EmptySet
  <2>4. vfail[p].count \in Nat
    BY DEF IInv, SendsCapped, TypeOK, Hash, Failures
  <2> QED
    BY <1>2, <2>2, <2>3, <2>4, Counts DEF IInv, CapsOvershoot
<1> QED
  BY <1>1, <1>2
-----------------------------------------------------------------------------
(* What a step keeps *)

\* A call that has a place in its program is one call or the other.
LEMMA WhichCall ==
    ASSUME CallShape, TypeOK, NEW t \in Calls
    PROVE  /\ call[t].pc \in {"cooldown", "daily", "create"}
                 => call[t].op = "request" /\ call[t].phone \in Phones
           /\ call[t].pc \in {"cap", "consume", "count", "count_phone", "expire"}
                 => /\ call[t].op = "verify"
                    /\ call[t].phone \in Phones /\ call[t].k \in Challenges
  BY DEF CallShape, TypeOK, Slot

\* The caps are numbers.
LEMMA Numbers ==
    /\ Overshoot \in Nat /\ MaxDay \in Nat \ {0} /\ MaxAttempts \in Nat \ {0}
    /\ DailyCap \in Nat \ {0} /\ VerifyFailCap \in Nat \ {0}
  BY Counts

\* The slots a call goes through are slots.
LEMMA SlotForms ==
    ASSUME NEW c \in Slot
    PROVE  /\ Idle \in Slot
           /\ \A q \in {"daily", "consume", "count", "expire"} :
                 [c EXCEPT !.pc = q] \in Slot
           /\ \A d \in Days : [c EXCEPT !.pc = "create", !.day = d] \in Slot
           /\ \A n \in 0..(MaxAttempts + Overshoot) :
                 [c EXCEPT !.pc = "count_phone", !.attempts = n] \in Slot
           /\ \A p \in Phones :
                 [Idle EXCEPT !.op = "request", !.pc = "cooldown", !.phone = p] \in Slot
           /\ \A k \in Challenges, p \in Phones, n \in 0..(MaxAttempts + Overshoot) :
                 [Idle EXCEPT !.op = "verify", !.pc = "cap", !.k = k, !.phone = p,
                              !.attempts = n] \in Slot
<1>1. 0 \in 0..(MaxAttempts + Overshoot)
  BY Numbers
<1>2. Idle \in Slot
  BY <1>1 DEF Idle, Slot
<1>3. \A q \in {"daily", "consume", "count", "expire"} : [c EXCEPT !.pc = q] \in Slot
  BY DEF Slot
<1>4. \A d \in Days : [c EXCEPT !.pc = "create", !.day = d] \in Slot
  BY DEF Slot
<1>5. \A n \in 0..(MaxAttempts + Overshoot) :
         [c EXCEPT !.pc = "count_phone", !.attempts = n] \in Slot
  BY DEF Slot
<1>6. \A p \in Phones :
         [Idle EXCEPT !.op = "request", !.pc = "cooldown", !.phone = p] \in Slot
  BY <1>2 DEF Idle, Slot
<1>7. \A k \in Challenges, p \in Phones, n \in 0..(MaxAttempts + Overshoot) :
         [Idle EXCEPT !.op = "verify", !.pc = "cap", !.k = k, !.phone = p,
                      !.attempts = n] \in Slot
  BY <1>2 DEF Idle, Slot
<1> QED
  BY <1>2, <1>3, <1>4, <1>5, <1>6, <1>7

\* A step of a call keeps the slots.
LEMMA SlotsTyped ==
    ASSUME IInv, NEW t \in Calls, Step(t)
    PROVE  call' \in [Calls -> Slot]
<1>1. TypeOK /\ CallShape
  BY DEF IInv, SendsCapped
<1>2. call \in [Calls -> Slot] /\ call[t] \in Slot
  BY <1>1 DEF TypeOK
<1>3. \A c \in Slot : [call EXCEPT ![t] = c] \in [Calls -> Slot]
  BY <1>2
<1>4. SUFFICES \E c \in Slot : call' = [call EXCEPT ![t] = c]
  BY <1>3
<1>5. ASSUME NEW code, Finish(t, code) PROVE \E c \in Slot : call' = [call EXCEPT ![t] = c]
  BY <1>2, <1>5, SlotForms DEF Finish
<1>6. ASSUME NEW q \in {"daily", "consume", "count", "expire"}, Goto(t, q)
      PROVE  \E c \in Slot : call' = [call EXCEPT ![t] = c]
  <2>1. call' = [call EXCEPT ![t] = [call[t] EXCEPT !.pc = q]]
    BY <1>6 DEF Goto
  <2> QED
    BY <1>2, <2>1, SlotForms
<1>7. CASE \E p \in Phones : RequestCode(t, p)
  <2>1. PICK p \in Phones : RequestCode(t, p)
    BY <1>7
  <2> QED
    BY <1>2, <1>5, <2>1, SlotForms DEF RequestCode, Start
<1>8. CASE \E k \in Challenges : LoadChallenge(t, k)
  <2>1. PICK k \in Challenges : LoadChallenge(t, k)
    BY <1>8
  <2>2. chal[k].phone # None => /\ chal[k].phone \in Phones
                                /\ chal[k].attempts \in 0..(MaxAttempts + Overshoot)
    BY <1>1 DEF TypeOK, Hash
  <2> QED
    BY <1>2, <1>5, <2>1, <2>2, SlotForms DEF LoadChallenge, Start
<1>9. CASE ReserveCooldown(t) \/ \E k \in Challenges : CreateChallenge(t, k)
  BY <1>5, <1>6, <1>9 DEF ReserveCooldown, CreateChallenge
<1>10. CASE IncrDaily(t)
  <2>1. CASE \E code : Finish(t, code)
    BY <1>5, <2>1
  <2>2. CASE call' = [call EXCEPT ![t] = [call[t] EXCEPT !.pc = "create", !.day = today]]
    BY <1>1, <1>2, <2>2, SlotForms DEF TypeOK
  <2> QED
    BY <1>2, <1>10, <2>1, <2>2 DEF IncrDaily
<1>11. CASE (\E right \in BOOLEAN : Judge(t, right)) \/ Consume(t)
  BY <1>5, <1>6, <1>11 DEF Judge, Consume
<1>12. CASE CountAttempt(t)
  <2>1. /\ call[t].k \in Challenges
        /\ chal[call[t].k].attempts + 1 < MaxAttempts + Overshoot
    BY <1>12, RoomForOne DEF CountAttempt
  <2>2. OneMore(t).attempts \in 0..(MaxAttempts + Overshoot)
    BY <1>1, <2>1, Counts DEF TypeOK, Hash, OneMore
  <2>3. call' = [call EXCEPT ![t] = [call[t] EXCEPT !.pc = "count_phone",
                                                    !.attempts = OneMore(t).attempts]]
    BY <1>2, <1>12 DEF CountAttempt
  <2> QED
    BY <1>2, <2>2, <2>3, SlotForms
<1>13. CASE CountFailure(t) \/ StartWindow(t) \/ Crash(t)
  BY <1>5, <1>6, <1>13 DEF CountFailure, StartWindow, WrongCode, Crash
<1> QED
  BY <1>7, <1>8, <1>9, <1>10, <1>11, <1>12, <1>13 DEF Step, Continue

\* The steps that no call takes.
Outside ==
    \/ \E k \in Challenges : ExpireChallenge(k)
    \/ \E p \in Phones : ExpireCooldown(p) \/ ExpireFailures(p)
    \/ NextDay

\* They leave the calls, the codes that were sent and the daily counters.
LEMMA OutsideLeaves == Outside => call' = call /\ sent' = sent /\ daily' = daily
  BY DEF Outside, ExpireChallenge, ExpireCooldown, ExpireFailures, NextDay, redis

\* A step keeps the challenges: a new one, one more attempt, or none.
LEMMA HashesTyped ==
    ASSUME IInv, Next PROVE chal' \in [Challenges -> Hash]
<1>1. TypeOK /\ CallShape
  BY DEF IInv, SendsCapped
<1>2. chal \in [Challenges -> Hash]
  BY <1>1 DEF TypeOK
<1>3. NoChallenge \in Hash
  BY Numbers DEF NoChallenge, Hash
<1>4. ASSUME NEW t \in Calls, NEW k \in Challenges, CreateChallenge(t, k)
      PROVE  chal' \in [Challenges -> Hash]
  <2>1. call[t].phone \in Phones
    BY <1>1, <1>4, WhichCall DEF CreateChallenge
  <2>2. [phone |-> call[t].phone, attempts |-> 0, ttl |-> TRUE] \in Hash
    BY <2>1, Numbers DEF Hash
  <2> QED
    BY <1>2, <1>4, <2>2 DEF CreateChallenge
<1>5. ASSUME NEW t \in Calls, CountAttempt(t) PROVE chal' \in [Challenges -> Hash]
  <2>1. /\ call[t].k \in Challenges
        /\ chal[call[t].k].attempts + 1 < MaxAttempts + Overshoot
    BY <1>5, RoomForOne DEF CountAttempt
  <2>2. chal[call[t].k] \in Hash
    BY <1>2, <2>1
  <2>3. OneMore(t) \in Hash
    BY <2>1, <2>2, Numbers DEF OneMore, Hash
  <2> QED
    BY <1>2, <1>5, <2>3 DEF CountAttempt
<1>6. CASE \E t \in Calls : Consume(t)
  BY <1>2, <1>3, <1>6 DEF Consume
<1>7. CASE \E k \in Challenges : ExpireChallenge(k)
  BY <1>2, <1>3, <1>7 DEF ExpireChallenge
<1>8. CASE UNCHANGED chal
  BY <1>2, <1>8
<1> QED
  BY <1>4, <1>5, <1>6, <1>7, <1>8 DEF Next, Continue, RequestCode, LoadChallenge,
     ReserveCooldown, IncrDaily, Judge, CountFailure, StartWindow, Crash,
     ExpireCooldown, ExpireFailures, NextDay, redis

\* A step keeps the failure counters.
LEMMA FailuresTyped ==
    ASSUME IInv, Next PROVE vfail' \in [Phones -> Failures]
<1>1. TypeOK /\ CallShape
  BY DEF IInv, SendsCapped
<1>2. vfail \in [Phones -> Failures]
  BY <1>1 DEF TypeOK
<1>3. ASSUME NEW t \in Calls, CountFailure(t) PROVE vfail' \in [Phones -> Failures]
  <2>1. /\ call[t].phone \in Phones
        /\ vfail[call[t].phone].count + 1 < VerifyFailCap + Overshoot
    BY <1>3, RoomForOne DEF CountFailure
  <2>2. vfail[call[t].phone] \in Failures
    BY <1>2, <2>1
  <2>3. [vfail[call[t].phone] EXCEPT !.count = vfail[call[t].phone].count + 1] \in Failures
    BY <2>1, <2>2, Numbers DEF Failures
  <2> QED
    BY <1>2, <1>3, <2>3 DEF CountFailure
<1>4. ASSUME NEW t \in Calls, StartWindow(t) PROVE vfail' \in [Phones -> Failures]
  <2>1. call[t].phone \in Phones
    BY <1>1, <1>4, WhichCall DEF StartWindow
  <2>2. [vfail[call[t].phone] EXCEPT !.ttl = TRUE] \in Failures
    BY <1>2, <2>1 DEF Failures
  <2> QED
    BY <1>2, <1>4, <2>2 DEF StartWindow
<1>5. ASSUME NEW p \in Phones, ExpireFailures(p) PROVE vfail' \in [Phones -> Failures]
  <2>1. NoFailures \in Failures
    BY Numbers DEF NoFailures, Failures
  <2> QED
    BY <1>2, <1>5, <2>1 DEF ExpireFailures
<1>6. CASE UNCHANGED vfail
  BY <1>2, <1>6
<1> QED
  BY <1>3, <1>4, <1>5, <1>6 DEF Next, Continue, RequestCode, LoadChallenge,
     ReserveCooldown, IncrDaily, CreateChallenge, Judge, Consume, CountAttempt, Crash,
     ExpireChallenge, ExpireCooldown, NextDay, redis

\* A step keeps the daily counters and what was paid from them.
LEMMA DailyTyped ==
    ASSUME IInv, Next
    PROVE  /\ daily' \in [Phones -> [Days -> 0..(DailyCap + 1)]]
           /\ sent' \in [Challenges -> (Phones \X Days) \cup {None}]
<1>1. TypeOK /\ CallShape
  BY DEF IInv, SendsCapped
<1>2. /\ daily \in [Phones -> [Days -> 0..(DailyCap + 1)]]
      /\ sent \in [Challenges -> (Phones \X Days) \cup {None}]
      /\ today \in Days
  BY <1>1 DEF TypeOK
<1>3. ASSUME NEW t \in Calls, IncrDaily(t)
      PROVE  daily' \in [Phones -> [Days -> 0..(DailyCap + 1)]] /\ sent' = sent
  <2>1. call[t].phone \in Phones
    BY <1>1, <1>3, WhichCall DEF IncrDaily
  <2>2. PICK p \in Phones : p = call[t].phone
    BY <2>1
  <2>3. daily[p] \in [Days -> 0..(DailyCap + 1)] /\ daily[p][today] \in 0..(DailyCap + 1)
    BY <1>2
  <2>4. PICK n : /\ n = IF daily[p][today] + 1 > DailyCap THEN DailyCap + 1
                                                          ELSE daily[p][today] + 1
                 /\ n \in 0..(DailyCap + 1)
    BY <2>3, Numbers
  <2>5. daily' = [daily EXCEPT ![p] = [daily[p] EXCEPT ![today] = n]]
    BY <1>2, <1>3, <2>2, <2>4 DEF IncrDaily
  <2>6. [daily[p] EXCEPT ![today] = n] \in [Days -> 0..(DailyCap + 1)]
    BY <2>3, <2>4
  <2>7. daily' \in [Phones -> [Days -> 0..(DailyCap + 1)]]
    BY <1>2, <2>5, <2>6
  <2> QED
    BY <1>3, <2>7 DEF IncrDaily
<1>4. ASSUME NEW t \in Calls, NEW k \in Challenges, CreateChallenge(t, k)
      PROVE  daily' = daily /\ sent' \in [Challenges -> (Phones \X Days) \cup {None}]
  <2>1. call[t].phone \in Phones /\ call[t].day \in Days
    BY <1>1, <1>4, WhichCall DEF TypeOK, Slot, CallShape, CreateChallenge
  <2> QED
    BY <1>2, <1>4, <2>1 DEF CreateChallenge
<1>5. CASE UNCHANGED <<daily, sent>>
  BY <1>2, <1>5
<1> QED
  BY <1>2, <1>3, <1>4, <1>5 DEF Next, Continue, RequestCode, LoadChallenge,
     ReserveCooldown, Judge, Consume, CountAttempt, CountFailure, StartWindow, Crash,
     ExpireChallenge, ExpireCooldown, ExpireFailures, NextDay, redis

\* A step keeps the rest: the day, the cooldowns, the lost windows, the answer.
LEMMA RestTyped ==
    ASSUME IInv, Next
    PROVE  /\ today' \in Days /\ cooldown' \subseteq Phones /\ lost' \subseteq Phones
           /\ reply' \in {"200", "400", "429", "500", None}
<1>1. TypeOK /\ CallShape
  BY DEF IInv, SendsCapped
<1>2. /\ today \in Days /\ cooldown \subseteq Phones /\ lost \subseteq Phones
      /\ reply \in {"200", "400", "429", "500", None}
  BY <1>1 DEF TypeOK
<1> DEFINE Rest == /\ today' \in Days /\ cooldown' \subseteq Phones /\ lost' \subseteq Phones
                   /\ reply' \in {"200", "400", "429", "500", None}
<1>3. ASSUME NEW t \in Calls, ReserveCooldown(t) PROVE Rest
  <2>1. call[t].phone \in Phones
    BY <1>1, <1>3, WhichCall DEF ReserveCooldown
  <2> QED
    BY <1>2, <1>3, <2>1 DEF ReserveCooldown, Goto, Finish
<1>4. ASSUME NEW t \in Calls, Crash(t) PROVE Rest
  <2>1. call[t].pc = "expire" => call[t].phone \in Phones
    BY <1>1, WhichCall
  <2> QED
    BY <1>2, <1>4, <2>1 DEF Crash, Finish, redis
<1>5. ASSUME NEW t \in Calls, \E p \in Phones : RequestCode(t, p) PROVE Rest
  BY <1>2, <1>5 DEF RequestCode, Start, Finish, redis
<1>6. ASSUME NEW t \in Calls, \E k \in Challenges : LoadChallenge(t, k) PROVE Rest
  BY <1>2, <1>6 DEF LoadChallenge, Start, Finish, redis
<1>7. ASSUME NEW t \in Calls, IncrDaily(t) \/ \E k \in Challenges : CreateChallenge(t, k)
      PROVE  Rest
  BY <1>2, <1>7 DEF IncrDaily, CreateChallenge, Finish
<1>8. ASSUME NEW t \in Calls, Consume(t) \/ \E right \in BOOLEAN : Judge(t, right) PROVE Rest
  BY <1>2, <1>8 DEF Judge, Consume, Goto, Finish, redis
<1>9. ASSUME NEW t \in Calls, CountAttempt(t) \/ CountFailure(t) \/ StartWindow(t) PROVE Rest
  BY <1>2, <1>9 DEF CountAttempt, CountFailure, StartWindow, WrongCode, Goto, Finish
<1>10. CASE NextDay
  BY <1>2, <1>10 DEF NextDay, Days, redis
<1>11. CASE Outside /\ ~NextDay
  BY <1>2, <1>11 DEF Outside, ExpireChallenge, ExpireCooldown, ExpireFailures
<1> QED
  BY <1>3, <1>4, <1>5, <1>6, <1>7, <1>8, <1>9, <1>10, <1>11 DEF Next, Continue, Outside

\* A step keeps the type.
LEMMA TypeNext == IInv /\ Next => TypeOK'
<1> SUFFICES ASSUME IInv, Next PROVE TypeOK'
  OBVIOUS
<1>1. call' \in [Calls -> Slot]
  <2>1. CASE \E t \in Calls : Step(t)
    BY <2>1, SlotsTyped
  <2>2. CASE Outside
    BY <2>2, OutsideLeaves DEF IInv, SendsCapped, TypeOK
  <2> QED
    BY <2>1, <2>2 DEF Next, Step, Outside
<1> QED
  BY <1>1, HashesTyped, FailuresTyped, DailyTyped, RestTyped DEF TypeOK

\* What one slot has in hand.
InHand(c) ==
    /\ c.pc = "idle" <=> c.op = "idle"
    /\ c.op = "request" => c.pc \in {"cooldown", "daily", "create"}
    /\ c.op = "verify" => c.k # None /\ c.pc \notin {"cooldown", "daily", "create"}
    /\ c.op # "idle" => c.phone # None
    /\ c.pc = "create" => c.day # 0
    /\ c.pc \in {"consume", "count"} => ~AttemptsUsedUp(c.attempts)

\* A step keeps what a call has in hand.
LEMMA ShapeNext == IInv /\ Next => CallShape'
<1> SUFFICES ASSUME IInv, Next PROVE CallShape'
  OBVIOUS
<1>1. TypeOK /\ CallShape
  BY DEF IInv, SendsCapped
<1>2. CASE Outside
  BY <1>1, <1>2, OutsideLeaves DEF CallShape
<1>3. ASSUME NEW t \in Calls, Step(t) PROVE CallShape'
  <2>1. call[t] \in Slot /\ InHand(call[t])
    BY <1>1 DEF TypeOK, CallShape, InHand
  <2>2. /\ call' = [call EXCEPT ![t] = call'[t]]
        /\ \A u \in Calls : u # t => call'[u] = call[u]
    BY <1>1, <1>3, OthersKeep
  <2>3. SUFFICES InHand(call'[t])
    BY <1>1, <2>2 DEF CallShape, InHand, AttemptsUsedUp
  <2>4. InHand(Idle)
    BY DEF InHand, Idle
  <2>5. ASSUME NEW code, Finish(t, code) PROVE InHand(call'[t])
    BY <1>1, <2>4, <2>5 DEF Finish, TypeOK
  <2>6. ASSUME NEW q, Goto(t, q) PROVE call'[t] = [call[t] EXCEPT !.pc = q]
    BY <1>1, <2>6 DEF Goto, TypeOK
  <2>7. CASE \E p \in Phones : RequestCode(t, p)
    <3>1. PICK p \in Phones : RequestCode(t, p)
      BY <2>7
    <3>2. InHand([Idle EXCEPT !.op = "request", !.pc = "cooldown", !.phone = p])
      BY DEF InHand, Idle
    <3> QED
      BY <1>1, <2>5, <3>1, <3>2 DEF RequestCode, Start, TypeOK
  <2>8. CASE \E k \in Challenges : LoadChallenge(t, k)
    <3>1. PICK k \in Challenges : LoadChallenge(t, k)
      BY <2>8
    <3>2. chal[k].phone # None =>
             InHand([Idle EXCEPT !.op = "verify", !.pc = "cap", !.k = k,
                                 !.phone = chal[k].phone, !.attempts = chal[k].attempts])
      BY DEF InHand, Idle
    <3> QED
      BY <1>1, <2>5, <3>1, <3>2 DEF LoadChallenge, Start, TypeOK
  <2>9. CASE ReserveCooldown(t) \/ \E k \in Challenges : CreateChallenge(t, k)
    <3>1. call[t].pc = "cooldown" => InHand([call[t] EXCEPT !.pc = "daily"])
      BY <2>1 DEF InHand, Slot
    <3> QED
      BY <2>5, <2>6, <2>9, <3>1 DEF ReserveCooldown, CreateChallenge
  <2>10. CASE IncrDaily(t)
    <3>1. call[t].pc = "daily" =>
             InHand([call[t] EXCEPT !.pc = "create", !.day = today])
      BY <1>1, <2>1 DEF InHand, Slot, TypeOK, Days
    <3>2. call' = [call EXCEPT ![t].pc = "create", ![t].day = today]
             => call'[t] = [call[t] EXCEPT !.pc = "create", !.day = today]
      BY <1>1 DEF TypeOK
    <3> QED
      BY <2>5, <2>10, <3>1, <3>2 DEF IncrDaily
  <2>11. CASE \E right \in BOOLEAN : Judge(t, right)
    <3>1. \A q \in {"consume", "count"} :
             call[t].pc = "cap" /\ ~AttemptsUsedUp(call[t].attempts)
                => InHand([call[t] EXCEPT !.pc = q])
      BY <2>1 DEF InHand, Slot
    <3> QED
      BY <2>5, <2>6, <2>11, <3>1 DEF Judge
  <2>12. CASE CountAttempt(t)
    <3>1. \A n : call[t].pc = "count"
                    => InHand([call[t] EXCEPT !.pc = "count_phone", !.attempts = n])
      BY <2>1 DEF InHand, Slot
    <3>2. call'[t] = [call[t] EXCEPT !.pc = "count_phone", !.attempts = OneMore(t).attempts]
      BY <1>1, <2>12 DEF CountAttempt, TypeOK
    <3> QED
      BY <2>12, <3>1, <3>2 DEF CountAttempt
  <2>13. CASE CountFailure(t) \/ StartWindow(t) \/ Consume(t) \/ Crash(t)
    <3>1. call[t].pc = "count_phone" => InHand([call[t] EXCEPT !.pc = "expire"])
      BY <2>1 DEF InHand, Slot
    <3> QED
      BY <2>5, <2>6, <2>13, <3>1 DEF CountFailure, StartWindow, WrongCode, Consume, Crash
  <2> QED
    BY <1>3, <2>7, <2>8, <2>9, <2>10, <2>11, <2>12, <2>13 DEF Step, Continue
<1> QED
  BY <1>2, <1>3 DEF Next, Step, Outside

\* Where a call is once it has begun or has dealt with a counter of its phone.
LEMMA Entered ==
    ASSUME TypeOK, NEW t \in Calls
    PROVE  /\ \A p \in Phones : RequestCode(t, p) => call'[t].pc \in {"idle", "cooldown"}
           /\ \A k \in Challenges : LoadChallenge(t, k) =>
                 \/ call'[t].pc = "idle"
                 \/ call'[t].pc = "cap" /\ call'[t].k = k /\ call'[t].attempts = chal[k].attempts
           /\ ReserveCooldown(t) => call'[t].pc \in {"idle", "daily"}
           /\ IncrDaily(t) => IF DailyCapReached(daily[call[t].phone][today] + 1)
                                THEN call'[t].pc = "idle"
                                ELSE /\ call'[t].pc = "create" /\ call'[t].day = today
                                     /\ call'[t].phone = call[t].phone
           /\ \A k \in Challenges : CreateChallenge(t, k) => call'[t].pc = "idle"
<1>1. /\ call[t] \in Slot
      /\ \A c : call' = [call EXCEPT ![t] = c] => call'[t] = c
  BY DEF TypeOK
<1>2. Idle.pc = "idle"
  BY DEF Idle
<1>3. \A code : Finish(t, code) => call'[t].pc = "idle"
  BY <1>1, <1>2 DEF Finish
<1>4. ASSUME NEW p \in Phones, RequestCode(t, p) PROVE call'[t].pc \in {"idle", "cooldown"}
  <2>1. [Idle EXCEPT !.op = "request", !.pc = "cooldown", !.phone = p].pc = "cooldown"
    BY DEF Idle
  <2> QED
    BY <1>1, <1>3, <1>4, <2>1 DEF RequestCode, Start
<1>5. ASSUME NEW k \in Challenges, LoadChallenge(t, k)
      PROVE  \/ call'[t].pc = "idle"
             \/ call'[t].pc = "cap" /\ call'[t].k = k /\ call'[t].attempts = chal[k].attempts
  <2>1. PICK c : /\ c = [Idle EXCEPT !.op = "verify", !.pc = "cap", !.k = k,
                                     !.phone = chal[k].phone, !.attempts = chal[k].attempts]
                 /\ c.pc = "cap" /\ c.k = k /\ c.attempts = chal[k].attempts
    <3> DEFINE slot == [Idle EXCEPT !.op = "verify", !.pc = "cap", !.k = k,
                                    !.phone = chal[k].phone, !.attempts = chal[k].attempts]
    <3>1. slot.pc = "cap" /\ slot.k = k /\ slot.attempts = chal[k].attempts
      BY DEF Idle
    <3> QED
      BY <3>1
  <2> QED
    BY <1>1, <1>3, <1>5, <2>1 DEF LoadChallenge, Start
<1>6. ReserveCooldown(t) => call'[t].pc \in {"idle", "daily"}
  <2>1. \A q : [call[t] EXCEPT !.pc = q].pc = q
    BY <1>1 DEF Slot
  <2>2. Goto(t, "daily") => call'[t].pc = "daily"
    BY <1>1, <2>1 DEF Goto
  <2> QED
    BY <1>3, <2>2 DEF ReserveCooldown
<1>7. ASSUME IncrDaily(t)
      PROVE  IF DailyCapReached(daily[call[t].phone][today] + 1)
               THEN call'[t].pc = "idle"
               ELSE /\ call'[t].pc = "create" /\ call'[t].day = today
                    /\ call'[t].phone = call[t].phone
  <2>1. call' = [call EXCEPT ![t].pc = "create", ![t].day = today]
           => /\ call'[t].pc = "create" /\ call'[t].day = today
              /\ call'[t].phone = call[t].phone
    BY <1>1 DEF TypeOK, Slot
  <2> QED
    BY <1>3, <1>7, <2>1 DEF IncrDaily
<1>8. \A k \in Challenges : CreateChallenge(t, k) => call'[t].pc = "idle"
  BY <1>3 DEF CreateChallenge
<1> QED
  BY <1>4, <1>5, <1>6, <1>7, <1>8
-----------------------------------------------------------------------------
(* The caps *)

\* A step keeps every challenge's attempts, those on their way included, under
\* the cap and the calls there can be.
LEMMA AttemptsNext ==
    ASSUME IInv, Next, NEW k \in Challenges
    PROVE  chal'[k].attempts + Cardinality(Trying(k)') < MaxAttempts + Overshoot
<1>1. TypeOK /\ CallShape /\ call \in [Calls -> Slot]
  BY DEF IInv, SendsCapped, TypeOK
<1>2. chal[k].attempts \in Nat /\ chal'[k].attempts \in Nat
  BY <1>1, HashesTyped DEF TypeOK, Hash
<1>3. chal[k].attempts + Cardinality(Trying(k)) < MaxAttempts + Overshoot
  BY DEF IInv, CapsOvershoot
<1>4. Cardinality(Trying(k)) \in Nat
  BY Counts
<1>5. CASE Outside
  <2>1. Trying(k)' = Trying(k)
    BY <1>5, OutsideLeaves DEF Trying
  <2>2. chal'[k] = chal[k] \/ chal'[k].attempts = 0
    BY <1>1, <1>5 DEF Outside, ExpireChallenge, ExpireCooldown, ExpireFailures, NextDay,
       NoChallenge, TypeOK, redis
  <2> QED
    BY <1>2, <1>3, <1>4, <2>1, <2>2, Numbers
<1>6. ASSUME NEW t \in Calls, Step(t)
      PROVE  chal'[k].attempts + Cardinality(Trying(k)') < MaxAttempts + Overshoot
  <2>1. /\ Cardinality(Trying(k)') \in Nat /\ Cardinality(Trying(k)') <= Overshoot
        /\ (t \in Trying(k)' => t \in Trying(k))
              => Cardinality(Trying(k)') <= Cardinality(Trying(k))
        /\ t \in Trying(k) /\ t \notin Trying(k)'
              => Cardinality(Trying(k)') = Cardinality(Trying(k)) - 1
    BY <1>1, <1>4, <1>6, TryingMoves
  <2>2. CASE chal'[k] = chal[k] /\ (t \in Trying(k)' => t \in Trying(k))
    BY <1>2, <1>3, <1>4, <2>1, <2>2, Numbers
  <2>3. CASE \E x \in Challenges : LoadChallenge(t, x)
    <3>1. PICK x \in Challenges : LoadChallenge(t, x)
      BY <2>3
    <3>2. chal'[k] = chal[k]
      BY <3>1 DEF LoadChallenge, redis
    <3>3. t \in Trying(k)' => chal[k].attempts < MaxAttempts
      BY <1>1, <1>2, <3>1, Entered, Numbers DEF Trying, AttemptsUsedUp
    <3> QED
      BY <1>2, <2>1, <2>2, <3>2, <3>3, Numbers
  <2>4. CASE CountAttempt(t)
    <3>1. t \notin Trying(k)'
      BY <1>1, <2>4 DEF CountAttempt, Trying
    <3>2. CASE call[t].k = k
      <4>1. t \in Trying(k)
        BY <1>1, <2>4, <3>2 DEF CountAttempt, Trying, CallShape
      <4>2. chal'[k].attempts = chal[k].attempts + 1
        BY <1>1, <2>4, <3>2 DEF CountAttempt, OneMore, TypeOK, Hash
      <4> QED
        BY <1>2, <1>3, <1>4, <2>1, <3>1, <4>1, <4>2, Numbers
    <3>3. CASE call[t].k # k
      <4>1. chal'[k] = chal[k]
        BY <1>1, <2>4, <3>3 DEF CountAttempt, TypeOK
      <4> QED
        BY <2>2, <3>1, <4>1
    <3> QED
      BY <3>2, <3>3
  <2>5. CASE Consume(t) \/ \E x \in Challenges : CreateChallenge(t, x)
    <3>1. t \notin Trying(k)'
      BY <1>1, <2>5 DEF Consume, CreateChallenge, Finish, Idle, Trying
    <3>2. chal'[k] = chal[k] \/ chal'[k].attempts = 0
      BY <1>1, <2>5 DEF Consume, CreateChallenge, NoChallenge, TypeOK
    <3> QED
      BY <1>2, <1>3, <1>4, <2>1, <3>1, <3>2, Numbers
  <2>6. CASE (\E p \in Phones : RequestCode(t, p)) \/ ReserveCooldown(t) \/ IncrDaily(t)
    <3>1. t \notin Trying(k)'
      BY <1>1, <2>6, Entered DEF Trying
    <3>2. chal'[k] = chal[k]
      BY <2>6 DEF RequestCode, ReserveCooldown, IncrDaily, redis
    <3> QED
      BY <2>2, <3>1, <3>2
  <2>7. CASE \E right \in BOOLEAN : Judge(t, right)
    <3>1. t \in Trying(k)' => t \in Trying(k)
      BY <1>1, <2>7 DEF Judge, Goto, Finish, Idle, Trying, Slot, AttemptsUsedUp
    <3>2. chal'[k] = chal[k]
      BY <2>7 DEF Judge, redis
    <3> QED
      BY <2>2, <3>1, <3>2
  <2>8. CASE CountFailure(t) \/ StartWindow(t) \/ Crash(t)
    <3>1. t \notin Trying(k)'
      BY <1>1, <2>8 DEF CountFailure, StartWindow, Crash, WrongCode, Goto, Finish, Idle,
         Trying, Slot
    <3>2. chal'[k] = chal[k]
      BY <2>8 DEF CountFailure, StartWindow, Crash, redis
    <3> QED
      BY <2>2, <3>1, <3>2
  <2> QED
    BY <1>6, <2>3, <2>4, <2>5, <2>6, <2>7, <2>8 DEF Step, Continue
<1> QED
  BY <1>5, <1>6 DEF Next, Step, Outside

\* The same for every phone's failures.
LEMMA FailuresNext ==
    ASSUME IInv, Next, NEW p \in Phones
    PROVE  vfail'[p].count + Cardinality(Failing(p)') < VerifyFailCap + Overshoot
<1>1. TypeOK /\ CallShape /\ call \in [Calls -> Slot]
  BY DEF IInv, SendsCapped, TypeOK
<1>2. vfail[p].count \in Nat /\ vfail'[p].count \in Nat
  BY <1>1, FailuresTyped DEF TypeOK, Failures
<1>3. vfail[p].count + Cardinality(Failing(p)) < VerifyFailCap + Overshoot
  BY DEF IInv, CapsOvershoot
<1>4. Cardinality(Failing(p)) \in Nat
  BY Counts
<1>5. CASE Outside
  <2>1. Failing(p)' = Failing(p)
    BY <1>5, OutsideLeaves DEF Failing
  <2>2. vfail'[p] = vfail[p] \/ vfail'[p].count = 0
    BY <1>1, <1>5 DEF Outside, ExpireChallenge, ExpireCooldown, ExpireFailures, NextDay,
       NoFailures, TypeOK, redis
  <2> QED
    BY <1>2, <1>3, <1>4, <2>1, <2>2, Numbers
<1>6. ASSUME NEW t \in Calls, Step(t)
      PROVE  vfail'[p].count + Cardinality(Failing(p)') < VerifyFailCap + Overshoot
  <2>1. /\ Cardinality(Failing(p)') \in Nat /\ Cardinality(Failing(p)') <= Overshoot
        /\ (t \in Failing(p)' => t \in Failing(p))
              => Cardinality(Failing(p)') <= Cardinality(Failing(p))
        /\ t \in Failing(p) /\ t \notin Failing(p)'
              => Cardinality(Failing(p)') = Cardinality(Failing(p)) - 1
    BY <1>1, <1>4, <1>6, FailingMoves
  <2>2. CASE vfail'[p].count = vfail[p].count /\ (t \in Failing(p)' => t \in Failing(p))
    BY <1>2, <1>3, <1>4, <2>1, <2>2, Numbers
  <2>3. CASE \E right \in BOOLEAN : Judge(t, right)
    <3>1. vfail'[p] = vfail[p]
      BY <2>3 DEF Judge, redis
    <3>2. t \in Failing(p)' => vfail[p].count < VerifyFailCap
      BY <1>1, <1>2, <2>3, Numbers
      DEF Judge, Goto, Finish, Idle, Failing, Slot, VerifyCapReached
    <3> QED
      BY <1>2, <2>1, <2>2, <3>1, <3>2, Numbers
  <2>4. CASE CountAttempt(t)
    <3>1. t \in Failing(p)' => t \in Failing(p)
      BY <1>1, <2>4 DEF CountAttempt, Failing, Slot
    <3> QED
      BY <2>2, <2>4, <3>1 DEF CountAttempt
  <2>5. CASE CountFailure(t)
    <3>1. t \notin Failing(p)'
      BY <1>1, <2>5 DEF CountFailure, WrongCode, Goto, Finish, Idle, Failing, Slot
    <3>2. CASE call[t].phone = p
      <4>1. t \in Failing(p)
        BY <2>5, <3>2 DEF CountFailure, Failing
      <4>2. vfail'[p].count = vfail[p].count + 1
        BY <1>1, <2>5, <3>2 DEF CountFailure, TypeOK, Failures
      <4> QED
        BY <1>2, <1>3, <1>4, <2>1, <3>1, <4>1, <4>2, Numbers
    <3>3. CASE call[t].phone # p
      <4>1. vfail'[p] = vfail[p]
        BY <1>1, <2>5, <3>3 DEF CountFailure, TypeOK
      <4> QED
        BY <2>2, <3>1, <4>1
    <3> QED
      BY <3>2, <3>3
  <2>6. CASE StartWindow(t)
    <3>1. t \notin Failing(p)'
      BY <1>1, <2>6 DEF StartWindow, WrongCode, Finish, Idle, Failing
    <3>2. vfail'[p].count = vfail[p].count
      BY <1>1, <2>6 DEF StartWindow, TypeOK, Failures
    <3> QED
      BY <2>2, <3>1, <3>2
  <2>7. CASE (\E q \in Phones : RequestCode(t, q)) \/ ReserveCooldown(t) \/ IncrDaily(t)
    <3>1. t \notin Failing(p)'
      BY <1>1, <2>7, Entered DEF Failing
    <3> QED
      BY <2>2, <2>7, <3>1 DEF RequestCode, ReserveCooldown, IncrDaily, redis
  <2>8. CASE \E k \in Challenges : LoadChallenge(t, k) \/ CreateChallenge(t, k)
    <3>1. t \notin Failing(p)'
      BY <1>1, <2>8, Entered DEF Failing
    <3> QED
      BY <2>2, <2>8, <3>1 DEF LoadChallenge, CreateChallenge, redis
  <2>9. CASE Consume(t) \/ Crash(t)
    <3>1. t \notin Failing(p)'
      BY <1>1, <2>9 DEF Consume, Crash, Finish, Idle, Failing
    <3> QED
      BY <2>2, <2>9, <3>1 DEF Consume, Crash, redis
  <2> QED
    BY <1>6, <2>3, <2>4, <2>5, <2>6, <2>7, <2>8, <2>9 DEF Step, Continue
<1> QED
  BY <1>5, <1>6 DEF Next, Step, Outside

\* A step that sends k charges its day's counter for it, and no other.
LEMMA SendsMove ==
    ASSUME TypeOK, NEW t \in Calls, NEW k \in Challenges, CreateChallenge(t, k),
           NEW p \in Phones, NEW d \in Days
    PROVE  Cardinality(Sends(p, d)') =
              Cardinality(Sends(p, d)) + (IF call[t].phone = p /\ call[t].day = d THEN 1 ELSE 0)
<1>1. sent \in [Challenges -> (Phones \X Days) \cup {None}] /\ None # <<p, d>>
  BY DEF TypeOK, Days
<1>2. k \notin Sends(p, d)
  BY <1>1 DEF Sends, CreateChallenge
<1>3. Sends(p, d)' \ {k} = Sends(p, d) \ {k}
  BY <1>1 DEF Sends, CreateChallenge
<1>4. k \in Sends(p, d)' <=> call[t].phone = p /\ call[t].day = d
  BY <1>1 DEF Sends, CreateChallenge
<1> QED
  BY <1>2, <1>3, <1>4, Counts, OneElement

\* A step keeps every day's counter at or above what it paid for, and what it
\* paid for at or below the cap.
LEMMA PaidNext ==
    ASSUME IInv, Next, NEW p \in Phones, NEW d \in Days
    PROVE  Paid(p, d)' <= daily'[p][d] /\ Paid(p, d)' <= DailyCap
<1>1. TypeOK /\ CallShape /\ call \in [Calls -> Slot]
  BY DEF IInv, SendsCapped, TypeOK
<1>2. daily[p][d] \in 0..(DailyCap + 1) /\ daily'[p][d] \in 0..(DailyCap + 1)
  BY <1>1, DailyTyped DEF TypeOK
<1>3. /\ Paid(p, d) = Cardinality(Sends(p, d)) + Cardinality(Sending(p, d))
      /\ Paid(p, d)' = Cardinality(Sends(p, d)') + Cardinality(Sending(p, d)')
      /\ Paid(p, d) <= daily[p][d] /\ Paid(p, d) <= DailyCap
  BY DEF Paid, IInv, SendsCapped
<1>4. Cardinality(Sends(p, d)) \in Nat /\ Cardinality(Sending(p, d)) \in Nat
  BY Counts
<1>5. CASE Outside
  <2>1. Sends(p, d)' = Sends(p, d) /\ Sending(p, d)' = Sending(p, d) /\ daily' = daily
    BY <1>5, OutsideLeaves DEF Sends, Sending
  <2> QED
    BY <1>3, <2>1
<1>6. ASSUME NEW t \in Calls, Step(t)
      PROVE  Paid(p, d)' <= daily'[p][d] /\ Paid(p, d)' <= DailyCap
  <2>1. LET n == Cardinality(Sending(p, d))
            m == Cardinality(Sending(p, d)')
        IN  /\ m \in Nat
            /\ (t \in Sending(p, d)' => t \in Sending(p, d)) => m <= n
            /\ t \in Sending(p, d) /\ t \notin Sending(p, d)' => m = n - 1
            /\ m <= n + 1
    BY <1>1, <1>4, <1>6, SendingMoves
  <2>2. CASE sent' = sent /\ daily' = daily /\ t \notin Sending(p, d)'
    <3>1. Sends(p, d)' = Sends(p, d)
      BY <2>2 DEF Sends
    <3> QED
      BY <1>2, <1>3, <1>4, <2>1, <2>2, <3>1, Numbers
  <2>3. CASE IncrDaily(t)
    <3>1. Sends(p, d)' = Sends(p, d)
      BY <2>3 DEF IncrDaily, Sends
    <3>2. PICK q \in Phones : q = call[t].phone
      BY <1>1, <2>3, WhichCall DEF IncrDaily
    <3>3. today \in Days /\ daily[q][today] \in 0..(DailyCap + 1)
      BY <1>1 DEF TypeOK
    <3>4. daily'[p][d] = IF q = p /\ today = d
                           THEN IF daily[p][d] > DailyCap - 1 THEN DailyCap + 1
                                                              ELSE daily[p][d] + 1
                           ELSE daily[p][d]
      <4>1. /\ daily[q] \in [Days -> 0..(DailyCap + 1)]
            /\ daily' = [daily EXCEPT ![q][today] =
                            IF daily[q][today] + 1 > DailyCap THEN DailyCap + 1
                                                              ELSE daily[q][today] + 1]
        BY <1>1, <2>3, <3>2 DEF IncrDaily, TypeOK
      <4>2. CASE q = p /\ today = d
        BY <1>1, <1>2, <3>3, <4>1, <4>2, Numbers DEF TypeOK
      <4>3. CASE q # p
        BY <1>1, <4>1, <4>3 DEF TypeOK
      <4>4. CASE today # d
        BY <1>1, <3>3, <4>1, <4>4 DEF TypeOK
      <4> QED
        BY <4>2, <4>3, <4>4
    <3>5. t \in Sending(p, d)' => q = p /\ today = d /\ daily[p][d] + 1 <= DailyCap
      BY <1>1, <1>2, <2>3, <3>2, <3>3, Entered, Numbers DEF Sending, DailyCapReached
    <3> QED
      BY <1>2, <1>3, <1>4, <2>1, <3>1, <3>4, <3>5, Numbers
  <2>4. CASE \E k \in Challenges : CreateChallenge(t, k)
    <3>1. PICK k \in Challenges : CreateChallenge(t, k)
      BY <2>4
    <3>2. t \notin Sending(p, d)' /\ daily' = daily
      BY <1>1, <3>1, Entered DEF CreateChallenge, Sending
    <3>3. t \in Sending(p, d) <=> call[t].phone = p /\ call[t].day = d
      BY <3>1 DEF CreateChallenge, Sending
    <3>4. Cardinality(Sends(p, d)') =
             Cardinality(Sends(p, d)) + (IF t \in Sending(p, d) THEN 1 ELSE 0)
      BY <1>1, <3>1, <3>3, SendsMove
    <3> QED
      BY <1>2, <1>3, <1>4, <2>1, <3>2, <3>4, Numbers
  <2>5. CASE \/ ReserveCooldown(t) \/ \E q \in Phones : RequestCode(t, q)
             \/ \E k \in Challenges : LoadChallenge(t, k)
    <3>1. t \notin Sending(p, d)'
      BY <1>1, <2>5, Entered DEF Sending
    <3> QED
      BY <2>2, <2>5, <3>1 DEF ReserveCooldown, RequestCode, LoadChallenge, redis
  <2>6. CASE (\E right \in BOOLEAN : Judge(t, right)) \/ Consume(t) \/ CountAttempt(t)
    <3>1. t \notin Sending(p, d)'
      BY <1>1, <2>6 DEF Judge, Consume, CountAttempt, Goto, Finish, Idle, Sending, Slot
    <3> QED
      BY <2>2, <2>6, <3>1 DEF Judge, Consume, CountAttempt, redis
  <2>7. CASE CountFailure(t) \/ StartWindow(t) \/ Crash(t)
    <3>1. t \notin Sending(p, d)'
      BY <1>1, <2>7
      DEF CountFailure, StartWindow, Crash, WrongCode, Goto, Finish, Idle, Sending, Slot
    <3> QED
      BY <2>2, <2>7, <3>1 DEF CountFailure, StartWindow, Crash, redis
  <2> QED
    BY <1>6, <2>3, <2>4, <2>5, <2>6, <2>7 DEF Step, Continue
<1> QED
  BY <1>5, <1>6 DEF Next, Step, Outside

\* The first state has counted nothing.
LEMMA InitInv == Init => IInv
<1> SUFFICES ASSUME Init PROVE IInv
  OBVIOUS
<1>1. TypeOK
  <2>1. NoChallenge \in Hash /\ NoFailures \in Failures /\ Idle \in Slot
    BY Numbers DEF NoChallenge, Hash, NoFailures, Failures, Idle, Slot
  <2> QED
    BY <2>1, Numbers DEF Init, TypeOK, Days
<1>2. CallShape
  BY DEF Init, CallShape, Idle
<1>3. ASSUME NEW p \in Phones, NEW d \in Days
      PROVE  Paid(p, d) <= daily[p][d] /\ Paid(p, d) <= DailyCap
  <2>1. None # <<p, d>>
    BY DEF Days
  <2>2. Sends(p, d) = {}
    BY <2>1 DEF Init, Sends
  <2>3. Sending(p, d) = {}
    BY DEF Init, Sending, Idle
  <2>4. Paid(p, d) = 0 /\ daily[p][d] = 0
    BY <2>2, <2>3, FS_EmptySet DEF Init, Paid
  <2> QED
    BY <2>4, Numbers
<1>4. ASSUME NEW k \in Challenges
      PROVE  chal[k].attempts + Cardinality(Trying(k)) < MaxAttempts + Overshoot
  <2>1. Trying(k) = {}
    BY DEF Init, Trying, Idle
  <2>2. Cardinality(Trying(k)) = 0
    BY <2>1, FS_EmptySet
  <2>3. chal[k].attempts = 0
    BY DEF Init, NoChallenge
  <2> QED
    BY <2>2, <2>3, Numbers
<1>5. ASSUME NEW p \in Phones
      PROVE  vfail[p].count + Cardinality(Failing(p)) < VerifyFailCap + Overshoot
  <2>1. Failing(p) = {}
    BY DEF Init, Failing, Idle
  <2>2. Cardinality(Failing(p)) = 0
    BY <2>1, FS_EmptySet
  <2>3. vfail[p].count = 0
    BY DEF Init, NoFailures
  <2> QED
    BY <2>2, <2>3, Numbers
<1> QED
  BY <1>1, <1>2, <1>3, <1>4, <1>5 DEF IInv, SendsCapped, CapsOvershoot

\* Every step keeps the invariant.
LEMMA NextInv == IInv /\ [Next]_vars => IInv'
<1> SUFFICES ASSUME IInv, [Next]_vars PROVE IInv'
  OBVIOUS
<1>1. CASE Next
  <2>1. TypeOK' /\ CallShape'
    BY <1>1, TypeNext, ShapeNext
  <2>2. \A p \in Phones, d \in Days : Paid(p, d)' <= daily'[p][d] /\ Paid(p, d)' <= DailyCap
    BY <1>1, PaidNext
  <2>3. /\ \A k \in Challenges :
              chal'[k].attempts + Cardinality(Trying(k)') < MaxAttempts + Overshoot
        /\ \A p \in Phones :
              vfail'[p].count + Cardinality(Failing(p)') < VerifyFailCap + Overshoot
    BY <1>1, AttemptsNext, FailuresNext
  <2> QED
    BY <2>1, <2>2, <2>3 DEF IInv, SendsCapped, CapsOvershoot, Overshoot
<1>2. CASE UNCHANGED vars
  <2>1. TypeOK' = TypeOK /\ CallShape' = CallShape
    BY <1>2 DEF vars, redis, TypeOK, CallShape
  <2>2. \A p, d : Paid(p, d)' = Paid(p, d)
    BY <1>2 DEF vars, Paid, Sends, Sending
  <2>3. /\ \A k : Trying(k)' = Trying(k)
        /\ \A p : Failing(p)' = Failing(p)
    BY <1>2 DEF vars, Trying, Failing
  <2>4. chal' = chal /\ vfail' = vfail /\ daily' = daily
    BY <1>2 DEF vars, redis
  <2> QED
    BY <2>1, <2>2, <2>3, <2>4 DEF IInv, SendsCapped, CapsOvershoot
<1> QED
  BY <1>1, <1>2
-----------------------------------------------------------------------------
(* The theorems *)

\* The types, the daily cap and the two caps on wrong codes hold together in
\* every reachable state.
THEOREM Inductive == Spec => []IInv
<1> QED
  BY InitInv, NextInv, PTL DEF Spec

\* However many requests of a phone run at once, across midnight or not, no
\* day's counter pays for more codes than the cap, those under way included.
THEOREM DailyCapHolds == Spec => []SendsCapped
<1>1. IInv => SendsCapped
  BY DEF IInv
<1> QED
  BY <1>1, Inductive, PTL

\* The attempts on a challenge and the failures of a phone, with those still to
\* be counted, pass their caps by less than the calls there can be at once.
THEOREM OvershootBounded == Spec => []CapsOvershoot
<1>1. IInv => CapsOvershoot
  BY DEF IInv
<1> QED
  BY <1>1, Inductive, PTL

\* A challenge that was used or has expired never gets its phone back.
THEOREM UsedChallengesStayUsed == Spec => UsedStaysUsed
<1>1. ASSUME IInv, [Next]_vars, NEW k \in Challenges, sent[k] # None, chal[k].phone = None
      PROVE  chal'[k].phone = None
  <2>1. TypeOK /\ CallShape /\ chal \in [Challenges -> Hash]
    BY <1>1 DEF IInv, SendsCapped, TypeOK
  <2>2. ASSUME NEW t \in Calls, NEW x \in Challenges, CreateChallenge(t, x)
        PROVE  chal'[k].phone = None
    BY <1>1, <2>1, <2>2 DEF CreateChallenge
  <2>3. ASSUME NEW t \in Calls, CountAttempt(t) PROVE chal'[k].phone = None
    BY <1>1, <2>1, <2>3 DEF CountAttempt, OneMore, Hash
  <2>4. ASSUME NEW t \in Calls, Consume(t) PROVE chal'[k].phone = None
    BY <1>1, <2>1, <2>4 DEF Consume, NoChallenge
  <2>5. ASSUME NEW x \in Challenges, ExpireChallenge(x) PROVE chal'[k].phone = None
    BY <1>1, <2>1, <2>5 DEF ExpireChallenge, NoChallenge
  <2>6. CASE UNCHANGED chal
    BY <1>1, <2>6
  <2> QED
    BY <1>1, <2>2, <2>3, <2>4, <2>5, <2>6 DEF Next, Continue, RequestCode, LoadChallenge,
       ReserveCooldown, IncrDaily, Judge, CountFailure, StartWindow, Crash,
       ExpireCooldown, ExpireFailures, NextDay, redis, vars
<1>2. IInv /\ [Next]_vars =>
         [\A k \in Challenges :
             sent[k] # None /\ chal[k].phone = None => chal'[k].phone = None]_vars
  BY <1>1
<1> QED
  BY <1>2, Inductive, PTL DEF Spec, UsedStaysUsed
=============================================================================
