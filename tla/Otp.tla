--------------------------------- MODULE Otp ---------------------------------
(***************************************************************************)
(* The login codes: OtpService over OtpChallengeDAL and OtpRateLimiter.    *)
(* Redis runs one command at a time; a call is several commands, and those *)
(* of other calls, the TTLs and the death of the process come in between.  *)
(* A step is one command (or MULTI) and what the call computes from it.    *)
(* The code itself is one bit: a client enters the right one or another.   *)
(*                                                                         *)
(* Left out: the format check of the phone, which precedes all state, and  *)
(* the EXPIRE of the daily counter, whose key is not read after its day.   *)
(* Challenges and Days bound the run; the daily counter stops counting at  *)
(* DailyCap + 1, beyond which no comparison can tell.                      *)
(***************************************************************************)
EXTENDS Integers, FiniteSets

CONSTANTS
    Phones,
    Challenges,      \* challenge ids, each drawn once
    Calls,           \* slots for calls that are under way
    MaxDay,          \* the days the run lasts
    MaxAttempts,     \* settings.otp_max_attempts
    DailyCap,        \* settings.otp_daily_cap
    VerifyFailCap,   \* settings.otp_verify_fail_cap
    None

ASSUME OtpAssumption ==
    /\ {MaxDay, MaxAttempts, DailyCap, VerifyFailCap} \subseteq Nat \ {0}
    /\ IsFiniteSet(Calls) /\ IsFiniteSet(Challenges)
    /\ None \notin Phones \cup Challenges \cup (Phones \X (1..MaxDay))

VARIABLES
    today,
    chal,       \* chal[k]: the hash otp:chal:k
    cooldown,   \* the phones with a key otp:cooldown
    daily,      \* daily[p][d]: the counter otp:send:p:d
    vfail,      \* vfail[p]: the counter otp:vfail:p
    sent,       \* sent[k]: the phone the code of k went to and the day's
                \* counter that was charged for it, or None
    lost,       \* the phones whose failure counter a crash left with no TTL
    call,       \* call[t]: the call in slot t
    reply       \* the answer the last step gave, or None

redis == <<chal, cooldown, daily, vfail>>
vars == <<today, chal, cooldown, daily, vfail, sent, lost, call, reply>>

Days == 1..MaxDay

\* A key that is not there.
NoChallenge == [phone |-> None, attempts |-> 0, ttl |-> FALSE]
NoFailures  == [count |-> 0, ttl |-> FALSE]

Idle == [op |-> "idle", pc |-> "idle", phone |-> None, k |-> None,
         day |-> 0, attempts |-> 0]

Overshoot == Cardinality(Calls)

Hash == [phone : Phones \cup {None}, attempts : 0..(MaxAttempts + Overshoot), ttl : BOOLEAN]

Failures == [count : 0..(VerifyFailCap + Overshoot), ttl : BOOLEAN]

Slot == [op : {"idle", "request", "verify"},
         pc : {"idle", "cooldown", "daily", "create", "cap", "consume", "count",
               "count_phone", "expire"},
         phone : Phones \cup {None},
         k : Challenges \cup {None},
         day : Days \cup {0},
         attempts : 0..(MaxAttempts + Overshoot)]

TypeOK ==
    /\ today \in Days
    /\ chal \in [Challenges -> Hash]
    /\ cooldown \subseteq Phones
    /\ daily \in [Phones -> [Days -> 0..(DailyCap + 1)]]
    /\ vfail \in [Phones -> Failures]
    /\ sent \in [Challenges -> (Phones \X Days) \cup {None}]
    /\ lost \subseteq Phones
    /\ call \in [Calls -> Slot]
    /\ reply \in {"200", "400", "429", "500", None}

Init ==
    /\ today = 1
    /\ chal = [k \in Challenges |-> NoChallenge]
    /\ cooldown = {}
    /\ daily = [p \in Phones |-> [d \in Days |-> 0]]
    /\ vfail = [p \in Phones |-> NoFailures]
    /\ sent = [k \in Challenges |-> None]
    /\ lost = {}
    /\ call = [t \in Calls |-> Idle]
    /\ reply = None

Start(t, slot) == call[t] = Idle /\ call' = [call EXCEPT ![t] = slot] /\ reply' = None

Goto(t, pc) == call' = [call EXCEPT ![t].pc = pc] /\ reply' = None

Finish(t, code) == call' = [call EXCEPT ![t] = Idle] /\ reply' = code
-----------------------------------------------------------------------------
(* request *)

\* An id is left for every request that can still draw one.
Spare == Cardinality({t \in Calls : call[t].op = "request"})
            < Cardinality({k \in Challenges : sent[k] = None})

VerifyCapReached(count) == count >= VerifyFailCap

RequestCode(t, p) ==
    /\ Spare
    /\ call[t] = Idle
    /\ IF VerifyCapReached(vfail[p].count)
         THEN Finish(t, "429")
         ELSE Start(t, [Idle EXCEPT !.op = "request", !.pc = "cooldown", !.phone = p])
    /\ UNCHANGED <<today, redis, sent, lost>>

\* SET NX EX
ReserveCooldown(t) ==
    LET p == call[t].phone
    IN  /\ call[t].pc = "cooldown"
        /\ IF p \in cooldown THEN Finish(t, "429") ELSE Goto(t, "daily")
        /\ cooldown' = cooldown \cup {p}
        /\ UNCHANGED <<today, chal, daily, vfail, sent, lost>>

\* Mutant: one send more than the cap.
DailyCapReachedLate(count) == count > DailyCap + 1

DailyCapReached(count) == count > DailyCap

IncrDaily(t) ==
    LET p == call[t].phone
        count == daily[p][today] + 1
    IN  /\ call[t].pc = "daily"
        /\ daily' = [daily EXCEPT ![p][today] =
                       IF count > DailyCap THEN DailyCap + 1 ELSE count]
        /\ IF DailyCapReached(count)
             THEN Finish(t, "429")
             ELSE /\ call' = [call EXCEPT ![t].pc = "create", ![t].day = today]
                  /\ reply' = None
        /\ UNCHANGED <<today, chal, cooldown, vfail, sent, lost>>

\* MULTI HSET EXPIRE, and the code goes out.
CreateChallenge(t, k) ==
    LET p == call[t].phone
    IN  /\ call[t].pc = "create"
        /\ sent[k] = None
        /\ chal' = [chal EXCEPT ![k] = [phone |-> p, attempts |-> 0, ttl |-> TRUE]]
        /\ sent' = [sent EXCEPT ![k] = <<p, call[t].day>>]
        /\ Finish(t, "200")
        /\ UNCHANGED <<today, cooldown, daily, vfail, lost>>
-----------------------------------------------------------------------------
(* verify *)

\* HGETALL: nothing, a challenge, or a hash that has lost its phone, on which
\* data["phone"] raises KeyError.
LoadChallenge(t, k) ==
    /\ call[t] = Idle
    /\ sent[k] # None
    /\ \/ /\ chal[k] = NoChallenge
          /\ Finish(t, "400")
       \/ /\ chal[k] # NoChallenge /\ chal[k].phone = None
          /\ Finish(t, "500")
       \/ /\ chal[k].phone # None
          /\ Start(t, [Idle EXCEPT !.op = "verify", !.pc = "cap", !.k = k,
                                   !.phone = chal[k].phone,
                                   !.attempts = chal[k].attempts])
    /\ UNCHANGED <<today, redis, sent, lost>>

\* Mutant: the attempts are counted and never looked at.
AttemptsIgnored(n) == FALSE

AttemptsUsedUp(n) == n >= MaxAttempts

\* GET of the failures, then both caps and the code are judged in memory.
\* Whether the client entered the right code shows here and nowhere before.
Judge(t, right) ==
    /\ call[t].pc = "cap"
    /\ \/ /\ VerifyCapReached(vfail[call[t].phone].count) \/ AttemptsUsedUp(call[t].attempts)
          /\ Finish(t, "429")
       \/ /\ ~VerifyCapReached(vfail[call[t].phone].count)
          /\ ~AttemptsUsedUp(call[t].attempts)
          /\ Goto(t, IF right THEN "consume" ELSE "count")
    /\ UNCHANGED <<today, redis, sent, lost>>

\* DEL
Consume(t) ==
    /\ call[t].pc = "consume"
    /\ chal' = [chal EXCEPT ![call[t].k] = NoChallenge]
    /\ Finish(t, "200")
    /\ UNCHANGED <<today, cooldown, daily, vfail, sent, lost>>

\* Mutant: the challenge as it was read is written back with one attempt more.
OneMoreWrittenBack(t) ==
    [phone |-> call[t].phone, attempts |-> call[t].attempts + 1, ttl |-> TRUE]

\* HINCRBY.  On a key that is gone it makes a new hash of one field, no TTL.
OneMore(t) == [chal[call[t].k] EXCEPT !.attempts = @ + 1]

CountAttempt(t) ==
    LET new == OneMore(t)
    IN  /\ call[t].pc = "count"
        /\ chal' = [chal EXCEPT ![call[t].k] = new]
        /\ call' = [call EXCEPT ![t].pc = "count_phone", ![t].attempts = new.attempts]
        /\ reply' = None
        /\ UNCHANGED <<today, cooldown, daily, vfail, sent, lost>>

WrongCode(t) == Finish(t, IF AttemptsUsedUp(call[t].attempts) THEN "429" ELSE "400")

\* Mutant: the counter is compared as it was before the INCR.
FirstFailureNever(count) == count = 0

FirstFailure(count) == count = 1

\* INCR
CountFailure(t) ==
    LET p == call[t].phone
        count == vfail[p].count + 1
    IN  /\ call[t].pc = "count_phone"
        /\ vfail' = [vfail EXCEPT ![p].count = count]
        /\ IF FirstFailure(count) THEN Goto(t, "expire") ELSE WrongCode(t)
        /\ UNCHANGED <<today, chal, cooldown, daily, sent, lost>>

\* EXPIRE
StartWindow(t) ==
    /\ call[t].pc = "expire"
    /\ vfail' = [vfail EXCEPT ![call[t].phone].ttl = TRUE]
    /\ WrongCode(t)
    /\ UNCHANGED <<today, chal, cooldown, daily, sent, lost>>
-----------------------------------------------------------------------------
(* Time and crashes *)

NextDay ==
    /\ today < MaxDay
    /\ today' = today + 1
    /\ reply' = None
    /\ UNCHANGED <<redis, sent, lost, call>>

ExpireChallenge(k) ==
    /\ chal[k].ttl
    /\ chal' = [chal EXCEPT ![k] = NoChallenge]
    /\ reply' = None
    /\ UNCHANGED <<today, cooldown, daily, vfail, sent, lost, call>>

ExpireCooldown(p) ==
    /\ p \in cooldown
    /\ cooldown' = cooldown \ {p}
    /\ reply' = None
    /\ UNCHANGED <<today, chal, daily, vfail, sent, lost, call>>

ExpireFailures(p) ==
    /\ vfail[p].ttl
    /\ vfail' = [vfail EXCEPT ![p] = NoFailures]
    /\ reply' = None
    /\ UNCHANGED <<today, chal, cooldown, daily, sent, lost, call>>

\* The process dies or loses Redis in the middle of a call; what the call has
\* done stays done.
Crash(t) ==
    /\ call[t] # Idle
    /\ lost' = IF call[t].pc = "expire" THEN lost \cup {call[t].phone} ELSE lost
    /\ Finish(t, None)
    /\ UNCHANGED <<today, redis, sent>>
-----------------------------------------------------------------------------
Continue(t) ==
    \/ ReserveCooldown(t)
    \/ IncrDaily(t)
    \/ \E k \in Challenges : CreateChallenge(t, k)
    \/ \E right \in BOOLEAN : Judge(t, right)
    \/ Consume(t)
    \/ CountAttempt(t)
    \/ CountFailure(t)
    \/ StartWindow(t)

Next ==
    \/ \E t \in Calls :
          \/ \E p \in Phones : RequestCode(t, p)
          \/ \E k \in Challenges : LoadChallenge(t, k)
          \/ Continue(t)
          \/ Crash(t)
    \/ \E k \in Challenges : ExpireChallenge(k)
    \/ \E p \in Phones : ExpireCooldown(p) \/ ExpireFailures(p)
    \/ NextDay

Spec == Init /\ [][Next]_vars

\* Redis answers, and its TTLs run out.
FairSpec == /\ Spec
            /\ \A t \in Calls : WF_vars(Continue(t))
            /\ \A p \in Phones : WF_vars(ExpireFailures(p))
-----------------------------------------------------------------------------
(* Properties *)

\* What a call has in hand at each command.
CallShape ==
    \A t \in Calls :
       /\ call[t].pc = "idle" <=> call[t].op = "idle"
       /\ call[t].op = "request" => call[t].pc \in {"cooldown", "daily", "create"}
       /\ call[t].op = "verify" => /\ call[t].k # None
                                   /\ call[t].pc \notin {"cooldown", "daily", "create"}
       /\ call[t].op # "idle" => call[t].phone # None
       /\ call[t].pc = "create" => call[t].day # 0
       /\ call[t].pc \in {"consume", "count"} => ~AttemptsUsedUp(call[t].attempts)

\* The codes a day's counter of p has paid for, and the calls that have passed
\* the cap and will send one.
Sends(p, d)   == {k \in Challenges : sent[k] = <<p, d>>}
Sending(p, d) == {t \in Calls : /\ call[t].pc = "create"
                                /\ call[t].phone = p /\ call[t].day = d}

\* The calls that found an attempt left on k, and those that found the phone
\* below its cap and have a failure to count.
Trying(k)  == {t \in Calls : /\ call[t].pc \in {"cap", "consume", "count"}
                             /\ call[t].k = k
                             /\ ~AttemptsUsedUp(call[t].attempts)}
Failing(p) == {t \in Calls : /\ call[t].pc \in {"count", "count_phone"}
                             /\ call[t].phone = p}

Paid(p, d) == Cardinality(Sends(p, d)) + Cardinality(Sending(p, d))

\* However many requests of a phone run at once, across midnight or not, no
\* day's counter pays for more codes than the cap, those under way included.
SendsCapped ==
    /\ TypeOK /\ CallShape
    /\ \A p \in Phones, d \in Days : Paid(p, d) <= daily[p][d] /\ Paid(p, d) <= DailyCap

\* The caps are judged on values read earlier, so calls under way can pass them
\* together; what is counted and what is still to be counted pass them by less
\* than the calls there can be at once.
CapsOvershoot ==
    /\ \A k \in Challenges :
          chal[k].attempts + Cardinality(Trying(k)) < MaxAttempts + Overshoot
    /\ \A p \in Phones :
          vfail[p].count + Cardinality(Failing(p)) < VerifyFailCap + Overshoot

\* A challenge that was used or has expired never gets its phone back, although
\* late failures may still count on its key: no verify that starts afterwards
\* can succeed.
UsedStaysUsed ==
    [][\A k \in Challenges :
          sent[k] # None /\ chal[k].phone = None => chal'[k].phone = None]_vars

\* A phone that reached the cap of failures is let in again, unless a crash
\* left its counter with no TTL.
LockoutEnds ==
    \A p \in Phones : VerifyCapReached(vfail[p].count)
                         ~> ~VerifyCapReached(vfail[p].count) \/ p \in lost
-----------------------------------------------------------------------------
(* What a comment says and the code does not do *)

\* rate_limit.py: "otp:vfail:{phone}  cross-challenge verify cap
\* (INCR + EXPIRE window)": the failures count within a window.
FailuresHaveWindow ==
    \A p \in Phones : VerifyCapReached(vfail[p].count)
                         ~> ~VerifyCapReached(vfail[p].count)
=============================================================================
