---------------------------- MODULE PushJobsProofs ----------------------------
(***************************************************************************)
(* Theorems about PushJobs, for all sets of users, tokens, jobs, events    *)
(* and request slots, and any number of attempts.                          *)
(***************************************************************************)
EXTENDS PushJobs, TLAPS

USE PushAssumption

\* A job in the queue has its fields.
LEMMA JobFields ==
    ASSUME TypeOK, NEW j \in Jobs, job[j] # NoJob
    PROVE  /\ job[j] \in Job
           /\ job[j].user \in Users /\ job[j].attempts \in 0 .. MaxAttempts + 1
           /\ job[j].status \in {"todo", "doing", "done", "failed"}
BY DEF TypeOK, Job

\* So has a run that is under way.
LEMMA RunFields ==
    ASSUME TypeOK, run # Idle
    PROVE  /\ run \in Run
           /\ run.pc \in {"read", "post", "wait", "prune", "end"}
           /\ run.job \in Jobs /\ run.tokens \subseteq Tokens
           /\ run.dead \subseteq Tokens /\ run.left \subseteq Tokens
           /\ run.outcome \in {"done", "failed", "retry", None}
BY DEF TypeOK, Run

\* And an answered request.
LEMMA RequestFields ==
    ASSUME TypeOK, NEW x \in Sessions, ses[x] # Idle
    PROVE  /\ ses[x].token \in Tokens /\ ses[x].user \in Users
           /\ ses[x].pc \in {"registered", "unregistered"}
           /\ Wanted(ses[x]) \in Users \cup {None}
BY DEF TypeOK, Request, Wanted

\* A registration locks a row that was free, and is what was told last.
LEMMA RegisterStep ==
    ASSUME PushInv, NEW x \in Sessions, NEW u \in Users, NEW k \in Tokens,
           RegisterDevice(x, u, k)
    PROVE  PushInv'
<1> DEFINE r == [pc |-> "registered", token |-> k, user |-> u]
<1> USE DEF PushInv
<1>1. /\ ses[x] = Idle /\ lock[k] = None
      /\ lock' = [lock EXCEPT ![k] = x] /\ ses' = [ses EXCEPT ![x] = r]
      /\ gone' = gone \ {k} /\ told' = [told EXCEPT ![k] = u] /\ Touch(k)
      /\ UNCHANGED <<owner, job, run, taken, unanswered>>
  BY DEF RegisterDevice, Reassigned, queue, seen
<1>2. r \in Request /\ r # Idle
  BY DEF Request, Idle
<1>3. TypeOK'
  BY <1>1, <1>2 DEF TypeOK, Touch
<1>4. RowsHeld'
  <2>1. \A y \in Sessions : ses'[y] # Idle => lock'[ses'[y].token] = y
    BY <1>1, <1>2, RequestFields DEF TypeOK, RowsHeld
  <2>2. ASSUME NEW l \in Tokens
        PROVE  IF lock'[l] \in Sessions
               THEN /\ ses'[lock'[l]] # Idle /\ ses'[lock'[l]].token = l
                    /\ told'[l] \in {Wanted(ses'[lock'[l]]), Lapsed}
               ELSE told'[l] \in {owner'[l], Lapsed}
    BY <1>1, <1>2 DEF TypeOK, RowsHeld, Wanted
  <2> QED
    BY <2>1, <2>2 DEF RowsHeld, Wanted
<1>5. run # Idle => touched' = touched \cup {k}
  BY <1>1 DEF Touch
<1>6. RunHolds'
  BY <1>1, <1>5, RunFields DEF TypeOK, RunHolds
<1>7. PushFollowsLogin'
  BY <1>1, <1>5, RunFields DEF TypeOK, PushFollowsLogin, At
<1>8. AttemptsLeft' /\ PostsCounted' /\ TakenAgainOnlyUnanswered'
  BY <1>1 DEF AttemptsLeft, PostsCounted, Accounted, TakenAgainOnlyUnanswered
<1> QED
  BY <1>3, <1>4, <1>6, <1>7, <1>8

\* A logout locks a row of its user, and is what was told last.
LEMMA UnregisterStep ==
    ASSUME PushInv, NEW x \in Sessions, NEW u \in Users, NEW k \in Tokens,
           UnregisterDevice(x, u, k)
    PROVE  PushInv'
<1> DEFINE r == [pc |-> "unregistered", token |-> k, user |-> u]
<1> USE DEF PushInv
<1>1. /\ ses[x] = Idle /\ lock[k] = None /\ owner[k] = u
      /\ lock' = [lock EXCEPT ![k] = x] /\ ses' = [ses EXCEPT ![x] = r]
      /\ told' = [told EXCEPT ![k] = IF @ \in {u, Lapsed} THEN None ELSE @] /\ Touch(k)
      /\ UNCHANGED <<owner, job, run, gone, taken, unanswered>>
  BY DEF UnregisterDevice, Matches, queue, seen
<1>2. r \in Request /\ r # Idle
  BY DEF Request, Idle
<1>3. TypeOK'
  BY <1>1, <1>2 DEF TypeOK, Touch
<1>4. told'[k] = None
  BY <1>1 DEF TypeOK, RowsHeld
<1>5. RowsHeld'
  <2>1. \A y \in Sessions : ses'[y] # Idle => lock'[ses'[y].token] = y
    BY <1>1, <1>2, RequestFields DEF TypeOK, RowsHeld
  <2>2. ASSUME NEW l \in Tokens
        PROVE  IF lock'[l] \in Sessions
               THEN /\ ses'[lock'[l]] # Idle /\ ses'[lock'[l]].token = l
                    /\ told'[l] \in {Wanted(ses'[lock'[l]]), Lapsed}
               ELSE told'[l] \in {owner'[l], Lapsed}
    BY <1>1, <1>2, <1>4 DEF TypeOK, RowsHeld, Wanted
  <2> QED
    BY <2>1, <2>2 DEF RowsHeld, Wanted
<1>6. run # Idle => touched' = touched \cup {k}
  BY <1>1 DEF Touch
<1>7. RunHolds'
  BY <1>1, <1>6, RunFields DEF TypeOK, RunHolds
<1>8. PushFollowsLogin'
  BY <1>1, <1>6, RunFields DEF TypeOK, PushFollowsLogin, At
<1>9. AttemptsLeft' /\ PostsCounted' /\ TakenAgainOnlyUnanswered'
  BY <1>1 DEF AttemptsLeft, PostsCounted, Accounted, TakenAgainOnlyUnanswered
<1> QED
  BY <1>3, <1>5, <1>7, <1>8, <1>9

\* A logout that finds nothing holds nothing.
LEMMA UnseenStep ==
    ASSUME PushInv, NEW u \in Users, NEW k \in Tokens, UnregisterUnseen(u, k)
    PROVE  PushInv'
<1> USE DEF PushInv
<1>1. /\ owner[k] # u
      /\ told' = [told EXCEPT ![k] = IF @ # u THEN @
                                     ELSE IF lock[k] = None THEN None ELSE Lapsed]
      /\ UNCHANGED <<owner, lock, ses, job, run, gone, taken, unanswered, touched>>
  BY DEF UnregisterUnseen, Matches, rows, queue, seen
<1>2. TypeOK'
  BY <1>1 DEF TypeOK
<1>3. \A l \in Tokens : told'[l] = told[l] \/ told'[l] = Lapsed
  BY <1>1 DEF TypeOK, RowsHeld
<1>4. RowsHeld'
  BY <1>1, <1>3 DEF RowsHeld
<1>5. RunHolds'
  BY <1>1 DEF RunHolds
<1>6. PushFollowsLogin'
  BY <1>1, <1>3, RunFields DEF PushFollowsLogin, At
<1>7. AttemptsLeft' /\ PostsCounted' /\ TakenAgainOnlyUnanswered'
  BY <1>1 DEF AttemptsLeft, PostsCounted, Accounted, TakenAgainOnlyUnanswered
<1> QED
  BY <1>2, <1>4, <1>5, <1>6, <1>7

\* The end of a request: its row is free, and new only if it was touched.
LEMMA RequestEnds ==
    ASSUME PushInv, NEW x \in Sessions, CommitDevice(x) \/ AbortDevice(x)
    PROVE  PushInv'
<1>. PICK k : k = ses[x].token
  OBVIOUS
<1> USE DEF PushInv
<1>1. /\ ses[x] # Idle /\ lock' = Free(x) /\ ses' = [ses EXCEPT ![x] = Idle]
      /\ UNCHANGED <<job, run, gone, taken, unanswered, touched>>
      /\ \/ owner' = [owner EXCEPT ![k] = Wanted(ses[x])] /\ told' = told
         \/ owner' = owner /\ told' = [told EXCEPT ![k] = Lapsed]
  BY DEF CommitDevice, AbortDevice, rows, queue, seen
<1>2. /\ k \in Tokens /\ lock[k] = x /\ Wanted(ses[x]) \in Users \cup {None}
      /\ told[k] \in {Wanted(ses[x]), Lapsed}
      /\ \A l \in Tokens \ {k} : lock[l] # x
  BY <1>1, RequestFields DEF RowsHeld
<1>3. /\ TypeOK'
      /\ lock'[k] = None /\ \A l \in Tokens \ {k} : lock'[l] = lock[l]
      /\ ses'[x] = Idle /\ \A y \in Sessions \ {x} : ses'[y] = ses[y]
      /\ \A l \in Tokens \ {k} : owner'[l] = owner[l] /\ told'[l] = told[l]
      /\ told'[k] \in {owner'[k], Lapsed}
      /\ told'[k] = told[k] \/ told'[k] = Lapsed
  <2>1. lock' \in [Tokens -> Sessions \cup {Worker, None}]
    BY <1>1 DEF TypeOK, Free
  <2>2. ses' \in [Sessions -> {Idle} \cup Request]
    BY <1>1 DEF TypeOK
  <2>3. owner' \in [Tokens -> Users \cup {None}]
    BY <1>1, <1>2 DEF TypeOK
  <2>4. told' \in [Tokens -> Users \cup {None, Lapsed}]
    BY <1>1 DEF TypeOK
  <2>5. TypeOK'
    BY <1>1, <2>1, <2>2, <2>3, <2>4 DEF TypeOK
  <2>6. lock'[k] = None /\ \A l \in Tokens \ {k} : lock'[l] = lock[l]
    BY <1>1, <1>2 DEF Free
  <2>7. ses'[x] = Idle /\ \A y \in Sessions \ {x} : ses'[y] = ses[y]
    BY <1>1 DEF TypeOK
  <2>8. /\ \A l \in Tokens \ {k} : owner'[l] = owner[l] /\ told'[l] = told[l]
        /\ told'[k] \in {owner'[k], Lapsed}
        /\ told'[k] = told[k] \/ told'[k] = Lapsed
    BY <1>1, <1>2 DEF TypeOK
  <2> QED
    BY <2>5, <2>6, <2>7, <2>8
<1>4. RowsHeld'
  <2>1. \A y \in Sessions : ses'[y] # Idle => lock'[ses'[y].token] = y
    BY <1>2, <1>3, RequestFields DEF RowsHeld
  <2>2. ASSUME NEW l \in Tokens
        PROVE  IF lock'[l] \in Sessions
               THEN /\ ses'[lock'[l]] # Idle /\ ses'[lock'[l]].token = l
                    /\ told'[l] \in {Wanted(ses'[lock'[l]]), Lapsed}
               ELSE told'[l] \in {owner'[l], Lapsed}
    BY <1>2, <1>3 DEF RowsHeld, Wanted
  <2> QED
    BY <2>1, <2>2 DEF RowsHeld, Wanted
<1>5. RunHolds'
  BY <1>1, <1>2, <1>3, RunFields DEF RunHolds
<1>6. PushFollowsLogin'
  BY <1>1, <1>3, RunFields DEF PushFollowsLogin, At
<1>7. AttemptsLeft' /\ PostsCounted' /\ TakenAgainOnlyUnanswered'
  BY <1>1 DEF AttemptsLeft, PostsCounted, Accounted, TakenAgainOnlyUnanswered
<1> QED
  BY <1>3, <1>4, <1>5, <1>6, <1>7

\* An app that goes can only make more tokens dead.
LEMMA UninstallStep ==
    ASSUME PushInv, NEW k \in Tokens, Uninstall(k)
    PROVE  PushInv'
<1> USE DEF PushInv
<1>1. /\ gone' = gone \cup {k}
      /\ UNCHANGED <<owner, lock, ses, job, run, taken, unanswered, touched, told>>
  BY DEF Uninstall, rows, queue, seen
<1>2. TypeOK'
  BY <1>1 DEF TypeOK
<1>3. RowsHeld'
  BY <1>1 DEF RowsHeld
<1>4. RunHolds'
  BY <1>1 DEF RunHolds
<1>5. AttemptsLeft' /\ PostsCounted' /\ PushFollowsLogin' /\ TakenAgainOnlyUnanswered'
  BY <1>1 DEF AttemptsLeft, PostsCounted, Accounted, PushFollowsLogin, At,
              TakenAgainOnlyUnanswered
<1> QED
  BY <1>2, <1>3, <1>4, <1>5

\* A new job has nothing at Expo.
LEMMA DeferStep ==
    ASSUME PushInv, NEW j \in Jobs, NEW u \in Notified, NEW e \in Events, Defer(j, u, e)
    PROVE  PushInv'
<1> DEFINE n == [status |-> "todo", user |-> u, event |-> e, attempts |-> 0]
<1> USE DEF PushInv
<1>1. /\ job[j] = NoJob /\ job' = [job EXCEPT ![j] = n]
      /\ UNCHANGED <<owner, lock, ses, run, gone, taken, unanswered, touched, told>>
  BY DEF Defer, rows, seen
<1>2. n \in Job
  BY DEF Job
<1>3. TypeOK'
  BY <1>1, <1>2 DEF TypeOK
<1>4. job'[j] = n /\ \A i \in Jobs \ {j} : job'[i] = job[i]
  BY <1>1 DEF TypeOK
<1>5. run # Idle => run.job \in Jobs \ {j}
  BY <1>1, RunFields DEF RunHolds
<1>6. RowsHeld'
  BY <1>1 DEF RowsHeld
<1>7. RunHolds'
  BY <1>1, <1>4, <1>5 DEF RunHolds
<1>8. AttemptsLeft'
  BY <1>1, <1>4 DEF AttemptsLeft
<1>9. PostsCounted'
  <2>1. Accounted(j)
    BY <1>1 DEF PostsCounted, NoJob
  <2>2. \A i \in Jobs : Accounted(i)' = Accounted(i)
    BY <1>1 DEF Accounted
  <2>3. run # Idle => Accounted(run.job)' = Accounted(run.job)
    BY <1>1 DEF Accounted
  <2> QED
    BY <1>1, <1>4, <2>1, <2>2, <2>3 DEF PostsCounted
<1>10. PushFollowsLogin' /\ TakenAgainOnlyUnanswered'
  BY <1>1, <1>4, <1>5 DEF PushFollowsLogin, At, TakenAgainOnlyUnanswered
<1> QED
  BY <1>3, <1>6, <1>7, <1>8, <1>9, <1>10

\* A run begins with nothing read and nothing held.
LEMMA FetchStep ==
    ASSUME PushInv, NEW j \in Jobs, Fetch(j)
    PROVE  PushInv'
<1> DEFINE n == [job[j] EXCEPT !.status = "doing"]
           r == [pc |-> "read", job |-> j, tokens |-> {}, dead |-> {}, left |-> {},
                 outcome |-> None]
<1> USE DEF PushInv
<1>1. /\ run = Idle /\ job[j].status = "todo"
      /\ job' = [job EXCEPT ![j] = n] /\ run' = r
      /\ UNCHANGED <<owner, lock, ses, gone, taken, unanswered, touched, told>>
  BY DEF Fetch, Due, rows, seen
<1>2. job[j] # NoJob /\ job[j] \in Job
  BY <1>1, JobFields DEF NoJob
<1>3. n \in Job /\ n.status = "doing" /\ n.attempts = job[j].attempts /\ n # NoJob
  BY <1>2 DEF Job, NoJob
<1>4. r \in Run /\ r # Idle
  BY DEF Run, Idle
<1>5. TypeOK'
  BY <1>1, <1>3, <1>4 DEF TypeOK
<1>6. job'[j] = n /\ \A i \in Jobs \ {j} : job'[i] = job[i]
  BY <1>1 DEF TypeOK
<1>7. RowsHeld'
  BY <1>1 DEF RowsHeld
<1>8. RunHolds'
  BY <1>1, <1>3, <1>4, <1>6 DEF RunHolds, TypeOK
<1>9. AttemptsLeft'
  BY <1>1, <1>2, <1>3, <1>6 DEF AttemptsLeft
<1>10. PostsCounted'
  <2>1. \A i \in Jobs : Accounted(i)' = Accounted(i)
    BY <1>1 DEF Accounted
  <2>2. Accounted(j)
    BY <1>1 DEF PostsCounted
  <2> QED
    BY <1>1, <1>3, <1>6, <2>1, <2>2 DEF PostsCounted
<1>11. PushFollowsLogin' /\ TakenAgainOnlyUnanswered'
  BY <1>1 DEF PushFollowsLogin, At, TakenAgainOnlyUnanswered
<1> QED
  BY <1>5, <1>7, <1>8, <1>9, <1>10, <1>11

\* A job's status is written and the worker is idle again.
LEMMA JobEnded ==
    ASSUME PushInv, run # Idle, run.pc = "end", NEW s \in {"todo", "done", "failed"},
           job[run.job] \in Job, job[run.job].attempts \in 0 .. MaxAttempts,
           s = "todo" => run.outcome = "retry" /\ job[run.job].attempts < MaxAttempts,
           job' = [job EXCEPT ![run.job] =
                     [job[run.job] EXCEPT !.status = s,
                                          !.attempts = job[run.job].attempts + 1]],
           run' = Idle, touched' = {},
           UNCHANGED <<owner, lock, ses, gone, taken, unanswered, told>>
    PROVE  PushInv'
<1>. PICK j : j = run.job
  OBVIOUS
<1>. PICK n : n = [job[j] EXCEPT !.status = s, !.attempts = job[j].attempts + 1]
  OBVIOUS
<1> USE DEF PushInv
<1>1. /\ j \in Jobs /\ n \in Job /\ n # NoJob /\ n.status = s
      /\ n.attempts = job[j].attempts + 1
  <2>1. j \in Jobs
    BY RunFields
  <2>. PICK old : old = job[j]
    OBVIOUS
  <2>. PICK m : m = old.attempts + 1
    OBVIOUS
  <2>2. m \in 0 .. MaxAttempts + 1
    OBVIOUS
  <2>3. n = [old EXCEPT !.status = s, !.attempts = m]
    OBVIOUS
  <2>4. n \in Job /\ n.status = s /\ n.attempts = m
    BY <2>2, <2>3 DEF Job
  <2>5. n # NoJob
    BY <2>4 DEF NoJob
  <2> QED
    BY <2>1, <2>4, <2>5
<1>2. job' = [job EXCEPT ![j] = n]
  OBVIOUS
<1>3. job'[j] = n /\ \A i \in Jobs \ {j} : job'[i] = job[i]
  BY <1>1, <1>2 DEF TypeOK
<1>4. TypeOK'
  BY <1>1, <1>2 DEF TypeOK
<1>5. RowsHeld'
  BY DEF RowsHeld
<1>6. RunHolds'
  BY DEF RunHolds
<1>7. AttemptsLeft'
  BY <1>1, <1>3 DEF AttemptsLeft
<1>8. PostsCounted'
  <2>1. \A i \in Jobs : Accounted(i)' = Accounted(i)
    BY DEF Accounted
  <2>2. s = "todo" => Accounted(j)
    BY DEF PostsCounted
  <2> QED
    BY <1>1, <1>3, <2>1, <2>2 DEF PostsCounted
<1>9. PushFollowsLogin' /\ TakenAgainOnlyUnanswered'
  BY DEF PushFollowsLogin, At, TakenAgainOnlyUnanswered
<1> QED
  BY <1>4, <1>5, <1>6, <1>7, <1>8, <1>9

\* A job that has run is done, failed, or waits with an attempt left.
LEMMA FinishStep ==
    ASSUME PushInv, run # Idle, Finish
    PROVE  PushInv'
<1>. PICK j : j = run.job
  OBVIOUS
<1>. PICK n : n = IF run.outcome = "retry" THEN Retried(j) ELSE Settled(j, run.outcome)
  OBVIOUS
<1> USE DEF PushInv
<1>1. /\ j \in Jobs /\ job[j] \in Job /\ job[j] # NoJob /\ job[j].status = "doing"
      /\ run.pc = "end" /\ run.outcome \in {"done", "failed", "retry"}
  BY RunFields, JobFields DEF RunHolds, Finish
<1>2. job[j].attempts \in 0 .. MaxAttempts
  BY <1>1, JobFields DEF AttemptsLeft
<1>3. /\ job' = [job EXCEPT ![j] = n] /\ run' = Idle /\ touched' = {}
      /\ UNCHANGED <<owner, lock, ses, gone, taken, unanswered, told>>
  BY DEF Finish, rows, seen
<1>4. CASE run.outcome = "retry" /\ job[j].attempts < MaxAttempts
  <2>1. n = [job[j] EXCEPT !.status = "todo", !.attempts = job[j].attempts + 1]
    BY <1>4 DEF Retried
  <2> QED
    BY <1>1, <1>2, <1>3, <1>4, <2>1, JobEnded
<1>5. CASE run.outcome = "retry" /\ ~(job[j].attempts < MaxAttempts)
  <2>1. n = [job[j] EXCEPT !.status = "failed", !.attempts = job[j].attempts + 1]
    BY <1>5 DEF Retried
  <2> QED
    BY <1>1, <1>2, <1>3, <1>5, <2>1, JobEnded
<1>6. CASE run.outcome # "retry"
  <2>1. n = [job[j] EXCEPT !.status = run.outcome, !.attempts = job[j].attempts + 1]
    BY <1>6 DEF Settled
  <2> QED
    BY <1>1, <1>2, <1>3, <1>6, <2>1, JobEnded
<1> QED
  BY <1>4, <1>5, <1>6

\* A worker that dies leaves its job "doing" for good, and no rows behind.
LEMMA WorkerDiesStep ==
    ASSUME PushInv, WorkerDies
    PROVE  PushInv'
<1> USE DEF PushInv
<1>1. /\ run # Idle /\ run' = Idle /\ touched' = {} /\ lock' = Free(Worker)
      /\ UNCHANGED <<owner, ses, job, gone, taken, unanswered, told>>
  BY DEF WorkerDies, seen
<1>2. \A k \in Tokens : lock'[k] = IF lock[k] = Worker THEN None ELSE lock[k]
  BY <1>1 DEF Free
<1>3. TypeOK'
  BY <1>1 DEF TypeOK, Free
<1>4. RowsHeld'
  BY <1>1, <1>2, RequestFields DEF RowsHeld, Wanted
<1>5. RunHolds'
  BY <1>1, <1>2 DEF RunHolds
<1>6. AttemptsLeft'
  BY <1>1 DEF AttemptsLeft
<1>7. PostsCounted'
  BY <1>1 DEF PostsCounted, Accounted
<1>8. PushFollowsLogin' /\ TakenAgainOnlyUnanswered'
  BY <1>1 DEF PushFollowsLogin, At, TakenAgainOnlyUnanswered
<1> QED
  BY <1>3, <1>4, <1>5, <1>6, <1>7, <1>8

\* The record of a run that is over.
LEMMA EndedRun ==
    ASSUME NEW j \in Jobs, NEW o \in {"done", "failed", "retry"}
    PROVE  /\ Ended(j, o) \in Run /\ Ended(j, o) # Idle
           /\ Ended(j, o).pc = "end" /\ Ended(j, o).job = j /\ Ended(j, o).outcome = o
           /\ Ended(j, o).dead = {} /\ Ended(j, o).left = {}
BY DEF Ended, Run, Idle

\* A run ends: the rows it holds are free, and only they may have changed.
LEMMA RunEnds ==
    ASSUME PushInv, run # Idle, NEW o \in {"done", "failed", "retry"}, End(o),
           UNCHANGED <<ses, job, gone, taken>>,
           touched' \subseteq Tokens,
           lock' \in [Tokens -> Sessions \cup {Worker, None}],
           owner' \in [Tokens -> Users \cup {None}],
           told' \in [Tokens -> Users \cup {None, Lapsed}],
           \A k \in Tokens :
              IF lock[k] = Worker
              THEN lock'[k] = None /\ told'[k] \in {owner'[k], Lapsed}
              ELSE lock'[k] = lock[k] /\ owner'[k] = owner[k] /\ told'[k] = told[k],
           unanswered' \in [Jobs -> Nat],
           \A j \in Jobs : unanswered[j] <= unanswered'[j],
           o = "retry" => Accounted(run.job)'
    PROVE  PushInv'
<1>. PICK r : r = run'
  OBVIOUS
<1> USE DEF PushInv
<1>1. /\ run.job \in Jobs
      /\ r \in Run /\ r # Idle /\ r.pc = "end" /\ r.job = run.job /\ r.outcome = o
      /\ r.dead = {} /\ r.left = {}
  BY RunFields, EndedRun DEF End
<1>2. TypeOK'
  BY <1>1 DEF TypeOK
<1>3. RowsHeld'
  <2>1. \A y \in Sessions : ses'[y] # Idle => lock'[ses'[y].token] = y
    BY RequestFields DEF RowsHeld
  <2>2. ASSUME NEW l \in Tokens
        PROVE  IF lock'[l] \in Sessions
               THEN /\ ses'[lock'[l]] # Idle /\ ses'[lock'[l]].token = l
                    /\ told'[l] \in {Wanted(ses'[lock'[l]]), Lapsed}
               ELSE told'[l] \in {owner'[l], Lapsed}
    BY DEF RowsHeld, Wanted
  <2> QED
    BY <2>1, <2>2 DEF RowsHeld, Wanted
<1>4. RunHolds'
  <2>1. \A k \in Tokens : lock'[k] # Worker
    OBVIOUS
  <2>2. job'[r.job] # NoJob /\ job'[r.job].status = "doing"
    BY <1>1 DEF RunHolds
  <2> QED
    BY <1>1, <2>1, <2>2 DEF RunHolds
<1>5. AttemptsLeft'
  BY DEF AttemptsLeft
<1>6. \A i \in Jobs : Accounted(i) => Accounted(i)'
  BY DEF Accounted, TypeOK
<1>7. PostsCounted'
  <2>1. o # "retry" \/ \A k \in Tokens : taken'[run'.job][k] <= unanswered'[run'.job]
    BY DEF Accounted
  <2> QED
    BY <1>1, <1>6, <2>1 DEF PostsCounted, Accounted
<1>8. PushFollowsLogin'
  BY <1>1 DEF PushFollowsLogin, At
<1>9. TakenAgainOnlyUnanswered'
  BY DEF TakenAgainOnlyUnanswered, TypeOK
<1> QED
  BY <1>2, <1>3, <1>4, <1>5, <1>7, <1>8, <1>9

\* The tokens that are being written when the run reads are touched.
LEMMA ReadStep ==
    ASSUME PushInv, ReadTokens
    PROVE  PushInv'
<1>. PICK mine : mine = {k \in Tokens : owner[k] = job[run.job].user}
  OBVIOUS
<1> USE DEF PushInv
<1>1. /\ run # Idle /\ run.pc = "read"
      /\ touched' = {k \in Tokens : lock[k] \in Sessions}
      /\ UNCHANGED <<owner, lock, ses, job, gone, taken, unanswered, told>>
  BY DEF ReadTokens, At, rows, seen
<1>2. \A k \in Tokens : lock[k] # Worker
  BY <1>1 DEF RunHolds
<1>3. CASE End("done")
  BY <1>1, <1>2, <1>3, RunEnds DEF TypeOK
<1>4. CASE /\ mine # {}
           /\ run' = [run EXCEPT !.tokens = mine,
                                 !.pc = IF job[run.job].event \in EventsWithCopy
                                        THEN "post" ELSE "prune"]
  <2>. PICK r : r = run'
    OBVIOUS
  <2>1. /\ r \in Run /\ r # Idle /\ r.pc \in {"post", "prune"} /\ r.job = run.job
        /\ r.dead = run.dead /\ r.left = run.left /\ r.tokens = mine
        /\ r.job \in Jobs
    BY <1>1, <1>4, RunFields DEF Run, Idle
  <2>2. r.dead = {} /\ r.left = {}
    BY <1>1, <2>1 DEF RunHolds
  <2>3. TypeOK'
    BY <1>1, <2>1 DEF TypeOK
  <2>4. RowsHeld'
    BY <1>1 DEF RowsHeld
  <2>5. RunHolds'
    BY <1>1, <1>2, <2>1, <2>2 DEF RunHolds
  <2>6. AttemptsLeft' /\ TakenAgainOnlyUnanswered'
    BY <1>1 DEF AttemptsLeft, TakenAgainOnlyUnanswered
  <2>7. PostsCounted'
    <3>1. Accounted(run.job)
      BY <1>1 DEF PostsCounted
    <3>2. \A k \in Tokens : taken'[r.job][k] <= unanswered'[r.job]
      BY <1>1, <2>1, <3>1 DEF Accounted
    <3> QED
      BY <1>1, <2>1, <3>2 DEF PostsCounted, Accounted
  <2>8. PushFollowsLogin'
    <3> SUFFICES ASSUME NEW k \in mine
                 PROVE  told'[k] \in {job'[r.job].user, Lapsed} \/ k \in touched'
      BY <2>1 DEF PushFollowsLogin
    <3> QED
      BY <1>1, <2>1 DEF RowsHeld
  <2> QED
    BY <2>3, <2>4, <2>5, <2>6, <2>7, <2>8
<1> QED
  BY <1>3, <1>4 DEF ReadTokens

\* Expo takes the messages of a job that had nothing to account for.
LEMMA TakeStep ==
    ASSUME PushInv, ExpoTakes
    PROVE  PushInv'
<1>. PICK j : j = run.job
  OBVIOUS
<1>. PICK r : r = run'
  OBVIOUS
<1> USE DEF PushInv
<1>1. /\ run # Idle /\ run.pc = "post" /\ j \in Jobs
      /\ taken' = [taken EXCEPT ![j] =
                     [k \in Tokens |-> IF k \in run.tokens THEN taken[j][k] + 1
                                       ELSE taken[j][k]]]
      /\ UNCHANGED <<owner, lock, ses, job, gone, unanswered, touched, told>>
  BY RunFields DEF ExpoTakes, At, rows
<1>2. PICK dead \in SUBSET (run.tokens \cap gone) :
         run' = [run EXCEPT !.pc = "wait", !.dead = dead]
  BY DEF ExpoTakes
<1>3. /\ r \in Run /\ r # Idle /\ r.pc = "wait" /\ r.job = j
      /\ r.dead = dead /\ r.left = run.left
  <2>1. dead \subseteq Tokens
    BY <1>1, RunFields
  <2> QED
    BY <1>1, <1>2, <2>1, RunFields DEF Run, Idle
<1>4. r.left = {}
  BY <1>1, <1>3 DEF RunHolds
<1>5. /\ \A i \in Jobs \ {j} : taken'[i] = taken[i]
      /\ \A k \in Tokens : taken'[j][k] \in {taken[j][k], taken[j][k] + 1}
      /\ taken' \in [Jobs -> [Tokens -> Nat]]
  <2>. PICK new : new = [k \in Tokens |-> IF k \in run.tokens THEN taken[j][k] + 1
                                          ELSE taken[j][k]]
    OBVIOUS
  <2>1. taken[j] \in [Tokens -> Nat]
    BY <1>1 DEF TypeOK
  <2>2. new \in [Tokens -> Nat] /\ \A k \in Tokens : new[k] \in {taken[j][k], taken[j][k] + 1}
    BY <2>1
  <2>3. taken' = [taken EXCEPT ![j] = new]
    BY <1>1
  <2> QED
    BY <1>1, <2>2, <2>3 DEF TypeOK
<1>6. TypeOK'
  BY <1>1, <1>3, <1>5 DEF TypeOK
<1>7. RowsHeld' /\ AttemptsLeft'
  BY <1>1 DEF RowsHeld, AttemptsLeft
<1>8. RunHolds'
  BY <1>1, <1>3, <1>4 DEF RunHolds
<1>9. Accounted(j)
  BY <1>1 DEF PostsCounted
<1>10. PostsCounted'
  <2>1. job[j].status = "doing"
    BY <1>1 DEF RunHolds
  <2>2. \A i \in Jobs \ {j} : Accounted(i) => Accounted(i)'
    BY <1>1, <1>5 DEF Accounted
  <2> QED
    BY <1>1, <1>3, <2>1, <2>2 DEF PostsCounted
<1>11. TakenAgainOnlyUnanswered'
  <2>1. \A k \in Tokens : taken'[j][k] <= 1 + unanswered'[j]
    <3> SUFFICES ASSUME NEW k \in Tokens PROVE taken'[j][k] <= 1 + unanswered'[j]
      OBVIOUS
    <3>1. taken[j][k] <= unanswered[j] /\ taken[j][k] \in Nat /\ unanswered[j] \in Nat
      BY <1>1, <1>9 DEF Accounted, TypeOK
    <3>2. unanswered'[j] = unanswered[j]
      BY <1>1
    <3> QED
      BY <1>5, <3>1, <3>2
  <2> QED
    BY <1>1, <1>5, <2>1 DEF TakenAgainOnlyUnanswered
<1>12. PushFollowsLogin'
  BY <1>3 DEF PushFollowsLogin, At
<1> QED
  BY <1>6, <1>7, <1>8, <1>10, <1>11, <1>12

\* A post that was refused, or whose answer was lost, is accounted for.
LEMMA RetryStep ==
    ASSUME PushInv, ExpoRefuses \/ AnswerLost
    PROVE  PushInv'
<1>. PICK j : j = run.job
  OBVIOUS
<1> USE DEF PushInv
<1>1. /\ run # Idle /\ j \in Jobs /\ run.pc \in {"post", "wait"} /\ End("retry")
      /\ UNCHANGED <<owner, lock, ses, job, gone, taken, touched, told>>
  BY RunFields DEF ExpoRefuses, AnswerLost, At, rows, seen
<1>2. \A k \in Tokens : lock[k] # Worker
  BY <1>1 DEF RunHolds
<1>3. \A k \in Tokens : taken[j][k] \in Nat
  BY <1>1 DEF TypeOK
<1>4. CASE ExpoRefuses
  <2>1. unanswered' = unanswered /\ Accounted(run.job)
    BY <1>4 DEF ExpoRefuses, At, seen, PostsCounted
  <2>2. Accounted(run.job)'
    <3>1. \A k \in Tokens : taken'[run'.job][k] <= unanswered'[run'.job]
      BY <1>1, <2>1, EndedRun DEF Accounted, End
    <3> QED
      BY <3>1 DEF Accounted
  <2>3. \A i \in Jobs : unanswered[i] <= unanswered'[i]
    BY <2>1 DEF TypeOK
  <2> QED
    BY <1>1, <1>2, <2>1, <2>2, <2>3, RunEnds DEF TypeOK
<1>5. CASE AnswerLost
  <2>1. unanswered' = [unanswered EXCEPT ![j] = unanswered[j] + 1]
    BY <1>5 DEF AnswerLost
  <2>2. /\ unanswered' \in [Jobs -> Nat]
        /\ unanswered'[j] = unanswered[j] + 1
        /\ \A i \in Jobs : unanswered[i] <= unanswered'[i]
    BY <1>1, <2>1 DEF TypeOK
  <2>3. \A k \in Tokens : taken[j][k] <= unanswered'[j]
    BY <1>1, <1>3, <2>2 DEF TakenAgainOnlyUnanswered, TypeOK
  <2>4. Accounted(run.job)'
    <3>1. \A k \in Tokens : taken'[run'.job][k] <= unanswered'[run'.job]
      BY <1>1, <2>3, EndedRun DEF End
    <3> QED
      BY <3>1 DEF Accounted
  <2> QED
    BY <1>1, <1>2, <2>2, <2>4, RunEnds DEF TypeOK
<1> QED
  BY <1>4, <1>5

\* The tickets say which tokens are left to delete.
LEMMA AnsweredStep ==
    ASSUME PushInv, Answered
    PROVE  PushInv'
<1>. PICK r : r = run'
  OBVIOUS
<1> USE DEF PushInv
<1>1. /\ run # Idle /\ run.pc = "wait" /\ run.job \in Jobs
      /\ run' = [run EXCEPT !.pc = "prune", !.tokens = {}, !.left = run.dead]
      /\ UNCHANGED <<owner, lock, ses, job, gone, taken, unanswered, touched, told>>
  BY RunFields DEF Answered, At, DeadTokens, rows, seen
<1>2. /\ r \in Run /\ r # Idle /\ r.pc = "prune" /\ r.job = run.job
      /\ r.dead = run.dead /\ r.left = run.dead
  BY <1>1, RunFields DEF Run, Idle
<1>3. TypeOK'
  BY <1>1, <1>2 DEF TypeOK
<1>4. RowsHeld' /\ AttemptsLeft' /\ TakenAgainOnlyUnanswered'
  BY <1>1 DEF RowsHeld, AttemptsLeft, TakenAgainOnlyUnanswered
<1>5. RunHolds'
  BY <1>1, <1>2 DEF RunHolds
<1>6. PostsCounted'
  BY <1>1, <1>2 DEF PostsCounted, Accounted
<1>7. PushFollowsLogin'
  BY <1>2 DEF PushFollowsLogin, At
<1> QED
  BY <1>3, <1>4, <1>5, <1>6, <1>7

\* A DELETE takes a row of the job's user, or finds none.
LEMMA PruneStep ==
    ASSUME PushInv, NEW k \in Tokens, Prune(k)
    PROVE  PushInv'
<1>. PICK r : r = run'
  OBVIOUS
<1>. PICK u : u = job[run.job].user
  OBVIOUS
<1> USE DEF PushInv
<1>1. /\ run # Idle /\ run.pc = "prune" /\ k \in run.left /\ run.job \in Jobs
      /\ run' = [run EXCEPT !.left = run.left \ {k}]
      /\ \/ owner[k] = u /\ lock[k] = None /\ lock' = [lock EXCEPT ![k] = Worker]
         \/ owner[k] # u /\ lock' = lock
      /\ UNCHANGED <<owner, ses, job, gone, taken, unanswered, touched, told>>
  BY RunFields DEF Prune, At, Matches, seen
<1>2. /\ r \in Run /\ r # Idle /\ r.pc = "prune" /\ r.job = run.job
      /\ r.dead = run.dead /\ r.left = run.left \ {k}
  BY <1>1, RunFields DEF Run, Idle
<1>3. TypeOK'
  BY <1>1, <1>2 DEF TypeOK
<1>4. \A l \in Tokens : lock'[l] = lock[l] \/ (l = k /\ lock[l] = None /\ lock'[l] = Worker)
  BY <1>1 DEF TypeOK
<1>5. RowsHeld'
  <2>1. \A y \in Sessions : ses'[y] # Idle => lock'[ses'[y].token] = y
    BY <1>1, <1>4, RequestFields DEF RowsHeld
  <2>2. ASSUME NEW l \in Tokens
        PROVE  IF lock'[l] \in Sessions
               THEN /\ ses'[lock'[l]] # Idle /\ ses'[lock'[l]].token = l
                    /\ told'[l] \in {Wanted(ses'[lock'[l]]), Lapsed}
               ELSE told'[l] \in {owner'[l], Lapsed}
    BY <1>1, <1>4 DEF RowsHeld, Wanted
  <2> QED
    BY <2>1, <2>2 DEF RowsHeld, Wanted
<1>6. RunHolds'
  <2>1. ASSUME NEW l \in Tokens, lock'[l] = Worker
        PROVE  owner'[l] = u /\ l \in r.dead
    BY <1>1, <1>2, <1>4, <2>1 DEF RunHolds
  <2>2. /\ job'[r.job] # NoJob /\ job'[r.job].status = "doing" /\ job'[r.job].user = u
        /\ r.left \subseteq r.dead /\ r.dead \subseteq gone' \cup touched'
        /\ \A l \in Tokens : lock'[l] \in Sessions => l \in touched'
    BY <1>1, <1>2, <1>4 DEF RunHolds
  <2>3. ASSUME NEW l \in r.dead \ r.left
        PROVE  lock'[l] = Worker \/ owner'[l] # u \/ l \in touched'
    <3>1. CASE l = k
      BY <1>1, <2>3, <3>1 DEF TypeOK
    <3>2. CASE l # k
      <4>1. l \in run.dead \ run.left /\ l \in Tokens
        BY <1>1, <1>2, <2>3, <3>2, RunFields
      <4> QED
        BY <1>1, <1>4, <4>1 DEF RunHolds
    <3> QED
      BY <3>1, <3>2
  <2> QED
    BY <1>2, <2>1, <2>2, <2>3 DEF RunHolds
<1>7. AttemptsLeft' /\ TakenAgainOnlyUnanswered'
  BY <1>1 DEF AttemptsLeft, TakenAgainOnlyUnanswered
<1>8. PostsCounted'
  BY <1>1, <1>2 DEF PostsCounted, Accounted
<1>9. PushFollowsLogin'
  BY <1>2 DEF PushFollowsLogin, At
<1> QED
  BY <1>3, <1>5, <1>6, <1>7, <1>8, <1>9

\* The worker's rows are free, the others' are not touched.
LEMMA FreeRows ==
    ASSUME TypeOK, lock' = Free(Worker)
    PROVE  /\ lock' \in [Tokens -> Sessions \cup {Worker, None}]
           /\ \A k \in Tokens : lock'[k] = IF lock[k] = Worker THEN None ELSE lock[k]
BY DEF TypeOK, Free

\* The commit deletes the rows the worker held, and ends the run.
LEMMA CommitPruneStep ==
    ASSUME PushInv, CommitPrune
    PROVE  PushInv'
<1> USE DEF PushInv
<1>1. /\ run # Idle /\ End("done") /\ lock' = Free(Worker)
      /\ owner' = WithoutPruned
      /\ told' = [k \in Tokens |-> IF lock[k] = Worker THEN None ELSE told[k]]
      /\ UNCHANGED <<ses, job, gone, taken, unanswered, touched>>
  BY DEF CommitPrune, At, seen
<1>2. /\ owner' \in [Tokens -> Users \cup {None}]
      /\ told' \in [Tokens -> Users \cup {None, Lapsed}]
      /\ touched' \subseteq Tokens /\ unanswered' \in [Jobs -> Nat]
      /\ \A j \in Jobs : unanswered[j] <= unanswered'[j]
  BY <1>1 DEF TypeOK, WithoutPruned
<1>3. \A k \in Tokens :
         IF lock[k] = Worker
         THEN lock'[k] = None /\ told'[k] \in {owner'[k], Lapsed}
         ELSE lock'[k] = lock[k] /\ owner'[k] = owner[k] /\ told'[k] = told[k]
  BY <1>1, FreeRows DEF WithoutPruned
<1> QED
  BY <1>1, <1>2, <1>3, FreeRows, RunEnds

\* A failure frees the rows the worker held, and ends the run for good.
LEMMA FailStep ==
    ASSUME PushInv, Fail
    PROVE  PushInv'
<1> USE DEF PushInv
<1>1. /\ run # Idle /\ End("failed") /\ lock' = Free(Worker)
      /\ UNCHANGED <<owner, ses, job, gone, taken, unanswered, touched, told>>
  BY DEF Fail, OtherError, seen
<1>2. \A j \in Jobs : unanswered[j] <= unanswered'[j]
  BY <1>1 DEF TypeOK
<1>3. \A k \in Tokens :
         IF lock[k] = Worker
         THEN lock'[k] = None /\ told'[k] \in {owner'[k], Lapsed}
         ELSE lock'[k] = lock[k] /\ owner'[k] = owner[k] /\ told'[k] = told[k]
  BY <1>1, FreeRows DEF RowsHeld
<1> QED
  BY <1>1, <1>2, <1>3, FreeRows, RunEnds DEF TypeOK

\* An empty table, no job and no run.
LEMMA Init_PushInv == Init => PushInv
<1> SUFFICES ASSUME Init PROVE PushInv
  OBVIOUS
<1>1. TypeOK
  BY DEF Init, TypeOK
<1>2. RowsHeld /\ RunHolds /\ AttemptsLeft /\ PushFollowsLogin
  BY DEF Init, RowsHeld, RunHolds, AttemptsLeft, PushFollowsLogin, At
<1>3. PostsCounted /\ TakenAgainOnlyUnanswered
  BY DEF Init, PostsCounted, Accounted, TakenAgainOnlyUnanswered
<1> QED
  BY <1>1, <1>2, <1>3 DEF PushInv

\* Which step of the model it is.
LEMMA NextStep ==
    ASSUME PushInv, [Next]_vars
    PROVE  PushInv'
<1>1. ASSUME NEW x \in Sessions, NEW u \in Users, NEW k \in Tokens,
             RegisterDevice(x, u, k) \/ UnregisterDevice(x, u, k)
      PROVE  PushInv'
  BY <1>1, RegisterStep, UnregisterStep
<1>2. ASSUME NEW x \in Sessions, CommitDevice(x) \/ AbortDevice(x) PROVE PushInv'
  BY <1>2, RequestEnds
<1>3. ASSUME NEW u \in Users, NEW k \in Tokens, UnregisterUnseen(u, k) PROVE PushInv'
  BY <1>3, UnseenStep
<1>4. ASSUME NEW k \in Tokens, Uninstall(k) PROVE PushInv'
  BY <1>4, UninstallStep
<1>5. ASSUME NEW j \in Jobs, Fetch(j) PROVE PushInv'
  BY <1>5, FetchStep
<1>6. ASSUME NEW j \in Jobs, NEW u \in Notified, NEW e \in Events, Defer(j, u, e)
      PROVE  PushInv'
  BY <1>6, DeferStep
<1>7. ASSUME Step PROVE PushInv'
  <2>1. CASE Finish
    <3>1. run # Idle
      BY <2>1 DEF Finish, Idle
    <3> QED
      BY <2>1, <3>1, FinishStep
  <2> QED
    BY <1>7, <2>1, ReadStep, TakeStep, RetryStep, AnsweredStep, PruneStep, CommitPruneStep,
       FailStep DEF Step
<1>8. ASSUME WorkerDies PROVE PushInv'
  BY <1>8, WorkerDiesStep
<1>9. CASE UNCHANGED vars
  <2>1. TypeOK' /\ RowsHeld' /\ AttemptsLeft'
    BY <1>9 DEF PushInv, vars, TypeOK, RowsHeld, AttemptsLeft
  <2>2. RunHolds'
    BY <1>9 DEF PushInv, vars, RunHolds
  <2>3. PostsCounted' /\ PushFollowsLogin' /\ TakenAgainOnlyUnanswered'
    BY <1>9 DEF PushInv, vars, PostsCounted, Accounted, PushFollowsLogin, At,
                TakenAgainOnlyUnanswered
  <2> QED
    BY <2>1, <2>2, <2>3 DEF PushInv
<1> QED
  BY <1>1, <1>2, <1>3, <1>4, <1>5, <1>6, <1>7, <1>8, <1>9 DEF Next

\* PushInv is inductive.
THEOREM Inductive == Spec => []PushInv
BY Init_PushInv, NextStep, PTL DEF Spec

\* Expo takes a second message of a job for a device only if it took one whose
\* answer was lost.
THEOREM SentOnce == Spec => []TakenAgainOnlyUnanswered
<1>1. PushInv => TakenAgainOnlyUnanswered
  BY DEF PushInv
<1> QED
  BY <1>1, Inductive, PTL

\* A run posts to devices that are its user's by the last answer of the API, to
\* devices written during the run or not committed at its read, and to devices
\* whose last answer did not hold.
THEOREM SentToItsUser == Spec => []PushFollowsLogin
<1>1. PushInv => PushFollowsLogin
  BY DEF PushInv
<1> QED
  BY <1>1, Inductive, PTL

\* The table of devices is what the API said of it.
THEOREM TableIsAsTold == Spec => []OwnerAsTold
<1>1. PushInv => OwnerAsTold
  BY DEF PushInv, RowsHeld, OwnerAsTold
<1> QED
  BY <1>1, Inductive, PTL

\* The worker frees a row, or deletes it, in the commit of a run only.
LEMMA WorkerRows ==
    ASSUME PushInv, [Next]_vars, NEW k \in Tokens, lock[k] = Worker, owner'[k] # owner[k]
    PROVE  owner[k] = job[run.job].user /\ k \in run.dead /\ k \in gone \cup touched
BY DEF PushInv, RunHolds

\* A run deletes only devices Expo called dead and its user still has.
THEOREM PrunesDeadOnly == Spec => OnlyDeadPruned
<1>1. PushInv /\ [Next]_vars =>
        [\A k \in Tokens :
           lock[k] = Worker /\ owner'[k] # owner[k] =>
             /\ owner[k] = job[run.job].user
             /\ k \in run.dead
             /\ k \in gone \cup touched]_vars
  BY WorkerRows
<1> QED
  BY <1>1, Inductive, PTL DEF Spec, OnlyDeadPruned

\* A run that ends well has deleted every device Expo called dead.
THEOREM PrunesAllDead == Spec => DeadArePruned
<1>1. PushInv /\ [Next]_vars =>
        [At("prune") /\ run'.pc = "end" /\ run'.outcome = "done" =>
           \A k \in run.dead : owner'[k] # job[run.job].user \/ k \in touched]_vars
  <2> SUFFICES ASSUME PushInv, [Next]_vars, At("prune"), run'.pc = "end",
                      run'.outcome = "done", NEW k \in run.dead
               PROVE  owner'[k] # job[run.job].user \/ k \in touched
    OBVIOUS
  <2> USE DEF PushInv
  <2>1. run # Idle /\ run.pc = "prune" /\ k \in Tokens
    BY RunFields DEF At
  <2>2. \/ CommitPrune
        \/ run' = run
        \/ Fail
        \/ \E l \in Tokens : Prune(l)
        \/ run' = Idle
    BY <2>1 DEF Next, Step, vars, RegisterDevice, UnregisterDevice, CommitDevice,
                AbortDevice, UnregisterUnseen, Uninstall, Fetch, Defer, queue, ReadTokens,
                ExpoTakes, ExpoRefuses, AnswerLost, Answered, Finish, WorkerDies, At
  <2>3. run' # run /\ run' # Idle
    BY <2>1 DEF Idle
  <2>4. ~Fail
    BY <2>1, RunFields, EndedRun DEF Fail, OtherError, End
  <2>5. ~\E l \in Tokens : Prune(l)
    <3> SUFFICES ASSUME NEW l \in Tokens, Prune(l) PROVE FALSE
      OBVIOUS
    <3>1. run'.pc = "prune"
      BY <2>1, RunFields DEF Prune, Run
    <3> QED
      BY <3>1
  <2>6. run.left = {} /\ owner' = WithoutPruned
    BY <2>2, <2>3, <2>4, <2>5 DEF CommitPrune
  <2>7. lock[k] = Worker \/ owner[k] # job[run.job].user \/ k \in touched
    BY <2>1, <2>6 DEF RunHolds
  <2>8. job[run.job].user # None
    BY <2>1, RunFields, JobFields DEF RunHolds
  <2> QED
    BY <2>1, <2>6, <2>7, <2>8 DEF WithoutPruned
<1> QED
  BY <1>1, Inductive, PTL DEF Spec, DeadArePruned
=============================================================================
