------------------------------- MODULE PushJobs -------------------------------
(***************************************************************************)
(* The push pipe.  A user's devices are rows of one table, one row per     *)
(* token (api/devices.py, services/devices).  notify() leaves a job for a  *)
(* user with no live stream, and the worker's send_push                    *)
(*   reads the user's tokens; posts one message per token to Expo and      *)
(*   waits for the tickets; deletes the tokens Expo calls dead; commits,   *)
(* and is tried again after an httpx.HTTPError.  Requests and the worker   *)
(* are PostgreSQL transactions at READ COMMITTED.  A request commits after *)
(* its answer.  What a transaction has written and not committed is what   *)
(* it holds in lock: a request writes Wanted(ses[x]), the worker deletes.  *)
(***************************************************************************)
EXTENDS Naturals

CONSTANTS
    Users, Tokens, Jobs,
    Notified,        \* the users notify() finds with no live stream
    Sessions,        \* slots for requests of the devices API
    Worker,          \* the one worker, which runs one job at a time
    None, Lapsed,
    Events,          \* the events notify() sends
    EventsWithCopy,  \* those EVENT_COPY has a banner for
    MaxAttempts      \* RETRY.max_attempts

ASSUME PushAssumption ==
    /\ {None, Lapsed} \cap (Users \cup Sessions \cup {Worker}) = {}
    /\ None # Lapsed
    /\ Worker \notin Sessions
    /\ Notified \subseteq Users
    /\ EventsWithCopy \subseteq Events
    /\ MaxAttempts \in Nat

VARIABLES
    owner,       \* owner[k]: the user of the committed row of token k, or None
    lock,        \* lock[k]: the transaction that holds the row of k, or None
    ses,         \* ses[x]: the answered request in slot x that has to commit
    job,         \* job[j]: the row of job j in the queue
    run,         \* what the worker is doing
    gone,        \* the tokens whose app is not installed any more
    \* Kept for the properties only:
    taken,       \* taken[j][k]: messages for k Expo took from the runs of j
    unanswered,  \* unanswered[j]: posts Expo took whose tickets never came
    touched,     \* the tokens a request has written since this run read them, or
                 \* had written and not committed then
    told         \* told[k]: whose k is by the last answer of the API; Lapsed
                 \* when that answer did not hold

queue == <<job, run>>
rows  == <<owner, lock>>
seen  == <<taken, unanswered>>
vars  == <<owner, lock, ses, job, run, gone, taken, unanswered, touched, told>>

Idle == [pc |-> "idle"]

NoJob == [status |-> "none"]

Job == [status : {"todo", "doing", "done", "failed"}, user : Users,
        event : Events, attempts : 0 .. MaxAttempts + 1]

\* An answered request: token k is u's, or is not u's any more.
Request == [pc : {"registered", "unregistered"}, user : Users, token : Tokens]

Wanted(req) == IF req.pc = "registered" THEN req.user ELSE None

\* A run of job j: the tokens read, those Expo called dead, those still to be
\* deleted, and how the job ends.
Run == [pc : {"read", "post", "wait", "prune", "end"}, job : Jobs,
        tokens : SUBSET Tokens, dead : SUBSET Tokens, left : SUBSET Tokens,
        outcome : {"done", "failed", "retry", None}]

TypeOK ==
    /\ owner \in [Tokens -> Users \cup {None}]
    /\ lock \in [Tokens -> Sessions \cup {Worker, None}]
    /\ ses \in [Sessions -> {Idle} \cup Request]
    /\ job \in [Jobs -> {NoJob} \cup Job]
    /\ run \in {Idle} \cup Run
    /\ gone \subseteq Tokens
    /\ taken \in [Jobs -> [Tokens -> Nat]]
    /\ unanswered \in [Jobs -> Nat]
    /\ touched \subseteq Tokens
    /\ told \in [Tokens -> Users \cup {None, Lapsed}]

Init ==
    /\ owner = [k \in Tokens |-> None]
    /\ lock = [k \in Tokens |-> None]
    /\ ses = [x \in Sessions |-> Idle]
    /\ job = [j \in Jobs |-> NoJob]
    /\ run = Idle
    /\ gone = {}
    /\ taken = [j \in Jobs |-> [k \in Tokens |-> 0]]
    /\ unanswered = [j \in Jobs |-> 0]
    /\ touched = {}
    /\ told = [k \in Tokens |-> None]
-----------------------------------------------------------------------------
(* The devices API *)

Touch(k) == touched' = IF run = Idle THEN {} ELSE touched \cup {k}

\* Mutant: the token is written with no conflict clause for another user's row.
KeepsFirst(k, u) == IF owner[k] = None THEN u ELSE owner[k]

\* ON CONFLICT (fcm_token) DO UPDATE: the token changes hands.
Reassigned(k, u) == u

\* Mutant: DELETE by the token alone.
AnyRow(k, u) == owner[k] # None

\* DELETE: the token and the user.
Matches(k, u) == owner[k] = u

\* The app of k is installed and its user u logged in.
RegisterDevice(x, u, k) ==
    /\ ses[x] = Idle /\ lock[k] = None
    /\ lock' = [lock EXCEPT ![k] = x]
    /\ ses' = [ses EXCEPT ![x] = [pc |-> "registered", token |-> k,
                                  user |-> Reassigned(k, u)]]
    /\ gone' = gone \ {k}
    /\ told' = [told EXCEPT ![k] = u]
    /\ Touch(k)
    /\ UNCHANGED <<owner, queue, seen>>

\* A logout.  The DELETE waits for the row it sees.
UnregisterDevice(x, u, k) ==
    /\ ses[x] = Idle /\ lock[k] = None
    /\ Matches(k, u)
    /\ lock' = [lock EXCEPT ![k] = x]
    /\ ses' = [ses EXCEPT ![x] = [pc |-> "unregistered", token |-> k,
                                  user |-> u]]
    /\ told' = [told EXCEPT ![k] = IF @ \in {u, Lapsed} THEN None ELSE @]
    /\ Touch(k)
    /\ UNCHANGED <<owner, queue, gone, seen>>

\* It sees no row that is not committed: 204 is answered, nothing is deleted
\* and nothing held, over a registration of u that may come true later.
UnregisterUnseen(u, k) ==
    /\ ~Matches(k, u)
    /\ told' = [told EXCEPT ![k] = IF @ # u THEN @
                                   ELSE IF lock[k] = None THEN None ELSE Lapsed]
    /\ UNCHANGED <<rows, ses, queue, gone, seen, touched>>

Free(t) == [k \in Tokens |-> IF lock[k] = t THEN None ELSE lock[k]]

CommitDevice(x) ==
    LET k == ses[x].token
    IN  /\ ses[x] # Idle
        /\ owner' = [owner EXCEPT ![k] = Wanted(ses[x])]
        /\ lock' = Free(x)
        /\ ses' = [ses EXCEPT ![x] = Idle]
        /\ UNCHANGED <<queue, gone, seen, touched, told>>

\* The commit fails, after the answer.
AbortDevice(x) ==
    LET k == ses[x].token
    IN  /\ ses[x] # Idle
        /\ lock' = Free(x)
        /\ ses' = [ses EXCEPT ![x] = Idle]
        /\ told' = [told EXCEPT ![k] = Lapsed]
        /\ UNCHANGED <<owner, queue, gone, seen, touched>>

Uninstall(k) ==
    /\ k \notin gone
    /\ gone' = gone \cup {k}
    /\ UNCHANGED <<rows, ses, queue, seen, touched, told>>
-----------------------------------------------------------------------------
(* The queue *)

Defer(j, u, e) ==
    /\ job[j] = NoJob
    /\ job' = [job EXCEPT ![j] = [status |-> "todo", user |-> u, event |-> e,
                                  attempts |-> 0]]
    /\ UNCHANGED <<rows, ses, run, gone, seen, touched, told>>

Due(j) == job[j].status = "todo"

\* The retry's delay has passed.
Fetch(j) ==
    /\ run = Idle
    /\ Due(j)
    /\ job' = [job EXCEPT ![j].status = "doing"]
    /\ run' = [pc |-> "read", job |-> j, tokens |-> {}, dead |-> {},
               left |-> {}, outcome |-> None]
    /\ UNCHANGED <<rows, ses, gone, seen, touched, told>>

\* Mutant: the attempts are not counted.
RetriesForEver(j) == [job[j] EXCEPT !.status = "todo"]

\* RetryStrategy: another attempt, until there were MaxAttempts.
Retried(j) ==
    [job[j] EXCEPT !.status = IF job[j].attempts < MaxAttempts
                             THEN "todo" ELSE "failed",
                   !.attempts = job[j].attempts + 1]

Settled(j, outcome) ==
    [job[j] EXCEPT !.status = outcome, !.attempts = job[j].attempts + 1]

\* The worker writes down how the job ended.
Finish ==
    LET j == run.job
    IN  /\ run.pc = "end"
        /\ job' = [job EXCEPT ![j] = IF run.outcome = "retry" THEN Retried(j)
                                     ELSE Settled(j, run.outcome)]
        /\ run' = Idle
        /\ touched' = {}
        /\ UNCHANGED <<rows, ses, gone, seen, told>>

\* The job is left "doing"; a worker starts again.
WorkerDies ==
    /\ run # Idle
    /\ lock' = Free(Worker)
    /\ run' = Idle
    /\ touched' = {}
    /\ UNCHANGED <<owner, ses, job, gone, seen, told>>
-----------------------------------------------------------------------------
(* send_push *)

At(pc) == run # Idle /\ run.pc = pc

Ended(j, outcome) == [pc |-> "end", job |-> j, tokens |-> {}, dead |-> {},
                      left |-> {}, outcome |-> outcome]

End(outcome) == run' = Ended(run.job, outcome)

\* tokens_for; with no token there is nothing to send.
ReadTokens ==
    LET mine == {k \in Tokens : owner[k] = job[run.job].user}
    IN  /\ At("read")
        /\ \/ mine = {} /\ End("done")
           \/ /\ mine # {}
              /\ run' = [run EXCEPT !.tokens = mine,
                                    !.pc = IF job[run.job].event \in EventsWithCopy
                                           THEN "post" ELSE "prune"]
        /\ touched' = {k \in Tokens : lock[k] \in Sessions}
        /\ UNCHANGED <<rows, ses, job, gone, seen, told>>

\* Expo takes the messages; the tickets it will send call some tokens dead,
\* or are missing.
ExpoTakes ==
    /\ At("post")
    /\ \E dead \in SUBSET (run.tokens \cap gone) :
         run' = [run EXCEPT !.pc = "wait", !.dead = dead]
    /\ taken' = [taken EXCEPT ![run.job] =
                   [k \in Tokens |-> IF k \in run.tokens THEN @[k] + 1 ELSE @[k]]]
    /\ UNCHANGED <<rows, ses, job, gone, unanswered, touched, told>>

\* No connection, or an answer of 400 and above: raise_for_status raises an
\* httpx.HTTPError for all of them, so all are tried again.  RETRY's comment has
\* a 4xx not retried.
ExpoRefuses ==
    /\ At("post")
    /\ End("retry")
    /\ UNCHANGED <<rows, ses, job, gone, seen, touched, told>>

\* A timeout or a broken connection after Expo took the messages.
AnswerLost ==
    /\ At("wait")
    /\ End("retry")
    /\ unanswered' = [unanswered EXCEPT ![run.job] = @ + 1]
    /\ UNCHANGED <<rows, ses, job, gone, taken, touched, told>>

\* Mutant: zip against the user's tokens in another order.
Misaligned == {k \in run.tokens : run.dead # {} /\ k \notin run.dead}

\* dead_tokens: the tickets' positions are the tokens'.
DeadTokens == run.dead

Answered ==
    /\ At("wait")
    /\ run' = [run EXCEPT !.pc = "prune", !.tokens = {}, !.left = DeadTokens]
    /\ UNCHANGED <<rows, ses, job, gone, seen, touched, told>>

\* unregister: one DELETE for each dead token.
Prune(k) ==
    /\ At("prune") /\ k \in run.left
    /\ \/ /\ Matches(k, job[run.job].user)
          /\ lock[k] = None
          /\ lock' = [lock EXCEPT ![k] = Worker]
       \/ /\ ~Matches(k, job[run.job].user)
          /\ UNCHANGED lock
    /\ run' = [run EXCEPT !.left = @ \ {k}]
    /\ UNCHANGED <<owner, ses, job, gone, seen, touched, told>>

\* Mutant: the session is closed without a commit.
KeepRows == owner

WithoutPruned == [k \in Tokens |-> IF lock[k] = Worker THEN None ELSE owner[k]]

CommitPrune ==
    /\ At("prune") /\ run.left = {}
    /\ owner' = WithoutPruned
    /\ lock' = Free(Worker)
    /\ told' = [k \in Tokens |-> IF lock[k] = Worker THEN None ELSE told[k]]
    /\ End("done")
    /\ UNCHANGED <<ses, job, gone, seen, touched>>

\* Mutant: every exception is retried.
RetryAll == "retry"

OtherError == "failed"

\* Any other exception: the database, or tickets that are no JSON.
Fail ==
    /\ run # Idle /\ run.pc \in {"read", "wait", "prune"}
    /\ lock' = Free(Worker)
    /\ End(OtherError)
    /\ UNCHANGED <<owner, ses, job, gone, seen, touched, told>>
-----------------------------------------------------------------------------
Step ==
    \/ ReadTokens \/ ExpoTakes \/ ExpoRefuses \/ AnswerLost \/ Answered
    \/ (\E k \in Tokens : Prune(k)) \/ CommitPrune \/ Fail \/ Finish

Next ==
    \/ \E x \in Sessions :
         \/ \E u \in Users, k \in Tokens : \/ RegisterDevice(x, u, k)
                                           \/ UnregisterDevice(x, u, k)
         \/ CommitDevice(x)
         \/ AbortDevice(x)
    \/ \E u \in Users, k \in Tokens : UnregisterUnseen(u, k)
    \/ \E k \in Tokens : Uninstall(k)
    \/ \E j \in Jobs : \/ Fetch(j)
                       \/ \E u \in Notified, e \in Events : Defer(j, u, e)
    \/ Step
    \/ WorkerDies

Spec == Init /\ [][Next]_vars

Progress == \/ ReadTokens
            \/ ExpoTakes \/ ExpoRefuses
            \/ AnswerLost \/ Answered
            \/ CommitPrune
            \/ Finish

\* The worker polls the queue and its POST has a timeout, the database ends
\* every transaction and queues those who wait for a row.
FairSpec ==
    /\ Spec
    /\ \A x \in Sessions : WF_vars(CommitDevice(x) \/ AbortDevice(x))
    /\ \A j \in Jobs : SF_vars(Fetch(j))
    /\ WF_vars(Progress)
    /\ \A k \in Tokens : SF_vars(Prune(k))
-----------------------------------------------------------------------------
(* Properties *)

\* What the API answered last about a token is what the table says of it once
\* no transaction writes it: a login answered 201 owns the token, a logout
\* answered 204 has released it.  An answer lapses in two ways only: its
\* commit failed, or the logout came before the commit of the registration it
\* should have undone.
OwnerAsTold ==
    \A k \in Tokens : lock[k] = None => told[k] \in {owner[k], Lapsed}

\* The messages a run is about to post are for devices whose last answered
\* login is the job's user, and a retry asks anew.  A device that logged out or
\* in elsewhere can get a message of its former user in these cases only:
\*   it was answered after this run had read the devices, or its commit was
\*   still to come when the run read them (touched);
\*   the answer did not hold (Lapsed): its commit failed, or it was a logout that
\*   found no row because the registration it should undo had not committed.
\*   Then every run posts to the device until it is registered again or a
\*   logout finds its row.
\* A logout that was answered and has committed is seen by every later run.
PushFollowsLogin ==
    At("post") =>
        \A k \in run.tokens : \/ told[k] = job[run.job].user
                              \/ k \in touched
                              \/ told[k] = Lapsed

\* Expo takes the message of a job for a device again only for each post it
\* took and whose answer was lost: what it took and answered is never sent
\* again, by a retry, by an error in what follows or after a crash.  Of posts
\* it refused nothing is said: these are sent again, a 4xx too.
TakenAgainOnlyUnanswered ==
    \A j \in Jobs, k \in Tokens : taken[j][k] <= 1 + unanswered[j]

\* A run deletes a device only if Expo called it dead in that run and it still
\* is its user's; a live app loses its device only if a request wrote the token
\* after the run had read it.
OnlyDeadPruned ==
    [][\A k \in Tokens :
         lock[k] = Worker /\ owner'[k] # owner[k] =>
             /\ owner[k] = job[run.job].user
             /\ k \in run.dead
             /\ k \in gone \cup touched]_vars

\* A run that ends well leaves no device its user had and Expo called dead,
\* save one registered again meanwhile.
DeadArePruned ==
    [][At("prune") /\ run'.pc = "end" /\ run'.outcome = "done" =>
         \A k \in run.dead : owner'[k] # job[run.job].user \/ k \in touched]_vars

\* The rows written and not committed, and by whom; and what was told of them.
RowsHeld ==
    /\ \A x \in Sessions : ses[x] # Idle => lock[ses[x].token] = x
    /\ \A k \in Tokens :
         IF lock[k] \in Sessions
         THEN /\ ses[lock[k]] # Idle /\ ses[lock[k]].token = k
              /\ told[k] \in {Wanted(ses[lock[k]]), Lapsed}
         ELSE told[k] \in {owner[k], Lapsed}

\* What the run under way knows, holds and has done.
RunHolds ==
    /\ \A k \in Tokens : lock[k] = Worker =>
         /\ run # Idle /\ run.pc = "prune"
         /\ owner[k] = job[run.job].user /\ k \in run.dead
    /\ run # Idle =>
         /\ job[run.job] # NoJob /\ job[run.job].status = "doing"
         /\ run.pc \in {"read", "post"} => run.dead = {}
         /\ run.pc = "end" => run.outcome \in {"done", "failed", "retry"}
         /\ run.left \subseteq run.dead
         /\ run.dead \subseteq gone \cup touched
         /\ run.pc \in {"post", "wait", "prune"} =>
              \A k \in Tokens : lock[k] \in Sessions => k \in touched
         /\ run.pc = "prune" =>
              \A k \in run.dead \ run.left :
                lock[k] = Worker \/ owner[k] # job[run.job].user \/ k \in touched

AttemptsLeft ==
    \A j \in Jobs : job[j] # NoJob /\ job[j].status \in {"todo", "doing"} =>
                        job[j].attempts <= MaxAttempts

\* Job j has nothing at Expo that was not accounted for by a lost answer.
Accounted(j) == \A k \in Tokens : taken[j][k] <= unanswered[j]

PostsCounted ==
    /\ \A j \in Jobs : job[j].status \in {"none", "todo"} => Accounted(j)
    /\ run # Idle => \/ run.pc \in {"wait", "prune"}
                     \/ run.pc = "end" /\ run.outcome # "retry"
                     \/ Accounted(run.job)

\* The inductive invariant behind the safety properties above.
PushInv ==
    /\ TypeOK
    /\ RowsHeld
    /\ RunHolds
    /\ AttemptsLeft
    /\ PostsCounted
    /\ PushFollowsLogin
    /\ TakenAgainOnlyUnanswered

\* The job waits with no one to run it: its worker died.
Stalled(j) == job[j].status = "doing" /\ (run = Idle \/ run.job # j)

\* Every job ends after its attempts, whatever Expo does, unless a worker dies
\* under it.
EveryPushEnds ==
    \A j \in Jobs : job[j].status = "todo" ~>
                        job[j].status \in {"done", "failed"} \/ Stalled(j)
=============================================================================
