---------------------------- MODULE JobRegistry ----------------------------
(***************************************************************************)
(* The background jobs of agent_core/jobs.py: one JSON record per job, a   *)
(* thread pool of Workers, and HTTP threads that submit, poll and cancel.  *)
(* Everything under the registry's lock is one action; what a worker does  *)
(* outside it (taking a job from the pool, the last look at _cancel,       *)
(* execute()) is one action each.  The process may die at any moment; the  *)
(* records survive it, the pool and the sets in memory do not.             *)
(*                                                                         *)
(* Abstractions.                                                           *)
(*  - Time: a queued job becomes overdue at some moment (queue_sla).       *)
(*  - Heartbeats rewrite heartbeat_at under the lock: no step.             *)
(*  - A record holds what decisions depend on; its event list is `told',   *)
(*    the statuses that reached the project's timeline by the callback.    *)
(***************************************************************************)
EXTENDS Naturals, Sequences, FiniteSets

CONSTANTS
  Projects, Keys,   \* who asks, and under which idempotency key
  Jobs,             \* job ids (bounds the number of submissions)
  Workers,          \* threads of the pool
  None,
  Listening,        \* does the caller pass callbacks (on_event, on_recover)?
  WriteMayFail      \* may the write of a record fail (disk full)?

InFlight == {"queued", "running", "cancelling"}
Terminal == {"succeeded", "failed", "cancelled", "stalled", "interrupted"}

Record == [project : Projects, key : Keys, status : InFlight \cup Terminal]

ASSUME JobAssumption ==
  /\ None \notin Record \cup Jobs
  /\ Listening \in BOOLEAN /\ WriteMayFail \in BOOLEAN

VARIABLES
  record,     \* the job files: id -> record, or None
  pool,       \* the thread pool's queue of job ids
  job, at,    \* per worker: its job, and where _run stands
  cancelSet,  \* _cancel
  callback,   \* jobs with an entry in _callbacks
  overdue,    \* jobs submitted longer ago than the queue SLA
  phase,      \* of the process: down, recovering, up
  scan,       \* files _interrupt_orphans has yet to read
  calls,      \* how often execute() was entered, per job
  result,     \* what execute() did: None, "returned" or "raised"
  told        \* statuses written to the project's timeline, per job

memory == <<pool, job, at, cancelSet, callback>>
vars   == <<record, memory, overdue, phase, scan, calls, result, told>>

-----------------------------------------------------------------------------
Existing == {j \in Jobs : record[j] # None}

Is(j, statuses) == record[j] # None /\ record[j].status \in statuses

(* Mutant: a running job that was queued long ago expires as well.         *)
ExpirableRunning(j) == Is(j, InFlight) /\ j \in overdue

(* _expire_stalled: work that did not start within the queue SLA.          *)
Expirable(j) == Is(j, {"queued"}) /\ j \in overdue

(* Records after the members of S took status s.                           *)
With(S, s) == [j \in Jobs |-> IF j \in S THEN [record[j] EXCEPT !.status = s]
                                         ELSE record[j]]

(* _notify: a callback that raises is logged and ignored, so any of the    *)
(* jobs with a callback may fail to reach the timeline.                    *)
Notify(S, s) ==
  \E heard \in SUBSET (S \cap callback) :
    told' = [j \in Jobs |-> IF j \in heard THEN Append(told[j], s) ELSE told[j]]

Expire(S) == /\ record' = With(S, "stalled")
             /\ Notify(S, "stalled")
             /\ callback' = callback \ S

Init ==
  /\ record = [j \in Jobs |-> None]
  /\ pool = <<>>
  /\ job = [w \in Workers |-> None]
  /\ at = [w \in Workers |-> "free"]
  /\ cancelSet = {} /\ callback = {} /\ overdue = {} /\ scan = {}
  /\ phase = "up"
  /\ calls = [j \in Jobs |-> 0]
  /\ result = [j \in Jobs |-> None]
  /\ told = [j \in Jobs |-> <<>>]

-----------------------------------------------------------------------------
(* HTTP threads.                                                           *)

(* Mutant: the key is forgotten once the job is over.                      *)
MatchesInFlight(j, p, k) ==
  record[j].project = p /\ Is(j, InFlight) /\ ~ Expirable(j)

(* submit returns j when it is in flight for the project or has the key.   *)
Matches(j, p, k) ==
  /\ record[j].project = p
  /\ \/ Is(j, InFlight) /\ ~ Expirable(j)
     \/ record[j].key = k

(* The files are read in any order up to the first match; those read       *)
(* before it, and the match itself, expire when they are overdue.          *)
SubmitExisting(p, k) ==
  /\ phase = "up"
  /\ \E m \in Existing :
       /\ Matches(m, p, k)
       /\ \E seen \in SUBSET {j \in Existing : ~ Matches(j, p, k)} :
            Expire({j \in seen \cup {m} : Expirable(j)})
  /\ UNCHANGED <<pool, job, at, cancelSet, overdue, phase, scan, calls, result>>

SubmitNew(p, k, j) ==
  /\ phase = "up"
  /\ record[j] = None
  /\ \A i \in Existing : ~ Matches(i, p, k)
  /\ LET late == {i \in Existing : Expirable(i)}
     IN  /\ record' = [With(late, "stalled") EXCEPT ![j] =
                         [project |-> p, key |-> k, status |-> "queued"]]
         /\ callback' = (callback \ late) \cup (IF Listening THEN {j} ELSE {})
         /\ \E heard \in SUBSET ((late \cup {j}) \cap (callback \cup callback')) :
              told' = [i \in Jobs |->
                 IF i \notin heard THEN told[i]
                 ELSE Append(told[i], IF i = j THEN "queued" ELSE "stalled")]
  /\ pool' = Append(pool, j)
  /\ UNCHANGED <<job, at, cancelSet, overdue, phase, scan, calls, result>>

(* get, events; active_for_project and metrics read every record.          *)
Observe ==
  /\ phase = "up"
  /\ \E S \in {{j} : j \in Jobs} \cup {Existing} :
       LET late == {j \in S : Expirable(j)} IN late # {} /\ Expire(late)
  /\ UNCHANGED <<pool, job, at, cancelSet, overdue, phase, scan, calls, result>>

(* Mutant: whatever is not running is cancelled.                           *)
CancellableAll(j) == record[j] # None /\ ~ Is(j, {"running", "cancelling"})

Cancellable(j) == Is(j, {"queued"}) /\ ~ Expirable(j)

(* cancel: a queued job ends here, a running one is asked to.              *)
CancelQueued(j) ==
  /\ phase = "up"
  /\ Cancellable(j)
  /\ record' = With({j}, "cancelled")
  /\ Notify({j}, "cancelled")
  /\ callback' = callback \ {j}
  /\ UNCHANGED <<pool, job, at, cancelSet, overdue, phase, scan, calls, result>>

CancelRunning(j) ==
  /\ phase = "up"
  /\ Is(j, {"running"})
  /\ record' = With({j}, "cancelling")
  /\ cancelSet' = cancelSet \cup {j}
  /\ UNCHANGED <<pool, job, at, callback, overdue, phase, scan, calls, result,
                 told>>

-----------------------------------------------------------------------------
(* Worker threads: _run.                                                   *)

Go(w, j, place) == job' = [job EXCEPT ![w] = j] /\ at' = [at EXCEPT ![w] = place]

(* Mutant: the worker forgets to let go of its job.                        *)
ReleaseKeeping(w) == Go(w, job[w], "free")

Release(w) == Go(w, None, "free")

Take(w) ==
  /\ at[w] = "free" /\ pool # <<>>
  /\ Go(w, Head(pool), "start")
  /\ pool' = Tail(pool)
  /\ UNCHANGED <<record, cancelSet, callback, overdue, phase, scan, calls,
                 result, told>>

(* Mutant: only the SLA is checked at the start, not a cancellation.       *)
MayStartUnexpired(j) == Is(j, {"queued", "cancelled"}) /\ ~ Expirable(j)

MayStart(j) == Is(j, {"queued"}) /\ ~ Expirable(j)

(* The worker decides under the lock whether the job still may start.      *)
Start(w) ==
  /\ at[w] = "start" /\ MayStart(job[w])
  /\ record' = With({job[w]}, "running")
  /\ Notify({job[w]}, "running")
  /\ Go(w, job[w], "check")
  /\ UNCHANGED <<pool, cancelSet, callback, overdue, phase, scan, calls, result>>

Refuse(w) ==
  /\ at[w] = "start" /\ ~ MayStart(job[w])
  /\ LET late == {j \in {job[w]} : Expirable(j)}
     IN  record' = With(late, "stalled") /\ Notify(late, "stalled")
  /\ callback' = callback \ {job[w]}
  /\ Release(w)
  /\ UNCHANGED <<pool, cancelSet, overdue, phase, scan, calls, result>>

(* The last look at _cancel, without the lock.                             *)
CheckCancel(w) ==
  /\ at[w] = "check"
  /\ IF job[w] \in cancelSet
     THEN Go(w, job[w], "cancelled") /\ UNCHANGED calls
     ELSE Go(w, job[w], "execute") /\ calls' = [calls EXCEPT ![job[w]] = @ + 1]
  /\ UNCHANGED <<record, pool, cancelSet, callback, overdue, phase, scan,
                 result, told>>

Execute(w) ==
  /\ at[w] = "execute"
  /\ \E outcome \in {"returned", "raised"} :
       /\ result' = [result EXCEPT ![job[w]] = outcome]
       /\ Go(w, job[w], IF outcome = "returned" THEN "succeeded" ELSE "failed")
  /\ UNCHANGED <<record, pool, cancelSet, callback, overdue, phase, scan,
                 calls, told>>

(* The final record: succeeded (also after a late cancel), failed or       *)
(* cancelled.                                                              *)
Finish(w) ==
  /\ at[w] \in {"succeeded", "failed", "cancelled"}
  /\ record' = With({job[w]}, at[w])
  /\ Notify({job[w]}, at[w])
  /\ cancelSet' = cancelSet \ {job[w]}
  /\ callback' = callback \ {job[w]}
  /\ Release(w)
  /\ UNCHANGED <<pool, overdue, phase, scan, calls, result>>

(* The write of a record raises.  At the start the job is dropped by the   *)
(* pool and its record stays queued; the handler of a failed success write *)
(* records a failure; a failed write in a handler leaves the record.       *)
SaveFails(w) ==
  /\ WriteMayFail
  /\ \/ at[w] = "start" /\ Release(w) /\ UNCHANGED <<cancelSet, callback>>
     \/ /\ at[w] = "succeeded" /\ Go(w, job[w], "failed")
        /\ cancelSet' = cancelSet \ {job[w]} /\ UNCHANGED callback
     \/ /\ at[w] \in {"failed", "cancelled"} /\ Release(w)
        /\ callback' = callback \ {job[w]} /\ UNCHANGED cancelSet
  /\ UNCHANGED <<record, pool, overdue, phase, scan, calls, result, told>>

-----------------------------------------------------------------------------
(* The environment, and restarts.                                          *)

QueueTimePasses(j) ==
  /\ Is(j, InFlight) /\ j \notin overdue
  /\ overdue' = overdue \cup {j}
  /\ UNCHANGED <<record, memory, phase, scan, calls, result, told>>

Crash ==
  /\ phase # "down"
  /\ phase' = "down"
  /\ pool' = <<>>
  /\ job' = [w \in Workers |-> None]
  /\ at' = [w \in Workers |-> "free"]
  /\ cancelSet' = {} /\ callback' = {} /\ scan' = {}
  /\ UNCHANGED <<record, overdue, calls, result, told>>

Restart ==
  /\ phase = "down"
  /\ phase' = "recovering"
  /\ scan' = Existing
  /\ UNCHANGED <<record, memory, overdue, calls, result, told>>

(* Mutants: an orphan is only what was running; or is whatever is there.   *)
OrphanRunning(j) == Is(j, {"running", "cancelling"})
OrphanAny(j) == Is(j, InFlight \cup {"failed"})

Orphan(j) == Is(j, InFlight)

(* _interrupt_orphans: marked, never replayed; the first part of the build *)
(* of the registry, before requests are served.  A failed write is skipped.*)
InterruptOrphan(j) ==
  /\ phase = "recovering" /\ j \in scan
  /\ scan' = scan \ {j}
  /\ \/ /\ Orphan(j)
        /\ record' = With({j}, "interrupted")
        /\ told' \in {told, IF Listening
                            THEN [told EXCEPT ![j] = Append(@, "interrupted")]
                            ELSE told}
     \/ ~ Orphan(j) /\ UNCHANGED <<record, told>>
     \/ WriteMayFail /\ UNCHANGED <<record, told>>
  /\ UNCHANGED <<memory, overdue, phase, calls, result>>

Serve ==
  /\ phase = "recovering" /\ scan = {}
  /\ phase' = "up"
  /\ UNCHANGED <<record, memory, overdue, scan, calls, result, told>>

-----------------------------------------------------------------------------
Request == \E p \in Projects, k \in Keys :
             SubmitExisting(p, k) \/ \E j \in Jobs : SubmitNew(p, k, j)

(* Mutant: a worker that refuses a job never returns to the pool.          *)
WorkStuck(w) == Take(w) \/ Start(w) \/ CheckCancel(w) \/ Execute(w) \/ Finish(w)

Work(w) == \/ Take(w) \/ Start(w) \/ Refuse(w) \/ CheckCancel(w)
           \/ Execute(w) \/ Finish(w)

Recovery == Restart \/ Serve \/ \E j \in Jobs : InterruptOrphan(j)

Next == \/ Request \/ Observe
        \/ \E j \in Jobs : CancelQueued(j) \/ CancelRunning(j) \/ QueueTimePasses(j)
        \/ \E w \in Workers : Work(w) \/ SaveFails(w)
        \/ Crash \/ Recovery

Spec == Init /\ [][Next]_vars

(* Pool threads run, execute() returns or raises (every call it makes has  *)
(* a timeout), and a process that died is started again.                   *)
Fairness == /\ \A w \in Workers : WF_vars(Work(w))
            /\ WF_vars(Recovery)

FairSpec == Spec /\ Fairness

-----------------------------------------------------------------------------
(* Correctness.                                                            *)

TypeOK ==
  /\ record \in [Jobs -> Record \cup {None}]
  /\ pool \in Seq(Jobs)
  /\ job \in [Workers -> Jobs \cup {None}]
  /\ at \in [Workers -> {"free", "start", "check", "execute", "succeeded",
                         "failed", "cancelled"}]
  /\ cancelSet \subseteq Jobs /\ callback \subseteq Jobs
  /\ overdue \subseteq Jobs /\ scan \subseteq Jobs
  /\ phase \in {"down", "recovering", "up"}
  /\ \A w \in Workers : at[w] = "free" <=> job[w] = None
  /\ calls \in [Jobs -> Nat]
  /\ result \in [Jobs -> {"returned", "raised", None}]
  /\ told \in [Jobs -> Seq(InFlight \cup Terminal)]

(* A project never has two jobs in flight, whatever the tabs that submit,  *)
(* the deadlines that pass and the restarts in between.                    *)
OneJobPerProject ==
  \A i, j \in Jobs :
    Is(i, InFlight) /\ Is(j, InFlight) /\ record[i].project = record[j].project
      => i = j

(* Two workers never run the same project at once: its workflow lock is    *)
(* never contended by jobs.                                                *)
OneExecutionPerProject ==
  \A v, w \in Workers :
    at[v] = "execute" /\ at[w] = "execute"
      /\ record[job[v]].project = record[job[w]].project => v = w

(* A key is worth one execution, ever: repeated submissions, expiry and    *)
(* restarts never enter execute() a second time for it.                    *)
KeyRunsOnce ==
  \A i, j \in Existing :
    /\ calls[i] <= 1
    /\ /\ record[i].project = record[j].project /\ record[i].key = record[j].key
       /\ calls[i] > 0 /\ calls[j] > 0
       => i = j

(* What a final status says about the paid work is true: nothing ran for a *)
(* stalled ("safe to retry") or cancelled job, and a succeeded one is done.*)
OutcomeIsTrue ==
  \A j \in Existing :
    /\ Is(j, {"stalled", "cancelled", "queued"}) => calls[j] = 0
    /\ Is(j, {"succeeded"}) => result[j] = "returned"
    /\ Is(j, {"failed"}) => calls[j] = 1

(* While the process serves, every job in flight is in the pool's queue or *)
(* in the hands of a worker: no project waits for a job that nobody runs.  *)
InFlightIsBacked ==
  phase = "up" =>
    \A j \in Jobs : Is(j, InFlight) =>
      \/ \E n \in 1 .. Len(pool) : pool[n] = j
      \/ \E w \in Workers : job[w] = j

(* The timeline of a job is told each status once and ends with a final    *)
(* one.                                                                    *)
TimelineEndsOnce ==
  \A j \in Jobs : \A m, n \in 1 .. Len(told[j]) :
    /\ told[j][m] = told[j][n] => m = n
    /\ told[j][m] \in Terminal => n <= m

(* A final status never changes again.                                     *)
FinalStatusStays ==
  [][\A j \in Jobs : Is(j, Terminal) => record'[j] = record[j]]_vars

(* Unless the process keeps dying, every accepted job reaches a final      *)
(* status and its project can work again: through a full pool, refusals,   *)
(* cancellations and restarts.                                             *)
JobsEnd ==
  <>[][~ Crash]_vars => \A j \in Jobs : Is(j, InFlight) ~> Is(j, Terminal)

-----------------------------------------------------------------------------
(* What the callers are promised: see WorkOrders.                          *)
OrderPhase ==
  [o \in Projects \X Keys |->
     LET mine == {j \in Existing : record[j].project = o[1] /\ record[j].key = o[2]}
     IN  IF mine = {} THEN "none"
         ELSE LET j == CHOOSE j \in mine : TRUE
              IN  IF Is(j, Terminal) THEN "over"
                  ELSE IF calls[j] > 0 THEN "working" ELSE "waiting"]

WO == INSTANCE WorkOrders WITH order <- OrderPhase

(* Every step of the registry is a step of WorkOrders or none.             *)
ImplementsWorkOrders == WO!Spec
=============================================================================
