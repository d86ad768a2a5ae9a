--------------------------- MODULE CandidateBatch ---------------------------
(***************************************************************************)
(* The candidates of agent_core/batch.py: one paid image per slot, at most *)
(* MaxWorkers at a time, over the calls of ModelGateway.  A candidate that *)
(* was stored is in the event log and is never rendered again; a batch     *)
(* with a failed slot fails as a whole, and the user may start it again.   *)
(*                                                                         *)
(* A slot and the key of its call are one: its idempotency key is the      *)
(* plan's (scope, prompt, size), which a repeated batch does not change.   *)
(***************************************************************************)
EXTENDS Naturals, Sequences, FiniteSets

CONSTANTS Slots, MaxWorkers, Humans, None, MaxCalls, MaxLost

VARIABLES
  log, at, asked, charged,  \* of ModelGateway
  batch,    \* none, running, raised, complete
  todo,     \* slots of the running batch that no thread has taken
  active,   \* slots in the hands of a thread
  failed,   \* slots of the running batch that failed
  stored,   \* slots with a candidate_succeeded event
  excuses   \* per slot, reasons to pay for it once more

gateway == <<log, at, asked, charged>>
vars    == <<gateway, batch, todo, active, failed, stored, excuses>>

G == INSTANCE ModelGateway WITH Keys <- Slots

ASSUME BatchAssumption ==
  /\ MaxWorkers \in Nat \ {0}
  /\ None \notin Slots
  /\ MaxCalls \in Nat /\ MaxLost \in Nat

Excuse(S) == excuses' = [k \in Slots |-> IF k \in S THEN excuses[k] + 1
                                         ELSE excuses[k]]

Init == /\ G!Init
        /\ batch = "none"
        /\ todo = {} /\ active = {} /\ failed = {} /\ stored = {}
        /\ excuses = [k \in Slots |-> 0]

(* Mutant: what an earlier batch stored is not looked up.                  *)
PendingAll == Slots

(* Slots without a stored candidate of this scope.                         *)
Pending == Slots \ stored

(* generate, under the project lock: a new batch, also after a failure or  *)
(* a restart.                                                              *)
Generate ==
  /\ batch \in {"none", "raised"}
  /\ batch' = "running"
  /\ todo' = Pending
  /\ failed' = {}
  /\ UNCHANGED <<gateway, active, stored, excuses>>

(* Mutant: the gateway lets a call with an unknown outcome start again.    *)
TakeBlind(k) ==
  /\ batch = "running" /\ k \in todo /\ at[k] = "idle"
  /\ Cardinality(active) < MaxWorkers /\ G!Count(k, "started") < MaxCalls
  /\ G!Goes(k, "started") /\ G!Logged(k, "started")
  /\ todo' = todo \ {k} /\ active' = active \cup {k}
  /\ UNCHANGED <<asked, charged, batch, failed, stored, excuses>>

(* A thread of the pool takes a slot; its call is refused or starts.       *)
Take(k) ==
  /\ batch = "running" /\ k \in todo
  /\ Cardinality(active) < MaxWorkers
  /\ G!Start(k) \/ G!Refuse(k)
  /\ todo' = todo \ {k} /\ active' = active \cup {k}
  /\ UNCHANGED <<batch, failed, stored, excuses>>

(* A charge without a usable answer is a reason; a lost answer is none.    *)
Render(k) ==
  /\ k \in active
  /\ G!Invoke(k)
  /\ Excuse({j \in {k} : at'[j] = "raised" /\ charged'[j] # charged[j]})
  /\ UNCHANGED <<batch, todo, active, failed, stored>>

Record(k) ==
  /\ k \in active
  /\ \/ G!Record(k) /\ UNCHANGED excuses
     \/ G!RecordFails(k) /\ Excuse({k})
  /\ UNCHANGED <<batch, todo, active, failed, stored>>

(* The image is persisted and the event appended, ...                      *)
Store(k) ==
  /\ k \in active /\ at[k] = "returned"
  /\ G!Return(k)
  /\ stored' = stored \cup {k}
  /\ active' = active \ {k}
  /\ UNCHANGED <<batch, todo, failed, excuses>>

(* ... or the image cannot be read or stored; or the call raised.          *)
Fail(k) ==
  /\ k \in active
  /\ G!Return(k)
  /\ IF at[k] = "returned" THEN Excuse({k}) ELSE UNCHANGED excuses
  /\ failed' = failed \cup {k}
  /\ active' = active \ {k}
  /\ UNCHANGED <<batch, todo, stored>>

(* Mutant: a slot counts as done only if it is stored.                     *)
FinishStored ==
  /\ batch = "running" /\ todo = {} /\ active = {} /\ failed = {}
  /\ batch' = "complete"
  /\ UNCHANGED <<gateway, todo, active, failed, stored, excuses>>

(* Mutant: a batch with images and failures is a success in part.          *)
FinishPartial ==
  /\ batch = "running" /\ todo = {} /\ active = {}
  /\ batch' = IF failed = {} THEN "complete" ELSE "partial"
  /\ UNCHANGED <<gateway, todo, active, failed, stored, excuses>>

(* The pool is empty: CandidateBatchError, or the checkpoint is written.   *)
Finish ==
  /\ batch = "running" /\ todo = {} /\ active = {}
  /\ batch' = IF failed = {} THEN "complete" ELSE "raised"
  /\ UNCHANGED <<gateway, todo, active, failed, stored, excuses>>

Decide ==
  \/ \E h \in Humans, k \in Slots : G!CheckUnresolved(h, k) /\ UNCHANGED excuses
  \/ \E h \in Humans : G!Resolve(h) /\ Excuse({asked[h]})

Human == Decide /\ UNCHANGED <<batch, todo, active, failed, stored>>

Crash ==
  /\ batch = "running"
  /\ \/ G!Crash
     \/ active = {} /\ (\A h \in Humans : asked[h] = None) /\ UNCHANGED gateway
  /\ Excuse({k \in active : at[k] # "raised"})
  /\ batch' = "none" /\ todo' = {} /\ active' = {} /\ failed' = {}
  /\ UNCHANGED stored

Work == \/ Finish
        \/ \E k \in Slots : \/ Take(k) \/ Render(k) \/ Record(k) \/ Store(k)
                            \/ Fail(k)

Next == Generate \/ Work \/ Human \/ Crash

Spec == Init /\ [][Next]_vars

(* The threads run and every provider call has a timeout.                  *)
Fairness == WF_vars(Work)

FairSpec == Spec /\ Fairness

-----------------------------------------------------------------------------
TypeOK ==
  /\ G!TypeOK
  /\ batch \in {"none", "running", "raised", "complete"}
  /\ todo \subseteq Slots /\ active \subseteq Slots
  /\ failed \subseteq Slots /\ stored \subseteq Slots
  /\ excuses \in [Slots -> Nat]

(* A stored candidate is never paid for again, by whatever batch, retry or *)
(* restart.                                                                *)
StoredIsPaidOnce ==
  [][\A k \in stored : charged'[k] = charged[k]]_vars

(* A slot is charged a second time only for a reason: the provider refused *)
(* or answered rubbish, the process died or could not write, or a human    *)
(* settled an unknown outcome (as abandoned, too: the gateway takes any    *)
(* decision for a permission).                                             *)
PaidAgainForAReason ==
  \A k \in Slots : charged[k] <= 1 + excuses[k]

(* The batch moves on only with an image in every slot: a partial failure  *)
(* never becomes a checkpoint.                                             *)
CompleteHasAll == batch = "complete" => stored = Slots

(* Whatever fails in it, a batch ends: no thread of the pool is lost and   *)
(* the project lock is released, unless the process keeps dying.           *)
BatchEnds ==
  (/\ <>[][~ Crash]_vars
   /\ [](\A k \in Slots : G!Count(k, "started") < MaxCalls))
  => (batch = "running" ~> batch # "running")
=============================================================================
