------------------------------ MODULE Delivery ------------------------------
(* What leaves a project: the note and the envelope of the delivered image  *)
(* that the last step exports, and the immutable candidate of every         *)
(* completed branch (agent_core/delivery.py, the delivery requests of       *)
(* main_front.py, the last step of agent_core/workflow_runner.py).          *)
(*                                                                          *)
(* Of the checkpoints only the completed ones are kept: those that hold a   *)
(* frozen delivery. The transaction that makes one is that of ProjectStore, *)
(* with the steps at which a crash makes a difference here. A text is known *)
(* by what it was made from: an image and a note, written by the model or   *)
(* filled into the template.                                                *)
EXTENDS Naturals, Sequences, FiniteSets

CONSTANTS
  Assets,        \* images that passed the quality gate
  Damaged,       \* those whose file no longer has the recorded digest
  MaxBranch,     \* bound on branches; the first is 1
  MaxAttempts,   \* bound on completed checkpoints prepared on one branch
  MaxPrepared,   \* and on all branches
  None

ASSUME DeliveryAssumption ==
  /\ Damaged \subseteq Assets /\ None \notin Assets
  /\ {MaxBranch, MaxAttempts, MaxPrepared} \subseteq Nat \ {0}

Branches == 1..MaxBranch

(* A checkpoint is named by its content, time stamps and text of the note   *)
(* included: an attempt that is repeated has a name of its own. A bundle is *)
(* named by its checkpoint and image.                                       *)
Ids == Branches \X (1..MaxAttempts)

ASSUME NoneAssumption == None \notin Ids /\ None \notin {"writer", "delivery"}

Texts == [asset : Assets, note : {"written", "template"}]

(* Mutant: the marker is written before what it vouches for.               *)
PartsMarkerFirst == <<"image", "marker", "note", "envelope">>

(* The files of a candidate in the order they are written.                 *)
Parts == <<"image", "note", "envelope", "marker">>

VARIABLES
  data,        \* checkpoint -> what it freezes; all that were ever prepared
  index,       \* checkpoints of the index
  manifest,    \* the raw manifest: branch, and checkpoint if it is completed
  branches,    \* the branches that exist
  pending,     \* the transaction of pending.json, or None
  exported,    \* design-note.md and delivery.json: what each was made from
  bundles,     \* checkpoint -> the parts of its candidate on disk
  announced,   \* checkpoint -> number of delivery_candidate_finalized events
  finalized,   \* the candidate of finalized.json
  event,       \* the candidate of the last delivery_finalized event
  lock,        \* who holds the project lock
  run,         \* the last step of the workflow
  request,     \* a request to finalize the active branch, or every one
  retry        \* a request to write the exported files again

store == <<data, index, manifest, branches, pending>>
candidates == <<bundles, announced, finalized, event>>
vars == <<store, exported, candidates, lock, run, request, retry>>

Idle == [pc |-> "idle"]
NoRequest == [pc |-> "idle", all |-> FALSE, todo |-> {}]
Unfinished(b) == [branch |-> b, point |-> None]

Put(f, k, v) == [x \in DOMAIN f \cup {k} |-> IF x = k THEN v ELSE f[x]]

Init ==
  /\ data = <<>> /\ index = {} /\ bundles = <<>>
  /\ manifest = Unfinished(1) /\ branches = {1} /\ pending = None
  /\ exported = [note |-> None, envelope |-> None]
  /\ announced = [id \in Ids |-> 0]
  /\ finalized = None /\ event = None
  /\ lock = None /\ run = Idle /\ request = NoRequest /\ retry = Idle

(* What a reader takes for the manifest.                                    *)
Committed == IF pending = None THEN manifest ELSE pending.previous

----------------------------------------------------------------------------
(* Transactions.                                                            *)

(* The next name of a branch.                                               *)
Fresh(b, id) ==
  /\ id \in Ids \ DOMAIN data /\ id[1] = b
  /\ \A k \in 1..MaxAttempts : k < id[2] => <<b, k>> \in DOMAIN data

Room(b) ==
  /\ Cardinality(DOMAIN data) < MaxPrepared
  /\ \E k \in 1..MaxAttempts : Fresh(b, <<b, k>>)

Begin(id, frozen) ==
  /\ Room(id[1]) /\ Fresh(id[1], id)
  /\ data' = Put(data, id, frozen)
  /\ pending' = [id |-> id, step |-> "intent", previous |-> manifest]

(* The file and its entry in the index, and then the manifest.              *)
Save ==
  /\ lock = "writer" /\ run.pc = "commit" /\ pending.step = "intent"
  /\ index' = index \cup {pending.id}
  /\ pending' = [pending EXCEPT !.step = "saved"]
  /\ branches' = branches \cup {pending.id[1]}
  /\ UNCHANGED <<data, manifest, exported, candidates, lock, run, request,
                retry>>

Swap ==
  /\ lock = "writer" /\ run.pc = "commit" /\ pending.step = "saved"
  /\ manifest' = [branch |-> pending.id[1], point |-> pending.id]
  /\ pending' = [pending EXCEPT !.step = "swapped"]
  /\ UNCHANGED <<data, index, branches, exported, candidates, lock, run,
                request, retry>>

Commit ==
  /\ lock = "writer" /\ run.pc = "commit" /\ pending.step = "swapped"
  /\ pending' = None /\ lock' = None /\ run' = Idle
  /\ UNCHANGED <<data, index, manifest, branches, exported, candidates,
                request, retry>>

(* Recovery, with which every transaction begins.                           *)
Recover ==
  /\ pending # None
  /\ lock = None \/ (lock = "writer" /\ run.pc = "recover")
  /\ pending' = None
  /\ IF pending.step = "swapped" THEN UNCHANGED <<index, manifest, branches>>
     ELSE /\ index' = index \ {pending.id}
          /\ manifest' = pending.previous
          /\ branches' = IF pending.previous.branch = pending.id[1]
                         THEN branches ELSE branches \ {pending.id[1]}
  /\ UNCHANGED <<data, exported, candidates, lock, run, request, retry>>

----------------------------------------------------------------------------
(* The last step of the workflow: it exports the note and the envelope and  *)
(* then checkpoints the frozen delivery, on the branch of the raw manifest  *)
(* after recovery, whatever branch its snapshot was of. Further branches    *)
(* are reruns of an earlier stage, or forks of a completed checkpoint.      *)

Final(asset, note) ==
  /\ lock = None /\ Committed.point = None
  /\ Room(Committed.branch) /\ Room(manifest.branch)
  /\ lock' = "writer"
  /\ run' = [pc |-> "note", text |-> [asset |-> asset, note |-> note]]
  /\ UNCHANGED <<store, exported, candidates, request, retry>>

ExportNote ==
  /\ run.pc = "note"
  /\ exported' = [exported EXCEPT !.note = run.text]
  /\ run' = [run EXCEPT !.pc = "envelope"]
  /\ UNCHANGED <<store, candidates, lock, request, retry>>

ExportEnvelope ==
  /\ run.pc = "envelope"
  /\ exported' = [exported EXCEPT !.envelope = run.text]
  /\ run' = [run EXCEPT !.pc = "recover"]
  /\ UNCHANGED <<store, candidates, lock, request, retry>>

Checkpoint(id) ==
  /\ run.pc = "recover" /\ pending = None
  /\ id[1] = manifest.branch /\ Begin(id, run.text)
  /\ run' = [run EXCEPT !.pc = "commit"]
  /\ UNCHANGED <<index, manifest, branches, exported, candidates, lock,
                request, retry>>

Fork(id, target) ==
  /\ lock = None /\ pending = None
  /\ id \in index /\ target[1] \notin branches
  /\ Begin(target, data[id])
  /\ lock' = "writer" /\ run' = [pc |-> "commit", text |-> data[id]]
  /\ UNCHANGED <<index, manifest, branches, exported, candidates, request,
                retry>>

Rerun(b) ==
  /\ lock = None /\ pending = None /\ b \in Branches \ branches
  /\ branches' = branches \cup {b} /\ manifest' = Unfinished(b)
  /\ UNCHANGED <<data, index, pending, exported, candidates, lock, run,
                request, retry>>

Switch(id) ==
  /\ lock = None /\ pending = None /\ id \in index
  /\ manifest' = [branch |-> id[1], point |-> id]
  /\ UNCHANGED <<data, index, branches, pending, exported, candidates, lock,
                run, request, retry>>

----------------------------------------------------------------------------
(* The exported files are written again from the template, without a lock.  *)

RetryNote ==
  /\ retry = Idle /\ Committed.point # None
  /\ retry' = [pc |-> "note",
               text |-> [asset |-> data[Committed.point].asset,
                         note |-> "template"]]
  /\ UNCHANGED <<store, exported, candidates, lock, run, request>>

RewriteNote ==
  /\ retry.pc = "note"
  /\ exported' = [exported EXCEPT !.note = retry.text]
  /\ retry' = [retry EXCEPT !.pc = "envelope"]
  /\ UNCHANGED <<store, candidates, lock, run, request>>

RewriteEnvelope ==
  /\ retry.pc = "envelope"
  /\ exported' = [exported EXCEPT !.envelope = retry.text]
  /\ retry' = Idle
  /\ UNCHANGED <<store, candidates, lock, run, request>>

----------------------------------------------------------------------------
(* Candidates. A request finalizes the checkpoint of the raw manifest, or   *)
(* those of the index one after the other.                                  *)

Precedes(i, j) == i[1] < j[1] \/ (i[1] = j[1] /\ i[2] < j[2])

Ask(all, ids) ==
  /\ lock = None /\ request = NoRequest
  /\ lock' = "delivery"
  /\ request' = [pc |-> "bundle", all |-> all, todo |-> ids]
  /\ UNCHANGED <<store, exported, candidates, run, retry>>

FinalizeActive == manifest.point # None /\ Ask(FALSE, {manifest.point})

(* Mutant: only the active branch is discovered.                           *)
FinalizeAllActive == manifest.point # None /\ Ask(TRUE, {manifest.point})

FinalizeAll == Ask(TRUE, index)

(* The candidate that is made, those listed before it being done.           *)
At(pc, id) ==
  /\ request.pc = pc /\ id \in request.todo
  /\ \A j \in request.todo \ {id} : Precedes(id, j)

(* Mutant: a candidate takes the exported note.                            *)
TextOfExport(id) == exported.note

(* The text of a candidate is that of the frozen checkpoint.                *)
TextOf(id) == data[id]

Written(id) == IF id \in DOMAIN bundles THEN bundles[id] ELSE <<>>
Has(id, part) == part \in DOMAIN Written(id)

(* A file of a candidate is created once; one that exists must be the same. *)
Conflicts(id, part) ==
  Has(id, part) /\ part # "marker" /\ Written(id)[part] # TextOf(id)

WritePart(id, n) ==
  /\ At("bundle", id) /\ ~Has(id, "marker")
  /\ data[id].asset \notin Damaged
  /\ \A i \in DOMAIN Parts : ~Conflicts(id, Parts[i])
  /\ ~Has(id, Parts[n]) /\ \A i \in DOMAIN Parts : i < n => Has(id, Parts[i])
  /\ bundles' = Put(bundles, id, Put(Written(id), Parts[n], TextOf(id)))
  /\ UNCHANGED <<store, exported, announced, finalized, event, lock, run,
                request, retry>>

Announce(id) ==
  /\ At("bundle", id) /\ Has(id, "marker")
  /\ announced' = IF announced[id] > 0 THEN announced
                  ELSE [announced EXCEPT ![id] = @ + 1]
  /\ request' = IF request.all THEN [request EXCEPT !.todo = @ \ {id}]
                ELSE [request EXCEPT !.pc = "publish"]
  /\ UNCHANGED <<store, exported, bundles, finalized, event, lock, run, retry>>

(* Mutant: the lock is not given back.                                     *)
EndsHoldingLock == lock' = lock /\ request' = NoRequest

Ends == lock' = None /\ request' = NoRequest

(* One candidate that cannot be made fails the whole request.               *)
Fails(id) ==
  /\ At("bundle", id) /\ ~Has(id, "marker")
  /\ \/ data[id].asset \in Damaged
     \/ \E i \in DOMAIN Parts : Conflicts(id, Parts[i])
  /\ Ends
  /\ UNCHANGED <<store, exported, candidates, run, retry>>

AnswerAll ==
  /\ request.pc = "bundle" /\ request.todo = {}
  /\ Ends
  /\ UNCHANGED <<store, exported, candidates, run, retry>>

(* finalized.json is replaced, and the event appended if it named another.  *)
Publish(id) ==
  /\ At("publish", id)
  /\ finalized' = id
  /\ IF finalized = id THEN Ends
     ELSE request' = [request EXCEPT !.pc = "event"] /\ UNCHANGED lock
  /\ UNCHANGED <<store, exported, bundles, announced, event, run, retry>>

AppendEvent(id) ==
  /\ At("event", id)
  /\ event' = id /\ Ends
  /\ UNCHANGED <<store, exported, bundles, announced, finalized, run, retry>>

Crash ==
  /\ lock # None \/ retry # Idle
  /\ lock' = None /\ run' = Idle /\ request' = NoRequest /\ retry' = Idle
  /\ UNCHANGED <<store, exported, candidates>>

----------------------------------------------------------------------------

Transaction ==
  \/ \E id \in Ids : Checkpoint(id)
  \/ Save \/ Swap \/ Commit \/ (lock = "writer" /\ Recover)
Export == ExportNote \/ ExportEnvelope
Retry == RetryNote \/ RewriteNote \/ RewriteEnvelope
Answer ==
  \/ \E id \in request.todo : \/ \E n \in DOMAIN Parts : WritePart(id, n)
                             \/ Announce(id) \/ Fails(id)
                             \/ Publish(id) \/ AppendEvent(id)
  \/ AnswerAll

Next ==
  \/ \E a \in Assets, n \in {"written", "template"} : Final(a, n)
  \/ \E b \in Branches : Rerun(b)
  \/ \E id \in index : Switch(id) \/ \E target \in Ids : Fork(id, target)
  \/ Transaction \/ Recover \/ Export \/ Retry
  \/ FinalizeActive \/ FinalizeAll \/ Answer
  \/ Crash

Spec == Init /\ [][Next]_vars

(* A thread that holds the lock goes on to the end of its handler, and the  *)
(* owner of a project that asks for its candidates again and again gets the *)
(* lock in the end.                                                         *)
Fairness ==
  /\ WF_vars(Transaction) /\ WF_vars(Export) /\ WF_vars(Answer)
  /\ SF_vars(FinalizeAll)

FairSpec == Spec /\ Fairness

----------------------------------------------------------------------------

Manifests == [branch : Branches, point : Ids \cup {None}]

IntentOK ==
  /\ pending \in [id : Ids, step : {"intent", "saved", "swapped"},
                  previous : Manifests]
  /\ pending.id \in DOMAIN data
  /\ pending.step # "intent" => pending.id \in index
  /\ pending.previous.point \in (index \cup {None}) \ {pending.id}

StoreOK ==
  /\ DOMAIN data \subseteq Ids /\ \A id \in DOMAIN data : data[id] \in Texts
  /\ index \subseteq DOMAIN data /\ branches \subseteq Branches
  /\ manifest \in Manifests /\ manifest.point \in index \cup {None}
  /\ pending = None \/ IntentOK

FilesOK ==
  /\ exported \in [note : Texts \cup {None}, envelope : Texts \cup {None}]
  /\ DOMAIN bundles \subseteq DOMAIN data
  /\ announced \in [Ids -> Nat]
  /\ {finalized, event} \subseteq DOMAIN bundles \cup {None}

ThreadsOK ==
  /\ run \in {Idle} \cup
            [pc : {"note", "envelope", "recover", "commit"}, text : Texts]
  /\ retry \in {Idle} \cup [pc : {"note", "envelope"}, text : Texts]
  /\ request \in {NoRequest} \cup
                [pc : {"bundle", "publish", "event"}, all : BOOLEAN,
                 todo : SUBSET DOMAIN data]
  /\ lock = IF run # Idle THEN "writer"
            ELSE IF request # NoRequest THEN "delivery" ELSE None
  /\ run = Idle \/ request = NoRequest
  /\ run.pc = "commit" => IntentOK
  /\ request.pc \in {"publish", "event"} => request.todo \subseteq DOMAIN bundles
  /\ request.all \/ \A i, j \in request.todo : i = j

(* The files and requests have their forms; the manifest and the index name *)
(* checkpoints that were prepared, and a request or step holds the lock.    *)
TypeOK == StoreOK /\ FilesOK /\ ThreadsOK

(* Whoever finds the marker of a candidate finds the whole bundle, made     *)
(* from the frozen checkpoint it is named after, at any moment and after    *)
(* any crash; a candidate is announced once, however often it is asked for, *)
(* and never before its marker is there (delivery.py:177-258,               *)
(* main_front.py:1320-1333).                                                *)
CandidateIsWhole ==
  \A id \in Ids :
    /\ Has(id, "marker") =>
         \A i \in DOMAIN Parts : Has(id, Parts[i]) /\ Written(id)[Parts[i]] = data[id]
    /\ announced[id] <= 1
    /\ announced[id] = 1 => Has(id, "marker")

(* A bundle that a crash left incomplete can always be completed: the next  *)
(* request makes the same bytes, although the exported note may have been   *)
(* written again and other branches delivered since (delivery.py:131-147).  *)
BundleNeverConflicts ==
  \A id \in request.todo : \A i \in DOMAIN Parts : ~Conflicts(id, Parts[i])

(* Once crashes stop, every completed checkpoint that stays in the index is *)
(* announced as a candidate, unless its image or that of one listed before  *)
(* it is damaged (main_front.py:1367-1399).                                 *)
Listed(id) ==
  /\ id \in index
  /\ \A j \in index : (j = id \/ Precedes(j, id)) => data[j].asset \notin Damaged

CandidatesDelivered ==
  <>[][~Crash]_vars =>
    \A id \in Ids : <>[]Listed(id) => <>(announced[id] = 1)
=============================================================================
