---------------------------- MODULE ProjectStore ----------------------------
(***************************************************************************)
(* The write-ahead transactions of storage/project_store.py, one action    *)
(* per durable write.  A project is a directory of JSON documents, each    *)
(* replaced atomically (atomic_json): manifest.json, branches.json,        *)
(* runtime_policy.json, checkpoints/index.json, the checkpoint files and   *)
(* transactions/pending.json, the intent of the operation in progress.     *)
(* Writers hold the project lock for a whole operation, so one operation   *)
(* is in progress at a time (pc); the process may crash, or a write may    *)
(* fail, between any two writes, and the next writer recovers first.       *)
(*                                                                         *)
(* Abstractions.                                                           *)
(*  - The payload of a checkpoint is the workflow state it records: its    *)
(*    path (branch/seq-state) and its content hash identify the same data. *)
(*  - A configuration binding (revision, policy and their hashes) is one   *)
(*    member of Policies; the request hash of an apply is its binding.     *)
(*  - While an operation runs, the intent in memory and the one on disk    *)
(*    are equal, so `pending' stands for both.  The second write of a      *)
(*    checkpoint's intent changes only its status text and is left out.    *)
(*  - Every intent carries previous_manifest: the fallback for intents of  *)
(*    older releases is left out.                                          *)
(***************************************************************************)
EXTENDS Naturals

CONSTANTS Branches, Main, States, MaxSeq, Policies, InitPolicy, Keys, None

CONSTANT RollbackMayFail   \* may a write of a rollback itself fail?

Ckpt == [branch : Branches, seq : 1 .. MaxSeq, state : States]

(* An entry of branches.json; its parent is the branch of `from'.          *)
Details == [from   : Ckpt \cup {None},
            policy : Policies,
            key    : Keys \cup {None}]

(* manifest.json: current_branch, current_checkpoint and failed_step.      *)
Manifest == [branch : Branches, ptr : Ckpt \cup {None},
             failed : States \cup {None}]

(* transactions/pending.json.  `publish' says whether the caller asked for *)
(* an effect outside the project (after_persist) and whether it happened.  *)
Intent == [kind         : {"checkpoint", "branch", "config"},
           branch       : Branches,
           target       : Ckpt \cup {None},
           from         : Ckpt \cup {None},
           policy       : Policies,
           key          : Keys \cup {None},
           publish      : {"no", "required", "done"},
           prevManifest : Manifest,
           prevPolicy   : Policies,
           prevBranches : [Branches -> Details \cup {None}],
           prevApplied  : [Keys -> Policies \cup {None}]]

ASSUME StoreAssumption ==
  /\ Main \in Branches
  /\ InitPolicy \in Policies
  /\ MaxSeq \in Nat \ {0}
  /\ RollbackMayFail \in BOOLEAN
  /\ None \notin Ckpt \cup Branches \cup States \cup Policies \cup Keys
                 \cup Details \cup Intent

VARIABLES
  manifest,    \* manifest.json
  files,       \* the checkpoint files on disk
  index,       \* checkpoints/index.json
  branches,    \* the branches of branches.json
  applied,     \* its config_applies: key -> the binding applied before start
  policyFile,  \* runtime_policy.json
  pending,     \* transactions/pending.json
  stepEvents,  \* checkpoint -> number of its step_succeeded events
  forkEvents,  \* branch -> number of its branch_created events
  confEvents,  \* binding -> number of its config_revision_applied events
  started,     \* has a step_started event been recorded?
  published,   \* bindings published outside the project by after_persist
  pc           \* the next write of the operation in progress

control == <<manifest, files, index, branches, applied, policyFile>>
log     == <<stepEvents, forkEvents, confEvents>>
vars    == <<control, log, pending, started, published, pc>>

-----------------------------------------------------------------------------
(* What the operations read.                                               *)

Init ==
  /\ manifest = [branch |-> Main, ptr |-> None, failed |-> None]
  /\ files = {}
  /\ index = {}
  /\ branches = [b \in Branches |->
       IF b = Main THEN [from |-> None, policy |-> InitPolicy, key |-> None]
                   ELSE None]
  /\ applied = [k \in Keys |-> None]
  /\ policyFile = InitPolicy
  /\ pending = None
  /\ stepEvents = [c \in Ckpt |-> 0]
  /\ forkEvents = [b \in Branches |-> 0]
  /\ confEvents = [p \in Policies |-> 0]
  /\ started = FALSE
  /\ published = {}
  /\ pc = "idle"

(* Checkpoints that CheckpointStore.load accepts.                          *)
Loadable == files \cap index

(* Mutant: a reader opens manifest.json whatever the intent says.           *)
ReadManifestRaw == manifest

(* The manifest projection of the lock-free readers.                       *)
ReadManifest == IF pending = None THEN manifest ELSE pending.prevManifest

(* Mutant: a listing that hides nothing.                                   *)
ListedBranchesRaw == branches

(* Readers see neither the branch and checkpoint of an intent (branches()) *)
(* nor the binding it is about to apply (active_config_binding).           *)
ListedCheckpoints == IF pending = None THEN index ELSE index \ {pending.target}
ListedBranches ==
  IF pending = None THEN branches
  ELSE [b \in Branches |->
          CASE pending.kind = "branch" /\ b = pending.branch -> None
            [] pending.kind = "config" /\ b = pending.branch
                 -> pending.prevBranches[b]
            [] OTHER -> branches[b]]

(* Mutant: the receipts of applies before the start are not consulted.     *)
AppliedByBranch(k) == \E b \in Branches : branches[b] # None /\ branches[b].key = k

(* find_config_apply: was this key already used for an apply?              *)
Applied(k) ==
  \/ applied[k] # None
  \/ \E b \in Branches : branches[b] # None /\ branches[b].key = k

(* _transaction_complete: every document shows the effect of the intent.   *)
Persisted(i) ==
  IF i.kind = "config"
  THEN /\ manifest.ptr = None
       /\ manifest.branch = i.branch
       /\ branches[i.branch].policy = i.policy
       /\ applied[i.key] = i.policy
       /\ policyFile = i.policy
  ELSE /\ manifest.ptr = i.target
       /\ manifest.branch = i.branch
       /\ i.target \in Loadable
       /\ i.kind = "branch" =>
            /\ branches[i.branch] =
                 [from |-> i.from, policy |-> i.policy, key |-> i.key]
            /\ policyFile = i.policy

(* Mutant: recovery forgets to ask whether after_persist has run.          *)
CompleteUnpublished(i) == Persisted(i)

Complete(i) == i.publish # "required" /\ Persisted(i)

Idle == pc = "idle"

(* _recover_transaction has nothing left to do: a writer may start.        *)
Quiet == Idle /\ pending = None

-----------------------------------------------------------------------------
(* checkpoint(state, data): the intent, then file, index, manifest, event. *)

(* Mutant: the first checkpoint of a branch is number 0.                   *)
NextSeqFromZero == IF manifest.ptr = None THEN 0 ELSE manifest.ptr.seq + 1

NextSeq == IF manifest.ptr = None \/ manifest.ptr.branch # manifest.branch
           THEN 1 ELSE manifest.ptr.seq + 1

(* Every intent carries the documents that a rollback restores.            *)
NewIntent(kind, branch, target, from, policy, key, publish) ==
  [kind |-> kind, branch |-> branch, target |-> target, from |-> from,
   policy |-> policy, key |-> key, publish |-> publish,
   prevManifest |-> manifest, prevPolicy |-> policyFile,
   prevBranches |-> branches, prevApplied |-> applied]

BeginCheckpoint(s) ==
  /\ Quiet
  /\ NextSeq <= MaxSeq
  /\ pending' = NewIntent("checkpoint", manifest.branch,
                   [branch |-> manifest.branch, seq |-> NextSeq, state |-> s],
                   None, policyFile, None, "no")
  /\ pc' = "file"
  /\ UNCHANGED <<control, log, started, published>>

(* CheckpointStore.save refuses to overwrite a checkpoint file: the        *)
(* exception leaves the intent behind.                                     *)
WriteFile ==
  /\ pc = "file"
  /\ IF pending.target \in files
     THEN pc' = "idle" /\ UNCHANGED files
     ELSE pc' = "index" /\ files' = files \cup {pending.target}
  /\ UNCHANGED <<manifest, index, branches, applied, policyFile, log, pending,
                 started, published>>

WriteIndex ==
  /\ pc = "index"
  /\ index' = index \cup {pending.target}
  /\ pc' = "manifest"
  /\ UNCHANGED <<manifest, files, branches, applied, policyFile, log, pending,
                 started, published>>

WriteManifest ==
  /\ pc = "manifest"
  /\ manifest' = [branch |-> pending.branch, ptr |-> pending.target,
                  failed |-> None]
  /\ pc' = IF pending.kind = "branch" THEN "policy" ELSE "event"
  /\ UNCHANGED <<files, index, branches, applied, policyFile, log, pending,
                 started, published>>

(* The event that announces the commit; one counter per kind of event.     *)
Announce ==
  /\ stepEvents' = IF pending.kind = "checkpoint"
                   THEN [stepEvents EXCEPT ![pending.target] = @ + 1]
                   ELSE stepEvents
  /\ forkEvents' = IF pending.kind = "branch"
                   THEN [forkEvents EXCEPT ![pending.branch] = @ + 1]
                   ELSE forkEvents
  /\ confEvents' = IF pending.kind = "config"
                   THEN [confEvents EXCEPT ![pending.policy] = @ + 1]
                   ELSE confEvents

WriteEvent ==
  /\ pc = "event"
  /\ Announce
  /\ pc' = "unlink"
  /\ UNCHANGED <<control, pending, started, published>>

Unlink ==
  /\ pc = "unlink"
  /\ pending' = None
  /\ pc' = "idle"
  /\ UNCHANGED <<control, log, started, published>>

-----------------------------------------------------------------------------
(* branch_from(checkpoint, name, config_binding, key, after_persist).      *)
(* Only the configuration APIs pass a key or an after_persist, and they    *)
(* refuse a key that was used before.                                      *)
BeginBranch(c, b, p, k, publish) ==
  /\ Quiet
  /\ c \in Loadable
  /\ branches[b] = None
  /\ branches[c.branch] # None
  /\ IF k = None THEN publish = "no" ELSE ~ Applied(k)
  /\ pending' = NewIntent("branch", b,
                   [branch |-> b, seq |-> 1, state |-> c.state],
                   c, p, k, publish)
  /\ pc' = "branches"
  /\ UNCHANGED <<control, log, started, published>>

(* branches.json: the new branch, or the new binding and its receipt.      *)
WriteBranches ==
  /\ pc = "branches"
  /\ IF pending.kind = "branch"
     THEN /\ branches' = [branches EXCEPT ![pending.branch] =
                [from |-> pending.from, policy |-> pending.policy,
                 key |-> pending.key]]
          /\ pc' = "file"
          /\ UNCHANGED applied
     ELSE /\ branches' = [branches EXCEPT ![pending.branch].policy =
                                                       pending.policy]
          /\ applied' = [applied EXCEPT ![pending.key] = pending.policy]
          /\ pc' = "verify"
  /\ UNCHANGED <<manifest, files, index, policyFile, log, pending, started,
                 published>>

WritePolicy ==
  /\ pc = "policy"
  /\ policyFile' = pending.policy
  /\ pc' = IF pending.kind = "branch" THEN "verify" ELSE "branches"
  /\ UNCHANGED <<manifest, files, index, branches, applied, log, pending,
                 started, published>>

(* The check after the writes; verify() and a failed check raise, which    *)
(* WriteFails covers.  A branch is published only once it is persisted.    *)
Verify ==
  /\ pc = "verify"
  /\ Persisted(pending)
  /\ pc' = IF pending.kind = "branch" /\ pending.publish = "required"
           THEN "publish" ELSE "event"
  /\ UNCHANGED <<control, log, pending, started, published>>

(* after_persist: publish_revision outside the project.                    *)
Publish ==
  /\ pc = "publish"
  /\ published' = published \cup {pending.policy}
  /\ pc' = "published"
  /\ UNCHANGED <<control, log, pending, started>>

(* after_persist_complete becomes true in the intent.                      *)
MarkPublished ==
  /\ pc = "published"
  /\ pending' = [pending EXCEPT !.publish =
                   IF @ = "required" THEN "done" ELSE @]
  /\ pc' = IF pending.kind = "branch" THEN "event" ELSE "policy"
  /\ UNCHANGED <<control, log, started, published>>

-----------------------------------------------------------------------------
(* apply_config_before_start(binding, key, after_persist): allowed while   *)
(* nothing was recorded; published first, then policy and branches.        *)
BeginConfig(p, k, publish) ==
  /\ Quiet
  /\ ~ Applied(k)
  /\ manifest.ptr = None /\ index = {} /\ ~ started
  /\ pending' = NewIntent("config", manifest.branch, None, None, p, k, publish)
  /\ pc' = IF publish = "required" THEN "publish" ELSE "published"
  /\ UNCHANGED <<control, log, started, published>>

-----------------------------------------------------------------------------
(* switch_branch(checkpoint): two writes and no intent.                    *)

(* Mutant: work may continue from any checkpoint of a branch.              *)
IsHeadAny(c) == TRUE

IsHead(c) == \A d \in index : d.branch = c.branch => d.seq <= c.seq

SwitchBranch(c) ==
  /\ Quiet
  /\ c \in Loadable /\ IsHead(c)
  /\ branches[c.branch] # None
  /\ manifest' = [branch |-> c.branch, ptr |-> c, failed |-> None]
  /\ pc' = "switched"
  /\ UNCHANGED <<files, index, branches, applied, policyFile, log, pending,
                 started, published>>

SwitchPolicy ==
  /\ pc = "switched"
  /\ policyFile' = branches[manifest.branch].policy
  /\ pc' = "idle"
  /\ UNCHANGED <<manifest, files, index, branches, applied, log, pending,
                 started, published>>

(* start_step and fail_step write without recovering first.                *)
StartStep ==
  /\ Idle
  /\ started' = TRUE
  /\ UNCHANGED <<control, log, pending, published, pc>>

FailStep(s) ==
  /\ Idle
  /\ manifest' = [manifest EXCEPT !.failed = s]
  /\ UNCHANGED <<files, index, branches, applied, policyFile, log, pending,
                 started, published, pc>>

-----------------------------------------------------------------------------
(* Failure.                                                                *)

(* The process dies, or an exception that no handler of the operation      *)
(* catches leaves it: the intent stays on disk for the next writer.        *)
Crash ==
  /\ ~ Idle
  /\ pc' = "idle"
  /\ UNCHANGED <<control, log, pending, started, published>>

(* An exception inside the try block of branch_from or of                  *)
(* apply_config_before_start: the operation rolls itself back.             *)
WriteFails ==
  /\ \/ pc \in {"policy", "verify", "publish", "published"}
     \/ pc = "branches" /\ pending.kind = "config"
  /\ pc' = "undo_files"
  /\ UNCHANGED <<control, log, pending, started, published>>

-----------------------------------------------------------------------------
(* _recover_transaction: complete intents are announced and dropped, the   *)
(* others are rolled back.                                                 *)

(* Mutant: recovery repeats every event.                                   *)
AnnouncedNever(i) == FALSE

Announced(i) ==
  CASE i.kind = "checkpoint" -> stepEvents[i.target] > 0
    [] i.kind = "branch"     -> forkEvents[i.branch] > 0
    [] i.kind = "config"     -> confEvents[i.policy] > 0

RecoverEvent ==
  /\ Idle /\ pending # None
  /\ Complete(pending) /\ ~ Announced(pending)
  /\ Announce
  /\ UNCHANGED <<control, pending, started, published, pc>>

RecoverUnlink ==
  /\ Idle /\ pending # None
  /\ Complete(pending) /\ Announced(pending)
  /\ pending' = None
  /\ UNCHANGED <<control, log, started, published, pc>>

StartRollback ==
  /\ Idle /\ pending # None
  /\ ~ Complete(pending)
  /\ pc' = "undo_files"
  /\ UNCHANGED <<control, log, pending, started, published>>

(* _rollback_transaction: the target and whatever else the index has at    *)
(* its place, then branches.json and the policy, the manifest, the intent. *)
(* Mutants: only what is indexed is removed; the whole branch is removed.  *)
UndoneIndexed ==
  {c \in index : /\ pending.target # None
                 /\ c.branch = pending.branch /\ c.seq = pending.target.seq}
UndoneBranch ==
  IF pending.target = None THEN {}
  ELSE {pending.target} \cup {c \in index : c.branch = pending.branch}

Undone ==
  IF pending.target = None THEN {}
  ELSE {pending.target} \cup
       {c \in index : c.branch = pending.target.branch
                        /\ c.seq = pending.target.seq}

UndoFiles ==
  /\ pc = "undo_files"
  /\ files' = files \ Undone
  /\ pc' = "undo_index"
  /\ UNCHANGED <<manifest, index, branches, applied, policyFile, log, pending,
                 started, published>>

(* Mutant: the rollback of a configuration leaves policy and branches.     *)
AfterUndoIndexShort ==
  IF pending.kind = "branch" THEN "undo_branches" ELSE "undo_manifest"

AfterUndoIndex ==
  IF pending.kind = "checkpoint" THEN "undo_manifest" ELSE "undo_branches"

UndoIndex ==
  /\ pc = "undo_index"
  /\ index' = index \ Undone
  /\ pc' = AfterUndoIndex
  /\ UNCHANGED <<manifest, files, branches, applied, policyFile, log, pending,
                 started, published>>

UndoBranches ==
  /\ pc = "undo_branches"
  /\ IF pending.kind = "branch"
     THEN /\ branches' = [branches EXCEPT ![pending.branch] = None]
          /\ UNCHANGED applied
     ELSE /\ branches' = pending.prevBranches
          /\ applied' = pending.prevApplied
  /\ pc' = "undo_policy"
  /\ UNCHANGED <<manifest, files, index, policyFile, log, pending, started,
                 published>>

UndoPolicy ==
  /\ pc = "undo_policy"
  /\ policyFile' = pending.prevPolicy
  /\ pc' = "undo_manifest"
  /\ UNCHANGED <<manifest, files, index, branches, applied, log, pending,
                 started, published>>

UndoManifest ==
  /\ pc = "undo_manifest"
  /\ manifest' = pending.prevManifest
  /\ pc' = "unlink"
  /\ UNCHANGED <<files, index, branches, applied, policyFile, log, pending,
                 started, published>>

(* The rollback removes the intent in a finally clause, also when one of   *)
(* its own writes fails.                                                   *)
RollbackFails ==
  /\ RollbackMayFail
  /\ pc \in {"undo_files", "undo_index", "undo_branches", "undo_policy",
             "undo_manifest"}
  /\ pending' = None
  /\ pc' = "idle"
  /\ UNCHANGED <<control, log, started, published>>

-----------------------------------------------------------------------------
Begin ==
  \/ \E s \in States : BeginCheckpoint(s)
  \/ \E c \in Ckpt, b \in Branches, p \in Policies, k \in Keys \cup {None},
        publish \in {"no", "required"} : BeginBranch(c, b, p, k, publish)
  \/ \E p \in Policies, k \in Keys, publish \in {"no", "required"} :
        BeginConfig(p, k, publish)
  \/ \E c \in Ckpt : SwitchBranch(c)
  \/ StartStep
  \/ \E s \in States : FailStep(s)

Write == \/ WriteFile \/ WriteIndex \/ WriteManifest \/ WriteEvent \/ Unlink
         \/ WriteBranches \/ WritePolicy \/ Verify \/ Publish
         \/ MarkPublished \/ SwitchPolicy

(* Mutant: only complete intents are resolved.                             *)
RecoverForward == RecoverEvent \/ RecoverUnlink

Recover == RecoverEvent \/ RecoverUnlink \/ StartRollback

Undo == UndoFiles \/ UndoIndex \/ UndoBranches \/ UndoPolicy \/ UndoManifest

Fault == Crash \/ WriteFails \/ RollbackFails

Next == Begin \/ Write \/ Recover \/ Undo \/ Fault

Spec == Init /\ [][Next]_vars


-----------------------------------------------------------------------------
(* Correctness.                                                            *)

TypeOK ==
  /\ manifest \in Manifest
  /\ files \subseteq Ckpt
  /\ index \subseteq Ckpt
  /\ branches \in [Branches -> Details \cup {None}]
  /\ applied \in [Keys -> Policies \cup {None}]
  /\ policyFile \in Policies
  /\ pending \in Intent \cup {None}
  /\ stepEvents \in [Ckpt -> Nat]
  /\ forkEvents \in [Branches -> Nat]
  /\ confEvents \in [Policies -> Nat]
  /\ started \in BOOLEAN
  /\ published \subseteq Policies
  /\ pc \in {"idle", "file", "index", "manifest", "event", "unlink",
             "branches", "policy", "verify", "publish", "published",
             "switched", "undo_files", "undo_index", "undo_branches",
             "undo_policy", "undo_manifest"}

(* At every moment, in the middle of a commit, of a crash or of a rollback *)
(* too, the manifest that read_manifest projects names a checkpoint that   *)
(* loads, on the active branch, and that branch is in the listing.         *)
ReadersSeeDurableHead ==
  LET m == ReadManifest
  IN  /\ ListedBranches[m.branch] # None
      /\ m.ptr # None => /\ m.ptr.branch = m.branch
                         /\ m.ptr \in Loadable \cap ListedCheckpoints

(* Between transactions the files and the index agree, no place of a       *)
(* branch is taken twice, every branch is a contiguous run from its first  *)
(* checkpoint, which repeats the state of the one it was forked from: an   *)
(* interrupted write or a rollback leaves no trace.                        *)
HistoryWellFormed ==
  pending = None =>
    /\ files = index
    /\ \A c \in index :
         /\ branches[c.branch] # None
         /\ \A d \in index : c.branch = d.branch /\ c.seq = d.seq => c = d
         /\ c.seq > 1 =>
              \E d \in index : d.branch = c.branch /\ d.seq = c.seq - 1
    /\ \A b \in Branches \ {Main} : branches[b] # None =>
         /\ branches[b].from \in index
         /\ [branch |-> b, seq |-> 1, state |-> branches[b].from.state]
              \in index

(* Between transactions the active checkpoint is the newest of its branch: *)
(* work never continues from the middle of a branch, where the next save   *)
(* would collide with an immutable record.                                 *)
HeadIsNewest ==
  pending = None =>
    IF manifest.ptr = None THEN index = {}
    ELSE \A c \in index : c.branch = manifest.branch
                             => c.seq <= manifest.ptr.seq

(* The audit log and the checkpoints tell the same story: what is          *)
(* announced is there, is announced once, and nothing is left unannounced  *)
(* once the transaction that made it is over.                              *)
LogMatchesHistory ==
  /\ \A c \in Ckpt : /\ stepEvents[c] <= 1
                     /\ stepEvents[c] = 1 => c \in Loadable
  /\ \A b \in Branches : /\ forkEvents[b] <= 1
                         /\ forkEvents[b] = 1 => branches[b] # None
  /\ pending = None =>
       /\ \A c \in index : IF c.seq = 1 /\ c.branch # Main
                           THEN forkEvents[c.branch] = 1
                           ELSE stepEvents[c] = 1
       /\ \A k \in Keys : applied[k] # None => confEvents[applied[k]] >= 1

(* A key takes effect at most once, also when the request is repeated      *)
(* after a crash: one receipt or one branch carries it.                    *)
KeyTakesEffectOnce ==
  \A k \in Keys :
    LET made == {b \in Branches : branches[b] # None /\ branches[b].key = k}
    IN  /\ \A a, b \in made : a = b
        /\ applied[k] # None => made = {}

(* Between transactions runtime_policy.json holds the policy of a branch   *)
(* that exists: no policy of a rolled back apply stays behind.             *)
PolicyFileOfSomeBranch ==
  pending = None =>
    \E b \in Branches : branches[b] # None /\ branches[b].policy = policyFile

(* A checkpoint that readers have seen stays loadable: no rollback deletes *)
(* a record that was committed.                                            *)
CommittedNeverLost ==
  [][\A c \in Ckpt : c \in Loadable \cap ListedCheckpoints
                       => c \in (Loadable \cap ListedCheckpoints)']_vars

(* A configuration whose apply asked for a publication becomes visible     *)
(* only after it was published, also when a recovery makes it visible.     *)
PublishedBeforeVisible ==
  [][pending # None /\ pending.publish # "no" /\ ListedBranches' # ListedBranches
       => pending.policy \in published]_vars

(* What readers see is a behaviour of the atomic history.                  *)
ListedApplied ==
  IF pending # None /\ pending.kind = "config" THEN pending.prevApplied
  ELSE applied

PH == INSTANCE ProjectHistory WITH
        head    <- [branch |-> ReadManifest.branch, ptr |-> ReadManifest.ptr],
        history <- ListedCheckpoints,
        lineage <- ListedBranches,
        applied <- ListedApplied

(* Every write, crash, recovery and rollback implements one step of        *)
(* ProjectHistory or none: commits are atomic for the readers.             *)
ReadersSeeAtomicCommits == PH!Spec

(* A writer that holds the lock finishes, and the next one recovers what a *)
(* crash left.                                                             *)
Fairness == /\ WF_vars(Write) /\ WF_vars(Recover) /\ WF_vars(Undo)

FairSpec == Spec /\ Fairness

(* If crashes stop, every intent is resolved, forward or backward: no      *)
(* project is blocked by a transaction for ever.                           *)
IntentResolved ==
  <>[][~ Crash]_vars => (pending # None ~> pending = None)

=============================================================================
