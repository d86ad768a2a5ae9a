------------------------- MODULE ProjectStoreProofs -------------------------
(***************************************************************************)
(* Theorems about ProjectStore, for every value of its constants.  The     *)
(* safety theorems assume that the writes of a rollback succeed: the code  *)
(* removes the intent also when they fail.                                 *)
(***************************************************************************)
EXTENDS ProjectStore, TLAPS

(* The manifest names an existing branch and a loadable checkpoint of it.  *)
DurableHead(m) ==
  /\ branches[m.branch] # None
  /\ m.ptr # None => m.ptr.branch = m.branch /\ m.ptr \in Loadable

SamePlace(c, d) == c.branch = d.branch /\ c.seq = d.seq

(* What an intent says fits the state it was written in: the previous head *)
(* is durable and the target lies at another place.                        *)
IntentOK ==
  pending # None =>
    LET i == pending
        m == pending.prevManifest
    IN  /\ DurableHead(m)
        /\ i.prevBranches[m.branch] # None
        /\ i.kind = "config" => i.target = None
        /\ i.kind # "config" => i.target # None
        /\ i.kind = "branch" => i.branch # m.branch
        /\ i.kind # "branch" => i.branch = m.branch
        /\ i.target # None =>
             /\ i.target.branch = i.branch
             /\ m.ptr # None => ~ SamePlace(i.target, m.ptr)

(* What the operation in progress has already written.                     *)
ProgressOK ==
  /\ pc \notin {"idle", "switched"} => pending # None
  /\ pc = "switched" => pending = None
  /\ pc \in {"file", "index", "manifest"} =>
       /\ pending.target # None
       /\ branches[pending.branch] # None
  /\ pc \in {"index", "manifest"} => pending.target \in files
  /\ pc = "manifest" => pending.target \in index
  /\ pc \in {"event", "unlink"} => DurableHead(manifest)
  /\ pc \in {"publish", "published"} /\ pending.kind = "branch"
       => DurableHead(manifest)
  /\ pending = None => DurableHead(manifest)

IInv == TypeOK /\ IntentOK /\ ProgressOK


-----------------------------------------------------------------------------
(* The initial project satisfies the invariant.                            *)
LEMMA InitIInv == Init => IInv
<1> SUFFICES ASSUME Init PROVE IInv
  OBVIOUS
<1>1. [from |-> None, policy |-> InitPolicy, key |-> None] \in Details
  BY StoreAssumption DEF Details
<1>2. None \notin Details /\ Main \in Branches /\ InitPolicy \in Policies
  BY StoreAssumption
<1>3. TypeOK
  BY <1>1, <1>2 DEF Init, TypeOK, Manifest
<1>4. IntentOK /\ ProgressOK
  BY <1>1, <1>2 DEF Init, IntentOK, ProgressOK, DurableHead
<1> QED
  BY <1>3, <1>4 DEF IInv

(* A fresh intent copies what the operation may have to restore.           *)
LEMMA NewIntentType ==
  ASSUME TypeOK,
         NEW kind \in {"checkpoint", "branch", "config"},
         NEW b \in Branches, NEW t \in Ckpt \cup {None},
         NEW f \in Ckpt \cup {None}, NEW p \in Policies,
         NEW k \in Keys \cup {None}, NEW publish \in {"no", "required", "done"}
  PROVE  /\ NewIntent(kind, b, t, f, p, k, publish) \in Intent
         /\ NewIntent(kind, b, t, f, p, k, publish) # None
<1>1. NewIntent(kind, b, t, f, p, k, publish) \in Intent
  BY DEF NewIntent, TypeOK, Intent
<1> QED
  BY <1>1, StoreAssumption

LEMMA BeginCheckpointStep ==
  ASSUME IInv, NEW s \in States, BeginCheckpoint(s)
  PROVE  IInv'
<1> DEFINE t == [branch |-> manifest.branch, seq |-> NextSeq, state |-> s]
<1>1. TypeOK /\ DurableHead(manifest) /\ pending = None
  BY DEF IInv, ProgressOK, BeginCheckpoint, Quiet
<1>2. t \in Ckpt /\ t # None
  <2>1. NextSeq \in 1 .. MaxSeq
    BY <1>1, StoreAssumption
       DEF TypeOK, Manifest, NextSeq, BeginCheckpoint, Ckpt
  <2> QED
    BY <1>1, <2>1, StoreAssumption DEF TypeOK, Manifest, Ckpt
<1>3. pending' = NewIntent("checkpoint", manifest.branch, t, None, policyFile,
                           None, "no")
  BY DEF BeginCheckpoint
<1>4. manifest.branch \in Branches /\ policyFile \in Policies
  BY <1>1 DEF TypeOK, Manifest
<1>5. /\ pending' \in Intent /\ pending' # None
      /\ pending'.prevManifest = manifest /\ pending'.prevBranches = branches
      /\ pending'.branch = manifest.branch /\ pending'.target = t
      /\ pending'.kind = "checkpoint"
  <2>1. t \in Ckpt \cup {None} /\ None \in Ckpt \cup {None}
        /\ None \in Keys \cup {None}
    BY <1>2
  <2> HIDE DEF t
  <2>2. pending' \in Intent /\ pending' # None
    BY <1>1, <1>3, <1>4, <2>1, NewIntentType
  <2> QED
    BY <1>3, <2>2 DEF NewIntent
<1>6. TypeOK'
  BY <1>1, <1>5 DEF TypeOK, BeginCheckpoint, control, log
<1>7. IntentOK'
  <2>1. manifest.ptr # None => ~ SamePlace(t, manifest.ptr)
    BY <1>1 DEF SamePlace, NextSeq, DurableHead, TypeOK, Manifest, Ckpt
  <2> QED
    BY <1>1, <1>2, <1>5, <2>1
       DEF IntentOK, DurableHead, BeginCheckpoint, control, Loadable, SamePlace
<1>8. ProgressOK'
  BY <1>1, <1>2, <1>5
     DEF ProgressOK, BeginCheckpoint, control, DurableHead
<1> QED
  BY <1>6, <1>7, <1>8 DEF IInv

LEMMA BeginBranchStep ==
  ASSUME IInv, NEW c \in Ckpt, NEW b \in Branches, NEW p \in Policies,
         NEW k \in Keys \cup {None}, NEW publish \in {"no", "required"},
         BeginBranch(c, b, p, k, publish)
  PROVE  IInv'
<1> DEFINE t == [branch |-> b, seq |-> 1, state |-> c.state]
<1>1. TypeOK /\ DurableHead(manifest) /\ pending = None
  BY DEF IInv, ProgressOK, BeginBranch, Quiet
<1>2. t \in Ckpt /\ t # None
  BY StoreAssumption DEF Ckpt
<1>3. pending' = NewIntent("branch", b, t, c, p, k, publish)
  BY DEF BeginBranch
<1>5. /\ pending' \in Intent /\ pending' # None
      /\ pending'.prevManifest = manifest /\ pending'.prevBranches = branches
      /\ pending'.branch = b /\ pending'.target = t /\ pending'.kind = "branch"
  <2>1. /\ t \in Ckpt \cup {None} /\ c \in Ckpt \cup {None}
        /\ publish \in {"no", "required", "done"}
    BY <1>2
  <2> HIDE DEF t
  <2>2. pending' \in Intent /\ pending' # None
    BY <1>1, <1>3, <2>1, NewIntentType
  <2> QED
    BY <1>3, <2>2 DEF NewIntent
<1>6. TypeOK'
  BY <1>1, <1>5 DEF TypeOK, BeginBranch, control, log
<1>7. b # manifest.branch
  BY <1>1 DEF BeginBranch, DurableHead
<1>8. IntentOK'
  BY <1>1, <1>2, <1>5, <1>7
     DEF IntentOK, DurableHead, BeginBranch, control, Loadable, SamePlace
<1>9. ProgressOK'
  BY <1>1, <1>5 DEF ProgressOK, BeginBranch, control, DurableHead
<1> QED
  BY <1>6, <1>8, <1>9 DEF IInv

LEMMA BeginConfigStep ==
  ASSUME IInv, NEW p \in Policies, NEW k \in Keys,
         NEW publish \in {"no", "required"}, BeginConfig(p, k, publish)
  PROVE  IInv'
<1>1. TypeOK /\ DurableHead(manifest) /\ pending = None /\ manifest.ptr = None
  BY DEF IInv, ProgressOK, BeginConfig, Quiet
<1>2. pending' = NewIntent("config", manifest.branch, None, None, p, k, publish)
  BY DEF BeginConfig
<1>3. manifest.branch \in Branches
  BY <1>1 DEF TypeOK, Manifest
<1>4. /\ pending' \in Intent /\ pending' # None
      /\ pending'.prevManifest = manifest /\ pending'.prevBranches = branches
      /\ pending'.branch = manifest.branch /\ pending'.target = None
      /\ pending'.kind = "config"
  <2>1. publish \in {"no", "required", "done"}
    OBVIOUS
  <2>2. pending' \in Intent /\ pending' # None
    BY <1>1, <1>2, <1>3, <2>1, NewIntentType
  <2> QED
    BY <1>2, <2>2 DEF NewIntent
<1>5. TypeOK'
  BY <1>1, <1>4 DEF TypeOK, BeginConfig, control, log
<1>6. IntentOK'
  BY <1>1, <1>4 DEF IntentOK, DurableHead, BeginConfig, control, Loadable
<1>7. ProgressOK'
  BY <1>1, <1>4 DEF ProgressOK, BeginConfig, control, DurableHead
<1> QED
  BY <1>5, <1>6, <1>7 DEF IInv

-----------------------------------------------------------------------------
(* The writes of an operation.                                             *)

LEMMA WriteFileStep == ASSUME IInv, WriteFile PROVE IInv'
<1>1. pending # None /\ pending \in Intent /\ pending.target # None
  BY DEF IInv, TypeOK, ProgressOK, WriteFile
<1>2. pending.target \in Ckpt
  BY <1>1 DEF Intent
<1>3. files \subseteq files' /\ pending' = pending /\ manifest' = manifest
      /\ index' = index /\ branches' = branches
  BY DEF WriteFile
<1>4. TypeOK'
  BY <1>2 DEF IInv, TypeOK, WriteFile, log
<1>5. IntentOK'
  BY <1>3 DEF IInv, IntentOK, DurableHead, Loadable, SamePlace
<1>6. ProgressOK'
  BY <1>1, <1>3 DEF IInv, ProgressOK, WriteFile, DurableHead, Loadable
<1> QED
  BY <1>4, <1>5, <1>6 DEF IInv

LEMMA WriteIndexStep == ASSUME IInv, WriteIndex PROVE IInv'
<1>1. pending # None /\ pending \in Intent /\ pending.target # None
  BY DEF IInv, TypeOK, ProgressOK, WriteIndex
<1>2. pending.target \in Ckpt
  BY <1>1 DEF Intent
<1>3. index \subseteq index' /\ pending' = pending /\ manifest' = manifest
      /\ files' = files /\ branches' = branches
  BY DEF WriteIndex
<1>4. TypeOK'
  BY <1>2 DEF IInv, TypeOK, WriteIndex, log
<1>5. IntentOK'
  BY <1>3 DEF IInv, IntentOK, DurableHead, Loadable, SamePlace
<1>6. ProgressOK'
  BY <1>1, <1>3 DEF IInv, ProgressOK, WriteIndex, DurableHead, Loadable
<1> QED
  BY <1>4, <1>5, <1>6 DEF IInv

(* The manifest moves to a checkpoint that is already on disk and indexed. *)
LEMMA WriteManifestStep == ASSUME IInv, WriteManifest PROVE IInv'
<1>1. /\ pending # None /\ pending \in Intent /\ pending.target # None
      /\ branches[pending.branch] # None /\ pending.target \in files \cap index
      /\ pending.target.branch = pending.branch
  BY DEF IInv, TypeOK, ProgressOK, IntentOK, WriteManifest
<1>2. pending.target \in Ckpt /\ pending.branch \in Branches
  BY <1>1 DEF Intent
<1>3. TypeOK'
  BY <1>2 DEF IInv, TypeOK, Manifest, WriteManifest, log
<1>4. IntentOK'
  BY DEF IInv, IntentOK, DurableHead, Loadable, SamePlace, WriteManifest
<1>5. DurableHead(manifest)'
  BY <1>1 DEF DurableHead, Loadable, WriteManifest
<1>6. ProgressOK'
  BY <1>1, <1>5 DEF IInv, ProgressOK, WriteManifest
<1> QED
  BY <1>3, <1>4, <1>6 DEF IInv

LEMMA CountType ==
  ASSUME NEW S, NEW e \in [S -> Nat], NEW x
  PROVE  [e EXCEPT ![x] = @ + 1] \in [S -> Nat]
<1>1. \A y \in S : [e EXCEPT ![x] = @ + 1][y] \in Nat
  <2> SUFFICES ASSUME NEW y \in S PROVE [e EXCEPT ![x] = @ + 1][y] \in Nat
    OBVIOUS
  <2>1. CASE y = x
    <3>1. e[x] \in Nat
      BY <2>1
    <3>2. [e EXCEPT ![x] = @ + 1][y] = e[x] + 1
      BY <2>1
    <3> QED
      BY <3>1, <3>2
  <2>2. CASE y # x
    BY <2>2
  <2> QED
    BY <2>1, <2>2
<1> QED
  BY <1>1, Zenon

(* Announcing changes the event counters only.                             *)
LEMMA AnnounceType ==
  ASSUME TypeOK, pending # None, Announce
  PROVE  /\ stepEvents' \in [Ckpt -> Nat]
         /\ forkEvents' \in [Branches -> Nat]
         /\ confEvents' \in [Policies -> Nat]
<1>1. \A S, e, x : e \in [S -> Nat] => [e EXCEPT ![x] = @ + 1] \in [S -> Nat]
  BY CountType
<1>2. /\ stepEvents \in [Ckpt -> Nat]
      /\ forkEvents \in [Branches -> Nat]
      /\ confEvents \in [Policies -> Nat]
  BY DEF TypeOK
<1>3. stepEvents' \in [Ckpt -> Nat]
  BY <1>1, <1>2 DEF Announce
<1>4. forkEvents' \in [Branches -> Nat]
  BY <1>1, <1>2 DEF Announce
<1>5. confEvents' \in [Policies -> Nat]
  BY <1>1, <1>2 DEF Announce
<1> QED
  BY <1>3, <1>4, <1>5

LEMMA WriteEventStep == ASSUME IInv, WriteEvent PROVE IInv'
<1>1. pending # None
  BY DEF IInv, ProgressOK, WriteEvent
<1>2. TypeOK'
  BY <1>1, AnnounceType DEF IInv, TypeOK, WriteEvent, control
<1>3. IntentOK'
  BY DEF IInv, IntentOK, DurableHead, Loadable, SamePlace, WriteEvent, control
<1>4. ProgressOK'
  BY DEF IInv, ProgressOK, DurableHead, Loadable, WriteEvent, control
<1> QED
  BY <1>2, <1>3, <1>4 DEF IInv

LEMMA UnlinkStep == ASSUME IInv, Unlink PROVE IInv'
<1>1. TypeOK'
  BY DEF IInv, TypeOK, Unlink, control, log
<1>2. IntentOK'
  BY DEF IntentOK, Unlink
<1>3. ProgressOK'
  BY DEF IInv, ProgressOK, DurableHead, Loadable, Unlink, control
<1> QED
  BY <1>1, <1>2, <1>3 DEF IInv

(* A branch appears, or the binding of one changes: none disappears.       *)
LEMMA WriteBranchesStep == ASSUME IInv, WriteBranches PROVE IInv'
<1>1. pending # None /\ pending \in Intent
  BY DEF IInv, TypeOK, ProgressOK, WriteBranches
<1>2. /\ pending.branch \in Branches /\ pending.policy \in Policies
      /\ pending.from \in Ckpt \cup {None} /\ pending.key \in Keys \cup {None}
  BY <1>1 DEF Intent
<1>3. branches' \in [Branches -> Details \cup {None}]
      /\ branches'[pending.branch] # None
      /\ \A b \in Branches : branches[b] # None => branches'[b] # None
  <2>1. CASE pending.kind = "branch"
    <3>1. [from |-> pending.from, policy |-> pending.policy,
           key |-> pending.key] \in Details
      BY <1>2 DEF Details
    <3> QED
      BY <1>2, <2>1, <3>1, StoreAssumption DEF IInv, TypeOK, WriteBranches
  <2>2. CASE pending.kind # "branch"
    <3>1. branches[pending.branch] # None
      BY <1>1, <2>2 DEF IInv, IntentOK, DurableHead
    <3>2. branches[pending.branch] \in Details
      BY <1>2, <3>1 DEF IInv, TypeOK
    <3>3. [branches[pending.branch] EXCEPT !.policy = pending.policy] \in Details
      BY <1>2, <3>2 DEF Details
    <3> QED
      BY <1>2, <2>2, <3>3, StoreAssumption DEF IInv, TypeOK, WriteBranches
  <2> QED
    BY <2>1, <2>2
<1>4. applied' \in [Keys -> Policies \cup {None}]
  BY <1>2 DEF IInv, TypeOK, WriteBranches
<1>5. TypeOK'
  BY <1>3, <1>4 DEF IInv, TypeOK, WriteBranches, log
<1>6. manifest.branch \in Branches /\ pending.prevManifest.branch \in Branches
  BY <1>1 DEF IInv, TypeOK, Manifest, Intent
<1>7. IntentOK'
  BY <1>1, <1>3, <1>6
     DEF IInv, IntentOK, DurableHead, Loadable, SamePlace, WriteBranches
<1>8. ProgressOK'
  <2>1. pending.kind = "branch" => pending.target # None
    BY <1>1 DEF IInv, IntentOK
  <2> QED
    BY <1>1, <1>3, <1>6, <2>1
       DEF IInv, ProgressOK, DurableHead, Loadable, WriteBranches
<1> QED
  BY <1>5, <1>7, <1>8 DEF IInv

LEMMA WritePolicyStep == ASSUME IInv, WritePolicy PROVE IInv'
<1>1. pending # None /\ pending \in Intent
  BY DEF IInv, TypeOK, ProgressOK, WritePolicy
<1>2. pending.policy \in Policies
  BY <1>1 DEF Intent
<1>3. TypeOK'
  BY <1>2 DEF IInv, TypeOK, WritePolicy, log
<1>4. IntentOK'
  BY DEF IInv, IntentOK, DurableHead, Loadable, SamePlace, WritePolicy
<1>5. ProgressOK'
  BY <1>1 DEF IInv, ProgressOK, DurableHead, Loadable, WritePolicy
<1> QED
  BY <1>3, <1>4, <1>5 DEF IInv

(* When every document shows the effect of the intent, its head is durable.*)
LEMMA PersistedIsDurable ==
  ASSUME IInv, pending # None, Persisted(pending)
  PROVE  DurableHead(manifest)
<1>1. pending \in Intent
  BY DEF IInv, TypeOK
<1>2. CASE pending.kind = "config"
  BY <1>1, <1>2 DEF IInv, IntentOK, Persisted, DurableHead
<1>3. CASE pending.kind = "checkpoint"
  BY <1>1, <1>3 DEF IInv, IntentOK, Persisted, DurableHead
<1>4. CASE pending.kind = "branch"
  <2>1. pending.from \in Ckpt \cup {None} /\ pending.policy \in Policies
        /\ pending.key \in Keys \cup {None}
    BY <1>1 DEF Intent
  <2>2. [from |-> pending.from, policy |-> pending.policy,
         key |-> pending.key] \in Details
    BY <2>1 DEF Details
  <2>3. branches[manifest.branch] # None
    BY <1>4, <2>2, StoreAssumption DEF Persisted
  <2> QED
    BY <1>4, <2>3 DEF IInv, IntentOK, Persisted, DurableHead
<1> QED
  BY <1>1, <1>2, <1>3, <1>4 DEF Intent

LEMMA VerifyStep == ASSUME IInv, Verify PROVE IInv'
<1>1. pending # None /\ DurableHead(manifest)
  BY PersistedIsDurable DEF IInv, ProgressOK, Verify
<1>2. TypeOK'
  BY DEF IInv, TypeOK, Verify, control, log
<1>3. IntentOK'
  BY DEF IInv, IntentOK, DurableHead, Loadable, SamePlace, Verify, control
<1>4. ProgressOK'
  BY <1>1 DEF IInv, ProgressOK, DurableHead, Loadable, Verify, control
<1> QED
  BY <1>2, <1>3, <1>4 DEF IInv

LEMMA PublishStep == ASSUME IInv, Publish PROVE IInv'
<1>1. pending # None /\ pending \in Intent
  BY DEF IInv, TypeOK, ProgressOK, Publish
<1>2. pending.policy \in Policies
  BY <1>1 DEF Intent
<1>3. TypeOK'
  BY <1>2 DEF IInv, TypeOK, Publish, control, log
<1>4. IntentOK'
  BY DEF IInv, IntentOK, DurableHead, Loadable, SamePlace, Publish, control
<1>5. ProgressOK'
  BY <1>1 DEF IInv, ProgressOK, DurableHead, Loadable, Publish, control
<1> QED
  BY <1>3, <1>4, <1>5 DEF IInv

(* Only the publish field of the intent changes.                           *)
LEMMA MarkPublishedStep == ASSUME IInv, MarkPublished PROVE IInv'
<1>1. pending # None /\ pending \in Intent
  BY DEF IInv, TypeOK, ProgressOK, MarkPublished
<1>2. /\ pending' \in Intent
      /\ pending'.kind = pending.kind /\ pending'.branch = pending.branch
      /\ pending'.target = pending.target
      /\ pending'.prevManifest = pending.prevManifest
      /\ pending'.prevBranches = pending.prevBranches
  BY <1>1 DEF MarkPublished, Intent
<1>3. pending' # None
  BY <1>2, StoreAssumption
<1>4. TypeOK'
  BY <1>2 DEF IInv, TypeOK, MarkPublished, control, log
<1>5. IntentOK'
  BY <1>1, <1>2
     DEF IInv, IntentOK, DurableHead, Loadable, SamePlace, MarkPublished, control
<1>6. ProgressOK'
  BY <1>1, <1>2, <1>3
     DEF IInv, ProgressOK, DurableHead, Loadable, MarkPublished, control
<1> QED
  BY <1>4, <1>5, <1>6 DEF IInv

-----------------------------------------------------------------------------
(* Operations without an intent.                                           *)

LEMMA SwitchBranchStep ==
  ASSUME IInv, NEW c \in Ckpt, SwitchBranch(c)
  PROVE  IInv'
<1>1. pending = None
  BY DEF SwitchBranch, Quiet
<1>2. c.branch \in Branches
  BY DEF Ckpt
<1>3. TypeOK'
  BY <1>2 DEF IInv, TypeOK, Manifest, SwitchBranch, log
<1>4. IntentOK'
  BY <1>1 DEF IntentOK, SwitchBranch
<1>5. ProgressOK'
  BY <1>1 DEF ProgressOK, DurableHead, Loadable, SwitchBranch
<1> QED
  BY <1>3, <1>4, <1>5 DEF IInv

LEMMA SwitchPolicyStep == ASSUME IInv, SwitchPolicy PROVE IInv'
<1>1. pending = None /\ DurableHead(manifest)
  BY DEF IInv, ProgressOK, SwitchPolicy
<1>2. branches[manifest.branch] \in Details
  BY <1>1 DEF IInv, TypeOK, Manifest, DurableHead
<1>3. branches[manifest.branch].policy \in Policies
  BY <1>2 DEF Details
<1>4. TypeOK'
  BY <1>3 DEF IInv, TypeOK, SwitchPolicy, log
<1>5. IntentOK'
  BY <1>1 DEF IntentOK, SwitchPolicy
<1>6. ProgressOK'
  BY <1>1 DEF ProgressOK, DurableHead, Loadable, SwitchPolicy
<1> QED
  BY <1>4, <1>5, <1>6 DEF IInv

LEMMA StartStepStep == ASSUME IInv, StartStep PROVE IInv'
<1>1. TypeOK'
  BY DEF IInv, TypeOK, StartStep, control, log
<1>2. IntentOK'
  BY DEF IInv, IntentOK, DurableHead, Loadable, SamePlace, StartStep, control
<1>3. ProgressOK'
  BY DEF IInv, ProgressOK, DurableHead, Loadable, StartStep, control
<1> QED
  BY <1>1, <1>2, <1>3 DEF IInv

LEMMA FailStepStep ==
  ASSUME IInv, NEW s \in States, FailStep(s)
  PROVE  IInv'
<1>1. manifest' \in Manifest /\ manifest'.branch = manifest.branch
      /\ manifest'.ptr = manifest.ptr
  BY DEF IInv, TypeOK, Manifest, FailStep
<1>2. TypeOK'
  BY <1>1 DEF IInv, TypeOK, FailStep, log
<1>3. IntentOK'
  BY DEF IInv, IntentOK, DurableHead, Loadable, SamePlace, FailStep
<1>4. ProgressOK'
  BY <1>1 DEF IInv, ProgressOK, DurableHead, Loadable, FailStep, Idle
<1> QED
  BY <1>2, <1>3, <1>4 DEF IInv

-----------------------------------------------------------------------------
(* Failure and recovery.                                                   *)

LEMMA CrashStep == ASSUME IInv, Crash PROVE IInv'
<1>1. TypeOK'
  BY DEF IInv, TypeOK, Crash, control, log
<1>2. IntentOK'
  BY DEF IInv, IntentOK, DurableHead, Loadable, SamePlace, Crash, control
<1>3. ProgressOK'
  BY DEF IInv, ProgressOK, DurableHead, Loadable, Crash, control
<1> QED
  BY <1>1, <1>2, <1>3 DEF IInv

LEMMA WriteFailsStep == ASSUME IInv, WriteFails PROVE IInv'
<1>1. pending # None
  BY DEF IInv, ProgressOK, WriteFails
<1>2. TypeOK'
  BY DEF IInv, TypeOK, WriteFails, control, log
<1>3. IntentOK'
  BY DEF IInv, IntentOK, DurableHead, Loadable, SamePlace, WriteFails, control
<1>4. ProgressOK'
  BY <1>1 DEF IInv, ProgressOK, WriteFails, control
<1> QED
  BY <1>2, <1>3, <1>4 DEF IInv

LEMMA RecoverEventStep == ASSUME IInv, RecoverEvent PROVE IInv'
<1>1. pending # None
  BY DEF RecoverEvent
<1>2. TypeOK'
  BY <1>1, AnnounceType DEF IInv, TypeOK, RecoverEvent, control
<1>3. IntentOK'
  BY DEF IInv, IntentOK, DurableHead, Loadable, SamePlace, RecoverEvent, control
<1>4. ProgressOK'
  BY <1>1 DEF IInv, ProgressOK, RecoverEvent, Idle
<1> QED
  BY <1>2, <1>3, <1>4 DEF IInv

LEMMA RecoverUnlinkStep == ASSUME IInv, RecoverUnlink PROVE IInv'
<1>1. DurableHead(manifest)
  BY PersistedIsDurable DEF RecoverUnlink, Complete
<1>2. TypeOK'
  BY DEF IInv, TypeOK, RecoverUnlink, control, log
<1>3. IntentOK'
  BY DEF IntentOK, RecoverUnlink
<1>4. ProgressOK'
  BY <1>1 DEF ProgressOK, DurableHead, Loadable, RecoverUnlink, control, Idle
<1> QED
  BY <1>2, <1>3, <1>4 DEF IInv

LEMMA StartRollbackStep == ASSUME IInv, StartRollback PROVE IInv'
<1>1. TypeOK'
  BY DEF IInv, TypeOK, StartRollback, control, log
<1>2. IntentOK'
  BY DEF IInv, IntentOK, DurableHead, Loadable, SamePlace, StartRollback, control
<1>3. ProgressOK'
  BY DEF IInv, ProgressOK, StartRollback, control
<1> QED
  BY <1>1, <1>2, <1>3 DEF IInv

-----------------------------------------------------------------------------
(* The writes of a rollback.                                               *)

(* A rollback removes no record that the previous manifest needs.          *)
LEMMA PreviousHeadKept ==
  ASSUME IInv, pending # None, pending.prevManifest.ptr # None
  PROVE  pending.prevManifest.ptr \notin Undone
<1>1. CASE pending.target = None
  BY <1>1 DEF Undone
<1>2. CASE pending.target # None
  BY <1>2 DEF IInv, IntentOK, Undone, SamePlace
<1> QED
  BY <1>1, <1>2

LEMMA UndoFilesStep == ASSUME IInv, UndoFiles PROVE IInv'
<1>1. pending # None /\ pending' = pending
  BY DEF IInv, ProgressOK, UndoFiles
<1>2. TypeOK'
  BY DEF IInv, TypeOK, UndoFiles, log
<1>3. IntentOK'
  BY <1>1, PreviousHeadKept
     DEF IInv, IntentOK, DurableHead, Loadable, SamePlace, UndoFiles
<1>4. ProgressOK'
  BY <1>1 DEF ProgressOK, UndoFiles
<1> QED
  BY <1>2, <1>3, <1>4 DEF IInv

LEMMA UndoIndexStep == ASSUME IInv, UndoIndex PROVE IInv'
<1>1. pending # None /\ pending' = pending
  BY DEF IInv, ProgressOK, UndoIndex
<1>2. pc' \in {"undo_manifest", "undo_branches"}
  BY DEF UndoIndex, AfterUndoIndex
<1>3. TypeOK'
  BY <1>2 DEF IInv, TypeOK, UndoIndex, log
<1>4. IntentOK'
  BY <1>1, PreviousHeadKept
     DEF IInv, IntentOK, DurableHead, Loadable, SamePlace, UndoIndex
<1>5. ProgressOK'
  BY <1>1, <1>2 DEF ProgressOK
<1> QED
  BY <1>3, <1>4, <1>5 DEF IInv

(* The branch of the previous manifest is not the one that is removed, and *)
(* the saved branches have it.                                             *)
LEMMA UndoBranchesStep == ASSUME IInv, UndoBranches PROVE IInv'
<1>1. pending # None /\ pending' = pending /\ pending \in Intent
  BY DEF IInv, TypeOK, ProgressOK, UndoBranches
<1>2. /\ pending.prevBranches \in [Branches -> Details \cup {None}]
      /\ pending.prevApplied \in [Keys -> Policies \cup {None}]
      /\ pending.prevManifest.branch \in Branches
  BY <1>1 DEF Intent, Manifest
<1>3. branches' \in [Branches -> Details \cup {None}]
      /\ applied' \in [Keys -> Policies \cup {None}]
  BY <1>2 DEF IInv, TypeOK, UndoBranches
<1>4. TypeOK'
  BY <1>3 DEF IInv, TypeOK, UndoBranches, log
<1>5. branches'[pending.prevManifest.branch] # None
  <2>1. CASE pending.kind = "branch"
    BY <1>1, <1>2, <2>1 DEF IInv, TypeOK, IntentOK, DurableHead, UndoBranches
  <2>2. CASE pending.kind # "branch"
    BY <1>1, <2>2 DEF IInv, IntentOK, UndoBranches
  <2> QED
    BY <2>1, <2>2
<1>6. IntentOK'
  BY <1>1, <1>5
     DEF IInv, IntentOK, DurableHead, Loadable, SamePlace, UndoBranches
<1>7. ProgressOK'
  BY <1>1 DEF ProgressOK, UndoBranches
<1> QED
  BY <1>4, <1>6, <1>7 DEF IInv

LEMMA UndoPolicyStep == ASSUME IInv, UndoPolicy PROVE IInv'
<1>1. pending # None /\ pending' = pending /\ pending \in Intent
  BY DEF IInv, TypeOK, ProgressOK, UndoPolicy
<1>2. pending.prevPolicy \in Policies
  BY <1>1 DEF Intent
<1>3. TypeOK'
  BY <1>2 DEF IInv, TypeOK, UndoPolicy, log
<1>4. IntentOK'
  BY <1>1 DEF IInv, IntentOK, DurableHead, Loadable, SamePlace, UndoPolicy
<1>5. ProgressOK'
  BY <1>1 DEF ProgressOK, UndoPolicy
<1> QED
  BY <1>3, <1>4, <1>5 DEF IInv

LEMMA UndoManifestStep == ASSUME IInv, UndoManifest PROVE IInv'
<1>1. /\ pending # None /\ pending' = pending /\ pending \in Intent
      /\ DurableHead(pending.prevManifest)
  BY DEF IInv, TypeOK, ProgressOK, IntentOK, UndoManifest
<1>2. pending.prevManifest \in Manifest
  BY <1>1 DEF Intent
<1>3. TypeOK'
  BY <1>2 DEF IInv, TypeOK, UndoManifest, log
<1>4. IntentOK'
  BY <1>1 DEF IInv, IntentOK, DurableHead, Loadable, SamePlace, UndoManifest
<1>5. ProgressOK'
  BY <1>1 DEF ProgressOK, DurableHead, Loadable, UndoManifest
<1> QED
  BY <1>3, <1>4, <1>5 DEF IInv

-----------------------------------------------------------------------------
(* The invariant is inductive.                                             *)

LEMMA StutterStep == ASSUME IInv, UNCHANGED vars PROVE IInv'
<1>1. TypeOK'
  BY DEF IInv, TypeOK, vars, control, log
<1>2. IntentOK'
  BY DEF IInv, IntentOK, DurableHead, Loadable, SamePlace, vars, control, log
<1>3. ProgressOK'
  BY DEF IInv, ProgressOK, DurableHead, Loadable, vars, control, log
<1> QED
  BY <1>1, <1>2, <1>3 DEF IInv

LEMMA NextIInv == ASSUME RollbackMayFail = FALSE, IInv, Next PROVE IInv'
<1>1. CASE Begin
  BY <1>1, BeginCheckpointStep, BeginBranchStep, BeginConfigStep,
     SwitchBranchStep, StartStepStep, FailStepStep DEF Begin
<1>2. CASE Write
  BY <1>2, WriteFileStep, WriteIndexStep, WriteManifestStep, WriteEventStep,
     UnlinkStep, WriteBranchesStep, WritePolicyStep, VerifyStep, PublishStep,
     MarkPublishedStep, SwitchPolicyStep DEF Write
<1>3. CASE Recover
  BY <1>3, RecoverEventStep, RecoverUnlinkStep, StartRollbackStep DEF Recover
<1>4. CASE Undo
  BY <1>4, UndoFilesStep, UndoIndexStep, UndoBranchesStep, UndoPolicyStep,
     UndoManifestStep DEF Undo
<1>5. CASE Fault
  BY <1>5, CrashStep, WriteFailsStep DEF Fault, RollbackFails
<1> QED
  BY <1>1, <1>2, <1>3, <1>4, <1>5 DEF Next

THEOREM Invariance == ASSUME RollbackMayFail = FALSE PROVE Spec => []IInv
<1>1. IInv /\ [Next]_vars => IInv'
  BY NextIInv, StutterStep
<1> QED
  BY <1>1, InitIInv, PTL DEF Spec

(* Every document keeps its shape, through crashes and rollbacks.          *)
THEOREM TypeCorrect == ASSUME RollbackMayFail = FALSE PROVE Spec => []TypeOK
<1>1. IInv => TypeOK
  BY DEF IInv
<1> QED
  BY <1>1, Invariance, PTL

LEMMA DurableHeadVisible == IInv => ReadersSeeDurableHead
<1> SUFFICES ASSUME IInv PROVE ReadersSeeDurableHead
  OBVIOUS
<1>1. CASE pending = None
  BY <1>1 DEF IInv, ProgressOK, DurableHead, ReadersSeeDurableHead,
     ReadManifest, ListedBranches, ListedCheckpoints, Loadable
<1>2. CASE pending # None
  <2> DEFINE m == pending.prevManifest
  <2>1. /\ DurableHead(m) /\ pending.prevBranches[m.branch] # None
        /\ pending.kind = "branch" => pending.branch # m.branch
        /\ m.ptr # None => m.ptr # pending.target
    BY <1>2 DEF IInv, IntentOK, SamePlace
  <2>2. m.branch \in Branches /\ ReadManifest = m
    BY <1>2 DEF IInv, TypeOK, Intent, Manifest, ReadManifest
  <2>3. ListedBranches[m.branch] # None
    BY <1>2, <2>1, <2>2 DEF ListedBranches, DurableHead
  <2>4. m.ptr # None => m.ptr.branch = m.branch
                        /\ m.ptr \in Loadable \cap ListedCheckpoints
    BY <1>2, <2>1 DEF DurableHead, ListedCheckpoints, Loadable
  <2> QED
    BY <2>2, <2>3, <2>4 DEF ReadersSeeDurableHead
<1> QED
  BY <1>1, <1>2

(* What the lock-free readers see is a durable head at every moment, for   *)
(* any number of branches, checkpoints, policies and keys.                 *)
THEOREM ReadersAlwaysSeeDurableHead ==
  ASSUME RollbackMayFail = FALSE
  PROVE  Spec => []ReadersSeeDurableHead
BY DurableHeadVisible, Invariance, PTL

=============================================================================
