----------------------- MODULE RuntimeRevisionsProofs -----------------------
(* Theorems about RuntimeRevisions, for any settings, models, members,      *)
(* changes, owner's registry, supplied files and bounds. All of them follow *)
(* from one inductive invariant, RInv, whose parts come first.              *)
EXTENDS RuntimeRevisions, FiniteSetTheorems, TLAPS

(* The settings and models a binding stands for are those that were         *)
(* promised: of a promise the baseline with its overrides on top.           *)
Kept(binding, promise) ==
  /\ binding.policy.edit = Overridden(promise.edit, promise.overrides)
  /\ binding.modelSha.content = Overridden(promise.models, promise.overrides)

(* A binding describes the files of a revision.                             *)
Describes(binding, revision) ==
  /\ binding.id = revision.id
  /\ binding.policy.edit = revision.document
  /\ binding.runtimeSha = revision.runtimeSha
  /\ binding.modelSha = revision.modelSha

DescribesOwners(binding) ==
  /\ binding.id \in DOMAIN Registry
  /\ Describes(binding, Registry[binding.id])
  /\ binding.policy.release = "manual"

(* In a standalone project each revision is the first one with its own      *)
(* overrides on top, and what a member saw as a revision is that.           *)
Derived(revision) ==
  /\ revision.document = Overridden(revisions[1].document, revision.overrides)
  /\ revision.models = Overridden(revisions[1].models, revision.overrides)

PromiseFor(revision) ==
  [edit |-> revisions[1].document, models |-> revisions[1].models,
   overrides |-> revision.overrides]

(* How far the project is. Until it is ready there is nothing but the files *)
(* of a standalone project before its first revision.                       *)
Stages ==
  /\ project # "ready" => pending = None /\ lock = None /\ job = NoJob
  /\ project = "none" =>
       /\ DOMAIN revisions = {} /\ DOMAIN branches = {} /\ DOMAIN shown = {}
       /\ current = Main
  /\ managed => DOMAIN revisions = {} /\ project \notin {"created", "broken"}
  /\ pointer # None <=> managed /\ DOMAIN Registry # {}
  /\ project \in {"created", "broken"} =>
       /\ DOMAIN revisions = {}
       /\ DOMAIN branches = {Main} /\ DOMAIN shown = {1}
       /\ shown[1] = asked[Main] /\ asked[Main].overrides = NoOverrides
       /\ asked[Main].edit = branches[Main].policy.edit
       /\ Consistent(branches[Main].policy.edit)
       /\ branches[Main] =
            BuiltBinding(FirstRevision(branches[Main].policy, asked[Main].models),
                         branches[Main].policy)

(* The history of a standalone project.                                     *)
Standalone == project = "ready" /\ ~managed

HistoryHolds ==
  /\ \A b \in DOMAIN branches :
       /\ Kept(branches[b], asked[b])
       /\ branches[b].id \in DOMAIN shown
       /\ Standalone /\ OfSettings(b) =>
            /\ branches[b].id \in DOMAIN revisions
            /\ Describes(branches[b], revisions[branches[b].id])
       /\ pointer # None /\ OfSettings(b) => DescribesOwners(branches[b])
  /\ Standalone =>
       /\ 1 \in DOMAIN shown
       /\ 1 \in DOMAIN revisions /\ revisions[1].overrides = NoOverrides
       /\ \A i \in DOMAIN revisions : Derived(revisions[i])
       /\ \A i \in DOMAIN shown :
            i \in DOMAIN revisions /\ shown[i] = PromiseFor(revisions[i])

(* A transaction keeps its promise; one of a standalone project brings a    *)
(* revision whose number nobody was shown yet.                              *)
PendingHolds ==
  pending # None =>
    /\ Kept(pending.binding, pending.promise)
    /\ pending.kind = "branch" => pending.branch \notin DOMAIN branches
    /\ pending.publishes <=> ~managed
    /\ managed => /\ pending.kind = "branch"
                  /\ pending.step \in {"intent", "written"}
                  /\ DescribesOwners(pending.binding)
    /\ ~managed =>
         /\ Describes(pending.binding, pending.revision)
         /\ Derived(pending.revision)
         /\ pending.promise = PromiseFor(pending.revision)
         /\ pending.revision.id \notin DOMAIN shown
         /\ pending.step \in {"published", "marked"} =>
              /\ pending.revision.id \in DOMAIN revisions
              /\ revisions[pending.revision.id] = pending.revision

(* A runner has what the binding says that it was prepared under, and a run *)
(* that works was prepared under the binding it writes to.                  *)
JobHolds ==
  /\ job.pc \in {"prepared", "running"} =>
       /\ job.policy.edit = job.binding.policy.edit
       /\ job.models = job.binding.modelSha.content
       /\ job.binding.id \in DOMAIN shown
  /\ job.pc = "running" => job.binding = RawBinding

RInv ==
  /\ TypeOK /\ Stages /\ HistoryHolds /\ PendingHolds /\ JobHolds /\ NumbersAreNew

-----------------------------------------------------------------------------
(* Constants and numbers.                                                   *)

LEMMA Constants ==
  /\ MaxId \in Nat /\ MaxId >= 1 /\ MaxStage \in Nat /\ MaxStage >= 1
  /\ 1 \in Ids /\ Ids \subseteq Nat /\ NextStep \in Nat
  /\ None \notin Ids /\ None \notin Nat /\ None \notin Clients /\ None \notin Names
  /\ None \notin Revisions /\ None \notin Transactions
  /\ None # "job" /\ "job" \notin Clients
  /\ None \notin Releases \cup Rounds \cup Models
  /\ DOMAIN Registry \subseteq Ids
  /\ DOMAIN Registry # {} => 1 \in DOMAIN Registry
  /\ \A i \in DOMAIN Registry : Registry[i] \in Revisions /\ Intact(Registry[i], i)
<1>1. /\ None \notin Nat \cup Clients \cup Names \cup Revisions \cup Transactions
      /\ "job" \notin Clients \cup {None}
      /\ None \notin Releases \cup Rounds \cup Models
      /\ MaxId \in Nat \ {0} /\ MaxStage \in Nat \ {0}
  BY RevisionsAssumption, SettingsAssumption
<1>2. MaxId \in Nat /\ MaxId >= 1 /\ MaxStage \in Nat /\ MaxStage >= 1
  BY <1>1
<1>3. 1 \in Ids /\ Ids \subseteq Nat /\ NextStep \in Nat
  BY <1>2 DEF Ids, NextStep
<1> QED
  BY <1>1, <1>2, <1>3, RevisionsAssumption

(* The number that HighestOf chooses exists: with a largest element missing *)
(* the sets of larger elements would shrink for ever.                       *)
LEMMA HighestIsHighest ==
  ASSUME NEW N \in Nat, NEW S \in SUBSET (1..N), S # {}
  PROVE  HighestOf(S) \in S /\ \A m \in S : m <= HighestOf(S)
<1> DEFINE Above(n) == {m \in S : n < m}
           Sets == {Above(n) : n \in S}
<1>1. IsFiniteSet(S)
  BY FS_Interval, FS_Subset, IsFiniteSet(1..N)
<1>2. FiniteSubsetsOf(S) = SUBSET S
  BY <1>1, FS_FiniteSubsetsOfFinite
<1>3. IsWellFoundedOn(StrictSubsetOrdering(S), SUBSET S)
  BY <1>2, FS_StrictSubsetOrderingWellFounded
<1>4. Sets \subseteq SUBSET S /\ Sets # {}
  OBVIOUS
<1>5. PICK T \in Sets : \A U \in Sets : ~ (<<U, T>> \in StrictSubsetOrdering(S))
  <2> HIDE DEF Sets
  <2> QED
    BY <1>3, <1>4, WFMin
<1>6. PICK n \in S : T = Above(n)
  BY <1>5
<1>7. ASSUME NEW m \in S, n < m PROVE FALSE
  <2>0. S \subseteq Nat /\ n \in Nat /\ m \in Nat
    OBVIOUS
  <2>4. \A x \in S : m < x => n < x
    BY <1>7, <2>0
  <2>5. ~(m < m)
    BY <2>0
  <2>1. Above(m) \subseteq Above(n) /\ m \in Above(n) /\ m \notin Above(m)
    BY <1>7, <2>4, <2>5
  <2>3. Above(m) \in Sets
    OBVIOUS
  <2>2. <<Above(m), Above(n)>> \in StrictSubsetOrdering(S)
    BY <2>1 DEF StrictSubsetOrdering
  <2> QED
    BY <2>2, <2>3, <1>5, <1>6
<1>8. \A m \in S : m <= n
  BY <1>7
<1> QED
  BY <1>8 DEF HighestOf

-----------------------------------------------------------------------------
(* Overrides and runtimes.                                                  *)

LEMMA OverriddenTyped ==
  ASSUME NEW o \in Overrides
  PROVE  /\ \A e \in Settings : Overridden(e, o) \in Settings
         /\ \A m \in ModelDocuments : Overridden(m, o) \in ModelDocuments
<1>1. \A f \in Editable : o[f] \in FieldValues(f) \cup {None}
  BY DEF Overrides
<1>2. ASSUME NEW e \in Settings PROVE Overridden(e, o) \in Settings
  <2>1. /\ e \in [Fields -> Releases \cup Rounds]
        /\ \A f \in Fields : e[f] \in FieldValues(f)
    BY DEF Settings
  <2>2. \A f \in Fields : (IF o[f] = None THEN e[f] ELSE o[f]) \in FieldValues(f)
    BY <1>1, <2>1 DEF Editable
  <2>3. \A f \in Fields : FieldValues(f) \subseteq Releases \cup Rounds
    BY DEF FieldValues
  <2>4. Overridden(e, o) = [f \in Fields |-> IF o[f] = None THEN e[f] ELSE o[f]]
    BY <2>1 DEF Overridden
  <2> QED
    BY <2>2, <2>3, <2>4 DEF Settings
<1>3. ASSUME NEW m \in ModelDocuments PROVE Overridden(m, o) \in ModelDocuments
  <2>1. \A s \in ModelStates : s \in Editable /\ FieldValues(s) = Models
    BY SettingsAssumption DEF Editable, FieldValues, Fields
  <2> QED
    BY <1>1, <2>1 DEF Overridden, ModelDocuments
<1> QED
  BY <1>2, <1>3

LEMMA NothingOverridden ==
  /\ NoOverrides \in Overrides
  /\ \A e \in Settings : Overridden(e, NoOverrides) = e
  /\ \A m \in ModelDocuments : Overridden(m, NoOverrides) = m
<1>1. NoOverrides \in Overrides
  BY DEF NoOverrides, Overrides
<1>2. \A f \in Editable : NoOverrides[f] = None
  BY DEF NoOverrides
<1>3. ASSUME NEW e \in Settings PROVE Overridden(e, NoOverrides) = e
  <2>1. e \in [Fields -> Releases \cup Rounds]
    BY DEF Settings
  <2> QED
    BY <1>2, <2>1 DEF Overridden, Editable
<1>4. ASSUME NEW m \in ModelDocuments PROVE Overridden(m, NoOverrides) = m
  BY <1>2 DEF Overridden, ModelDocuments, Editable
<1> QED
  BY <1>1, <1>3, <1>4

LEMMA MergeTyped ==
  ASSUME NEW o \in Overrides, NEW p \in Patches
  PROVE  MergeOverrides(o, p) \in Overrides
<1>1. \A f \in Editable : o[f] \in FieldValues(f) \cup {None}
  BY DEF Overrides
<1>2. \A f \in Editable : p[f] \in FieldValues(f) \cup {None, Keep}
  BY RevisionsAssumption
<1>3. \A f \in Editable :
        (IF p[f] = Keep THEN o[f] ELSE p[f]) \in FieldValues(f) \cup {None}
  BY <1>1, <1>2
<1>4. \A f \in Editable :
        FieldValues(f) \cup {None} \subseteq Releases \cup Rounds \cup Models \cup {None}
  BY DEF FieldValues
<1> QED
  BY <1>3, <1>4 DEF MergeOverrides, Overrides

(* A runtime that is whole, as those of the files and of revisions are.     *)
Whole(runtime) ==
  /\ runtime \in [id : Ids, policy : Policies, models : ModelDocuments,
                  overrides : Overrides, runtimeSha : RuntimeShas,
                  modelSha : ModelShas, manifest : Revisions \cup {None}]
  /\ runtime.modelSha.content = runtime.models

LEMMA FilesTyped ==
  ASSUME TypeOK
  PROVE  /\ files.policy \in Policies /\ files.models \in ModelDocuments
         /\ Consistent(files.policy.edit)
         /\ files.policy.edit \in Settings
<1>1. /\ Versions \in Seq([policy : Policies, models : ModelDocuments])
      /\ \A v \in DOMAIN Versions : Consistent(Versions[v].policy.edit)
  BY RevisionsAssumption
<1>2. files \in [policy : Policies, models : ModelDocuments]
  <2> DEFINE Files == [policy : Policies, models : ModelDocuments]
  <2>1. Versions \in Seq(Files) /\ version \in DOMAIN Versions
    BY <1>1 DEF TypeOK
  <2> HIDE DEF Files
  <2>2. Versions[version] \in Files
    BY <2>1
  <2> QED
    BY <2>2 DEF files, Files
<1> QED
  BY <1>1, <1>2 DEF TypeOK, files, Policies

LEMMA ShasTyped ==
  /\ \A p \in Policies : Raw(p) \in RuntimeShas /\ Canonical(p.edit) \in RuntimeShas
  /\ \A m \in ModelDocuments : Raw(m) \in ModelShas /\ Canonical(m) \in ModelShas
  BY DEF RuntimeShas, ModelShas, Digests, Raw, Canonical, Policies

LEMMA BaseWhole ==
  ASSUME TypeOK
  PROVE  Whole(Base)
  BY FilesTyped, ShasTyped, NothingOverridden, Constants DEF Whole, Base, BaseRuntime, Raw

LEMMA LoadedWhole ==
  ASSUME NEW revision \in Revisions, NEW id, Intact(revision, id),
         NEW base, Whole(base), NEW m \in BOOLEAN
  PROVE  LET runtime == LoadedRuntime(revision, base, m)
         IN /\ Whole(runtime)
            /\ runtime.id = id /\ runtime.manifest = revision
            /\ runtime.policy.edit = revision.document
            /\ runtime.overrides = revision.overrides
            /\ runtime.models = revision.models
            /\ runtime.runtimeSha = revision.runtimeSha
            /\ runtime.modelSha = revision.modelSha
<1>1. MergePolicy(base.policy, revision.document, m) \in Policies
  BY DEF MergePolicy, Policies, Whole, Revisions
<1> QED
  BY <1>1 DEF LoadedRuntime, Whole, Intact, Revisions, MergePolicy

LEMMA ManagedWhole ==
  ASSUME TypeOK, NEW id
  PROVE  Whole(ManagedRuntime(id))
<1>1. CASE id \in DOMAIN revisions
  <2>1. revisions[id] \in Revisions /\ Intact(revisions[id], id) /\ managed \in BOOLEAN
    BY <1>1 DEF TypeOK
  <2> QED
    BY <1>1, <2>1, BaseWhole, LoadedWhole DEF ManagedRuntime
<1>2. CASE id \notin DOMAIN revisions /\ id \in External
  <2>1. /\ Registry[id] \in Revisions /\ Intact(Registry[id], id)
        /\ managed \in BOOLEAN
    BY <1>2, Constants DEF TypeOK, External
  <2> QED
    BY <1>2, <2>1, BaseWhole, LoadedWhole DEF ManagedRuntime
<1> QED
  BY <1>1, <1>2, BaseWhole DEF ManagedRuntime

LEMMA RuntimeForWhole ==
  ASSUME TypeOK, NEW binding \in Bindings
  PROVE  Whole(RuntimeFor(binding))
<1>1. ASSUME binding.id = 1 /\ ~Registered(1) /\ binding.policy # Base.policy
      PROVE  Whole(WithPolicy(Base, binding.policy))
  <2>1. binding.policy \in Policies
    BY DEF Bindings
  <2> QED
    BY <2>1, BaseWhole, ShasTyped DEF WithPolicy, Whole
<1> QED
  BY <1>1, ManagedWhole DEF RuntimeFor

LEMMA SelectedWhole ==
  ASSUME TypeOK
  PROVE  Whole(Selected)
  BY BaseWhole, ManagedWhole DEF Selected

(* What is loaded under a binding is what the binding says.                 *)
LEMMA LoadsSame ==
  ASSUME TypeOK, NEW binding \in Bindings, Loads(binding)
  PROVE  /\ RuntimeFor(binding).id = binding.id
         /\ RuntimeFor(binding).policy = binding.policy
         /\ RuntimeFor(binding).models = binding.modelSha.content
         /\ RuntimeFor(binding).runtimeSha = binding.runtimeSha
<1>1. BranchBinding(RuntimeFor(binding), binding.from) = binding
  BY DEF Loads, BindingHolds
<1> QED
  BY <1>1, RuntimeForWhole DEF BranchBinding, Whole

LEMMA BindingTyped ==
  ASSUME NEW runtime, Whole(runtime), NEW from \in (0..NextStep) \cup {None}
  PROVE  /\ BranchBinding(runtime, from) \in Bindings
         /\ BranchBinding(runtime, from).id = runtime.id
         /\ BranchBinding(runtime, from).policy = runtime.policy
         /\ BranchBinding(runtime, from).runtimeSha = runtime.runtimeSha
         /\ BranchBinding(runtime, from).modelSha = runtime.modelSha
<1>1. From(runtime, from) \in 0..NextStep
  <2>1. Initial \in 0..NextStep
    BY Constants DEF Initial
  <2>2. runtime.manifest # None => runtime.manifest.from \in (0..NextStep) \cup {None}
    BY DEF Whole, Revisions
  <2> QED
    BY <2>1, <2>2 DEF From
<1> QED
  BY <1>1 DEF BranchBinding, Bindings, Whole

LEMMA PromiseTyped ==
  ASSUME NEW runtime, Whole(runtime)
  PROVE  /\ PromiseOf(runtime) \in Promises
         /\ PromiseOf(runtime).overrides = NoOverrides
         /\ PromiseOf(runtime).edit = runtime.policy.edit
         /\ PromiseOf(runtime).models = runtime.models
         /\ \A from \in (0..NextStep) \cup {None} :
              Kept(BranchBinding(runtime, from), PromiseOf(runtime))
<1>1. /\ runtime.policy.edit \in Settings /\ runtime.models \in ModelDocuments
      /\ runtime.modelSha.content = runtime.models
  BY DEF Whole, Policies
<1>2. /\ PromiseOf(runtime) \in Promises
      /\ PromiseOf(runtime).overrides = NoOverrides
      /\ PromiseOf(runtime).edit = runtime.policy.edit
      /\ PromiseOf(runtime).models = runtime.models
  BY <1>1, NothingOverridden DEF PromiseOf, Promises
<1>3. ASSUME NEW from \in (0..NextStep) \cup {None}
      PROVE  Kept(BranchBinding(runtime, from), PromiseOf(runtime))
  BY <1>1, <1>2, BindingTyped, NothingOverridden DEF Kept
<1> QED
  BY <1>2, <1>3

-----------------------------------------------------------------------------
(* What the steps share.                                                    *)

HistoryTyped ==
  /\ DOMAIN branches \subseteq BranchNames
  /\ branches \in [DOMAIN branches -> Bindings]
  /\ heads \in [DOMAIN branches -> Points]
  /\ asked \in [DOMAIN branches -> Promises]
  /\ receipts \subseteq Clients
  /\ DOMAIN shown \subseteq Ids /\ shown \in [DOMAIN shown -> Promises]
  /\ current \in BranchNames
  /\ project # "none" => current \in DOMAIN branches

LEMMA HistorySame ==
  ASSUME HistoryHolds, UNCHANGED <<branches, asked, shown, revisions, managed>>,
         pointer' # None => pointer # None, Standalone' => Standalone
  PROVE  HistoryHolds'
  BY DEF HistoryHolds, Derived, PromiseFor, Standalone

LEMMA PendingTyped ==
  ASSUME TypeOK, pending # None
  PROVE  /\ pending \in Transactions
         /\ pending.binding \in Bindings /\ pending.promise \in Promises
         /\ pending.branch \in BranchNames /\ pending.point \in Points
         /\ pending.key \in Clients
         /\ pending.binding.id \in Ids
         /\ pending.publishes \in BOOLEAN
         /\ pending.kind \in {"branch", "config"}
         /\ pending.step \in {"intent", "written", "published", "marked"}
         /\ pending.publishes => pending.revision \in Revisions
  BY DEF TypeOK, Transactions, Bindings

(* A complete transaction keeps the history whole: its branch is bound to   *)
(* what its member was promised, and its revision is the published one.     *)
LEMMA CommittedHolds ==
  ASSUME TypeOK, Stages, HistoryHolds, PendingHolds,
         pending # None, Complete(pending), Committed(pending),
         UNCHANGED <<owner, project, revisions>>
  PROVE  /\ HistoryTyped' /\ HistoryHolds'
         /\ DOMAIN shown \subseteq DOMAIN shown'
         /\ current' \in DOMAIN branches' /\ branches'[current'] = pending.binding
         /\ RawBinding = pending.binding
<1> DEFINE p == pending
<1>1. /\ project = "ready"
      /\ p \in Transactions
      /\ p.binding \in Bindings /\ p.promise \in Promises
      /\ p.branch \in BranchNames /\ p.point \in Points /\ p.key \in Clients
      /\ p.binding.id \in Ids
  BY PendingTyped DEF Stages
<1>2. /\ branches \in [DOMAIN branches -> Bindings]
      /\ asked \in [DOMAIN branches -> Promises]
      /\ heads \in [DOMAIN branches -> Points]
      /\ shown \in [DOMAIN shown -> Promises]
      /\ DOMAIN heads = DOMAIN branches /\ DOMAIN asked = DOMAIN branches
      /\ DOMAIN shown \subseteq Ids /\ DOMAIN branches \subseteq BranchNames
  BY DEF TypeOK
<1>3. /\ DOMAIN branches' = DOMAIN branches \cup {p.branch}
      /\ branches' \in [DOMAIN branches' -> Bindings]
      /\ branches'[p.branch] = p.binding
      /\ \A b \in DOMAIN branches : b # p.branch => branches'[b] = branches[b]
  <2>1. branches' = Put(branches, p.branch, p.binding)
    BY DEF Committed
  <2> QED
    BY <1>1, <1>2, <2>1 DEF Put
<1>4. /\ asked' \in [DOMAIN branches' -> Promises]
      /\ asked'[p.branch] = p.promise
      /\ \A b \in DOMAIN branches : b # p.branch => asked'[b] = asked[b]
  <2>1. asked' = Put(asked, p.branch, p.promise)
    BY DEF Committed
  <2> QED
    BY <1>1, <1>2, <1>3, <2>1 DEF Put
<1>5. heads' \in [DOMAIN branches' -> Points]
  <2>1. heads' = Put(heads, p.branch, p.point)
    BY DEF Committed
  <2> QED
    BY <1>1, <1>2, <1>3, <2>1 DEF Put
<1>6. /\ DOMAIN shown' = DOMAIN shown \cup {p.binding.id}
      /\ shown' \in [DOMAIN shown' -> Promises]
      /\ shown'[p.binding.id] = p.promise
      /\ \A i \in DOMAIN shown : i # p.binding.id => shown'[i] = shown[i]
  <2>1. shown' = Put(shown, p.binding.id, p.promise)
    BY DEF Committed
  <2> QED
    BY <1>1, <1>2, <2>1 DEF Put
<1>7. current' = p.branch /\ receipts' = receipts \cup {p.key}
  BY DEF Committed
<1>8. HistoryTyped'
  BY <1>1, <1>2, <1>3, <1>4, <1>5, <1>6, <1>7 DEF HistoryTyped, TypeOK
<1>9. /\ Kept(p.binding, p.promise)
      /\ managed => DescribesOwners(p.binding)
      /\ ~managed => /\ Describes(p.binding, p.revision)
                     /\ p.promise = PromiseFor(p.revision)
                     /\ p.binding.id = p.revision.id
                     /\ p.revision.id \in DOMAIN revisions
                     /\ revisions[p.revision.id] = p.revision
  BY DEF PendingHolds, Complete, Describes
<1>10. pointer # None => managed
  BY DEF Stages
<1>11. ASSUME NEW b \in DOMAIN branches'
       PROVE  /\ Kept(branches'[b], asked'[b])
              /\ branches'[b].id \in DOMAIN shown'
              /\ Standalone /\ OfSettings(b) =>
                   /\ branches'[b].id \in DOMAIN revisions
                   /\ Describes(branches'[b], revisions[branches'[b].id])
              /\ pointer # None /\ OfSettings(b) => DescribesOwners(branches'[b])
  <2>1. CASE b = p.branch
    BY <2>1, <1>3, <1>4, <1>6, <1>9, <1>10 DEF Standalone
  <2>2. CASE b # p.branch
    BY <2>2, <1>3, <1>4, <1>6 DEF HistoryHolds
  <2> QED
    BY <2>1, <2>2
<1>12. ASSUME Standalone, NEW i \in DOMAIN shown'
       PROVE  i \in DOMAIN revisions /\ shown'[i] = PromiseFor(revisions[i])
  BY <1>12, <1>6, <1>9 DEF HistoryHolds, Standalone
<1>13. HistoryHolds'
  BY <1>6, <1>11, <1>12 DEF HistoryHolds, Standalone, Derived, PromiseFor, owner
<1>14. RawBinding = p.binding
  BY <1>1 DEF PendingHolds, Complete, RawBinding, RawBranch, TypeOK
<1> QED
  BY <1>3, <1>6, <1>7, <1>8, <1>13, <1>14

(* Recovery keeps the history whole, and takes the transaction away.        *)
LEMMA RecoveredHolds ==
  ASSUME TypeOK, Stages, HistoryHolds, PendingHolds, pending # None,
         Recovered, UNCHANGED <<owner, project, revisions>>
  PROVE  /\ HistoryTyped' /\ HistoryHolds' /\ PendingHolds'
         /\ DOMAIN shown \subseteq DOMAIN shown'
         /\ project = "ready"
<1>1. project = "ready" /\ pending' = None
  BY DEF Stages, Recovered
<1>2. CASE Complete(pending)
  BY <1>1, <1>2, CommittedHolds DEF Recovered, PendingHolds
<1>3. CASE ~Complete(pending)
  <2>1. UNCHANGED history
    BY <1>3 DEF Recovered
  <2>2. HistoryHolds'
    BY <2>1, HistorySame DEF history, owner, Standalone
  <2> QED
    BY <1>1, <2>1, <2>2 DEF history, HistoryTyped, TypeOK, PendingHolds
<1> QED
  BY <1>2, <1>3

-----------------------------------------------------------------------------
(* The requests.                                                            *)

LEMMA StandaloneRuntime ==
  ASSUME TypeOK, Stages, HistoryHolds, Standalone,
         NEW binding \in Bindings, Loads(binding)
  PROVE  /\ binding.id \in DOMAIN revisions
         /\ RuntimeFor(binding).overrides = revisions[binding.id].overrides
         /\ RuntimeFor(binding).policy.edit = revisions[binding.id].document
         /\ RuntimeFor(binding).models = revisions[binding.id].models
<1>1. pointer = None /\ 1 \in DOMAIN revisions
  BY DEF Stages, Standalone, HistoryHolds
<1>2. External = {} /\ Registered(1)
  BY <1>1 DEF External, Registered
<1>3. binding.id \in DOMAIN revisions
  BY <1>1, <1>2 DEF Loads, Registered
<1>4. RuntimeFor(binding) = LoadedRuntime(revisions[binding.id], Base, managed)
  BY <1>2, <1>3 DEF RuntimeFor, ManagedRuntime
<1>5. /\ revisions[binding.id] \in Revisions
      /\ Intact(revisions[binding.id], binding.id) /\ managed \in BOOLEAN
  BY <1>3 DEF TypeOK
<1> QED
  BY <1>3, <1>4, <1>5, BaseWhole, LoadedWhole

LEMMA BaselineHolds ==
  ASSUME TypeOK, HistoryHolds, Standalone
  PROVE  /\ Whole(Baseline)
         /\ Baseline.policy.edit = revisions[1].document
         /\ Baseline.models = revisions[1].models
<1>1. 1 \in DOMAIN revisions
  BY DEF HistoryHolds
<1>2. revisions[1] \in Revisions /\ Intact(revisions[1], 1) /\ FALSE \in BOOLEAN
  BY <1>1 DEF TypeOK
<1>3. Baseline = LoadedRuntime(revisions[1], Base, FALSE)
  BY <1>1 DEF Baseline
<1> QED
  BY <1>2, <1>3, BaseWhole, LoadedWhole

(* The number of the next revision is free.                                 *)
LEMMA NextIsFree ==
  ASSUME TypeOK, NEW active \in Ids
  PROVE  /\ NextRevisionId(active) \in Nat
         /\ NextRevisionId(active) > active
         /\ NextRevisionId(active) \notin DOMAIN revisions
         /\ NextRevisionId(active) <= MaxId => NextRevisionId(active) \in Ids
<1> DEFINE S == {active} \cup DOMAIN revisions
<1>1. S \in SUBSET (1..MaxId) /\ S # {} /\ active \in S
  BY DEF TypeOK, Ids
<1>2. HighestOf(S) \in S /\ \A m \in S : m <= HighestOf(S)
  <2> HIDE DEF S
  <2> QED
    BY <1>1, HighestIsHighest, Constants
<1>3. NextRevisionId(active) = HighestOf(S) + 1
  BY DEF NextRevisionId
<1>4. DOMAIN revisions \subseteq S
  OBVIOUS
<1> HIDE DEF S
<1>5. HighestOf(S) \in 1..MaxId
  BY <1>1, <1>2
<1> QED
  BY <1>1, <1>2, <1>3, <1>4, <1>5, Constants DEF Ids

(* What a settings request would commit.                                    *)
LEMMA RevisionHolds ==
  ASSUME RInv, Standalone, NEW c \in Clients, NEW base \in DOMAIN shown,
         NEW patch \in Patches, SettingsAccepted(c, base, NewOverrides(patch)),
         Revision(c, NewOverrides(patch)).id <= MaxId,
         ManifestValid(Revision(c, NewOverrides(patch)))
  PROVE  LET revision == Revision(c, NewOverrides(patch))
             binding == BuiltBinding(revision, NewPolicy(NewOverrides(patch)))
         IN /\ revision \in Revisions /\ Intact(revision, revision.id)
            /\ revision.id \notin DOMAIN revisions
            /\ binding \in Bindings /\ Describes(binding, revision)
            /\ Derived(revision)
            /\ Promised(base, patch) = PromiseFor(revision)
            /\ Promised(base, patch) \in Promises
            /\ Kept(binding, Promised(base, patch))
            /\ ~BeforeStartAllowed => revision.branch \in BranchNames
            /\ BeforeStartAllowed => revision.branch = None
<1> USE DEF RInv
<1> DEFINE o == NewOverrides(patch)
           r == Revision(c, o)
           b == BuiltBinding(r, NewPolicy(o))
<1>1. /\ current \in DOMAIN branches /\ Active \in Bindings
      /\ heads[current] \in Points /\ current \in BranchNames
  BY DEF Standalone, TypeOK, Active
<1>2. Loads(Active) /\ base = ProjectRuntime.id
  BY DEF SettingsAccepted, BaseIsCurrent
<1>3. /\ base \in DOMAIN revisions /\ base \in Ids
      /\ ProjectRuntime.overrides = revisions[base].overrides
      /\ revisions[base] \in Revisions
  BY <1>1, <1>2, StandaloneRuntime, LoadsSame DEF ProjectRuntime, TypeOK
<1>4. o \in Overrides /\ o = MergeOverrides(revisions[base].overrides, patch)
  <2>1. revisions[base].overrides \in Overrides
    BY <1>3 DEF Revisions
  <2> QED
    BY <1>3, <2>1, MergeTyped DEF NewOverrides
<1>5. /\ NewPolicy(o) \in Policies
      /\ NewPolicy(o).edit = Overridden(revisions[1].document, o)
      /\ NewPolicy(o).edit \in Settings
      /\ NewModels(o) = Overridden(revisions[1].models, o)
      /\ NewModels(o) \in ModelDocuments
  <2>1. /\ Baseline.policy \in Policies /\ Baseline.policy.edit \in Settings
        /\ Baseline.models \in ModelDocuments
    BY BaselineHolds DEF Whole, Policies
  <2>2. /\ Overridden(Baseline.policy.edit, o) \in Settings
        /\ Overridden(Baseline.models, o) \in ModelDocuments
    BY <1>4, <2>1, OverriddenTyped
  <2> QED
    BY <2>1, <2>2, BaselineHolds DEF NewPolicy, NewModels, Policies
<1>6. r.id = NextRevisionId(base)
  BY <1>2 DEF Revision, Build
<1>7. r.id \in Ids /\ r.id \notin DOMAIN revisions /\ r.id # base
  BY <1>3, <1>6, NextIsFree, Constants
<1>8. /\ r = [id |-> r.id, parent |-> base, overrides |-> o,
              document |-> NewPolicy(o).edit, models |-> NewModels(o),
              runtimeSha |-> Canonical(NewPolicy(o).edit),
              modelSha |-> Canonical(NewModels(o)),
              mode |-> r.mode, status |-> "APPLIED",
              branch |-> r.branch, point |-> r.point, from |-> r.from]
      /\ r.mode \in {"before_start", "safe_checkpoint_branch"}
      /\ r.branch = IF BeforeStartAllowed THEN None ELSE BranchName(r.id, c)
      /\ r.point = IF BeforeStartAllowed THEN None ELSE <<current, heads[current]>>
      /\ r.from = IF BeforeStartAllowed THEN Initial ELSE NextStep
  BY <1>2 DEF Revision, Build
<1>9. /\ r.branch \in BranchNames \cup {None}
      /\ r.point \in (BranchNames \X Points) \cup {None}
      /\ r.from \in 0..NextStep
      /\ ~BeforeStartAllowed => r.branch \in BranchNames
      /\ BeforeStartAllowed => r.branch = None
  BY <1>1, <1>7, <1>8, Constants DEF BranchNames, BranchName, Initial
<1>10. /\ Canonical(NewPolicy(o).edit) \in RuntimeShas
       /\ Canonical(NewModels(o)) \in ModelShas
  BY <1>5, ShasTyped
<1> HIDE DEF r, o
<1>11. r \in Revisions
  <2>1. "APPLIED" \in Statuses
    BY DEF Statuses
  <2> QED
    BY <1>3, <1>4, <1>5, <1>7, <1>8, <1>9, <1>10, <2>1 DEF Revisions
<1>12. Intact(r, r.id)
  <2>1. ManifestValid(r) /\ Consistent(NewPolicy(o).edit)
    BY DEF r, o, SettingsAccepted
  <2> QED
    BY <1>8, <2>1 DEF Intact, Canonical
<1>13. b \in Bindings /\ Describes(b, r)
  BY <1>5, <1>7, <1>8, <1>9, <1>11 DEF BuiltBinding, Bindings, Describes, Revisions
<1>14. Derived(r)
  BY <1>5, <1>8 DEF Derived
<1>15. Promised(base, patch) = PromiseFor(r)
  <2>1. shown[base] = PromiseFor(revisions[base])
    BY DEF HistoryHolds
  <2> QED
    BY <1>4, <1>8, <2>1 DEF Promised, PromiseFor
<1>16. PromiseFor(r) \in Promises
  <2>1. revisions[1] \in Revisions
    BY DEF HistoryHolds, TypeOK
  <2> QED
    BY <1>11, <2>1 DEF PromiseFor, Promises, Revisions
<1>17. Kept(b, PromiseFor(r))
  <2>1. r.modelSha.content = r.models
    BY <1>12 DEF Intact
  <2> QED
    BY <1>13, <1>14, <2>1 DEF Kept, Derived, Describes, PromiseFor
<1> QED
  BY <1>7, <1>9, <1>11, <1>12, <1>13, <1>14, <1>15, <1>16, <1>17 DEF r, o

(* What a request leaves as it is.                                          *)
LEMMA BeganHolds ==
  ASSUME RInv, NEW c \in Clients, project = "ready", lock = None,
         pending' \in Transactions, pending'.key = c,
         pending'.publishes <=> pending'.revision # None,
         pending'.publishes => Intact(pending'.revision, pending'.revision.id),
         lock' = c,
         UNCHANGED <<owner, project, revisions, history, calls, job>>
  PROVE  TypeOK' /\ Stages' /\ HistoryHolds' /\ JobHolds'
<1> USE DEF RInv
<1>1. job.pc # "running"
  BY Constants DEF TypeOK
<1>2. TypeOK'
  BY Constants DEF TypeOK, owner, history, calls
<1>3. Stages'
  BY DEF Stages, owner, history
<1>4. HistoryHolds'
  BY HistorySame DEF history, owner, Standalone
<1>5. JobHolds'
  BY <1>1 DEF JobHolds, history
<1> QED
  BY <1>2, <1>3, <1>4, <1>5

LEMMA BeginHolds ==
  ASSUME RInv, NEW c \in Clients, NEW base \in DOMAIN shown, NEW patch \in Patches,
         Begin(c, base, patch)
  PROVE  RInv'
<1> DEFINE o == NewOverrides(patch)
           r == Revision(c, o)
           b == BuiltBinding(r, NewPolicy(o))
           m == Promised(base, patch)
<1>1. /\ project = "ready" /\ ~managed /\ lock = None /\ pending = None /\ lock' = c
      /\ SettingsAccepted(c, base, o) /\ r.id <= MaxId /\ ManifestValid(r)
      /\ r.branch \notin DOMAIN branches
      /\ UNCHANGED <<owner, project, revisions, history, calls, job>>
      /\ pending' = Transaction(c, IF BeforeStartAllowed THEN "config" ELSE "branch",
                      IF BeforeStartAllowed THEN current ELSE r.branch, b, m, r)
  BY DEF Begin
<1>2. /\ r \in Revisions /\ Intact(r, r.id) /\ r.id \notin DOMAIN revisions
      /\ b \in Bindings /\ Describes(b, r) /\ Derived(r)
      /\ m = PromiseFor(r) /\ m \in Promises /\ Kept(b, m)
      /\ ~BeforeStartAllowed => r.branch \in BranchNames
  BY <1>1, RevisionHolds DEF Standalone
<1> HIDE DEF o, r, b, m
<1>3. /\ current \in BranchNames /\ heads[current] \in Points /\ r # None
  BY <1>1, <1>2, Constants DEF RInv, TypeOK
<1>4. /\ pending' \in Transactions
      /\ pending'.key = c /\ pending'.step = "intent" /\ pending'.publishes
      /\ pending'.revision = r /\ pending'.binding = b /\ pending'.promise = m
      /\ pending'.kind = "branch" => pending'.branch = r.branch
  BY <1>1, <1>2, <1>3 DEF Transaction, Transactions
<1>5. TypeOK' /\ Stages' /\ HistoryHolds' /\ JobHolds'
  BY <1>1, <1>2, <1>3, <1>4, BeganHolds
<1>6. r.id \notin DOMAIN shown
  BY <1>1, <1>2 DEF RInv, HistoryHolds, Standalone
<1>7. PendingHolds'
  BY <1>1, <1>2, <1>4, <1>6 DEF PendingHolds, Derived, PromiseFor, owner, history
<1>8. NumbersAreNew'
  BY <1>1, <1>2, <1>4 DEF NumbersAreNew, Publishable
<1> QED
  BY <1>5, <1>7, <1>8 DEF RInv

(* What the owner's registry has, loaded into a managed project.            *)
LEMMA OwnersRuntime ==
  ASSUME TypeOK, Stages, managed, pointer # None, NEW id \in DOMAIN Registry
  PROVE  /\ Whole(ManagedRuntime(id))
         /\ ManagedRuntime(id).id = id
         /\ \A from \in (0..NextStep) \cup {None} :
              DescribesOwners(BranchBinding(ManagedRuntime(id), from))
<1>1. ManagedRuntime(id) = LoadedRuntime(Registry[id], Base, managed)
  BY DEF Stages, External, ManagedRuntime, TypeOK
<1>2. Registry[id] \in Revisions /\ Intact(Registry[id], id) /\ managed \in BOOLEAN
  BY Constants DEF TypeOK
<1>3. /\ Whole(ManagedRuntime(id))
      /\ ManagedRuntime(id).id = id
      /\ ManagedRuntime(id).policy.edit = Registry[id].document
      /\ ManagedRuntime(id).runtimeSha = Registry[id].runtimeSha
      /\ ManagedRuntime(id).modelSha = Registry[id].modelSha
  <2>1. ASSUME NEW m \in BOOLEAN
        PROVE  LET runtime == LoadedRuntime(Registry[id], Base, m)
               IN /\ Whole(runtime)
                  /\ runtime.id = id
                  /\ runtime.policy.edit = Registry[id].document
                  /\ runtime.runtimeSha = Registry[id].runtimeSha
                  /\ runtime.modelSha = Registry[id].modelSha
    BY <1>2, BaseWhole, LoadedWhole
  <2> QED
    BY <1>1, <1>2, <2>1
<1>4. ManagedRuntime(id).policy.release = "manual"
  BY <1>1 DEF LoadedRuntime, MergePolicy
<1>5. Registry[id].id = id
  BY <1>2 DEF Intact
<1> QED
  BY <1>3, <1>4, <1>5, BindingTyped DEF DescribesOwners, Describes

LEMMA BeginManagedHolds ==
  ASSUME RInv, NEW c \in Clients, NEW base \in DOMAIN shown,
         NEW id \in DOMAIN Registry, NEW point,
         BeginManaged(c, id, base, point)
  PROVE  RInv'
<1> DEFINE runtime == ManagedRuntime(id)
           b == BranchBinding(runtime, NextStep)
           m == PromiseOf(runtime)
<1>1. /\ project = "ready" /\ managed /\ lock = None /\ pending = None /\ lock' = c
      /\ BranchName(id, c) \notin DOMAIN branches
      /\ UNCHANGED <<owner, project, revisions, history, calls, job>>
      /\ pending' = Transaction(c, "branch", BranchName(id, c), b, m, None)
  BY DEF BeginManaged, ApplyAccepted
<1>2. Whole(runtime) /\ DescribesOwners(b) /\ b \in Bindings
  <2>1. NextStep \in 0..NextStep /\ pointer # None
    BY <1>1, Constants DEF RInv, Stages
  <2> QED
    BY <1>1, <2>1, OwnersRuntime, BindingTyped DEF RInv
<1>3. m \in Promises /\ Kept(b, m)
  BY <1>2, PromiseTyped, Constants
<1> HIDE DEF b, m
<1>4. /\ heads[current] \in Points /\ BranchName(id, c) \in BranchNames
  <2>1. id \in Ids
    BY Constants
  <2> QED
    BY <1>1, <2>1 DEF RInv, TypeOK, BranchNames, BranchName
<1>5. /\ pending' \in Transactions
      /\ pending'.key = c /\ pending'.step = "intent" /\ ~pending'.publishes
      /\ pending'.kind = "branch" /\ pending'.branch = BranchName(id, c)
      /\ pending'.revision = None /\ pending'.binding = b /\ pending'.promise = m
  BY <1>1, <1>2, <1>3, <1>4 DEF Transaction, Transactions
<1>6. TypeOK' /\ Stages' /\ HistoryHolds' /\ JobHolds'
  BY <1>1, <1>5, BeganHolds
<1>7. PendingHolds'
  BY <1>1, <1>2, <1>3, <1>5 DEF PendingHolds, owner, history
<1>8. NumbersAreNew'
  BY <1>5 DEF NumbersAreNew
<1> QED
  BY <1>6, <1>7, <1>8 DEF RInv

-----------------------------------------------------------------------------
(* The writes of a transaction.                                             *)

LEMMA WrittenHolds ==
  ASSUME RInv, NEW c \in Clients, lock = c,
         NEW next \in {"written", "published", "marked"},
         pending' = [pending EXCEPT !.step = next],
         UNCHANGED <<owner, project, history, calls, lock, job>>
  PROVE  /\ pending # None /\ pending' # None
         /\ pending' \in Transactions /\ pending'.step = next
         /\ pending'.publishes = pending.publishes
         /\ pending'.revision = pending.revision
         /\ pending'.key = pending.key /\ pending'.kind = pending.kind
         /\ pending'.branch = pending.branch /\ pending'.binding = pending.binding
         /\ pending'.promise = pending.promise
         /\ UNCHANGED revisions => Stages'
         /\ JobHolds'
         /\ project = "ready" /\ job.pc # "running"
<1>1. /\ pending # None /\ pending \in Transactions /\ project = "ready"
      /\ job.pc # "running"
  BY Constants DEF RInv, TypeOK, Stages
<1>2. /\ pending' \in Transactions /\ pending'.step = next
      /\ pending'.publishes = pending.publishes
      /\ pending'.revision = pending.revision
      /\ pending'.key = pending.key /\ pending'.kind = pending.kind
      /\ pending'.branch = pending.branch /\ pending'.binding = pending.binding
      /\ pending'.promise = pending.promise
  BY <1>1 DEF Transactions
<1>3. pending' # None
  BY <1>2, Constants
<1>4. JobHolds'
  BY <1>1 DEF RInv, JobHolds, history
<1>5. UNCHANGED revisions => Stages'
  BY <1>1 DEF RInv, Stages, history, owner
<1> QED
  BY <1>1, <1>2, <1>3, <1>4, <1>5

LEMMA WriteManifestHolds ==
  ASSUME RInv, NEW c \in Clients, WriteManifest(c)
  PROVE  RInv'
<1>1. /\ lock = c /\ pending' = [pending EXCEPT !.step = "written"]
      /\ UNCHANGED <<owner, project, revisions, history, calls, lock, job>>
      /\ pending.step = "intent"
  BY DEF WriteManifest, Writes
<1>2. /\ pending # None /\ pending' # None
      /\ pending' \in Transactions /\ pending'.step = "written"
      /\ pending'.publishes = pending.publishes
      /\ pending'.revision = pending.revision
      /\ pending'.key = pending.key /\ pending'.kind = pending.kind
      /\ pending'.branch = pending.branch /\ pending'.binding = pending.binding
      /\ pending'.promise = pending.promise
      /\ Stages' /\ JobHolds'
  BY <1>1, WrittenHolds
<1>3. TypeOK'
  BY <1>1, <1>2 DEF RInv, TypeOK, owner, history, calls
<1>4. HistoryHolds'
  BY <1>1, HistorySame DEF RInv, history, owner, Standalone
<1>5. PendingHolds'
  BY <1>1, <1>2 DEF RInv, PendingHolds, Derived, PromiseFor, owner, history
<1>6. NumbersAreNew'
  BY <1>1, <1>2 DEF RInv, NumbersAreNew, Publishable
<1> QED
  BY <1>2, <1>3, <1>4, <1>5, <1>6 DEF RInv

LEMMA MarkHolds ==
  ASSUME RInv, NEW c \in Clients, Mark(c)
  PROVE  RInv'
<1>1. /\ lock = c /\ pending' = [pending EXCEPT !.step = "marked"]
      /\ UNCHANGED <<owner, project, revisions, history, calls, lock, job>>
      /\ pending.step = "published"
  BY DEF Mark, Writes
<1>2. /\ pending # None /\ pending' # None
      /\ pending' \in Transactions /\ pending'.step = "marked"
      /\ pending'.publishes = pending.publishes
      /\ pending'.revision = pending.revision
      /\ pending'.key = pending.key /\ pending'.kind = pending.kind
      /\ pending'.branch = pending.branch /\ pending'.binding = pending.binding
      /\ pending'.promise = pending.promise
      /\ Stages' /\ JobHolds'
  BY <1>1, WrittenHolds
<1>3. TypeOK'
  BY <1>1, <1>2 DEF RInv, TypeOK, owner, history, calls
<1>4. HistoryHolds'
  BY <1>1, HistorySame DEF RInv, history, owner, Standalone
<1>5. PendingHolds'
  BY <1>1, <1>2 DEF RInv, PendingHolds, Derived, PromiseFor, owner, history
<1>6. NumbersAreNew'
  BY <1>2 DEF NumbersAreNew
<1> QED
  BY <1>2, <1>3, <1>4, <1>5, <1>6 DEF RInv

LEMMA PublishRevisionHolds ==
  ASSUME RInv, NEW c \in Clients, PublishRevision(c)
  PROVE  RInv'
<1> DEFINE r == pending.revision
<1>1. /\ lock = c /\ pending' = [pending EXCEPT !.step = "published"]
      /\ pending.publishes /\ r.id \notin DOMAIN revisions
      /\ revisions' = Put(revisions, r.id, r)
      /\ UNCHANGED <<owner, project, history, calls, lock, job>>
  BY DEF PublishRevision, Writes, Publishable
<1>2. /\ pending # None /\ pending' # None
      /\ pending' \in Transactions /\ pending'.step = "published"
      /\ pending'.publishes = pending.publishes
      /\ pending'.revision = r
      /\ pending'.key = pending.key /\ pending'.kind = pending.kind
      /\ pending'.branch = pending.branch /\ pending'.binding = pending.binding
      /\ pending'.promise = pending.promise
      /\ project = "ready"
      /\ JobHolds'
  BY <1>1, WrittenHolds
<1>3. /\ ~managed /\ r \in Revisions /\ r.id \in Ids /\ Intact(r, r.id)
      /\ Derived(r) /\ Standalone
  BY <1>1, <1>2 DEF RInv, PendingHolds, TypeOK, Transactions, Revisions, Standalone
<1>4. /\ DOMAIN revisions' = DOMAIN revisions \cup {r.id}
      /\ revisions' \in [DOMAIN revisions' -> Revisions]
      /\ revisions'[r.id] = r
      /\ \A i \in DOMAIN revisions : revisions'[i] = revisions[i]
  <2>1. revisions \in [DOMAIN revisions -> Revisions]
    BY DEF RInv, TypeOK
  <2> QED
    BY <1>1, <1>3, <2>1 DEF Put
<1>5. TypeOK'
  <2>1. \A i \in DOMAIN revisions' : Intact(revisions'[i], i)
    BY <1>3, <1>4 DEF RInv, TypeOK
  <2>2. DOMAIN revisions' \subseteq Ids
    BY <1>3, <1>4 DEF RInv, TypeOK
  <2> QED
    BY <1>1, <1>2, <1>4, <2>1, <2>2 DEF RInv, TypeOK, owner, history, calls
<1>6. Stages'
  BY <1>1, <1>2, <1>3 DEF RInv, Stages, history, owner
<1>7. /\ 1 \in DOMAIN revisions /\ revisions'[1] = revisions[1]
      /\ \A x : Derived(x)' = Derived(x)
      /\ \A x : PromiseFor(x)' = PromiseFor(x)
  <2>1. 1 \in DOMAIN revisions /\ revisions'[1] = revisions[1]
    BY <1>3, <1>4 DEF RInv, HistoryHolds
  <2> QED
    BY <2>1 DEF Derived, PromiseFor
<1>8. HistoryHolds'
  BY <1>1, <1>3, <1>4, <1>7 DEF RInv, HistoryHolds, history, owner, Standalone
<1>9. PendingHolds'
  BY <1>1, <1>2, <1>3, <1>4, <1>7 DEF RInv, PendingHolds, history, owner
<1>10. NumbersAreNew'
  BY <1>2 DEF NumbersAreNew
<1> QED
  BY <1>2, <1>5, <1>6, <1>8, <1>9, <1>10 DEF RInv

LEMMA PublishFailsHolds ==
  ASSUME RInv, NEW c \in Clients, PublishFails(c)
  PROVE  RInv'
<1>1. /\ lock = c /\ pending' = None /\ lock' = None
      /\ UNCHANGED <<owner, project, revisions, history, calls, job>>
  BY DEF PublishFails
<1>2. job.pc # "running"
  BY <1>1, Constants DEF RInv, TypeOK
<1>3. TypeOK'
  BY <1>1, <1>2, Constants DEF RInv, TypeOK, owner, history, calls
<1>4. HistoryHolds'
  BY <1>1, HistorySame DEF RInv, history, owner, Standalone
<1>5. Stages'
  BY <1>1 DEF RInv, Stages, owner, history
<1>6. PendingHolds' /\ NumbersAreNew' /\ JobHolds'
  BY Constants, <1>1, <1>2 DEF RInv, PendingHolds, JobHolds, NumbersAreNew, history
<1> QED
  BY <1>3, <1>4, <1>5, <1>6 DEF RInv

LEMMA CommitHolds ==
  ASSUME RInv, NEW c \in Clients, Commit(c)
  PROVE  RInv'
<1>1. /\ lock = c /\ pending' = None /\ lock' = None
      /\ Complete(pending) /\ Committed(pending)
      /\ UNCHANGED <<owner, project, revisions, calls, job>>
  BY DEF Commit
<1>2. job.pc # "running" /\ pending # None /\ project = "ready"
  BY <1>1, Constants DEF RInv, TypeOK, Stages
<1>3. /\ HistoryTyped' /\ HistoryHolds' /\ DOMAIN shown \subseteq DOMAIN shown'
  BY <1>1, <1>2, CommittedHolds DEF RInv
<1>4. TypeOK'
  BY <1>1, <1>2, <1>3, Constants DEF RInv, TypeOK, HistoryTyped, owner, calls
<1>5. Stages'
  BY <1>1, <1>2 DEF RInv, Stages, owner
<1>6. PendingHolds' /\ NumbersAreNew' /\ JobHolds'
  BY Constants, <1>1, <1>2, <1>3 DEF RInv, PendingHolds, JobHolds, NumbersAreNew
<1> QED
  BY <1>3, <1>4, <1>5, <1>6 DEF RInv

-----------------------------------------------------------------------------
(* The project begins.                                                      *)

LEMMA FirstBuilt ==
  ASSUME NEW policy \in Policies, NEW models \in ModelDocuments
  PROVE  LET revision == FirstRevision(policy, models)
             binding == BuiltBinding(revision, policy)
         IN /\ binding \in Bindings /\ Describes(binding, revision)
            /\ binding.id = 1 /\ binding.policy = policy
            /\ binding.modelSha.content = models
            /\ revision.overrides = NoOverrides
            /\ revision.document = policy.edit /\ revision.models = models
            /\ revision \in Revisions
            /\ Consistent(policy.edit) => Intact(revision, 1)
<1> DEFINE r == FirstRevision(policy, models)
           b == BuiltBinding(r, policy)
<1>1. r = [id |-> 1, parent |-> None, overrides |-> NoOverrides,
           document |-> policy.edit, models |-> models,
           runtimeSha |-> Canonical(policy.edit), modelSha |-> Canonical(models),
           mode |-> "before_start", status |-> "APPLIED",
           branch |-> None, point |-> None, from |-> Initial]
  BY DEF FirstRevision, Build
<1>2. /\ policy.edit \in Settings /\ NoOverrides \in Overrides
      /\ Canonical(policy.edit) \in RuntimeShas /\ Canonical(models) \in ModelShas
      /\ Initial \in 0..NextStep /\ 1 \in Ids /\ "APPLIED" \in Statuses
  BY NothingOverridden, ShasTyped, Constants DEF Policies, Initial, Statuses
<1> HIDE DEF r
<1>3. r \in Revisions
  BY <1>1, <1>2 DEF Revisions
<1>4. b \in Bindings /\ Describes(b, r) /\ b.id = 1 /\ b.policy = policy
  BY <1>1, <1>2 DEF BuiltBinding, Bindings, Describes
<1>5. b.modelSha.content = models
  BY <1>1 DEF BuiltBinding, Canonical
<1>6. ASSUME Consistent(policy.edit) PROVE Intact(r, 1)
  <2>1. OverridesValid(NoOverrides)
    BY DEF OverridesValid, NoOverrides, Editable, Fields
  <2>2. ManifestValid(r)
    BY <1>1, <2>1, Constants DEF ManifestValid
  <2> QED
    BY <1>1, <1>6, <2>2 DEF Intact, Canonical
<1> QED
  BY <1>1, <1>3, <1>4, <1>5, <1>6 DEF r

LEMMA CreateStoreHolds ==
  ASSUME RInv, CreateStore
  PROVE  RInv'
<1> DEFINE built == BuiltBinding(FirstRevision(Selected.policy, Selected.models),
                                 Selected.policy)
           b == IF managed THEN BranchBinding(Selected, None) ELSE built
           m == PromiseOf(Selected)
           i == Selected.id
<1>1. /\ project = "none" /\ pending = None /\ lock = None /\ job = NoJob
      /\ DOMAIN revisions = {} /\ DOMAIN branches = {} /\ DOMAIN shown = {}
      /\ current = Main
      /\ project' = IF managed THEN "ready" ELSE "created"
      /\ UNCHANGED <<owner, revisions, receipts, current, calls, pending, lock, job>>
  BY DEF CreateStore, RInv, Stages
<1>2. /\ Whole(Selected) /\ Selected.policy \in Policies
      /\ Selected.models \in ModelDocuments /\ i \in Ids
      /\ Selected.policy.edit \in Settings
  BY SelectedWhole DEF RInv, Whole, Policies
<1>3. /\ m \in Promises /\ m.overrides = NoOverrides
      /\ m.edit = Selected.policy.edit /\ m.models = Selected.models
      /\ Kept(BranchBinding(Selected, None), m)
  BY <1>2, PromiseTyped
<1>4. /\ BranchBinding(Selected, None) \in Bindings
      /\ BranchBinding(Selected, None).id = i
  BY <1>2, BindingTyped
<1>5. /\ built \in Bindings /\ built.policy = Selected.policy /\ built.id = 1
      /\ built.modelSha.content = Selected.models
  BY <1>2, FirstBuilt
<1>6. Kept(built, m)
  BY <1>2, <1>3, <1>5, NothingOverridden DEF Kept
<1>7. ~managed => i = 1 /\ Selected = Base /\ pointer = None
  BY DEF RInv, Stages, Selected, Base, BaseRuntime
<1>8. ~managed => Consistent(Selected.policy.edit)
  BY <1>7, FilesTyped DEF RInv, Base, BaseRuntime
<1>9. pointer # None => managed /\ DescribesOwners(BranchBinding(Selected, None))
  <2>1. pointer # None => managed /\ pointer \in DOMAIN Registry
    BY DEF RInv, Stages, TypeOK
  <2> QED
    BY <2>1, OwnersRuntime DEF RInv, Selected
<1>10. b \in Bindings /\ Kept(b, m) /\ b.id = i
  BY <1>3, <1>4, <1>5, <1>6, <1>7
<1>11. /\ branches' = Put(branches, Main, b) /\ heads' = Put(heads, Main, 0)
       /\ asked' = Put(asked, Main, m) /\ shown' = Put(shown, i, m)
  BY DEF CreateStore
<1>12. DOMAIN heads = {} /\ DOMAIN asked = {} /\ 0 \in Points
  BY <1>1, Constants DEF RInv, TypeOK, Points
<1> HIDE DEF b, m, i
<1>13. /\ DOMAIN branches' = {Main} /\ branches' \in [{Main} -> Bindings]
       /\ branches'[Main] = b
  BY <1>1, <1>10, <1>11 DEF Put
<1>14. asked' \in [{Main} -> Promises] /\ asked'[Main] = m
  BY <1>3, <1>11, <1>12 DEF Put
<1>15. heads' \in [{Main} -> Points]
  BY <1>11, <1>12 DEF Put
<1>16. DOMAIN shown' = {i} /\ shown' \in [{i} -> Promises] /\ shown'[i] = m
  BY <1>1, <1>3, <1>11 DEF Put
<1>17. TypeOK'
  <2>1. Main \in BranchNames /\ i \in Ids
    BY <1>2 DEF BranchNames, i
  <2> QED
    BY <1>1, <1>13, <1>14, <1>15, <1>16, <2>1 DEF RInv, TypeOK, owner, calls, NoJob
<1>18. Stages'
  <2>1. ASSUME ~managed
        PROVE  /\ shown'[1] = asked'[Main] /\ asked'[Main].overrides = NoOverrides
               /\ asked'[Main].edit = branches'[Main].policy.edit
               /\ Consistent(branches'[Main].policy.edit)
               /\ branches'[Main] =
                    BuiltBinding(FirstRevision(branches'[Main].policy, asked'[Main].models),
                                 branches'[Main].policy)
    <3>1. b = built /\ b.policy = Selected.policy /\ i = 1
      BY <2>1, <1>5, <1>7 DEF b, i
    <3> QED
      BY <2>1, <3>1, <1>3, <1>8, <1>13, <1>14, <1>16 DEF m
  <2> QED
    BY <1>1, <1>7, <1>13, <1>16, <2>1 DEF RInv, Stages, owner, i
<1>19. HistoryHolds'
  <2>1. ~Standalone'
    BY <1>1 DEF Standalone, owner
  <2>2. pointer # None => DescribesOwners(b)
    BY <1>9 DEF b
  <2> QED
    BY <1>1, <1>10, <1>13, <1>14, <1>16, <2>1, <2>2 DEF HistoryHolds, owner
<1>20. PendingHolds' /\ JobHolds' /\ NumbersAreNew'
  BY <1>1, Constants DEF PendingHolds, JobHolds, NumbersAreNew, NoJob
<1> QED
  BY <1>17, <1>18, <1>19, <1>20 DEF RInv

LEMMA PublishFirstHolds ==
  ASSUME RInv, PublishFirst
  PROVE  RInv'
<1> DEFINE b == branches[Main]
           r == FirstRevision(b.policy, asked[Main].models)
<1>1. /\ project = "created" /\ project' = "ready"
      /\ revisions' = Put(revisions, 1, r)
      /\ UNCHANGED <<owner, history, calls, pending, lock, job>>
  BY DEF PublishFirst
<1>2. /\ ~managed /\ DOMAIN revisions = {} /\ pointer = None
      /\ DOMAIN branches = {Main} /\ DOMAIN shown = {1}
      /\ shown[1] = asked[Main] /\ asked[Main].overrides = NoOverrides
      /\ asked[Main].edit = b.policy.edit /\ Consistent(b.policy.edit)
      /\ b = BuiltBinding(r, b.policy)
      /\ pending = None /\ lock = None /\ job = NoJob
  BY <1>1 DEF RInv, Stages
<1>3. /\ b.policy \in Policies /\ asked[Main] \in Promises
      /\ asked[Main].models \in ModelDocuments
      /\ b.policy.edit \in Settings
  BY <1>2 DEF RInv, TypeOK, Bindings, Promises, Policies
<1>4. /\ r \in Revisions /\ Intact(r, 1) /\ Describes(b, r) /\ b.id = 1
      /\ r.overrides = NoOverrides /\ r.document = b.policy.edit
      /\ r.models = asked[Main].models
  BY <1>2, <1>3, FirstBuilt
<1> HIDE DEF r
<1>5. /\ DOMAIN revisions' = {1} /\ revisions' \in [{1} -> Revisions]
      /\ revisions'[1] = r
  BY <1>1, <1>2, <1>4 DEF Put
<1>6. TypeOK'
  BY <1>1, <1>2, <1>4, <1>5, Constants DEF RInv, TypeOK, owner, history, calls
<1>7. Stages'
  BY <1>1, <1>2 DEF RInv, Stages, owner, history
<1>8. /\ r.document = Overridden(r.document, r.overrides)
      /\ r.models = Overridden(r.models, r.overrides)
  BY <1>3, <1>4, NothingOverridden
<1>9. shown[1] = [edit |-> r.document, models |-> r.models, overrides |-> r.overrides]
  BY <1>2, <1>3, <1>4 DEF Promises
<1>10. HistoryHolds'
  BY <1>1, <1>2, <1>4, <1>5, <1>8, <1>9
     DEF RInv, HistoryHolds, owner, history, Derived, PromiseFor
<1>11. PendingHolds' /\ JobHolds' /\ NumbersAreNew'
  BY <1>1, <1>2, Constants DEF PendingHolds, JobHolds, NumbersAreNew, NoJob
<1> QED
  BY <1>6, <1>7, <1>10, <1>11 DEF RInv

-----------------------------------------------------------------------------
(* Recovery and the user's branches.                                        *)

LEMMA RecoverHolds ==
  ASSUME RInv, Recover
  PROVE  RInv'
<1>1. /\ lock = None /\ pending # None /\ Recovered /\ pending' = None
      /\ UNCHANGED <<owner, project, revisions, calls, lock, job>>
  BY DEF Recover, Recovered
<1>2. /\ HistoryTyped' /\ HistoryHolds' /\ PendingHolds'
      /\ DOMAIN shown \subseteq DOMAIN shown' /\ project = "ready"
  BY <1>1, RecoveredHolds DEF RInv
<1>3. job.pc # "running"
  BY <1>1, Constants DEF RInv, TypeOK
<1>4. TypeOK'
  BY <1>1, <1>2, <1>3, Constants DEF RInv, TypeOK, HistoryTyped, owner, calls
<1>5. Stages'
  BY <1>1, <1>2 DEF RInv, Stages, owner
<1>6. JobHolds' /\ NumbersAreNew'
  BY <1>1, <1>2, <1>3, Constants DEF RInv, JobHolds, NumbersAreNew
<1> QED
  BY <1>2, <1>4, <1>5, <1>6 DEF RInv

LEMMA RebuildHolds ==
  ASSUME RInv, NEW name \in Names, NEW source, NEW stage \in 1..MaxStage,
         Rebuild(name, source, stage)
  PROVE  RInv'
<1> DEFINE k == Rebuilt(name)
           b == BranchBinding(Selected, stage)
           m == PromiseOf(Selected)
           i == Selected.id
<1>1. /\ project = "ready" /\ lock = None /\ pending = None
      /\ k \notin DOMAIN branches
      /\ branches' = Put(branches, k, b) /\ current' = k
      /\ heads' = Put(heads, k, stage) /\ asked' = Put(asked, k, m)
      /\ shown' = IF i \in DOMAIN shown THEN shown ELSE Put(shown, i, m)
      /\ UNCHANGED <<owner, project, revisions, receipts, calls, pending, lock, job>>
  BY DEF Rebuild
<1>2. stage \in (0..NextStep) \cup {None} /\ stage \in Points
  BY Constants DEF NextStep, Points
<1>3. /\ b \in Bindings /\ b.id = i /\ m \in Promises /\ Kept(b, m) /\ i \in Ids
  BY <1>2, SelectedWhole, BindingTyped, PromiseTyped DEF RInv, Whole
<1>4. Standalone => i \in DOMAIN shown
  BY DEF RInv, Stages, Selected, Base, BaseRuntime, HistoryHolds, Standalone
<1>5. k \in BranchNames /\ ~OfSettings(k)
  BY Constants DEF BranchNames, Rebuilt, OfSettings, Main
<1>6. job.pc # "running"
  BY <1>1, Constants DEF RInv, TypeOK
<1> HIDE DEF k, b, m, i
<1>7. /\ branches \in [DOMAIN branches -> Bindings]
      /\ asked \in [DOMAIN branches -> Promises]
      /\ heads \in [DOMAIN branches -> Points]
      /\ shown \in [DOMAIN shown -> Promises]
      /\ DOMAIN shown \subseteq Ids /\ DOMAIN branches \subseteq BranchNames
  BY DEF RInv, TypeOK
<1>8. /\ DOMAIN branches' = DOMAIN branches \cup {k}
      /\ branches' \in [DOMAIN branches' -> Bindings] /\ branches'[k] = b
      /\ \A x \in DOMAIN branches : branches'[x] = branches[x]
  BY <1>1, <1>3, <1>7 DEF Put
<1>9. /\ asked' \in [DOMAIN branches' -> Promises] /\ asked'[k] = m
      /\ \A x \in DOMAIN branches : asked'[x] = asked[x]
  BY <1>1, <1>3, <1>7, <1>8 DEF Put
<1>10. heads' \in [DOMAIN branches' -> Points]
  BY <1>1, <1>2, <1>7, <1>8 DEF Put
<1>11. /\ DOMAIN shown' = DOMAIN shown \cup {i}
       /\ shown' \in [DOMAIN shown' -> Promises]
       /\ \A x \in DOMAIN shown : shown'[x] = shown[x]
  BY <1>1, <1>3, <1>7 DEF Put
<1>12. TypeOK'
  BY <1>1, <1>3, <1>5, <1>6, <1>7, <1>8, <1>9, <1>10, <1>11, Constants
     DEF RInv, TypeOK, owner, calls
<1>13. Stages'
  BY <1>1 DEF RInv, Stages, owner
<1>14. HistoryHolds'
  <2>1. Standalone' = Standalone /\ DOMAIN shown \subseteq DOMAIN shown'
    BY <1>1, <1>11 DEF Standalone, owner
  <2>2. ASSUME NEW x \in DOMAIN branches'
        PROVE  /\ Kept(branches'[x], asked'[x])
               /\ branches'[x].id \in DOMAIN shown'
               /\ Standalone /\ OfSettings(x) =>
                    /\ branches'[x].id \in DOMAIN revisions
                    /\ Describes(branches'[x], revisions[branches'[x].id])
               /\ pointer # None /\ OfSettings(x) => DescribesOwners(branches'[x])
    <3>1. CASE x = k
      BY <3>1, <1>3, <1>5, <1>8, <1>9, <1>11
    <3>2. CASE x \in DOMAIN branches
      BY <3>2, <1>8, <1>9, <2>1 DEF RInv, HistoryHolds
    <3> QED
      BY <3>1, <3>2, <1>8
  <2>3. Standalone => shown' = shown
    BY <1>1, <1>4
  <2> QED
    BY <1>1, <2>1, <2>2, <2>3 DEF RInv, HistoryHolds, owner, Derived, PromiseFor
<1>15. PendingHolds' /\ JobHolds' /\ NumbersAreNew'
  BY <1>1, <1>6, <1>11, Constants DEF RInv, PendingHolds, JobHolds, NumbersAreNew
<1> QED
  BY <1>12, <1>13, <1>14, <1>15 DEF RInv

LEMMA SwitchHolds ==
  ASSUME RInv, NEW b \in DOMAIN branches, Switch(b)
  PROVE  RInv'
<1>1. /\ project = "ready" /\ lock = None /\ pending = None /\ current' = b
      /\ UNCHANGED <<owner, project, revisions, branches, receipts, heads, asked,
                     shown, calls, pending, lock, job>>
  BY DEF Switch
<1>2. job.pc # "running"
  BY <1>1, Constants DEF RInv, TypeOK
<1>3. TypeOK'
  BY <1>1 DEF RInv, TypeOK, owner, calls
<1>4. HistoryHolds'
  BY <1>1, HistorySame DEF RInv, owner, Standalone
<1>5. Stages'
  BY <1>1 DEF RInv, Stages, owner
<1>6. PendingHolds' /\ JobHolds' /\ NumbersAreNew'
  BY <1>1, <1>2, Constants DEF RInv, PendingHolds, JobHolds, NumbersAreNew
<1> QED
  BY <1>3, <1>4, <1>5, <1>6 DEF RInv

-----------------------------------------------------------------------------
(* The runs of the workflow.                                                *)

(* A runner is prepared with what the active branch's binding says.         *)
LEMMA PreparedHolds ==
  ASSUME TypeOK, HistoryHolds, project = "ready", NEW registered \in BOOLEAN,
         Prepared(registered)
  PROVE  /\ job' \in Jobs /\ job'.pc # "running"
         /\ job'.pc \in {"prepared", "running"} =>
              /\ job'.policy.edit = job'.binding.policy.edit
              /\ job'.models = job'.binding.modelSha.content
              /\ job'.binding.id \in DOMAIN shown
<1>1. /\ current \in DOMAIN branches /\ Active \in Bindings
      /\ Active.id \in DOMAIN shown
  BY DEF TypeOK, Active, HistoryHolds
<1>2. CASE Loads(Active)
  <2>1. /\ ProjectRuntime.policy = Active.policy
        /\ ProjectRuntime.models = Active.modelSha.content
        /\ ProjectRuntime.policy \in Policies
        /\ ProjectRuntime.models \in ModelDocuments
    BY <1>1, <1>2, LoadsSame, RuntimeForWhole DEF ProjectRuntime, Whole
  <2>2. job' = [pc |-> "prepared", registered |-> registered,
                policy |-> ProjectRuntime.policy,
                models |-> ProjectRuntime.models, binding |-> Active]
    BY <1>2 DEF Prepared
  <2>3. job' \in Jobs
    BY <1>1, <2>1, <2>2 DEF Jobs
  <2> QED
    BY <1>1, <2>1, <2>2, <2>3
<1>3. CASE ~Loads(Active)
  BY <1>3 DEF Prepared, NoJob, Jobs
<1> QED
  BY <1>2, <1>3

LEMMA BusyIsReady ==
  ASSUME Stages, job.pc # "idle"
  PROVE  project = "ready"
  BY DEF Stages, NoJob

(* The steps that change no more than the job, the lock and the log.        *)
LEMMA RunSteps ==
  ASSUME RInv, project = "ready",
         UNCHANGED <<owner, project, revisions, history, pending>>,
         TypeOK', JobHolds', lock' \notin Clients \/ lock' = lock
  PROVE  RInv'
<1>1. HistoryHolds'
  BY HistorySame DEF RInv, history, owner, Standalone
<1>2. Stages'
  BY DEF RInv, Stages, owner, history
<1>3. PendingHolds'
  BY DEF RInv, PendingHolds, Derived, PromiseFor, owner, history
<1>4. NumbersAreNew'
  BY DEF RInv, NumbersAreNew, Publishable
<1> QED
  BY <1>1, <1>2, <1>3, <1>4 DEF RInv

LEMMA WaitingHolds ==
  ASSUME RInv, Submit \/ Advance \/ Prepare \/ GiveUp
  PROVE  RInv'
<1>1. /\ project = "ready"
      /\ UNCHANGED <<owner, project, revisions, history, pending, lock>>
      /\ started' \in BOOLEAN /\ unknown' \in BOOLEAN
      /\ job.pc # "running" /\ job'.pc # "running" /\ job' \in Jobs
      /\ job'.pc \in {"prepared", "running"} =>
           /\ job'.policy.edit = job'.binding.policy.edit
           /\ job'.models = job'.binding.modelSha.content
           /\ job'.binding.id \in DOMAIN shown
  <2>1. project = "ready"
    <3>1. CASE Submit \/ Advance
      BY <3>1 DEF Submit, Advance
    <3>2. CASE Prepare \/ GiveUp
      BY <3>2, BusyIsReady DEF Prepare, GiveUp, RInv
    <3> QED
      BY <3>1, <3>2
  <2>2. CASE Submit
    <3>1. job' = [pc |-> "queued", registered |-> TRUE]
      BY <2>2 DEF Submit
    <3>2. job' \in Jobs /\ job'.pc = "queued"
      BY <3>1 DEF Jobs
    <3> QED
      BY <2>1, <2>2, <3>2 DEF Submit, RInv, TypeOK
  <2>3. CASE Advance
    BY <2>1, <2>3, PreparedHolds DEF Advance, RInv, TypeOK, calls
  <2>4. CASE Prepare
    BY <2>1, <2>4, PreparedHolds DEF Prepare, RInv, TypeOK, calls
  <2>5. CASE GiveUp
    BY <2>1, <2>5 DEF GiveUp, RInv, TypeOK, calls, NoJob, Jobs
  <2> QED
    BY <2>2, <2>3, <2>4, <2>5
<1>2. TypeOK'
  BY <1>1 DEF RInv, TypeOK, owner, history
<1>3. JobHolds'
  BY <1>1 DEF JobHolds, history
<1> QED
  BY <1>1, <1>2, <1>3, RunSteps

LEMMA EnterHolds ==
  ASSUME RInv, Enter
  PROVE  RInv'
<1>1. /\ project = "ready" /\ lock = None /\ job \in Jobs /\ job.pc = "prepared"
      /\ UNCHANGED <<owner, project, revisions, history, unknown, pending>>
  BY DEF Enter, RInv, TypeOK, Stages, NoJob
<1>2. CASE EnsureActive(job.binding)
  <2>1. /\ job' = [job EXCEPT !.pc = "running"] /\ lock' = "job" /\ started' = TRUE
    BY <1>2 DEF Enter
  <2>2. /\ job' \in Jobs /\ job'.pc = "running" /\ job'.binding = job.binding
        /\ job'.policy = job.policy /\ job'.models = job.models
    <3>1. job \in [pc : {"prepared", "running"}, registered : BOOLEAN,
                   policy : Policies, models : ModelDocuments, binding : Bindings]
      <4>1. NoJob.pc = "idle"
        BY DEF NoJob
      <4> QED
        BY <1>1, <4>1 DEF Jobs
    <3> QED
      BY <2>1, <3>1 DEF Jobs
  <2>3. TypeOK'
    BY <1>1, <2>1, <2>2, Constants DEF RInv, TypeOK, owner, history
  <2>4. RawBinding' = RawBinding
    BY <1>1 DEF RawBinding, RawBranch, Active, history
  <2>5. JobHolds'
    BY <1>1, <1>2, <2>2, <2>4 DEF RInv, JobHolds, EnsureActive, history
  <2> QED
    BY <1>1, <2>1, <2>3, <2>5, RunSteps, Constants
<1>3. CASE ~EnsureActive(job.binding)
  <2>1. job' = NoJob /\ UNCHANGED <<lock, started>>
    BY <1>3 DEF Enter
  <2>2. TypeOK'
    BY <1>1, <2>1, Constants DEF RInv, TypeOK, owner, history, NoJob, Jobs
  <2>3. JobHolds'
    BY <2>1 DEF JobHolds, NoJob
  <2> QED
    BY <1>1, <2>1, <2>2, <2>3, RunSteps
<1> QED
  BY <1>2, <1>3

LEMMA FailHolds ==
  ASSUME RInv, Fail
  PROVE  RInv'
<1>1. /\ project = "ready" /\ job' = NoJob /\ lock' = None
      /\ unknown' \in BOOLEAN
      /\ UNCHANGED <<owner, project, revisions, history, started, pending>>
  <2>1. project = "ready"
    BY BusyIsReady DEF Fail, RInv
  <2>2. unknown' \in BOOLEAN
    BY DEF Fail, RInv, TypeOK
  <2> QED
    BY <2>1, <2>2 DEF Fail
<1>2. TypeOK'
  BY <1>1, Constants DEF RInv, TypeOK, owner, history, NoJob, Jobs
<1>3. JobHolds'
  BY <1>1 DEF JobHolds, NoJob
<1> QED
  BY <1>1, <1>2, <1>3, RunSteps, Constants

LEMMA StepHolds ==
  ASSUME RInv, Step
  PROVE  RInv'
<1>1. /\ project = "ready" /\ pending = None /\ job' = NoJob /\ lock' = None
      /\ heads[current] < MaxStage
      /\ heads' = [heads EXCEPT ![current] = @ + 1]
      /\ UNCHANGED <<owner, project, revisions, branches, receipts, current, asked,
                     shown, calls, pending>>
  BY DEF Step, RInv, Stages, NoJob
<1>2. heads' \in [DOMAIN branches -> Points]
  <2>1. heads[current] \in Points /\ heads[current] + 1 \in Points
    BY <1>1, Constants DEF RInv, TypeOK, Points
  <2> QED
    BY <1>1, <2>1 DEF RInv, TypeOK
<1>3. TypeOK'
  BY <1>1, <1>2, Constants DEF RInv, TypeOK, owner, calls, NoJob, Jobs
<1>4. HistoryHolds'
  BY <1>1, HistorySame DEF RInv, owner, Standalone
<1>5. Stages'
  BY <1>1 DEF RInv, Stages, owner
<1>6. PendingHolds' /\ JobHolds' /\ NumbersAreNew'
  BY <1>1, Constants DEF PendingHolds, JobHolds, NumbersAreNew, NoJob
<1> QED
  BY <1>3, <1>4, <1>5, <1>6 DEF RInv

(* A run that finds an unfinished transaction goes on under its binding     *)
(* whether the transaction is carried out or undone: the binding of one     *)
(* that can still be undone has a number nobody was shown.                  *)
LEMMA RecoverInStepHolds ==
  ASSUME RInv, RecoverInStep
  PROVE  RInv'
<1>1. /\ job.pc = "running" /\ pending # None /\ Recovered /\ pending' = None
      /\ UNCHANGED <<owner, project, revisions, calls, lock, job>>
      /\ lock = "job"
  BY DEF RecoverInStep, Recovered, RInv, TypeOK
<1>2. /\ HistoryTyped' /\ HistoryHolds' /\ PendingHolds'
      /\ DOMAIN shown \subseteq DOMAIN shown' /\ project = "ready"
  BY <1>1, RecoveredHolds DEF RInv
<1>3. TypeOK'
  BY <1>1, <1>2, Constants DEF RInv, TypeOK, HistoryTyped, owner, calls
<1>4. Stages'
  BY <1>1, <1>2 DEF RInv, Stages, owner
<1>5. NumbersAreNew'
  BY <1>1, Constants DEF NumbersAreNew
<1>6. job.binding = RawBinding /\ job.binding.id \in DOMAIN shown
  BY <1>1 DEF RInv, JobHolds
<1>7. RawBinding' = branches'[current']
  BY <1>1 DEF RawBinding, Active
<1>8. branches'[current'] = RawBinding
  <2>1. CASE Complete(pending)
    BY <1>1, <2>1, CommittedHolds DEF RInv, Recovered
  <2>2. CASE ~Complete(pending)
    <3>1. branches' = branches /\ current' = current
      BY <1>1, <2>2 DEF Recovered, history
    <3>2. ASSUME RawBinding = pending.binding /\ RawBranch # current PROVE FALSE
      <4>1. pending.kind = "branch" /\ pending.step \in {"written", "published"}
        BY <2>2, <3>2, <1>1, PendingTyped DEF RawBranch, Complete, RInv
      <4>2. /\ ~managed
            /\ pending.binding.id = pending.revision.id
            /\ pending.revision.id \notin DOMAIN shown
        BY <1>1, <2>2, <4>1 DEF RInv, PendingHolds, Complete, Describes
      <4> QED
        BY <1>6, <3>2, <4>2
    <3> QED
      BY <3>1, <3>2, <2>2 DEF RawBinding, Active, Complete
  <2> QED
    BY <2>1, <2>2
<1>9. JobHolds'
  BY <1>1, <1>2, <1>6, <1>7, <1>8 DEF RInv, JobHolds
<1> QED
  BY <1>2, <1>3, <1>4, <1>5, <1>9 DEF RInv

-----------------------------------------------------------------------------
(* The human, the owner and the end of the process.                         *)

LEMMA DecideHolds ==
  ASSUME RInv, Decide
  PROVE  RInv'
<1>1. /\ UNCHANGED <<owner, project, revisions, history, started, pending, lock, job>>
      /\ unknown' = FALSE
  BY DEF Decide
<1>2. TypeOK'
  BY <1>1 DEF RInv, TypeOK, owner, history
<1>3. HistoryHolds'
  BY <1>1, HistorySame DEF RInv, history, owner, Standalone
<1>4. Stages'
  BY <1>1 DEF RInv, Stages, owner, history
<1>5. PendingHolds'
  BY <1>1 DEF RInv, PendingHolds, Derived, PromiseFor, owner, history
<1>6. JobHolds' /\ NumbersAreNew'
  BY <1>1 DEF RInv, JobHolds, NumbersAreNew, Publishable, RawBinding, RawBranch,
              Active, history
<1> QED
  BY <1>2, <1>3, <1>4, <1>5, <1>6 DEF RInv

LEMMA OwnerHolds ==
  ASSUME RInv, Replace \/ (\E id \in DOMAIN Registry : Point(id))
  PROVE  RInv'
<1>1. /\ UNCHANGED <<managed, project, revisions, history, calls, pending, lock, job>>
      /\ version' \in DOMAIN Versions
      /\ pointer' \in {None} \cup DOMAIN Registry
      /\ pointer' # None <=> pointer # None
  <2>1. CASE Replace
    <3>1. /\ version < Len(Versions) /\ version' = version + 1
          /\ UNCHANGED <<managed, pointer, project, revisions, history, calls,
                         pending, lock, job>>
      BY <2>1 DEF Replace
    <3>2. DOMAIN Versions = 1..Len(Versions) /\ Len(Versions) \in Nat
      <4> DEFINE Files == [policy : Policies, models : ModelDocuments]
      <4>1. Versions \in Seq(Files)
        BY RevisionsAssumption
      <4> HIDE DEF Files
      <4> QED
        BY <4>1
    <3>3. version \in DOMAIN Versions
      BY DEF RInv, TypeOK
    <3>4. version' \in DOMAIN Versions
      BY <3>1, <3>2, <3>3
    <3> QED
      BY <3>1, <3>4 DEF RInv, TypeOK
  <2>2. ASSUME NEW id \in DOMAIN Registry, Point(id)
        PROVE  /\ UNCHANGED <<managed, project, revisions, history, calls, pending,
                              lock, job>>
               /\ version' \in DOMAIN Versions
               /\ pointer' \in {None} \cup DOMAIN Registry
               /\ pointer' # None <=> pointer # None
    BY <2>2, Constants DEF Point, RInv, TypeOK
  <2> QED
    BY <2>1, <2>2
<1>2. TypeOK'
  BY <1>1 DEF RInv, TypeOK, history, calls
<1>3. HistoryHolds'
  BY <1>1, HistorySame DEF RInv, history, Standalone
<1>4. Stages'
  BY <1>1 DEF RInv, Stages, history
<1>5. PendingHolds'
  BY <1>1 DEF RInv, PendingHolds, Derived, PromiseFor, history
<1>6. JobHolds' /\ NumbersAreNew'
  BY <1>1 DEF RInv, JobHolds, NumbersAreNew, Publishable, RawBinding, RawBranch,
              Active, history
<1> QED
  BY <1>2, <1>3, <1>4, <1>5, <1>6 DEF RInv

LEMMA CrashHolds ==
  ASSUME RInv, Crash
  PROVE  RInv'
<1>1. /\ project' = IF project = "created" THEN "broken" ELSE project
      /\ lock' = None /\ job' = NoJob
      /\ UNCHANGED <<owner, revisions, history, calls, pending>>
  BY DEF Crash
<1>2. TypeOK'
  BY <1>1, Constants DEF RInv, TypeOK, owner, history, calls, NoJob, Jobs
<1>3. HistoryHolds'
  BY <1>1, HistorySame DEF RInv, history, owner, Standalone
<1>4. Stages'
  BY <1>1 DEF RInv, Stages, owner, history
<1>5. PendingHolds'
  BY <1>1 DEF RInv, PendingHolds, Derived, PromiseFor, owner, history
<1>6. JobHolds' /\ NumbersAreNew'
  BY <1>1, Constants DEF JobHolds, NumbersAreNew, NoJob
<1> QED
  BY <1>2, <1>3, <1>4, <1>5, <1>6 DEF RInv

-----------------------------------------------------------------------------
(* The theorems.                                                            *)

LEMMA InitHolds == Init => RInv
<1> SUFFICES ASSUME Init PROVE RInv
  OBVIOUS
<1>1. TypeOK
  <2>1. version \in DOMAIN Versions
    <3> DEFINE Files == [policy : Policies, models : ModelDocuments]
    <3>1. Versions \in Seq(Files) /\ Versions # <<>>
      BY RevisionsAssumption
    <3> HIDE DEF Files
    <3>2. DOMAIN Versions = 1..Len(Versions) /\ Len(Versions) \in Nat /\ Len(Versions) # 0
      BY <3>1
    <3> QED
      BY <3>2 DEF Init
  <2>2. managed \in BOOLEAN /\ pointer \in {None} \cup DOMAIN Registry
    BY RevisionsAssumption DEF Init
  <2>3. /\ DOMAIN revisions = {} /\ revisions \in [DOMAIN revisions -> Revisions]
        /\ DOMAIN branches = {} /\ branches \in [DOMAIN branches -> Bindings]
        /\ heads \in [DOMAIN branches -> Points]
        /\ asked \in [DOMAIN branches -> Promises]
        /\ DOMAIN shown = {} /\ shown \in [DOMAIN shown -> Promises]
    BY DEF Init
  <2>4. current \in BranchNames
    BY DEF Init, BranchNames
  <2> QED
    BY <2>1, <2>2, <2>3, <2>4, Constants DEF Init, TypeOK, NoJob, Jobs
<1>2. Stages
  BY Constants DEF Init, Stages
<1>3. HistoryHolds /\ PendingHolds /\ JobHolds /\ NumbersAreNew
  BY Constants DEF Init, HistoryHolds, Standalone, PendingHolds, JobHolds,
                   NumbersAreNew, NoJob
<1> QED
  BY <1>1, <1>2, <1>3 DEF RInv

LEMMA NextHolds == RInv /\ [Next]_vars => RInv'
<1> SUFFICES ASSUME RInv, [Next]_vars PROVE RInv'
  OBVIOUS
<1>1. CASE CreateStore
  BY <1>1, CreateStoreHolds
<1>2. CASE PublishFirst
  BY <1>2, PublishFirstHolds
<1>3. CASE Recover
  BY <1>3, RecoverHolds
<1>4. ASSUME NEW c \in Clients, Request(c) PROVE RInv'
  <2>1. ASSUME NEW base \in DOMAIN shown, NEW patch \in Patches,
               Begin(c, base, patch)
        PROVE  RInv'
    BY <2>1, BeginHolds
  <2>2. ASSUME NEW base \in DOMAIN shown, NEW id \in DOMAIN Registry,
               NEW b \in DOMAIN branches,
               BeginManaged(c, id, base, <<b, heads[b]>>)
        PROVE  RInv'
    BY <2>2, BeginManagedHolds
  <2>3. CASE WriteManifest(c)
    BY <2>3, WriteManifestHolds
  <2>4. CASE PublishRevision(c)
    BY <2>4, PublishRevisionHolds
  <2>5. CASE PublishFails(c)
    BY <2>5, PublishFailsHolds
  <2>6. CASE Mark(c)
    BY <2>6, MarkHolds
  <2>7. CASE Commit(c)
    BY <2>7, CommitHolds
  <2> QED
    BY <1>4, <2>1, <2>2, <2>3, <2>4, <2>5, <2>6, <2>7 DEF Request
<1>5. ASSUME NEW name \in Names, NEW b \in DOMAIN branches, NEW stage \in 1..MaxStage,
             Rebuild(name, b, stage)
      PROVE  RInv'
  BY <1>5, RebuildHolds
<1>6. ASSUME NEW b \in DOMAIN branches, Switch(b) PROVE RInv'
  BY <1>6, SwitchHolds
<1>7. CASE Run
  BY <1>7, WaitingHolds, EnterHolds, StepHolds, RecoverInStepHolds, FailHolds DEF Run
<1>8. CASE Decide
  BY <1>8, DecideHolds
<1>9. CASE Replace \/ (\E id \in DOMAIN Registry : Point(id))
  BY <1>9, OwnerHolds
<1>10. CASE Crash
  BY <1>10, CrashHolds
<1>11. CASE UNCHANGED vars
  <2>1. TypeOK'
    BY <1>11 DEF RInv, TypeOK, vars, owner, history, calls
  <2>2. HistoryHolds'
    BY <1>11, HistorySame DEF RInv, vars, history, owner, Standalone
  <2>3. Stages'
    BY <1>11 DEF RInv, Stages, vars, owner, history
  <2>4. PendingHolds'
    BY <1>11 DEF RInv, PendingHolds, Derived, PromiseFor, vars, owner, history
  <2>5. JobHolds' /\ NumbersAreNew'
    BY <1>11 DEF RInv, JobHolds, NumbersAreNew, Publishable, RawBinding, RawBranch,
                 Active, vars, history
  <2> QED
    BY <2>1, <2>2, <2>3, <2>4, <2>5 DEF RInv
<1> QED
  BY <1>1, <1>2, <1>3, <1>4, <1>5, <1>6, <1>7, <1>8, <1>9, <1>10, <1>11 DEF Next

LEMMA AlwaysRInv == Spec => []RInv
  BY InitHolds, NextHolds, PTL DEF Spec

(* Every record on disk has the form its readers check, for any settings,   *)
(* members, changes, registry and supplied files.                           *)
THEOREM RevisionsTypeCorrect == Spec => []TypeOK
<1>1. RInv => TypeOK
  BY DEF RInv
<1> QED
  BY <1>1, AlwaysRInv, PTL

(* The number of a revision is free when its transaction publishes it.      *)
THEOREM NumbersAlwaysNew == Spec => []NumbersAreNew
<1>1. RInv => NumbersAreNew
  BY DEF RInv
<1> QED
  BY <1>1, AlwaysRInv, PTL

(* A run works under the settings of the branch it writes to, whatever came *)
(* between its preparation and the lock and whatever it recovers.           *)
THEOREM AlwaysRunsUnderItsBranch == Spec => []RunsUnderItsBranch
<1>1. RInv => RunsUnderItsBranch
  <2> SUFFICES ASSUME RInv, job.pc = "running"
               PROVE  /\ job.policy.edit = Overridden(RawPromise.edit, RawPromise.overrides)
                      /\ job.models = Overridden(RawPromise.models, RawPromise.overrides)
    BY DEF RunsUnderItsBranch
  <2>1. project = "ready" /\ current \in DOMAIN branches
    BY BusyIsReady DEF RInv, TypeOK
  <2>2. Kept(RawBinding, RawPromise)
    BY <2>1 DEF RInv, HistoryHolds, PendingHolds, RawBinding, RawPromise, Active
  <2> QED
    BY <2>2 DEF RInv, JobHolds, Kept
<1> QED
  BY <1>1, AlwaysRInv, PTL

(* A project that is still being made cannot be loaded, as its branch has   *)
(* the digests of a revision that is not there yet.                         *)
LEMMA UnfinishedNeverLoads ==
  ASSUME RInv, project \in {"created", "broken"}
  PROVE  ~Loads(branches[Main])
<1> DEFINE b == branches[Main]
<1>1. /\ DOMAIN revisions = {} /\ pointer = None
      /\ b = BuiltBinding(FirstRevision(b.policy, asked[Main].models), b.policy)
      /\ b \in Bindings
  BY DEF RInv, Stages, TypeOK
<1>2. /\ b.id = 1 /\ b.runtimeSha = Canonical(b.policy.edit)
      /\ b.modelSha = Canonical(asked[Main].models)
  BY <1>1 DEF BuiltBinding, FirstRevision, Build
<1>3. External = {} /\ ~Registered(1)
  BY <1>1 DEF External, Registered
<1>4. RuntimeFor(b).modelSha = Raw(files.models)
  BY <1>1, <1>2, <1>3 DEF RuntimeFor, ManagedRuntime, WithPolicy, Base, BaseRuntime
<1>5. Raw(files.models) # Canonical(asked[Main].models)
  BY DEF Raw, Canonical
<1>6. ASSUME Loads(b) PROVE RuntimeFor(b).modelSha = b.modelSha
  <2>1. BranchBinding(RuntimeFor(b), b.from) = b
    BY <1>6 DEF Loads, BindingHolds
  <2> QED
    BY <1>1, <2>1, RuntimeForWhole, BindingTyped DEF RInv, Bindings, BranchBinding
<1> QED
  BY <1>2, <1>4, <1>5, <1>6

(* What a branch runs under is what its members were shown and asked for.   *)
THEOREM AcceptedSettingsAlwaysKept == Spec => []AcceptedSettingsKept
<1>1. RInv => AcceptedSettingsKept
  <2> SUFFICES ASSUME RInv, NEW b \in DOMAIN branches, Loads(branches[b])
               PROVE  LET view == SettingsView(branches[b])
                      IN /\ view.effective = Overridden(asked[b].edit, asked[b].overrides)
                         /\ view.models = Overridden(asked[b].models, asked[b].overrides)
                         /\ ~managed => \A f \in Fields :
                              \/ view.effective[f] = view.inherited[f]
                              \/ f \in view.overridden
    BY DEF AcceptedSettingsKept
  <2> DEFINE runtime == RuntimeFor(branches[b])
             view == SettingsView(branches[b])
  <2>1. branches[b] \in Bindings /\ Kept(branches[b], asked[b])
    BY DEF RInv, TypeOK, HistoryHolds
  <2>2. /\ runtime.policy = branches[b].policy
        /\ runtime.models = branches[b].modelSha.content
    BY <2>1, LoadsSame DEF RInv
  <2>3. /\ view.effective = runtime.policy.edit /\ view.models = runtime.models
        /\ view.inherited = Baseline.policy.edit
        /\ view.overridden = {f \in Editable : runtime.overrides[f] # None}
    BY DEF SettingsView
  <2>4. ASSUME ~managed, NEW f \in Fields, runtime.overrides[f] = None
        PROVE  runtime.policy.edit[f] = Baseline.policy.edit[f]
    <3>1. Standalone
      <4>1. project # "none"
        BY DEF RInv, Stages
      <4>2. project \notin {"created", "broken"}
        <5>1. project \in {"created", "broken"} => b = Main
          BY DEF RInv, Stages
        <5> QED
          BY <5>1, UnfinishedNeverLoads
      <4> QED
        BY <2>4, <4>1, <4>2 DEF RInv, TypeOK, Standalone
    <3> DEFINE r == revisions[branches[b].id]
    <3>2. /\ branches[b].id \in DOMAIN revisions
          /\ runtime.overrides = r.overrides /\ runtime.policy.edit = r.document
      BY <2>1, <3>1, StandaloneRuntime DEF RInv
    <3>3. r.document = Overridden(revisions[1].document, r.overrides)
      BY <3>1, <3>2 DEF RInv, HistoryHolds, Derived
    <3>4. revisions[1].document \in Settings
      BY <3>1 DEF RInv, HistoryHolds, TypeOK, Revisions
    <3>5. revisions[1].document = Baseline.policy.edit
      BY <3>1, BaselineHolds DEF RInv
    <3> HIDE DEF r
    <3>6. r.document[f] = revisions[1].document[f]
      BY <2>4, <3>2, <3>3, <3>4 DEF Overridden, Settings
    <3> QED
      BY <3>2, <3>5, <3>6
  <2> HIDE DEF runtime, view
  <2> QED
    BY <2>1, <2>2, <2>3, <2>4 DEF Kept, Editable, view
<1> QED
  BY <1>1, AlwaysRInv, PTL

(* A binding that describes a revision, and shares with the supplied policy *)
(* what is not editable, passes the checks.                                 *)
LEMMA DescribedLoads ==
  ASSUME TypeOK, NEW binding \in Bindings, NEW revision \in Revisions,
         Intact(revision, binding.id), Describes(binding, revision),
         Registered(binding.id),
         ManagedRuntime(binding.id) = LoadedRuntime(revision, Base, managed),
         binding.policy.rest = files.policy.rest,
         binding.policy.release = IF managed THEN "manual" ELSE files.policy.release
  PROVE  Loads(binding)
<1> DEFINE runtime == LoadedRuntime(revision, Base, managed)
<1>1. RuntimeFor(binding) = runtime
  BY DEF RuntimeFor
<1>2. runtime.manifest = revision
  BY DEF LoadedRuntime
<1>3. binding.policy \in Policies /\ binding.from \in Nat
  BY Constants DEF Bindings
<1>4. /\ runtime.id = binding.id /\ runtime.policy = binding.policy
      /\ runtime.runtimeSha = binding.runtimeSha
      /\ runtime.modelSha = binding.modelSha
  BY <1>3 DEF LoadedRuntime, Describes, MergePolicy, Policies, Base, BaseRuntime
<1> HIDE DEF runtime
<1>5. BranchBinding(runtime, binding.from) = binding
  BY <1>3, <1>4, Constants DEF BranchBinding, From, Bindings
<1> QED
  BY <1>1, <1>2, <1>5 DEF Loads, BindingHolds

(* A branch the settings made stays readable.                               *)
THEOREM SettingsBranchesAlwaysLoad == Spec => []SettingsBranchesLoad
<1>1. RInv => SettingsBranchesLoad
  <2> SUFFICES ASSUME RInv, project = "ready", managed => pointer # None,
                      NEW b \in DOMAIN branches, OfSettings(b), SamePrivate(branches[b])
               PROVE  Loads(branches[b])
    BY DEF SettingsBranchesLoad
  <2> DEFINE binding == branches[b]
  <2>1. binding \in Bindings
    BY DEF RInv, TypeOK
  <2>2. /\ binding.policy.rest = files.policy.rest
        /\ ~managed => binding.policy.release = files.policy.release
    BY DEF SamePrivate
  <2>3. CASE ~managed
    <3> DEFINE r == revisions[binding.id]
    <3>1. binding.id \in DOMAIN revisions /\ Describes(binding, r)
      BY <2>3 DEF RInv, HistoryHolds, Standalone
    <3>2. r \in Revisions /\ Intact(r, binding.id)
      BY <3>1 DEF RInv, TypeOK
    <3>3. /\ Registered(binding.id)
          /\ ManagedRuntime(binding.id) = LoadedRuntime(r, Base, managed)
      BY <3>1 DEF Registered, ManagedRuntime
    <3> QED
      BY <2>1, <2>2, <2>3, <3>1, <3>2, <3>3, DescribedLoads DEF RInv
  <2>4. CASE managed
    <3> DEFINE r == Registry[binding.id]
    <3>1. /\ binding.id \in DOMAIN Registry /\ Describes(binding, r)
          /\ binding.policy.release = "manual"
      BY <2>4 DEF RInv, HistoryHolds, DescribesOwners
    <3>2. r \in Revisions /\ Intact(r, binding.id)
      BY <3>1, Constants
    <3>3. /\ Registered(binding.id)
          /\ ManagedRuntime(binding.id) = LoadedRuntime(r, Base, managed)
      BY <2>4, <3>1 DEF Registered, ManagedRuntime, External, RInv, Stages
    <3> QED
      BY <2>1, <2>2, <2>4, <3>1, <3>2, <3>3, DescribedLoads DEF RInv
  <2> QED
    BY <2>3, <2>4
<1> QED
  BY <1>1, AlwaysRInv, PTL

-----------------------------------------------------------------------------
(* The owner may change the editable defaults of the supplied policy, and   *)
(* the models, but nothing else of the policy.                              *)
OnlyEditableChanges ==
  \A v, w \in DOMAIN Versions :
    /\ Versions[v].policy.rest = Versions[w].policy.rest
    /\ Versions[v].policy.release = Versions[w].policy.release

(* Then no branch, and no transaction, has another one: each policy that a  *)
(* branch is bound to was merged into the supplied one.                     *)
SameOutside ==
  /\ \A b \in DOMAIN branches : SamePrivate(branches[b])
  /\ pending # None => SamePrivate(pending.binding)

LEMMA MergedOutside ==
  ASSUME TypeOK, NEW id
  PROVE  /\ ManagedRuntime(id).policy.rest = files.policy.rest
         /\ ~managed => ManagedRuntime(id).policy.release = files.policy.release
<1>1. /\ Base.policy = files.policy
      /\ \A revision :
           /\ LoadedRuntime(revision, Base, managed).policy.rest = files.policy.rest
           /\ ~managed => LoadedRuntime(revision, Base, managed).policy.release
                            = files.policy.release
  BY DEF Base, BaseRuntime, LoadedRuntime, MergePolicy
<1> QED
  BY <1>1 DEF ManagedRuntime

LEMMA SelectedOutside ==
  ASSUME TypeOK
  PROVE  /\ Selected.policy.rest = files.policy.rest
         /\ ~managed => Selected.policy.release = files.policy.release
<1>1. Base.policy = files.policy
  BY DEF Base, BaseRuntime
<1> QED
  BY <1>1, MergedOutside DEF Selected

LEMMA NewPolicyOutside ==
  ASSUME TypeOK, NEW overrides
  PROVE  /\ NewPolicy(overrides).rest = files.policy.rest
         /\ NewPolicy(overrides).release = files.policy.release
<1>1. /\ Baseline.policy.rest = files.policy.rest
      /\ Baseline.policy.release = files.policy.release
  BY DEF Baseline, Base, BaseRuntime, LoadedRuntime, MergePolicy
<1>2. Baseline.policy \in [edit : {Baseline.policy.edit}, release : {Baseline.policy.release},
                           rest : {Baseline.policy.rest}]
  <2>1. CASE 1 \in DOMAIN revisions
    BY <2>1 DEF Baseline, LoadedRuntime, MergePolicy
  <2>2. CASE 1 \notin DOMAIN revisions
    BY <2>2, FilesTyped DEF Baseline, Base, BaseRuntime, Policies
  <2> QED
    BY <2>1, <2>2
<1> QED
  BY <1>1, <1>2 DEF NewPolicy

LEMMA FilesOutside ==
  ASSUME TypeOK, TypeOK', OnlyEditableChanges
  PROVE  /\ files'.policy.rest = files.policy.rest
         /\ files'.policy.release = files.policy.release
  BY DEF TypeOK, OnlyEditableChanges, files

(* Where bindings come from: a step leaves them, takes one that is merged   *)
(* into the supplied policy, or commits the one of the transaction.         *)
BranchesComeFrom ==
  \A b \in DOMAIN branches' :
    \/ b \in DOMAIN branches /\ branches'[b] = branches[b]
    \/ SamePrivate(branches'[b])
    \/ pending # None /\ branches'[b] = pending.binding

PendingComesFrom ==
  pending' # None =>
    \/ pending # None /\ pending'.binding = pending.binding
    \/ SamePrivate(pending'.binding)

ComeFrom == BranchesComeFrom /\ PendingComesFrom /\ managed' = managed

LEMMA StaysFrom ==
  ASSUME UNCHANGED branches, managed' = managed,
         \/ UNCHANGED pending
         \/ pending' = None
         \/ pending # None /\ pending'.binding = pending.binding
  PROVE  ComeFrom
  BY DEF ComeFrom, BranchesComeFrom, PendingComesFrom

LEMMA WritesFrom ==
  ASSUME TypeOK, NEW c \in Clients, NEW step, NEW next, Writes(c, step, next)
  PROVE  pending # None /\ pending'.binding = pending.binding
<1>1. lock = c /\ pending # None
  BY Constants DEF Writes, TypeOK
<1>2. pending \in Transactions /\ pending' = [pending EXCEPT !.step = next]
  BY <1>1 DEF Writes, TypeOK
<1> QED
  BY <1>1, <1>2 DEF Transactions

LEMMA RecoveredFrom ==
  ASSUME TypeOK, Recovered, managed' = managed
  PROVE  ComeFrom
<1>1. pending' = None
  BY DEF Recovered
<1>2. CASE pending # None /\ Complete(pending)
  <2>1. branches' = Put(branches, pending.branch, pending.binding)
    BY <1>2 DEF Recovered, Committed
  <2> QED
    BY <1>1, <1>2, <2>1 DEF ComeFrom, BranchesComeFrom, PendingComesFrom, Put
<1>3. CASE ~ (pending # None /\ Complete(pending))
  BY <1>1, <1>3, StaysFrom DEF Recovered, history
<1> QED
  BY <1>2, <1>3

LEMMA CreateStoreFrom ==
  ASSUME RInv, CreateStore
  PROVE  ComeFrom
<1> DEFINE b == IF managed THEN BranchBinding(Selected, None)
                ELSE BuiltBinding(FirstRevision(Selected.policy, Selected.models),
                                  Selected.policy)
<1>1. SamePrivate(b)
  BY SelectedOutside DEF RInv, BranchBinding, BuiltBinding, SamePrivate
<1>2. branches' = Put(branches, Main, b) /\ UNCHANGED <<owner, pending>>
  BY DEF CreateStore
<1> HIDE DEF b
<1> QED
  BY <1>1, <1>2 DEF ComeFrom, BranchesComeFrom, PendingComesFrom, Put, owner

LEMMA RebuildFrom ==
  ASSUME RInv, NEW name, NEW source, NEW stage, Rebuild(name, source, stage)
  PROVE  ComeFrom
<1> DEFINE b == BranchBinding(Selected, stage)
<1>1. SamePrivate(b)
  BY SelectedOutside DEF RInv, BranchBinding, SamePrivate
<1>2. branches' = Put(branches, Rebuilt(name), b) /\ UNCHANGED <<owner, pending>>
  BY DEF Rebuild
<1> HIDE DEF b
<1> QED
  BY <1>1, <1>2 DEF ComeFrom, BranchesComeFrom, PendingComesFrom, Put, owner

LEMMA BeginFrom ==
  ASSUME RInv, NEW c \in Clients, NEW base, NEW patch, Begin(c, base, patch)
  PROVE  ComeFrom
<1> DEFINE o == NewOverrides(patch)
           b == BuiltBinding(Revision(c, o), NewPolicy(o))
<1>1. SamePrivate(b)
  BY NewPolicyOutside DEF RInv, BuiltBinding, SamePrivate
<1>2. pending'.binding = b /\ UNCHANGED <<owner, branches>>
  BY DEF Begin, Transaction, history
<1> HIDE DEF b
<1> QED
  BY <1>1, <1>2 DEF ComeFrom, BranchesComeFrom, PendingComesFrom, owner

LEMMA BeginManagedFrom ==
  ASSUME RInv, NEW c \in Clients, NEW id, NEW base, NEW point,
         BeginManaged(c, id, base, point)
  PROVE  ComeFrom
<1> DEFINE b == BranchBinding(ManagedRuntime(id), NextStep)
<1>1. SamePrivate(b)
  BY MergedOutside DEF RInv, BranchBinding, SamePrivate
<1>2. pending'.binding = b /\ UNCHANGED <<owner, branches>>
  BY DEF BeginManaged, Transaction, history
<1> HIDE DEF b
<1> QED
  BY <1>1, <1>2 DEF ComeFrom, BranchesComeFrom, PendingComesFrom, owner

LEMMA NextFrom == RInv /\ [Next]_vars => ComeFrom
<1> SUFFICES ASSUME RInv, [Next]_vars PROVE ComeFrom
  OBVIOUS
<1>0. TypeOK
  BY DEF RInv
<1>1. CASE CreateStore
  BY <1>1, CreateStoreFrom
<1>2. CASE PublishFirst
  BY <1>2, StaysFrom DEF PublishFirst, history, owner
<1>3. CASE Recover
  BY <1>0, <1>3, RecoveredFrom DEF Recover, owner
<1>4. ASSUME NEW c \in Clients, Request(c) PROVE ComeFrom
  <2>1. ASSUME NEW base \in DOMAIN shown, NEW patch \in Patches, Begin(c, base, patch)
        PROVE  ComeFrom
    BY <2>1, BeginFrom
  <2>2. ASSUME NEW base \in DOMAIN shown, NEW id \in DOMAIN Registry,
               NEW b \in DOMAIN branches,
               BeginManaged(c, id, base, <<b, heads[b]>>)
        PROVE  ComeFrom
    BY <2>2, BeginManagedFrom
  <2>3. CASE WriteManifest(c)
    BY <1>0, <2>3, WritesFrom, StaysFrom DEF WriteManifest, history, owner
  <2>4. CASE PublishRevision(c)
    <3>1. /\ Writes(c, IF pending.kind = "branch" THEN "written" ELSE "intent",
                    "published")
          /\ UNCHANGED <<owner, history>>
      BY <2>4 DEF PublishRevision
    <3> QED
      BY <1>0, <3>1, WritesFrom, StaysFrom DEF history, owner
  <2>5. CASE PublishFails(c)
    BY <2>5, StaysFrom DEF PublishFails, history, owner
  <2>6. CASE Mark(c)
    BY <1>0, <2>6, WritesFrom, StaysFrom DEF Mark, history, owner
  <2>7. CASE Commit(c)
    <3>1. pending # None
      BY <1>4, <2>7, <1>0, Constants DEF Commit, TypeOK
    <3>2. Recovered /\ managed' = managed
      BY <2>7, <3>1 DEF Commit, Recovered, owner
    <3> QED
      BY <1>0, <3>2, RecoveredFrom
  <2> QED
    BY <1>4, <2>1, <2>2, <2>3, <2>4, <2>5, <2>6, <2>7 DEF Request
<1>5. ASSUME NEW name \in Names, NEW b \in DOMAIN branches, NEW stage \in 1..MaxStage,
             Rebuild(name, b, stage)
      PROVE  ComeFrom
  BY <1>5, RebuildFrom
<1>6. ASSUME NEW b \in DOMAIN branches, Switch(b) PROVE ComeFrom
  BY <1>6, StaysFrom DEF Switch, owner
<1>7. CASE Run
  <2>1. CASE RecoverInStep
    BY <1>0, <2>1, RecoveredFrom DEF RecoverInStep, owner
  <2>2. CASE Submit \/ Advance \/ Prepare \/ Enter \/ GiveUp \/ Step \/ Fail
    BY <2>2, StaysFrom DEF Submit, Advance, Prepare, Enter, GiveUp, Step, Fail,
                           history, owner
  <2> QED
    BY <1>7, <2>1, <2>2 DEF Run
<1>8. CASE Decide \/ Replace \/ (\E id \in DOMAIN Registry : Point(id)) \/ Crash
  BY <1>8, StaysFrom DEF Decide, Replace, Point, Crash, history, owner
<1>9. CASE UNCHANGED vars
  BY <1>9, StaysFrom DEF vars, history, owner
<1> QED
  BY <1>1, <1>2, <1>3, <1>4, <1>5, <1>6, <1>7, <1>8, <1>9 DEF Next

LEMMA SameOutsideStays ==
  ASSUME OnlyEditableChanges, RInv, RInv', SameOutside, [Next]_vars
  PROVE  SameOutside'
<1>1. ComeFrom
  BY NextFrom
<1>2. /\ files'.policy.rest = files.policy.rest
      /\ files'.policy.release = files.policy.release
  BY FilesOutside DEF RInv
<1>3. managed' = managed
  BY <1>1 DEF ComeFrom
<1>4. ASSUME NEW b \in DOMAIN branches' PROVE SamePrivate(branches'[b])
  BY <1>1 DEF ComeFrom, BranchesComeFrom, SameOutside
<1>5. ASSUME NEW b \in DOMAIN branches' PROVE SamePrivate(branches[b])'
  BY <1>2, <1>3, <1>4 DEF SamePrivate
<1>6. pending' # None => SamePrivate(pending'.binding)
  BY <1>1 DEF ComeFrom, PendingComesFrom, SameOutside
<1>7. pending' # None => SamePrivate(pending.binding)'
  BY <1>2, <1>3, <1>6 DEF SamePrivate
<1> QED
  BY <1>5, <1>7 DEF SameOutside

LEMMA AlwaysSameOutside ==
  ASSUME OnlyEditableChanges
  PROVE  Spec => []SameOutside
<1>1. Init => SameOutside
  BY DEF Init, SameOutside
<1>2. SameOutside /\ RInv /\ RInv' /\ [Next]_vars => SameOutside'
  BY SameOutsideStays, OnlyEditableChanges
<1> QED
  BY <1>1, <1>2, AlwaysRInv, PTL DEF Spec

(* While the owner changes nothing but editable defaults and models, each   *)
(* branch that the settings made in a project with revisions can be loaded, *)
(* whatever requests, rebuilt branches, crashes and recoveries come between *)
(* (main_front.py:417-443, managed_runtime.py:162-201).                     *)
THEOREM SettingsBranchesOutliveDefaults ==
  ASSUME OnlyEditableChanges
  PROVE  Spec => [](project = "ready" /\ (managed => pointer # None) =>
                      \A b \in DOMAIN branches : OfSettings(b) => Loads(branches[b]))
<1>1. SameOutside /\ SettingsBranchesLoad
        => (project = "ready" /\ (managed => pointer # None) =>
              \A b \in DOMAIN branches : OfSettings(b) => Loads(branches[b]))
  BY DEF SameOutside, SettingsBranchesLoad
<1> QED
  BY <1>1, AlwaysSameOutside, SettingsBranchesAlwaysLoad, OnlyEditableChanges, PTL

(* Only a branch that a user names can be one that no request can load: in  *)
(* a project that has none, what a member makes active loads.               *)
THEOREM ActiveAlwaysLoadsUnlessRebuilt ==
  ASSUME OnlyEditableChanges, Names = {}, TRUE \in Deployments => DOMAIN Registry # {}
  PROVE  Spec => []ActiveBranchLoads
<1>1. Init => managed \in Deployments
  BY DEF Init
<1>2. RInv /\ managed \in Deployments /\ [Next]_vars => (managed \in Deployments)'
  BY NextFrom DEF ComeFrom
<1>3. RInv /\ SameOutside /\ SettingsBranchesLoad /\ managed \in Deployments
        => ActiveBranchLoads
  <2> SUFFICES ASSUME RInv, SameOutside, SettingsBranchesLoad, managed \in Deployments,
                      project = "ready"
               PROVE  Loads(branches[current])
    BY DEF ActiveBranchLoads, Active
  <2>1. managed => pointer # None
    <3>1. managed \in BOOLEAN
      BY DEF RInv, TypeOK
    <3> QED
      BY <3>1, TRUE \in Deployments => DOMAIN Registry # {} DEF RInv, Stages
  <2>2. current \in DOMAIN branches /\ current \in BranchNames
    BY DEF RInv, TypeOK
  <2>3. current = Main \/ current \in Ids \X Clients
    BY <2>2, Names = {} DEF BranchNames
  <2>4. OfSettings(current)
    BY <2>3 DEF OfSettings, Ids
  <2> QED
    BY <2>1, <2>2, <2>4 DEF SameOutside, SettingsBranchesLoad
<1> QED
  BY <1>1, <1>2, <1>3, AlwaysRInv, AlwaysSameOutside, SettingsBranchesAlwaysLoad,
     OnlyEditableChanges, PTL DEF Spec
=============================================================================
