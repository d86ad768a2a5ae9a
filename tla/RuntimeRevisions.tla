-------------------------- MODULE RuntimeRevisions --------------------------
(* The configuration of one project: revisions are published next to the    *)
(* project, a branch is bound to one of them, a settings request publishes  *)
(* the next one and forks, and a runner that was prepared under a binding   *)
(* works only while that binding is the active branch's                     *)
(* (configs/runtime_settings_api.py, configs/runtime_apply_api.py,          *)
(* main_front.py, storage/project_store.py, agent_core/workflow_runner.py). *)
(*                                                                          *)
(* The writes of one transaction of the store are the steps of ProjectStore;*)
(* here a transaction has the steps at which another actor can tell it      *)
(* apart: its intent, its manifest, the publication of the revision in      *)
(* between, the mark. branches, current and heads are what readers see,     *)
(* which a pending transaction does not change.                             *)
EXTENDS RuntimeSettings, Sequences

CONSTANTS
  Clients,       \* members; each sends its change under a key of its own
  Patches,       \* the changes a member may ask for
  Versions,      \* contents of the supplied files, one after the other
  Registry,      \* the owner's revisions, by number; empty: no config root
  Deployments,   \* the values of MANAGED_MODE that are considered
  Names,         \* names of rebuilt branches
  MaxId,         \* bound on revision numbers
  MaxStage       \* checkpoints of a branch; the last is the completed project

(* Branches: the first, those of a configuration, named after its revision  *)
(* and the key of the request, and those a user names.                      *)
Main == <<0, None>>
BranchName(id, key) == <<id, key>>
Rebuilt(name) == <<0, name>>

Ids == 1..MaxId
NextStep == MaxStage + 1     \* "next_workflow_step"

(* What is on disk: of a branch the binding, of a revision the manifest and *)
(* the two files it is about, of a transaction pending.json; and what a     *)
(* member was promised.                                                     *)
BranchNames == {Main} \cup (Ids \X Clients) \cup {Rebuilt(n) : n \in Names}
Points == 0..MaxStage
Digests(S, T) ==
  [form : {"raw"}, content : S] \cup [form : {"canonical"}, content : T]
RuntimeShas == Digests(Policies, Settings)
ModelShas == Digests(ModelDocuments, ModelDocuments)

Bindings ==
  [id : Ids, policy : Policies, runtimeSha : RuntimeShas,
   modelSha : ModelShas, from : 0..NextStep]

Promises ==
  [edit : Settings, models : ModelDocuments, overrides : Overrides]

Statuses ==
  {"DRAFT", "CONFIRMED", "WAITING_SAFE_POINT", "APPLYING", "APPLIED", "FAILED"}

Revisions ==
  [id : Ids, parent : Ids \cup {None}, overrides : Overrides,
   document : Settings, models : ModelDocuments,
   runtimeSha : RuntimeShas, modelSha : ModelShas,
   mode : {"before_start", "safe_checkpoint_branch"}, status : Statuses,
   branch : BranchNames \cup {None}, point : (BranchNames \X Points) \cup {None},
   from : (0..NextStep) \cup {None}]

Transactions ==
  [key : Clients, kind : {"branch", "config"},
   step : {"intent", "written", "published", "marked"},
   branch : BranchNames, binding : Bindings, point : Points,
   promise : Promises, publishes : BOOLEAN, revision : Revisions \cup {None}]

ASSUME RevisionsAssumption ==
  /\ Patches \subseteq [Editable -> Releases \cup Rounds \cup Models
                                     \cup {None, Keep}]
  /\ \A p \in Patches : \A f \in Editable :
       p[f] \in FieldValues(f) \cup {None, Keep}
  /\ Versions \in Seq([policy : Policies, models : ModelDocuments])
  /\ Versions # <<>>
  /\ \A v \in DOMAIN Versions : Consistent(Versions[v].policy.edit)
  /\ DOMAIN Registry \subseteq Ids
  /\ DOMAIN Registry # {} => 1 \in DOMAIN Registry
  /\ \A i \in DOMAIN Registry : Registry[i] \in Revisions /\ Intact(Registry[i], i)
  /\ Deployments \subseteq BOOLEAN
  /\ MaxId \in Nat \ {0} /\ MaxStage \in Nat \ {0}
  /\ None \notin Nat \cup Clients \cup Names \cup Revisions \cup Transactions
  /\ "job" \notin Clients \cup {None}

VARIABLES
  managed,     \* MANAGED_MODE of this process
  version,     \* of the supplied model configuration and runtime policy
  pointer,     \* current_revision_id of the config root, None without one
  project,     \* "none", "created" (store written), "ready", or "broken"
  revisions,   \* number -> revision published next to the project
  branches,    \* branch -> its binding
  receipts,    \* keys of the requests that were carried out
  current,     \* the active branch
  heads,       \* branch -> its newest checkpoint, 0 before the first
  started,     \* does the log show that work was accepted?
  unknown,     \* a model call of unknown outcome waits for a decision
  pending,     \* the transaction of pending.json, or None
  lock,        \* who holds the project lock
  job,         \* a run of the workflow: an advance, or a registered job
  asked,       \* ghost: branch -> the configuration its members were promised
  shown        \* ghost: revision -> the configuration members saw as that

owner == <<managed, version, pointer>>
history == <<branches, receipts, current, heads, asked, shown>>
calls == <<started, unknown>>
vars == <<owner, project, revisions, history, calls, pending, lock, job>>

Put(f, k, v) == [x \in DOMAIN f \cup {k} |-> IF x = k THEN v ELSE f[x]]

NoJob == [pc |-> "idle"]
Jobs ==
  {NoJob} \cup [pc : {"queued"}, registered : {TRUE}]
  \cup [pc : {"prepared", "running"}, registered : BOOLEAN,
        policy : Policies, models : ModelDocuments, binding : Bindings]

----------------------------------------------------------------------------
(* Which runtime a binding or an identifier stands for.                     *)

files == Versions[version]
Base == BaseRuntime(files)

External == IF pointer = None THEN {} ELSE DOMAIN Registry
Registered(id) == id \in DOMAIN revisions \cup External

ManagedRuntime(id) ==
  IF id \in DOMAIN revisions
  THEN LoadedRuntime(revisions[id], Base, managed)
  ELSE IF id \in External
       THEN LoadedRuntime(Registry[id], Base, managed)
       ELSE Base

Selected == IF pointer = None THEN Base ELSE ManagedRuntime(pointer)

RuntimeFor(binding) ==
  IF binding.id = 1 /\ ~Registered(1) /\ binding.policy # Base.policy
  THEN WithPolicy(Base, binding.policy)
  ELSE ManagedRuntime(binding.id)

Loads(binding) ==
  /\ Registered(binding.id) \/ binding.id = 1
  /\ LET runtime == RuntimeFor(binding)
     IN /\ runtime.manifest # None => Intact(runtime.manifest, binding.id)
        /\ BindingHolds(runtime, binding)

Active == branches[current]
ProjectRuntime == RuntimeFor(Active)

Baseline ==
  IF 1 \in DOMAIN revisions THEN LoadedRuntime(revisions[1], Base, FALSE)
  ELSE Base

(* What a member of a standalone project is shown of a branch.              *)
SettingsView(binding) ==
  LET runtime == RuntimeFor(binding)
  IN [effective |-> runtime.policy.edit, models |-> runtime.models,
      inherited |-> Baseline.policy.edit,
      overridden |-> {f \in Editable : runtime.overrides[f] # None}]

HighestOf(S) == CHOOSE n \in S : \A m \in S : m <= n

(* Mutant: the next number, whatever has been published.                   *)
NextRevisionIdOfActive(active) == active + 1

NextRevisionId(active) == HighestOf({active} \cup DOMAIN revisions) + 1

----------------------------------------------------------------------------
(* Where the workflow stands.                                               *)

Completed == heads[current] = MaxStage
ActiveJob == job.pc # "idle" /\ job.registered

SafeNow == heads[current] # 0 /\ ~ActiveJob /\ ~unknown /\ ~Completed

BeforeStartAllowed ==
  /\ heads[current] = 0 /\ ~ActiveJob /\ ~unknown
  /\ ~started

----------------------------------------------------------------------------
(* Initially there is no project, one version of the supplied files and, if *)
(* the owner keeps a config root, its first revision selected.              *)

Init ==
  /\ managed \in Deployments
  /\ version = 1
  /\ pointer = IF managed /\ DOMAIN Registry # {} THEN 1 ELSE None
  /\ project = "none"
  /\ revisions = <<>> /\ branches = <<>> /\ receipts = {}
  /\ heads = <<>> /\ asked = <<>> /\ shown = <<>>
  /\ current = Main
  /\ started = FALSE /\ unknown = FALSE
  /\ pending = None /\ lock = None
  /\ job = NoJob

(* A promise: a baseline and the overrides accepted since; of a revision of *)
(* the owner it is the revision as a whole.                                 *)
PromiseOf(runtime) ==
  [edit |-> runtime.policy.edit, models |-> runtime.models,
   overrides |-> NoOverrides]

(* The project's first revision is built from the selected runtime in       *)
(* canonical form, before its store is written and published afterwards; a  *)
(* managed project is bound to the selected runtime itself.                 *)
FirstRevision(policy, models) ==
  Build(1, None, NoOverrides, policy, models, "before_start", None, None,
        Initial)

CreateStore ==
  /\ project = "none"
  /\ project' = IF managed THEN "ready" ELSE "created"
  /\ branches' = Put(branches, Main,
       IF managed THEN BranchBinding(Selected, None)
       ELSE BuiltBinding(FirstRevision(Selected.policy, Selected.models),
                         Selected.policy))
  /\ heads' = Put(heads, Main, 0)
  /\ asked' = Put(asked, Main, PromiseOf(Selected))
  /\ shown' = Put(shown, Selected.id, PromiseOf(Selected))
  /\ UNCHANGED <<owner, revisions, receipts, current, calls, pending, lock, job>>

PublishFirst ==
  /\ project = "created" /\ 1 \notin DOMAIN revisions
  /\ revisions' = Put(revisions, 1,
       FirstRevision(branches[Main].policy, asked[Main].models))
  /\ project' = "ready"
  /\ UNCHANGED <<owner, history, calls, pending, lock, job>>

----------------------------------------------------------------------------
(* A transaction: what it will commit, and how far it is.                   *)

Complete(p) == p.step = "marked" \/ (p.step = "written" /\ ~p.publishes)

Committed(p) ==
  /\ branches' = Put(branches, p.branch, p.binding)
  /\ receipts' = receipts \cup {p.key}
  /\ current' = p.branch
  /\ heads' = Put(heads, p.branch, p.point)
  /\ asked' = Put(asked, p.branch, p.promise)
  /\ shown' = Put(shown, p.binding.id, p.promise)

(* Recovery, with which every writer of a branch begins: a complete         *)
(* transaction is carried out, any other is undone. The directory that a    *)
(* transaction published before it was undone stays.                        *)
Recovered ==
  /\ pending' = None
  /\ IF pending # None /\ Complete(pending) THEN Committed(pending)
     ELSE UNCHANGED history

Recover ==
  /\ lock = None /\ pending # None
  /\ Recovered
  /\ UNCHANGED <<owner, project, revisions, calls, lock, job>>

(* The branch of the raw manifest, which ensure_active_config_binding reads.*)
RawBranch ==
  IF pending # None /\ pending.step # "intent" /\ pending.kind = "branch"
  THEN pending.branch ELSE current

RawBinding ==
  IF pending # None /\ (RawBranch # current \/ pending.step = "marked")
  THEN pending.binding ELSE Active

(* Mutant: a run does not check its binding under the lock.                *)
EnsureActiveNot(binding) == TRUE

EnsureActive(binding) == RawBinding = binding

----------------------------------------------------------------------------
(* A settings request of a member of a standalone project, and the owner's  *)
(* request to apply a registered revision. A member sends a change of any   *)
(* configuration that the project was ever shown to have, at any time and   *)
(* as often as it likes under the same key, as one whose answer was lost    *)
(* does: a request that is refused, or answered from the receipt of its     *)
(* key, changes nothing.                                                    *)

NewOverrides(patch) == MergeOverrides(ProjectRuntime.overrides, patch)

NewPolicy(overrides) ==
  [Baseline.policy EXCEPT !.edit = Overridden(@, overrides)]

NewModels(overrides) == Overridden(Baseline.models, overrides)

(* Ghost: what the member saw, with the change on top.                      *)
Promised(base, patch) ==
  [shown[base] EXCEPT !.overrides = MergeOverrides(@, patch)]

(* Mutant: a request may be based on any revision.                         *)
BaseIsAny(base) == TRUE

BaseIsCurrent(base) == base = ProjectRuntime.id

Applied(c) == c \in receipts

SettingsAccepted(c, base, overrides) ==
  /\ ~Applied(c) /\ Loads(Active) /\ BaseIsCurrent(base)
  /\ EnsureActive(BranchBinding(ProjectRuntime, None))
  /\ Consistent(NewPolicy(overrides).edit)
  /\ ModelsApproved(Baseline.models, overrides)
  /\ BeforeStartAllowed \/ SafeNow

(* The first request before any work replaces the configuration of the      *)
(* branch; any other forks from the newest checkpoint.                      *)
Revision(c, overrides) ==
  LET id == NextRevisionId(ProjectRuntime.id)
      early == BeforeStartAllowed
  IN Build(id, ProjectRuntime.id, overrides, NewPolicy(overrides),
           NewModels(overrides),
           IF early THEN "before_start" ELSE "safe_checkpoint_branch",
           IF early THEN None ELSE BranchName(id, c),
           IF early THEN None ELSE <<current, heads[current]>>,
           IF early THEN Initial ELSE NextStep)

Transaction(c, kind, branch, binding, promise, revision) ==
  [key |-> c, kind |-> kind, step |-> "intent", branch |-> branch,
   binding |-> binding, point |-> heads[current], promise |-> promise,
   publishes |-> revision # None, revision |-> revision]

Begin(c, base, patch) ==
  /\ project = "ready" /\ ~managed /\ lock = None /\ pending = None
  /\ SettingsAccepted(c, base, NewOverrides(patch))
  /\ LET overrides == NewOverrides(patch)
         revision == Revision(c, overrides)
     IN /\ revision.id <= MaxId
        /\ ManifestValid(revision) /\ revision.branch \notin DOMAIN branches
        /\ pending' = Transaction(c,
             IF BeforeStartAllowed THEN "config" ELSE "branch",
             IF BeforeStartAllowed THEN current ELSE revision.branch,
             BuiltBinding(revision, NewPolicy(overrides)),
             Promised(base, patch), revision)
  /\ lock' = c
  /\ UNCHANGED <<owner, project, revisions, history, calls, job>>

(* The owner's revision must be meant for a running project and confirmed,  *)
(* and the project must be where the owner saw it.                          *)
ApplyAccepted(c, id, base, point) ==
  /\ ~Applied(c)
  /\ Registry[id].mode = "safe_checkpoint_branch"
  /\ Registry[id].status \notin {"DRAFT", "FAILED"}
  /\ Registry[id].from \in {None, NextStep}
  /\ SafeNow /\ point = <<current, heads[current]>>
  /\ Loads(Active) /\ BaseIsCurrent(base)
  /\ Registry[id].branch \in {None, BranchName(id, c)}
  /\ Registry[id].point \in {None, point}
  /\ EnsureActive(BranchBinding(ProjectRuntime, None))
  /\ BranchName(id, c) \notin DOMAIN branches

BeginManaged(c, id, base, point) ==
  /\ project = "ready" /\ managed /\ lock = None /\ pending = None
  /\ ApplyAccepted(c, id, base, point)
  /\ LET runtime == ManagedRuntime(id)
     IN pending' = Transaction(c, "branch", BranchName(id, c),
                     BranchBinding(runtime, NextStep), PromiseOf(runtime),
                     None)
  /\ lock' = c
  /\ UNCHANGED <<owner, project, revisions, history, calls, job>>

Writes(c, step, next) ==
  /\ lock = c /\ pending.step = step
  /\ pending' = [pending EXCEPT !.step = next]

WriteManifest(c) ==
  /\ lock = c /\ pending.kind = "branch" /\ Writes(c, "intent", "written")
  /\ UNCHANGED <<owner, project, revisions, history, calls, lock, job>>

(* A revision directory is never replaced; as each has a time of creation,  *)
(* another one under the same number is another revision.                   *)
Publishable(id) == id \notin DOMAIN revisions

PublishRevision(c) ==
  /\ lock = c /\ pending.publishes /\ Publishable(pending.revision.id)
  /\ Writes(c, IF pending.kind = "branch" THEN "written" ELSE "intent",
            "published")
  /\ revisions' = Put(revisions, pending.revision.id, pending.revision)
  /\ UNCHANGED <<owner, project, history, calls, lock, job>>

(* The publication fails: on the number, or for the disk. The transaction   *)
(* is undone, and the member told.                                          *)
PublishFails(c) ==
  /\ lock = c /\ pending.publishes /\ pending.step \in {"intent", "written"}
  /\ pending.kind = "branch" => pending.step = "written"
  /\ pending' = None /\ lock' = None
  /\ UNCHANGED <<owner, project, revisions, history, calls, job>>

Mark(c) ==
  /\ lock = c /\ Writes(c, "published", "marked")
  /\ UNCHANGED <<owner, project, revisions, history, calls, lock, job>>

Commit(c) ==
  /\ lock = c /\ Complete(pending)
  /\ Committed(pending) /\ pending' = None
  /\ lock' = None
  /\ UNCHANGED <<owner, project, revisions, calls, job>>

----------------------------------------------------------------------------
(* Branches of the user: back to an earlier stage, under the newest         *)
(* configuration of the process, or to another branch's head.               *)

Rebuild(name, source, stage) ==
  /\ project = "ready" /\ lock = None /\ pending = None
  /\ Rebuilt(name) \notin DOMAIN branches
  /\ source \in DOMAIN branches /\ stage \in 1..heads[source]
  /\ branches' = Put(branches, Rebuilt(name), BranchBinding(Selected, stage))
  /\ current' = Rebuilt(name) /\ heads' = Put(heads, Rebuilt(name), stage)
  /\ asked' = Put(asked, Rebuilt(name), PromiseOf(Selected))
  /\ shown' = IF Selected.id \in DOMAIN shown THEN shown
              ELSE Put(shown, Selected.id, PromiseOf(Selected))
  /\ UNCHANGED <<owner, project, revisions, receipts, calls, pending, lock, job>>

Switch(b) ==
  /\ project = "ready" /\ lock = None /\ pending = None
  /\ b \in DOMAIN branches \ {current} /\ heads[b] # 0
  /\ Loads(branches[b])
  /\ current' = b
  /\ UNCHANGED <<owner, project, revisions, branches, receipts, heads, asked,
                shown, calls, pending, lock, job>>

----------------------------------------------------------------------------
(* A run of the workflow: a registered job, or an advance request that the  *)
(* registry does not know. Its runner is built without the lock.            *)

Prepared(registered) ==
  job' = IF Loads(Active)
         THEN [pc |-> "prepared", registered |-> registered,
               policy |-> ProjectRuntime.policy,
               models |-> ProjectRuntime.models, binding |-> Active]
         ELSE NoJob

Submit ==
  /\ project = "ready" /\ job.pc = "idle"
  /\ job' = [pc |-> "queued", registered |-> TRUE]
  /\ started' = TRUE
  /\ UNCHANGED <<owner, project, revisions, history, unknown, pending, lock>>

Advance ==
  /\ project = "ready" /\ job.pc = "idle" /\ heads[current] # 0
  /\ Prepared(FALSE)
  /\ UNCHANGED <<owner, project, revisions, history, calls, pending, lock>>

Prepare ==
  /\ job.pc = "queued" /\ Prepared(TRUE)
  /\ UNCHANGED <<owner, project, revisions, history, calls, pending, lock>>

Enter ==
  /\ job.pc = "prepared" /\ lock = None
  /\ IF EnsureActive(job.binding)
     THEN /\ job' = [job EXCEPT !.pc = "running"]
          /\ lock' = "job" /\ started' = TRUE
     ELSE job' = NoJob /\ UNCHANGED <<lock, started>>
  /\ UNCHANGED <<owner, project, revisions, history, unknown, pending>>

(* The wait for the lock is over.                                           *)
GiveUp ==
  /\ job.pc = "prepared" /\ lock # None /\ job' = NoJob
  /\ UNCHANGED <<owner, project, revisions, history, calls, pending, lock>>

(* A step ends in a checkpoint, which recovers first, or fails; a failure   *)
(* may leave a call of unknown outcome.                                     *)
Step ==
  /\ job.pc = "running"
  /\ pending = None /\ heads[current] < MaxStage
  /\ heads' = [heads EXCEPT ![current] = @ + 1]
  /\ job' = NoJob /\ lock' = None
  /\ UNCHANGED <<owner, project, revisions, branches, receipts, current, asked,
                shown, calls, pending>>

RecoverInStep ==
  /\ job.pc = "running" /\ pending # None
  /\ Recovered
  /\ UNCHANGED <<owner, project, revisions, calls, lock, job>>

(* Mutant: a failing run keeps the lock.                                   *)
FailHoldingLock ==
  /\ job.pc = "running"
  /\ unknown' \in {unknown, TRUE}
  /\ job' = NoJob
  /\ UNCHANGED <<owner, project, revisions, history, started, pending, lock>>

Fail ==
  /\ job.pc = "running"
  /\ unknown' \in {unknown, TRUE}
  /\ job' = NoJob /\ lock' = None
  /\ UNCHANGED <<owner, project, revisions, history, started, pending>>

Decide ==
  /\ unknown /\ unknown' = FALSE
  /\ UNCHANGED <<owner, project, revisions, history, started, pending, lock, job>>

----------------------------------------------------------------------------
(* The owner replaces the supplied files, or selects another revision of    *)
(* the config root; the process dies.                                       *)

Replace ==
  /\ version < Len(Versions) /\ version' = version + 1
  /\ UNCHANGED <<managed, pointer, project, revisions, history, calls, pending, lock, job>>

Point(id) ==
  /\ pointer # None /\ id \in DOMAIN Registry \ {pointer}
  /\ pointer' = id
  /\ UNCHANGED <<managed, version, project, revisions, history, calls, pending, lock, job>>

Crash ==
  /\ lock # None \/ job.pc # "idle" \/ project = "created"
  /\ project' = IF project = "created" THEN "broken" ELSE project
  /\ lock' = None /\ job' = NoJob
  /\ UNCHANGED <<owner, revisions, history, calls, pending>>

Request(c) ==
  \/ \E base \in DOMAIN shown :
       \/ \E patch \in Patches : Begin(c, base, patch)
       \/ \E id \in DOMAIN Registry, b \in DOMAIN branches :
            BeginManaged(c, id, base, <<b, heads[b]>>)
  \/ WriteManifest(c) \/ PublishRevision(c) \/ PublishFails(c) \/ Mark(c)
  \/ Commit(c)

Run == Submit \/ Advance \/ Prepare \/ Enter \/ GiveUp \/ Step \/ RecoverInStep \/ Fail

Next ==
  \/ CreateStore \/ PublishFirst \/ Recover
  \/ \E c \in Clients : Request(c)
  \/ \E name \in Names, b \in DOMAIN branches, stage \in 1..MaxStage :
       Rebuild(name, b, stage)
  \/ \E b \in DOMAIN branches : Switch(b)
  \/ Run \/ Decide \/ Replace \/ Crash
  \/ \E id \in DOMAIN Registry : Point(id)

Spec == Init /\ [][Next]_vars
----------------------------------------------------------------------------
(* Every record on disk has the form its readers check: each branch has one *)
(* complete binding, a head and a promise, each published directory holds   *)
(* the intact revision of its number, and who holds the lock exists.        *)
TypeOK ==
  /\ managed \in BOOLEAN /\ started \in BOOLEAN /\ unknown \in BOOLEAN
  /\ version \in DOMAIN Versions /\ pointer \in {None} \cup DOMAIN Registry
  /\ project \in {"none", "created", "ready", "broken"}
  /\ DOMAIN revisions \subseteq Ids
  /\ revisions \in [DOMAIN revisions -> Revisions]
  /\ \A i \in DOMAIN revisions : Intact(revisions[i], i)
  /\ DOMAIN branches \subseteq BranchNames
  /\ branches \in [DOMAIN branches -> Bindings]
  /\ heads \in [DOMAIN branches -> Points]
  /\ asked \in [DOMAIN branches -> Promises]
  /\ receipts \subseteq Clients
  /\ DOMAIN shown \subseteq Ids /\ shown \in [DOMAIN shown -> Promises]
  /\ current \in BranchNames
  /\ project # "none" => current \in DOMAIN branches
  /\ pending \in Transactions \cup {None}
  /\ pending # None =>
       /\ pending.publishes <=> pending.revision # None
       /\ pending.publishes => Intact(pending.revision, pending.revision.id)
  /\ lock \in {None, "job"} \cup Clients
  /\ lock = "job" <=> job.pc = "running"
  /\ lock \in Clients => pending # None /\ pending.key = lock
  /\ job \in Jobs

----------------------------------------------------------------------------
(* What a branch runs under is what its members were shown and asked for:   *)
(* a branch that loads has the settings its last member saw with that       *)
(* member's change on top, no more and no less. Two members who read the    *)
(* same revision cannot both be accepted, nor can a request that is sent    *)
(* again after a crash, a switch or a fork (the base revision and the key   *)
(* are checked under the lock, runtime_settings_api.py:121-132). A setting  *)
(* that differs from the project's baseline is shown as an override.        *)
AcceptedSettingsKept ==
  \A b \in DOMAIN branches : Loads(branches[b]) =>
    LET view == SettingsView(branches[b])
    IN /\ view.effective = Overridden(asked[b].edit, asked[b].overrides)
       /\ view.models = Overridden(asked[b].models, asked[b].overrides)
       /\ ~managed => \A f \in Fields :
            view.effective[f] = view.inherited[f] \/ f \in view.overridden

(* A run works under the settings of the branch it writes to: its runner    *)
(* was prepared without the lock, and settings requests, switches, crashes  *)
(* in the middle of a transaction and recoveries may have come between      *)
(* (workflow_runner.py:190-193, project_store.py:557-576).                  *)
RawPromise ==
  IF pending # None /\ (RawBranch # current \/ pending.step = "marked")
  THEN pending.promise ELSE asked[current]

RunsUnderItsBranch ==
  job.pc = "running" =>
    /\ job.policy.edit = Overridden(RawPromise.edit, RawPromise.overrides)
    /\ job.models = Overridden(RawPromise.models, RawPromise.overrides)

(* The number given to a revision is free when its transaction comes to     *)
(* publish it, whatever branches were left behind or transactions undone    *)
(* since: a request never fails because of a number that was used before    *)
(* (main_front.py:405-414, runtime_revision.py:544-621).                    *)
NumbersAreNew ==
  (lock \in Clients /\ pending.publishes /\ pending.step \in {"intent", "written"})
    => Publishable(pending.revision.id)

(* A branch the settings made stays readable: in a project that has         *)
(* revisions, its own or the owner's, and as long as the owner leaves the   *)
(* policy outside the editable fields as it was, its binding passes the     *)
(* integrity checks after any switch, fork, crash or recovery, and after    *)
(* the supplied editable defaults change                                    *)
(* (managed_runtime.py:162-201, main_front.py:417-443).                     *)
OfSettings(b) == b = Main \/ b[1] # 0
SamePrivate(binding) ==
  /\ binding.policy.rest = files.policy.rest
  /\ ~managed => binding.policy.release = files.policy.release

SettingsBranchesLoad ==
  project = "ready" /\ (managed => pointer # None) =>
    \A b \in DOMAIN branches :
      OfSettings(b) /\ SamePrivate(branches[b]) => Loads(branches[b])

(* "Load policy/model state from the active branch's immutable revision."   *)
(* (main_front.py:378): whatever branch a member makes active, the project  *)
(* can be loaded under it, given that the supplied files do not change.     *)
ActiveBranchLoads == project = "ready" => Loads(Active)
=============================================================================
