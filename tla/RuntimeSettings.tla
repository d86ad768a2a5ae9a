-------------------------- MODULE RuntimeSettings --------------------------
(* What a runtime configuration is: the settings a member may change, the   *)
(* overrides and patches that change them, the published revision, and the  *)
(* binding a branch keeps of it (configs/runtime_settings.py,               *)
(* configs/runtime_revision.py, configs/managed_runtime.py).                *)
(*                                                                          *)
(* Of the ten editable fields the two round limits are kept, whose values   *)
(* depend on each other, and one library release that stands for the rest;  *)
(* a field or model state that a patch leaves out holds Keep, one that it   *)
(* clears (null) holds None. A digest is the form of the bytes together     *)
(* with their content, so that digests differ exactly where bytes do.       *)
EXTENDS Naturals

CONSTANTS
  Releases,      \* the values of the library releases
  Rounds,        \* the values of the round limits
  Models,        \* model names
  ModelStates,   \* the workflow states that are bound to a model
  Role,          \* the role each of them requires
  Authorized,    \* models of a provider whose key this process has
  Private,       \* what the policy holds besides the editable fields
  Keep,          \* not in a patch
  None           \* absent, or null

Initial == 0     \* effective_from_state before any work; stages follow

Fields == {"fixed_rounds", "max_rounds", "library"}
Editable == Fields \cup ModelStates

ASSUME SettingsAssumption ==
  /\ Rounds \subseteq Nat \ {0} /\ Authorized \subseteq Models
  /\ DOMAIN Role = ModelStates /\ Fields \cap ModelStates = {}
  /\ Keep # None
  /\ {None, Keep} \cap (Releases \cup Rounds \cup Models) = {}

FieldValues(f) ==
  IF f = "library" THEN Releases ELSE IF f \in Fields THEN Rounds ELSE Models

Settings == {e \in [Fields -> Releases \cup Rounds] :
               \A f \in Fields : e[f] \in FieldValues(f)}
ModelDocuments == [ModelStates -> Models]
Overrides == {o \in [Editable -> Releases \cup Rounds \cup Models \cup {None}] :
                \A f \in Editable : o[f] \in FieldValues(f) \cup {None}}
NoOverrides == [f \in Editable |-> None]

(* The policy: its editable part and the rest, which says in particular     *)
(* whether inspections are released by a human.                             *)
Policies == [edit : Settings, release : {"auto", "manual"}, rest : Private]

Consistent(edit) == edit["fixed_rounds"] <= edit["max_rounds"]

----------------------------------------------------------------------------
(* Overrides and patches.                                                   *)

MergeOverrides(current, patch) ==
  [f \in Editable |-> IF patch[f] = Keep THEN current[f] ELSE patch[f]]

Overridden(base, overrides) ==
  [f \in DOMAIN base |-> IF overrides[f] = None THEN base[f] ELSE overrides[f]]

OverridesValid(overrides) ==
  (overrides["fixed_rounds"] # None /\ overrides["max_rounds"] # None) =>
     overrides["fixed_rounds"] <= overrides["max_rounds"]

Approved(models, state, model) ==
  /\ \E s \in ModelStates : models[s] = model /\ Role[s] = Role[state]
  /\ model \in Authorized

ModelsApproved(models, overrides) ==
  \A s \in ModelStates :
     overrides[s] # None => Approved(models, s, overrides[s])

----------------------------------------------------------------------------
(* Digests of the bytes of a file.                                          *)

Raw(content) == [form |-> "raw", content |-> content]
Canonical(content) == [form |-> "canonical", content |-> content]

(* The revision that is published, and what its manifest must satisfy.      *)
Build(id, parent, overrides, policy, models, mode, branch, point, from) ==
  [id |-> id, parent |-> parent, overrides |-> overrides,
   document |-> policy.edit, models |-> models,
   runtimeSha |-> Canonical(policy.edit), modelSha |-> Canonical(models),
   mode |-> mode, status |-> "APPLIED",
   branch |-> branch, point |-> point, from |-> from]

(* Mutant: the digest of the supplied text instead of the published one.    *)
BuiltBindingRaw(revision, policy) ==
  [id |-> revision.id, policy |-> policy, runtimeSha |-> Raw(policy),
   modelSha |-> revision.modelSha, from |-> revision.from]

BuiltBinding(revision, policy) ==
  [id |-> revision.id, policy |-> policy, runtimeSha |-> revision.runtimeSha,
   modelSha |-> revision.modelSha, from |-> revision.from]

ManifestValid(revision) ==
  /\ revision.parent # revision.id
  /\ OverridesValid(revision.overrides)
  /\ revision.mode = "before_start" =>
       revision.branch = None /\ revision.point = None
  /\ (revision.mode = "safe_checkpoint_branch" /\ revision.status = "APPLIED")
       => None \notin {revision.branch, revision.point, revision.from}

----------------------------------------------------------------------------
(* The runtime a process works with: of the supplied files, or of a         *)
(* revision merged into the supplied policy.                                *)

BaseRuntime(files) ==
  [id |-> 1, policy |-> files.policy, models |-> files.models,
   overrides |-> NoOverrides, runtimeSha |-> Raw(files.policy),
   modelSha |-> Raw(files.models), manifest |-> None]

WithPolicy(runtime, policy) ==
  [runtime EXCEPT !.policy = policy, !.runtimeSha = Canonical(policy.edit)]

MergePolicy(base, document, managed) ==
  [edit |-> document, rest |-> base.rest,
   release |-> IF managed THEN "manual" ELSE base.release]

Intact(revision, id) ==
  /\ revision.id = id /\ ManifestValid(revision)
  /\ revision.runtimeSha.content = revision.document
  /\ revision.modelSha.content = revision.models
  /\ Consistent(revision.document)

LoadedRuntime(revision, base, managed) ==
  [id |-> revision.id,
   policy |-> MergePolicy(base.policy, revision.document, managed),
   models |-> revision.models, overrides |-> revision.overrides,
   runtimeSha |-> revision.runtimeSha, modelSha |-> revision.modelSha,
   manifest |-> revision]

(* The binding of a branch: the boundary it takes effect from belongs to    *)
(* the branch and not to the files.                                         *)
From(runtime, from) ==
  IF from # None THEN from
  ELSE IF runtime.manifest # None /\ runtime.manifest.from # None
       THEN runtime.manifest.from ELSE Initial

BranchBinding(runtime, from) ==
  [id |-> runtime.id, policy |-> runtime.policy,
   runtimeSha |-> runtime.runtimeSha, modelSha |-> runtime.modelSha,
   from |-> From(runtime, from)]

BindingHolds(runtime, binding) ==
  BranchBinding(runtime, binding.from) = binding
=============================================================================
