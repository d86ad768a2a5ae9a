------------------------ MODULE MCRuntimeRevisions ------------------------
(* Small instances of RuntimeRevisions: two members, or the owner and its    *)
(* registry, one rebuilt branch, files that change outside the editable      *)
(* fields or inside them.                                                    *)
EXTENDS RuntimeRevisions, TLC

CONSTANTS l1, l2, m1, m2

MCModelStates == {"intake_clarify", "confirmation_build"}
MCRole == [s \in MCModelStates |-> "text"]

MCEdit == [fixed_rounds |-> 1, max_rounds |-> 2, library |-> l1]
MCModels == [intake_clarify |-> m1, confirmation_build |-> m2]

MCVersion(library, rest) ==
  [policy |-> [edit |-> [MCEdit EXCEPT !.library = library],
               release |-> "auto", rest |-> rest],
   models |-> MCModels]

OneVersion == <<MCVersion(l1, "p0")>>
MoreVersions ==
  <<MCVersion(l1, "p0"), MCVersion(l2, "p0"), MCVersion(l2, "p1")>>

(* A change that lifts one round limit, clears a library and swaps a model, *)
(* and one that lowers the other limit: each is valid alone, not together.  *)
Nothing == [f \in Editable |-> Keep]
MCPatches ==
  {[Nothing EXCEPT !["fixed_rounds"] = 2, !["library"] = None,
                   !["intake_clarify"] = m2],
   [Nothing EXCEPT !["library"] = l2, !["max_rounds"] = 1]}
OnePatch == {[Nothing EXCEPT !["library"] = l2]}

NoRegistry == <<>>

(* The owner's first revision, and one for a running project.                *)
OwnerRevision(id, library, mode, status, from) ==
  [Build(id, IF id = 1 THEN None ELSE 1, NoOverrides,
         [edit |-> [MCEdit EXCEPT !.library = library], release |-> "auto",
          rest |-> "p0"], MCModels, mode, None, None, from)
   EXCEPT !.status = status]

MCRegistry ==
  <<OwnerRevision(1, l1, "before_start", "APPLIED", None),
    OwnerRevision(2, l2, "safe_checkpoint_branch", "CONFIRMED", NextStep)>>

Members == Permutations(Clients)
=============================================================================
