--------------------------- MODULE WorkflowGates ---------------------------
(***************************************************************************)
(* The stages of agent_core/workflow_runner.py, the graph between them and *)
(* the gates of the stages before the first paid image: category, question *)
(* cards and task book.  A handler is an operator from the snapshot d and  *)
(* the request's inputs o to the set of snapshots it may return; that it   *)
(* may raise instead is left to Workflow.                                  *)
(*                                                                         *)
(* A task revision is the sequence of the contents up to it, as its hash   *)
(* covers the content and the hash of its parent.  A policy is reduced to  *)
(* its gates and its self-check.  Offline rehearsals, checkpoints older    *)
(* than the unified graph and inputs without an actor are left out.        *)
(***************************************************************************)
EXTENDS Naturals, Sequences, SequencesExt

CONSTANTS
  Docs,         \* contents of a task book
  Budget,       \* question cards, clarification_total_budget
  MaxRevisions, \* bound on the revisions of a task book
  Policies,     \* runtime policies a branch may be bound to
  MaxRounds,    \* bound on the rounds of a self-check policy
  None

SelfChecks == [solo : BOOLEAN, manual : BOOLEAN, early : BOOLEAN,
               limit : 0..MaxRounds]

ASSUME GatesAssumption ==
  /\ Budget \in Nat /\ MaxRevisions \in Nat /\ MaxRounds \in Nat
  /\ Policies \subseteq [askCategory : BOOLEAN, askSkill : BOOLEAN,
                         check : SelfChecks]
  /\ None \notin Policies \cup SelfChecks

ORDER == <<"category_constraint", "intake_clarify", "confirmation_build",
           "initial_candidate_generation", "master_candidate_selection",
           "self_check_iteration", "human_prompt_iteration", "final_approval">>

Stages == {"category_constraint", "intake_clarify", "confirmation_build",
           "initial_candidate_generation", "master_candidate_selection",
           "self_check_iteration", "human_prompt_iteration", "final_approval"}

Waiting == {"waiting_category_approval", "waiting_clarification",
            "waiting_clarification_review", "waiting_taskbook_revision",
            "waiting_human_approval", "waiting_skill_approval",
            "waiting_master_selection", "waiting_human_tune",
            "terminated_without_delivery"}

-----------------------------------------------------------------------------
(* The graph.                                                              *)

Boundary == [ready_for_category_match     |-> "category_constraint",
             ready_for_clarification      |-> "intake_clarify",
             ready_for_taskbook           |-> "confirmation_build",
             ready_for_style_direction    |-> "initial_candidate_generation",
             ready_for_quality_inspection |-> "self_check_iteration",
             ready_for_final_approval     |-> "final_approval"]

Place(s) == CHOOSE i \in 1..Len(ORDER) : ORDER[i] = s

Stays == {"waiting_category_approval", "waiting_human_approval",
          "waiting_clarification", "waiting_clarification_review",
          "waiting_taskbook_revision", "waiting_master_selection",
          "waiting_skill_approval", "skill_approved_pending_render"}

(* The stage that comes next; None where next_state raises.                *)
NextState(d) ==
  IF d.state = None THEN ORDER[1]
  ELSE CASE d.phase \in DOMAIN Boundary            -> Boundary[d.phase]
         [] d.phase \in Stays                      -> d.state
         [] d.phase = "additional_rounds_approved" -> "self_check_iteration"
         [] d.phase = "waiting_human_tune"         -> "human_prompt_iteration"
         [] OTHER -> IF d.state = "final_approval" THEN None
                     ELSE ORDER[Place(d.state) + 1]

(* validate_transition; also for no move at all, and the first stage.      *)
MayEnter(d, target) ==
  \/ d.state \in {None, target}
  \/ /\ d.state \notin {None, "final_approval"}
     /\ target = ORDER[Place(d.state) + 1]
  \/ d.state = "human_prompt_iteration" /\ target = "self_check_iteration"

(* Places in FLOW, the canonical graph of the domain, from 1; 0: no state. *)
PaidStates == {6, 8, 10, 12, 13, 16}

DomainTarget(stage, d) ==
  CASE stage = "category_constraint"          -> 1
    [] stage = "intake_clarify"               -> 2
    [] stage = "confirmation_build"           -> 4
    [] stage = "initial_candidate_generation" ->
         IF d.phase = "waiting_skill_approval" THEN 7 ELSE 8
    [] stage = "master_candidate_selection"   -> 9
    [] stage = "self_check_iteration"         -> 10
    [] stage = "human_prompt_iteration"       -> 12
    [] stage = "final_approval"               -> 15

ApprovalValid(d) == d.ok # <<>> /\ d.ok = d.rev

(* _advance_domain: forward only, and into a paid state only with a valid  *)
(* approval.  FALSE where require_transition raises.                       *)
MayAdvance(d, target) ==
  \A i \in (d.domain + 1)..target : i \in PaidStates => ApprovalValid(d)

Advanced(d, target) ==
  IF target > d.domain THEN [d EXCEPT !.domain = target] ELSE d

-----------------------------------------------------------------------------
(* Category, clarification and task book.                                  *)

(* Requirements of a released category may add a blocking unknown, soften  *)
(* one, or drop one that the facts already answer.                         *)
Constrained(d) == {[d EXCEPT !.blocked = b] : b \in BOOLEAN}

(* A new version of the category, put to a human or released at once.      *)
Matched(d, p) ==
  IF p.askCategory
  THEN {[d EXCEPT !.cat = @ + 1, !.catOk = 0,
                  !.phase = "waiting_category_approval"]}
  ELSE {[e EXCEPT !.cat = @ + 1, !.catOk = d.cat + 1,
                  !.phase = "category_approved"] : e \in Constrained(d)}

Category(d, o, p) ==
  LET waits == d.phase = "waiting_category_approval"
  IN  IF "approve_category" \in o
      THEN {[e EXCEPT !.catOk = d.cat, !.phase = "category_approved"]
              : e \in IF waits THEN Constrained(d) ELSE {}}
      ELSE IF waits /\ "retry_category" \notin o THEN {d}
      ELSE Matched(d, p)

(* An answer that changes the facts withdraws the task book.               *)
Invalidated(d) == [d EXCEPT !.rev = <<>>, !.ok = <<>>]

Answered(d) == {Invalidated([d EXCEPT !.blocked = b]) : b \in {FALSE, d.blocked}}

Review(d) == [d EXCEPT !.phase = "waiting_clarification_review"]

(* The next card: within the budget anything may be asked; without a card  *)
(* only a task that nothing blocks goes on.                                *)
Asked(d) ==
  (IF d.asked < Budget
   THEN {[d EXCEPT !.asked = @ + 1, !.phase = "waiting_clarification"]}
   ELSE {})
  \cup {IF d.blocked THEN Review(d) ELSE [d EXCEPT !.phase = "ready_to_draft"]}

Clarify(d, o) ==
  IF d.phase \notin {"waiting_clarification", "waiting_clarification_review"}
  THEN UNION {Asked(e) : e \in Constrained(d)}
  ELSE IF "answer" \in o THEN UNION {Asked(e) : e \in Answered(d)}
  ELSE IF d.phase = "waiting_clarification" THEN {d}
  ELSE IF "defaults" \in o THEN Asked(Invalidated(d))
  ELSE IF "continue" \in o THEN Asked(d)
  ELSE {Review(d)}

(* The revision that content c makes: the last one, if it is the same.     *)
Revised(revs, c) ==
  IF revs # <<>> /\ Last(revs) = c THEN revs ELSE Append(revs, c)

NeedsRevision(d) == [d EXCEPT !.phase = "waiting_taskbook_revision"]

(* The content of the task book: edited by the human, kept, or drafted.    *)
Contents(d, o) ==
  IF "edit" \in o \/ d.rev = <<>> THEN Docs ELSE {Last(d.rev)}

Drafted(d, o) ==
  {LET revs == Revised(d.revs, c)
       ok   == IF "approve_task" \in o THEN revs ELSE <<>>
   IN [d EXCEPT !.revs = revs, !.rev = revs, !.ok = ok,
                !.phase = IF ok = <<>> THEN "waiting_human_approval"
                          ELSE "task_approved"] : c \in Contents(d, o)}

(* With facts that block, in the task or in a new text, it goes back.      *)
Confirmed(d, o) ==
  IF d.blocked THEN {NeedsRevision(d)}
  ELSE {e \in Drafted(d, o) : Len(e.revs) <= MaxRevisions}
       \cup IF "edit" \in o \/ d.rev = <<>> THEN {NeedsRevision(d)} ELSE {}

Confirmation(d, o) ==
  IF d.phase # "waiting_taskbook_revision" THEN Confirmed(d, o)
  ELSE IF "answer" \in o THEN UNION {Confirmed(e, o) : e \in Answered(d) \cup {d}}
  ELSE IF "scope" \in o THEN Confirmed(Invalidated(d), o)
  ELSE Confirmed(d, o)

-----------------------------------------------------------------------------
(* The style plans.                                                        *)

(* _prepare_skill_invocations, of a released category and approved task.   *)
Prepared(d, p) ==
  IF d.cat = d.catOk /\ ApprovalValid(d)
  THEN {[d EXCEPT !.skill = @ + 1, !.skillOk = 0,
                  !.planRev = d.rev, !.planPolicy = p]}
  ELSE {}

(* What the skill gate hands back to the human, ...                        *)
SkillsWaiting(d, o, p) ==
  CASE d.phase = "skill_approved_pending_render" -> {}
    [] d.phase = "waiting_skill_approval" ->
         IF "retry_skill" \in o THEN Prepared(d, p)
         ELSE IF p.askSkill /\ "approve_skill" \notin o THEN {d} ELSE {}
    [] OTHER ->
         IF o \cap {"approve_skill", "retry_skill"} # {} \/ ~ p.askSkill THEN {}
         ELSE {[e EXCEPT !.phase = "waiting_skill_approval"]
                 : e \in Prepared(d, p)}

(* Mutant: plans that wait are rendered without an approval.               *)
SkillsReleasedWaiting(d, o, p) ==
  CASE d.phase \in {"waiting_skill_approval", "skill_approved_pending_render"} -> {d}
    [] OTHER ->
         IF o \cap {"approve_skill", "retry_skill"} # {} \/ p.askSkill THEN {}
         ELSE {[e EXCEPT !.skillOk = e.skill] : e \in Prepared(d, p)}

(* ... and what it releases for rendering.                                 *)
SkillsReleased(d, o, p) ==
  CASE d.phase = "skill_approved_pending_render" -> {d}
    [] d.phase = "waiting_skill_approval" ->
         IF "retry_skill" \in o \/ (p.askSkill /\ "approve_skill" \notin o)
         THEN {}
         ELSE {[d EXCEPT !.skillOk = d.skill]}
    [] OTHER ->
         IF o \cap {"approve_skill", "retry_skill"} # {} \/ p.askSkill THEN {}
         ELSE {[e EXCEPT !.skillOk = e.skill] : e \in Prepared(d, p)}

(* _freeze_render_boundary: the policy of the first boundary stays.        *)
Frozen(d, p) ==
  [d EXCEPT !.phase = "skill_approved_pending_render",
            !.frozen = IF d.frozen = None THEN p ELSE d.frozen]

(* The check of the plans' provenance right before the paid calls.         *)
PlansCurrent(d) == d.planRev = d.rev /\ d.planPolicy = d.frozen
=============================================================================
