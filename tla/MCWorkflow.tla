----------------------------- MODULE MCWorkflow -----------------------------
(* Instances of Workflow for the model checker.                            *)
EXTENDS Workflow, TLC

Symmetry == Permutations(Docs)

Solo   == [solo |-> TRUE, manual |-> FALSE, early |-> FALSE, limit |-> 2]
Longer == [Solo EXCEPT !.limit = 3]
Rounds == [Longer EXCEPT !.solo = FALSE]

Auto   == [askCategory |-> FALSE, askSkill |-> FALSE, check |-> Solo]
Gated  == [askCategory |-> TRUE, askSkill |-> TRUE, check |-> Rounds]
Styled == [Gated EXCEPT !.check = Longer]
Direct == [Styled EXCEPT !.askSkill = FALSE]

AutoOnly  == {Auto}
GatedOnly == {Gated}
Both      == {Styled, Direct}

(* Sent from any page: nothing, or every approval with a decision on an    *)
(* inspection and an edit.                                                 *)
Common(phase) ==
  {{}, {"approve_category", "approve_task", "approve_skill", "pick",
        "execute", "prompt"}}

(* What a page asks for; the plans are also looked at and left alone.      *)
Approvals(phase) ==
  CASE phase = "waiting_category_approval" -> {{"approve_category"}}
    [] phase = "waiting_human_approval" -> {{"approve_task", "execute"}}
    [] phase = "waiting_skill_approval" -> {{}, {"approve_skill"}}
    [] phase = "waiting_master_selection" -> {{"pick"}}
    [] OTHER -> {{}}

(* A project without a gate but the task book's.                           *)
Plain(phase) == {{}, {"approve_task"}, {"pick"}}

(* What the forms of a phase send besides.                                 *)
Form(phase) ==
  CASE phase = "waiting_category_approval" -> {{"retry_category"}}
    [] phase \in {"waiting_clarification", "waiting_clarification_review"} ->
         {{"answer"}, {"continue"}, {"defaults"}}
    [] phase = "waiting_taskbook_revision" ->
         {{"answer", "approve_task"}, {"scope"}}
    [] phase = "waiting_skill_approval" -> {{"retry_skill"}}
    [] phase = "waiting_human_approval" ->
         {{"edit", "approve_task"}, {"accept_current", "final"}, {"skip"},
          {"end"}, {"add_rounds"}, {"human_tune_best", "prompt"}}
    [] phase \in {"waiting_human_tune", "calibration_completed"} ->
         {{"accept_current", "final"}}
    [] OTHER -> {}

Forms(phase) == Common(phase) \cup Form(phase)
=============================================================================
