--------------------------- MODULE WorkflowProofs ---------------------------
(***************************************************************************)
(* Theorems about Workflow, for any task books, policies, requests, pages  *)
(* that may be branched from and bounds.                                   *)
(*                                                                         *)
(* The invariant is about snapshots: wherever one is kept (the newest      *)
(* checkpoint, the marked one, the run, which may hold a stale one) its    *)
(* approvals are a human's and cover what the snapshot says is next, and   *)
(* what it calls satisfied has been judged.  It is stated over G, A and J, *)
(* the task revisions granted, images accepted and inspections recorded,   *)
(* so that a snapshot stays sound when these grow.  PInv, on top of it,    *)
(* accounts for every image paid for: it is recorded under the very key    *)
(* the next lookup computes, in the hand of the run, or lost.              *)
(***************************************************************************)
EXTENDS Workflow, SequenceTheorems, TLAPS

(* The stages in which a task book may still change.                       *)
Drafting == {None, "category_constraint", "intake_clarify", "confirmation_build"}

Planned == {"waiting_skill_approval", "skill_approved_pending_render"}

Pass(image, task) == [image |-> image, task |-> task, verdict |-> "pass"]

Sound(d, G, A, J) ==
  /\ d \in Snapshot
  /\ d.ok # <<>> => d.ok \in G
  /\ d.state \notin Drafting => ApprovalValid(d)
  /\ d.state \in Drafting => ~ d.satisfied /\ d.reason # "round_limit"
  /\ d.phase \in Planned => ApprovalValid(d) /\ d.cat = d.catOk /\ d.skill > 0
  /\ d.phase = "skill_approved_pending_render" => d.skill = d.skillOk
  /\ d.phase = "waiting_human_tune" => d.state \notin Drafting
  /\ d.satisfied => d.asset \in A \/ Pass(d.asset, d.rev) \in J

(* A checkpoint: its data is sound, and fits the stage that wrote it.      *)
Kept(c, G, A, J) ==
  /\ Sound(c.data, G, A, J)
  /\ c.node # None => c.data.state # None
  /\ c.node \notin Drafting => ApprovalValid(c.data)

(* The places of the self-check's loop.                                    *)
Loop == {"inspect", "decide", "reworked", "round"}

USE DEF Loop

(* A run: what its place says of its snapshot and of the human's decision. *)
Sure(r, G, A, J) ==
  /\ Sound(r.data, G, A, J)
  /\ r.at # "idle" => r.target \in Stages /\ r.policy \in Policies
  /\ r.at \in {"queued", "next"} /\ r.data.state = None
       => r.target = "category_constraint"
  /\ r.at \in {"render", "rendered"} =>
                        /\ r.data.phase = "skill_approved_pending_render"
                        /\ r.target \notin Drafting
  /\ r.at \in Loop =>
       /\ r.check \in SelfChecks
       /\ r.data.state \notin Drafting /\ r.target \notin Drafting
  /\ r.at \in {"decide", "reworked", "round"} => r.verdict \in Verdicts
  /\ r.at = "decide" =>
       [image |-> r.cur, task |-> r.data.rev, verdict |-> r.verdict] \in J
  /\ r.at = "done" => r.target \notin Drafting /\ ApprovalValid(r.data)

Single(r) ==
  /\ r.act \in {None, ActOf(r.opts)}
  /\ r.freed = 0 \/ (r.freed = 1 /\ r.act = None /\ ActOf(r.opts) # None)
  /\ r.at \in {"reworked", "round"} /\ (r.check.manual \/ r.verdict = "blocked")
       => r.act # None

WInv ==
  /\ TypeOK
  /\ Kept(head, granted, accepted, judged)
  /\ mark # None => Kept(mark, granted, accepted, judged)
  /\ Sure(run, granted, accepted, judged)
  /\ Single(run)
  /\ PaidWasReleased /\ DeliveredWasJudged

-----------------------------------------------------------------------------
(* The graph.                                                              *)

LEMMA Places ==
  /\ Place("category_constraint") = 1 /\ Place("intake_clarify") = 2
  /\ Place("confirmation_build") = 3
  /\ Place("initial_candidate_generation") = 4
  /\ Place("master_candidate_selection") = 5
  /\ Place("self_check_iteration") = 6
  /\ Place("human_prompt_iteration") = 7 /\ Place("final_approval") = 8
<1>1. Place("category_constraint") = 1 /\ Place("intake_clarify") = 2
  BY DEF Place, ORDER
<1>2. /\ Place("confirmation_build") = 3
      /\ Place("initial_candidate_generation") = 4
  BY DEF Place, ORDER
<1>3. /\ Place("master_candidate_selection") = 5
      /\ Place("self_check_iteration") = 6
  BY DEF Place, ORDER
<1>4. Place("human_prompt_iteration") = 7 /\ Place("final_approval") = 8
  BY DEF Place, ORDER
<1> QED
  BY <1>1, <1>2, <1>3, <1>4

LEMMA NextPlace ==
  ASSUME NEW s \in Stages, s # "final_approval"
  PROVE  /\ ORDER[Place(s) + 1] \in Stages
         /\ ORDER[Place(s) + 1] \in Drafting => s \in Drafting
         /\ ORDER[Place(s) + 1] \notin Drafting
              => s \notin Drafting \/ ORDER[Place(s) + 1] = "initial_candidate_generation"
BY Places, WorkflowAssumption DEF Stages, ORDER, Drafting

LEMMA NextStateStage ==
  ASSUME NEW d, d.state \in Stages \cup {None}
  PROVE  /\ NextState(d) \in Stages \cup {None}
         /\ d.state = None => NextState(d) = "category_constraint"
         /\ d.state \notin {None, "final_approval"} => NextState(d) \in Stages
<1>1. \A p \in DOMAIN Boundary : Boundary[p] \in Stages
  BY DEF Boundary, Stages
<1>2. ORDER[1] = "category_constraint" /\ ORDER[1] \in Stages
  BY DEF ORDER, Stages
<1>3. d.state \notin {None, "final_approval"} => ORDER[Place(d.state) + 1] \in Stages
  BY NextPlace
<1> DEFINE next == ORDER[Place(d.state) + 1]
<1>4. "self_check_iteration" \in Stages /\ "human_prompt_iteration" \in Stages
  BY DEF Stages
<1>5. d.state = None => NextState(d) = ORDER[1]
  BY DEF NextState
<1>6. d.state # None => NextState(d) \in Stages \cup {None}
                        /\ (d.state # "final_approval" => NextState(d) \in Stages)
  <2> HIDE DEF next
  <2> QED BY <1>1, <1>3, <1>4 DEF NextState, next
<1> QED
  BY <1>2, <1>5, <1>6

(* Where a run may be when it enters a stage.                              *)
LEMMA EnterFrom ==
  ASSUME NEW d, d.state \in Stages \cup {None}, NEW target \in Stages,
         MayEnter(d, target), d.state = None => target = "category_constraint"
  PROVE  /\ target \in Drafting => d.state \in Drafting
         /\ target \notin Drafting \cup {"initial_candidate_generation"}
              => d.state \notin Drafting
<1>1. CASE d.state \in {None, target}
  BY <1>1 DEF Drafting
<1>2. CASE d.state \notin {None, target}
  <2>1. CASE target = "self_check_iteration" /\ d.state = "human_prompt_iteration"
    BY <2>1, WorkflowAssumption DEF Drafting, Stages
  <2>2. CASE d.state # "final_approval" /\ target = ORDER[Place(d.state) + 1]
    BY <1>2, <2>2, NextPlace
  <2> QED
    BY <1>2, <2>1, <2>2 DEF MayEnter
<1> QED
  BY <1>1, <1>2

-----------------------------------------------------------------------------
(* Snapshots.                                                              *)

LEMMA SoundGrows ==
  ASSUME NEW d, NEW G, NEW A, NEW J, Sound(d, G, A, J),
         NEW G2, NEW A2, NEW J2, G \subseteq G2, A \subseteq A2, J \subseteq J2
  PROVE  Sound(d, G2, A2, J2)
BY DEF Sound

(* A snapshot after a stage that leaves task book and approval alone.      *)
LEMMA SoundMoves ==
  ASSUME NEW d, NEW G, NEW A, NEW J, Sound(d, G, A, J),
         NEW e \in Snapshot, e.rev = d.rev, e.ok = d.ok,
         e.state \notin Drafting => ApprovalValid(d),
         e.state \in Drafting => ~ e.satisfied /\ e.reason # "round_limit",
         e.phase \notin Planned,
         e.phase = "waiting_human_tune" => e.state \notin Drafting,
         e.satisfied => \/ d.satisfied /\ e.asset = d.asset
                        \/ e.asset \in A
                        \/ Pass(e.asset, d.rev) \in J
  PROVE  Sound(e, G, A, J)
BY DEF Sound, ApprovalValid, Planned

-----------------------------------------------------------------------------
(* The handlers before the first paid image: what they hand on.            *)

DraftingPhases == {"waiting_category_approval", "category_approved",
  "waiting_clarification", "waiting_clarification_review", "ready_to_draft",
  "waiting_taskbook_revision", "waiting_human_approval", "task_approved"}

(* The snapshot e comes of d; okay are the task revisions e may approve.   *)
Drafts(d, e, okay) ==
  /\ e \in Snapshot /\ e.phase \in DraftingPhases
  /\ e.satisfied = d.satisfied /\ e.reason = d.reason /\ e.ok \in {<<>>, d.ok} \cup okay

LEMMA DraftingPhasesAre == DraftingPhases \subseteq Phases
BY DEF DraftingPhases, Phases, Waiting, Stays

LEMMA ConstrainedFact ==
  ASSUME NEW d \in Snapshot, NEW e \in Constrained(d)
  PROVE  /\ e \in Snapshot /\ e.satisfied = d.satisfied /\ e.reason = d.reason
         /\ e.ok = d.ok
         /\ e.cat = d.cat /\ e.asked = d.asked
<1>1. PICK b \in BOOLEAN : e = [d EXCEPT !.blocked = b]
  <2>1. d.blocked \in BOOLEAN
    BY DEF Snapshot
  <2> QED BY <2>1 DEF Constrained
<1> QED
  BY <1>1 DEF Snapshot

LEMMA CategoryFact ==
  ASSUME NEW d \in Snapshot, NEW o, NEW p, NEW e \in Category(d, o, p)
  PROVE  Drafts(d, e, {})
<1>1. CASE "approve_category" \in o
  <2>1. PICK c \in Constrained(d) :
          e = [c EXCEPT !.catOk = d.cat, !.phase = "category_approved"]
    BY <1>1 DEF Category
  <2>2. /\ c \in Snapshot /\ c.satisfied = d.satisfied /\ c.reason = d.reason
        /\ c.ok = d.ok /\ d.cat \in Nat
    BY ConstrainedFact DEF Snapshot
  <2>3. /\ "category_approved" \in Phases
        /\ "category_approved" \in DraftingPhases
    BY DraftingPhasesAre DEF DraftingPhases
  <2>4. e \in Snapshot
    BY <2>1, <2>2, <2>3 DEF Snapshot
  <2>5. /\ e.satisfied = c.satisfied /\ e.reason = c.reason /\ e.ok = c.ok
        /\ e.phase = "category_approved"
    BY <2>1, <2>2 DEF Snapshot
  <2> QED BY <2>2, <2>3, <2>4, <2>5 DEF Drafts
<1>2. CASE e = d /\ d.phase = "waiting_category_approval"
  BY <1>2 DEF Drafts, DraftingPhases
<1>3. CASE e \in Matched(d, p)
  <2>1. CASE p.askCategory
    <3>1. e = [d EXCEPT !.cat = d.cat + 1, !.catOk = 0,
                        !.phase = "waiting_category_approval"]
      BY <1>3, <2>1 DEF Matched
    <3>2. d.cat + 1 \in Nat /\ "waiting_category_approval" \in Phases
      BY DEF Snapshot, Phases, Waiting
    <3>3. e \in Snapshot
      BY <3>1, <3>2 DEF Snapshot
    <3>4. /\ e.satisfied = d.satisfied /\ e.reason = d.reason /\ e.ok = d.ok
          /\ e.phase = "waiting_category_approval"
      BY <3>1 DEF Snapshot
    <3> QED BY <3>3, <3>4 DEF Drafts, DraftingPhases
  <2>2. CASE ~ p.askCategory
    <3>1. PICK c \in Constrained(d) :
            e = [c EXCEPT !.cat = c.cat + 1, !.catOk = d.cat + 1,
                          !.phase = "category_approved"]
      BY <1>3, <2>2 DEF Matched
    <3>2. /\ c \in Snapshot /\ c.satisfied = d.satisfied
          /\ c.reason = d.reason /\ c.ok = d.ok
          /\ c.cat + 1 \in Nat /\ d.cat + 1 \in Nat
      BY ConstrainedFact DEF Snapshot
    <3>3. /\ "category_approved" \in Phases
          /\ "category_approved" \in DraftingPhases
      BY DraftingPhasesAre DEF DraftingPhases
    <3>4. e \in Snapshot
      BY <3>1, <3>2, <3>3 DEF Snapshot
    <3>5. /\ e.satisfied = c.satisfied /\ e.reason = c.reason /\ e.ok = c.ok
          /\ e.phase = "category_approved"
      BY <3>1, <3>2 DEF Snapshot
    <3> QED BY <3>2, <3>3, <3>4, <3>5 DEF Drafts
  <2> QED BY <2>1, <2>2
<1> QED
  BY <1>1, <1>2, <1>3 DEF Category

LEMMA InvalidatedFact ==
  ASSUME NEW d \in Snapshot
  PROVE  /\ Invalidated(d) \in Snapshot
         /\ Invalidated(d).satisfied = d.satisfied
         /\ Invalidated(d).reason = d.reason
         /\ Invalidated(d).ok = <<>> /\ Invalidated(d).rev = <<>>
<1>1. <<>> \in Revisions
  BY EmptySeq DEF Revisions
<1> QED
  BY <1>1 DEF Invalidated, Snapshot

LEMMA AnsweredFact ==
  ASSUME NEW d \in Snapshot, NEW e \in Answered(d)
  PROVE  e \in Snapshot /\ e.satisfied = d.satisfied /\ e.reason = d.reason /\ e.ok = <<>>
<1>1. PICK b \in BOOLEAN : e = Invalidated([d EXCEPT !.blocked = b])
  <2>1. d.blocked \in BOOLEAN
    BY DEF Snapshot
  <2> QED BY <2>1 DEF Answered
<1>2. /\ [d EXCEPT !.blocked = b] \in Snapshot
      /\ [d EXCEPT !.blocked = b].satisfied = d.satisfied
      /\ [d EXCEPT !.blocked = b].reason = d.reason
  BY DEF Snapshot
<1> QED
  BY <1>1, <1>2, InvalidatedFact

LEMMA AskedFact ==
  ASSUME NEW d \in Snapshot, NEW e \in Asked(d)
  PROVE  Drafts(d, e, {})
<1>1. PICK n \in Nat, ph \in DraftingPhases : e = [d EXCEPT !.asked = n, !.phase = ph]
  <2>1. d.asked \in Nat /\ d.asked + 1 \in Nat
    BY DEF Snapshot
  <2>2. CASE e = [d EXCEPT !.asked = d.asked + 1, !.phase = "waiting_clarification"]
    BY <2>1, <2>2 DEF DraftingPhases
  <2>3. CASE \E ph \in {"waiting_clarification_review", "ready_to_draft"} :
                e = [d EXCEPT !.phase = ph]
    <3>1. PICK ph \in {"waiting_clarification_review", "ready_to_draft"} :
                e = [d EXCEPT !.phase = ph]
      BY <2>3
    <3>2. [d EXCEPT !.phase = ph] = [d EXCEPT !.asked = d.asked, !.phase = ph]
      BY DEF Snapshot
    <3> QED BY <2>1, <3>1, <3>2 DEF DraftingPhases
  <2> QED
    BY <2>2, <2>3 DEF Asked, Review
<1>2. ph \in Phases
  BY DraftingPhasesAre
<1>3. e \in Snapshot
  BY <1>1, <1>2 DEF Snapshot
<1>4. /\ e.phase = ph /\ e.satisfied = d.satisfied /\ e.reason = d.reason
      /\ e.ok = d.ok
  BY <1>1 DEF Snapshot
<1> QED
  BY <1>3, <1>4 DEF Drafts

LEMMA ClarifyFact ==
  ASSUME NEW d \in Snapshot, NEW o, NEW e \in Clarify(d, o)
  PROVE  Drafts(d, e, {})
<1>1. CASE \E c \in Constrained(d) \cup Answered(d) \cup {Invalidated(d), d} :
             e \in Asked(c)
  <2>1. PICK c \in Constrained(d) \cup Answered(d) \cup {Invalidated(d), d} :
             e \in Asked(c)
    BY <1>1
  <2>2. c \in Snapshot /\ c.satisfied = d.satisfied /\ c.reason = d.reason /\ c.ok \in {<<>>, d.ok}
    BY ConstrainedFact, AnsweredFact, InvalidatedFact
  <2>3. Drafts(c, e, {})
    BY <2>1, <2>2, AskedFact
  <2> QED
    BY <2>2, <2>3 DEF Drafts
<1>2. CASE e = d /\ d.phase = "waiting_clarification"
  BY <1>2 DEF Drafts, DraftingPhases
<1>3. CASE e = Review(d)
  <2>1. "waiting_clarification_review" \in Phases \cap DraftingPhases
    BY DraftingPhasesAre DEF DraftingPhases
  <2>2. e \in Snapshot
    BY <1>3, <2>1 DEF Snapshot, Review
  <2>3. /\ e.phase = "waiting_clarification_review"
        /\ e.satisfied = d.satisfied /\ e.reason = d.reason /\ e.ok = d.ok
    BY <1>3 DEF Snapshot, Review
  <2> QED
    BY <2>1, <2>2, <2>3 DEF Drafts
<1> QED
  BY <1>1, <1>2, <1>3 DEF Clarify

LEMMA RevisedFact ==
  ASSUME NEW revs \in Revisions, NEW c \in Docs
  PROVE  Revised(revs, c) \in Revisions
BY AppendProperties DEF Revised, Revisions

LEMMA ConfirmedFact ==
  ASSUME NEW d \in Snapshot, NEW o, NEW e \in Confirmed(d, o)
  PROVE  Drafts(d, e, IF "approve_task" \in o THEN {e.ok} ELSE {})
<1>1. CASE e = NeedsRevision(d)
  <2>1. "waiting_taskbook_revision" \in Phases \cap DraftingPhases
    BY DraftingPhasesAre DEF DraftingPhases
  <2>2. e \in Snapshot
    BY <1>1, <2>1 DEF Snapshot, NeedsRevision
  <2>3. /\ e.phase = "waiting_taskbook_revision"
        /\ e.satisfied = d.satisfied /\ e.reason = d.reason /\ e.ok = d.ok
    BY <1>1 DEF Snapshot, NeedsRevision
  <2> QED
    BY <2>1, <2>2, <2>3 DEF Drafts
<1>2. CASE e \in Drafted(d, o)
  <2>1. PICK c \in Contents(d, o) :
          e = LET revs == Revised(d.revs, c)
                  ok   == IF "approve_task" \in o THEN revs ELSE <<>>
              IN [d EXCEPT !.revs = revs, !.rev = revs, !.ok = ok,
                           !.phase = IF ok = <<>> THEN "waiting_human_approval"
                                     ELSE "task_approved"]
    BY <1>2 DEF Drafted
  <2>2. d.rev \in Seq(Docs) /\ d.revs \in Revisions
    BY DEF Snapshot, Revisions
  <2>3. c \in Docs
    <3>1. d.rev # <<>> => Last(d.rev) \in Docs
      BY <2>2 DEF Last
    <3> QED BY <2>1, <3>1 DEF Contents
  <2>4. PICK revs \in Revisions, ok \in Revisions,
              ph \in {"waiting_human_approval", "task_approved"} :
          /\ e = [d EXCEPT !.revs = revs, !.rev = revs, !.ok = ok, !.phase = ph]
          /\ ok # <<>> => "approve_task" \in o
    <3> DEFINE revs == Revised(d.revs, c)
               ok   == IF "approve_task" \in o THEN revs ELSE <<>>
    <3>1. revs \in Revisions
      BY <2>2, <2>3, RevisedFact
    <3>2. e = [d EXCEPT !.revs = revs, !.rev = revs, !.ok = ok,
                        !.phase = IF ok = <<>> THEN "waiting_human_approval"
                                  ELSE "task_approved"]
      BY <2>1
    <3>3. ok \in Revisions /\ (ok # <<>> => "approve_task" \in o)
      BY <3>1, EmptySeq DEF Revisions
    <3> HIDE DEF revs, ok
    <3> QED BY <3>1, <3>2, <3>3
  <2>5. ph \in Phases /\ ph \in DraftingPhases
    BY DraftingPhasesAre DEF DraftingPhases
  <2>6. e \in Snapshot
    BY <2>4, <2>5 DEF Snapshot
  <2>7. /\ e.satisfied = d.satisfied /\ e.reason = d.reason /\ e.phase = ph
        /\ e.ok = ok
    BY <2>4 DEF Snapshot
  <2> QED
    BY <2>4, <2>5, <2>6, <2>7 DEF Drafts
<1> QED
  BY <1>1, <1>2 DEF Confirmed

LEMMA ConfirmationFact ==
  ASSUME NEW d \in Snapshot, NEW o, NEW e \in Confirmation(d, o)
  PROVE  Drafts(d, e, IF "approve_task" \in o THEN {e.ok} ELSE {})
<1>1. PICK c \in Answered(d) \cup {Invalidated(d), d} : e \in Confirmed(c, o)
  BY DEF Confirmation
<1>2. c \in Snapshot /\ c.satisfied = d.satisfied /\ c.reason = d.reason /\ c.ok \in {<<>>, d.ok}
  BY AnsweredFact, InvalidatedFact
<1>3. Drafts(c, e, IF "approve_task" \in o THEN {e.ok} ELSE {})
  BY <1>1, <1>2, ConfirmedFact
<1> QED
  BY <1>2, <1>3 DEF Drafts

(* The plans are made of a released category and an approved task book.    *)
LEMMA PreparedFact ==
  ASSUME NEW d \in Snapshot, NEW p \in Policies, NEW e \in Prepared(d, p)
  PROVE  /\ e \in Snapshot /\ ApprovalValid(e)
         /\ e.cat = e.catOk /\ e.skill > 0
         /\ e.state = d.state /\ e.rev = d.rev /\ e.ok = d.ok
         /\ e.satisfied = d.satisfied /\ e.reason = d.reason
         /\ e.asset = d.asset
<1>1. /\ d.cat = d.catOk /\ ApprovalValid(d)
      /\ e = [d EXCEPT !.skill = d.skill + 1, !.skillOk = 0,
                       !.planRev = d.rev, !.planPolicy = p]
  BY DEF Prepared
<1>2. /\ p \in Policy /\ d.skill \in Nat /\ d.skill + 1 \in Nat
      /\ d.rev \in Revisions
  BY GatesAssumption DEF Policy, Snapshot
<1>3. e \in Snapshot
  BY <1>1, <1>2 DEF Snapshot
<1>4. /\ e.cat = d.cat /\ e.catOk = d.catOk /\ e.skill = d.skill + 1
      /\ e.state = d.state /\ e.rev = d.rev /\ e.ok = d.ok
      /\ e.satisfied = d.satisfied /\ e.reason = d.reason /\ e.asset = d.asset
  BY <1>1 DEF Snapshot
<1> QED
  BY <1>1, <1>2, <1>3, <1>4 DEF ApprovalValid

(* What the skill gate hands on is sound, released or not.                 *)
LEMMA PlansSound ==
  ASSUME NEW d, NEW G, NEW A, NEW J, Sound(d, G, A, J),
         NEW p \in Policies, NEW c \in Prepared(d, p),
         NEW e \in Snapshot, NEW k, e.skillOk = k,
         e.phase = "skill_approved_pending_render" => k = c.skill,
         e.state = c.state /\ e.rev = c.rev /\ e.ok = c.ok /\ e.cat = c.cat,
         e.catOk = c.catOk /\ e.skill = c.skill,
         e.satisfied = c.satisfied /\ e.reason = c.reason /\ e.asset = c.asset, e.phase \in Planned
  PROVE  Sound(e, G, A, J)
<1>1. /\ ApprovalValid(c) /\ c.cat = c.catOk /\ c.skill > 0
      /\ c.state = d.state /\ c.rev = d.rev /\ c.ok = d.ok
      /\ c.satisfied = d.satisfied /\ c.reason = d.reason /\ c.asset = d.asset
  BY PreparedFact DEF Sound
<1> QED
  BY <1>1 DEF Sound, ApprovalValid, Planned

LEMMA SkillsWaitingFact ==
  ASSUME NEW d, NEW G, NEW A, NEW J, Sound(d, G, A, J), NEW o,
         NEW p \in Policies, NEW e \in SkillsWaiting(d, o, p)
  PROVE  /\ Sound(e, G, A, J) /\ ApprovalValid(e)
         /\ e.phase = "waiting_skill_approval"
<1>1. d \in Snapshot
  BY DEF Sound
<1>2. CASE e = d /\ d.phase = "waiting_skill_approval"
  BY <1>2 DEF Sound, Planned
<1>3. CASE \E c \in Prepared(d, p) : e = [c EXCEPT !.phase = "waiting_skill_approval"]
  <2>1. PICK c \in Prepared(d, p) : e = [c EXCEPT !.phase = "waiting_skill_approval"]
    BY <1>3
  <2>2. c \in Snapshot /\ ApprovalValid(c)
    BY <1>1, PreparedFact
  <2>3. /\ "waiting_skill_approval" \in Phases
        /\ "waiting_skill_approval" \in Planned
    BY DEF Phases, Waiting, Planned
  <2>4. e \in Snapshot
    BY <2>1, <2>2, <2>3 DEF Snapshot
  <2>5. /\ e.state = c.state /\ e.rev = c.rev /\ e.ok = c.ok /\ e.cat = c.cat
        /\ e.catOk = c.catOk /\ e.skill = c.skill
        /\ e.satisfied = c.satisfied /\ e.reason = c.reason
        /\ e.asset = c.asset
        /\ e.phase = "waiting_skill_approval"
    BY <2>1, <2>2 DEF Snapshot
  <2>6. Sound(e, G, A, J)
    BY <2>3, <2>4, <2>5, PlansSound
  <2> QED
    BY <2>2, <2>5, <2>6 DEF ApprovalValid
<1>4. CASE e \in Prepared(d, p) /\ d.phase = "waiting_skill_approval"
  <2>1. e \in Snapshot /\ ApprovalValid(e)
    BY <1>1, <1>4, PreparedFact
  <2>4. e = [d EXCEPT !.skill = d.skill + 1, !.skillOk = 0,
                      !.planRev = d.rev, !.planPolicy = p]
    BY <1>4 DEF Prepared
  <2>2. e.phase = "waiting_skill_approval"
    BY <1>1, <1>4, <2>4 DEF Snapshot
  <2>3. Sound(e, G, A, J)
    BY <1>4, <2>1, <2>2, PlansSound DEF Planned
  <2> QED
    BY <2>1, <2>2, <2>3
<1> QED
  BY <1>2, <1>3, <1>4 DEF SkillsWaiting

LEMMA SkillsReleasedFact ==
  ASSUME NEW d, NEW G, NEW A, NEW J, Sound(d, G, A, J), NEW o,
         NEW p \in Policies, NEW e \in SkillsReleased(d, o, p)
  PROVE  /\ Sound(Frozen(e, p), G, A, J) /\ ApprovalValid(Frozen(e, p))
         /\ Frozen(e, p).phase = "skill_approved_pending_render"
         /\ Frozen(e, p).state = d.state
<1>1. d \in Snapshot
  BY DEF Sound
<1>2. /\ e \in Snapshot /\ ApprovalValid(e) /\ e.cat = e.catOk
      /\ e.skill > 0 /\ e.skill = e.skillOk
      /\ e.state = d.state /\ e.rev = d.rev /\ e.ok = d.ok
      /\ e.satisfied = d.satisfied /\ e.reason = d.reason /\ e.asset = d.asset
  <2>1. CASE e = d /\ d.phase = "skill_approved_pending_render"
    BY <2>1 DEF Sound, Planned
  <2>2. CASE d.phase = "waiting_skill_approval" /\ e = [d EXCEPT !.skillOk = d.skill]
    <3>1. /\ e \in Snapshot /\ e.skillOk = d.skill /\ e.skill = d.skill
          /\ e.cat = d.cat /\ e.catOk = d.catOk
      BY <1>1, <2>2 DEF Snapshot
    <3>2. /\ e.state = d.state /\ e.rev = d.rev /\ e.ok = d.ok
          /\ e.satisfied = d.satisfied /\ e.reason = d.reason
          /\ e.asset = d.asset
      BY <1>1, <2>2 DEF Snapshot
    <3> QED BY <2>2, <3>1, <3>2 DEF Sound, Planned, ApprovalValid
  <2>3. CASE \E c \in Prepared(d, p) : e = [c EXCEPT !.skillOk = c.skill]
    <3>1. PICK c \in Prepared(d, p) : e = [c EXCEPT !.skillOk = c.skill]
      BY <2>3
    <3>2. /\ c \in Snapshot /\ ApprovalValid(c) /\ c.cat = c.catOk
          /\ c.skill > 0
          /\ c.state = d.state /\ c.rev = d.rev /\ c.ok = d.ok
          /\ c.satisfied = d.satisfied /\ c.reason = d.reason
          /\ c.asset = d.asset
      BY <1>1, PreparedFact
    <3>3. /\ e \in Snapshot /\ e.skillOk = c.skill /\ e.skill = c.skill
          /\ e.cat = c.cat /\ e.catOk = c.catOk
      BY <3>1, <3>2 DEF Snapshot
    <3>4. /\ e.state = c.state /\ e.rev = c.rev /\ e.ok = c.ok
          /\ e.satisfied = c.satisfied /\ e.reason = c.reason
          /\ e.asset = c.asset
      BY <3>1, <3>2 DEF Snapshot
    <3> QED BY <3>2, <3>3, <3>4 DEF ApprovalValid
  <2> QED
    BY <2>1, <2>2, <2>3 DEF SkillsReleased
<1>3. PICK q \in Policy \cup {None} :
        Frozen(e, p) = [e EXCEPT !.phase = "skill_approved_pending_render", !.frozen = q]
  <2>1. e.frozen \in Policy \cup {None} /\ p \in Policy
    BY <1>2, GatesAssumption DEF Snapshot, Policy
  <2> QED BY <2>1 DEF Frozen
<1> DEFINE f == Frozen(e, p)
<1>4. f = [e EXCEPT !.phase = "skill_approved_pending_render", !.frozen = q]
  BY <1>3
<1> HIDE DEF f
<1>5. /\ f \in Snapshot /\ f.phase = "skill_approved_pending_render"
      /\ f.cat = e.cat /\ f.catOk = e.catOk /\ f.skill = e.skill
      /\ f.skillOk = e.skillOk
  <2>1. "skill_approved_pending_render" \in Phases
    BY DEF Phases, Stays
  <2> e \in Snapshot
    BY <1>2
  <2>2. f \in Snapshot
    BY <1>4, <2>1 DEF Snapshot
  <2>3. /\ f.phase = "skill_approved_pending_render"
        /\ f.cat = e.cat /\ f.catOk = e.catOk
    BY <1>4 DEF Snapshot
  <2>4. f.skill = e.skill /\ f.skillOk = e.skillOk
    BY <1>4 DEF Snapshot
  <2> QED BY <2>2, <2>3, <2>4
<1>6. /\ f.state = e.state /\ f.rev = e.rev /\ f.ok = e.ok
      /\ f.satisfied = e.satisfied /\ f.reason = e.reason /\ f.asset = e.asset
  BY <1>2, <1>4 DEF Snapshot
<1>7. Sound(f, G, A, J) /\ ApprovalValid(f)
  BY <1>2, <1>5, <1>6 DEF Sound, ApprovalValid, Planned
<1> QED
  BY <1>2, <1>5, <1>6, <1>7 DEF f

-----------------------------------------------------------------------------
(* Checkpoints and runs.                                                   *)

LEMMA ActOfType == ASSUME NEW o PROVE ActOf(o) \in Acts \cup {None}
BY DEF ActOf

LEMMA IntakeSound == ASSUME NEW G, NEW A, NEW J PROVE Sound(Intake, G, A, J)
<1>1. <<>> \in Revisions
  BY EmptySeq DEF Revisions
<1>2. IntakeBlocked \in BOOLEAN
  BY WorkflowAssumption
<1>3. Intake \in Snapshot
  BY <1>1, <1>2 DEF Intake, Snapshot, OwnPolicy, Statuses, Reasons
<1>4. /\ Intake.state = None /\ Intake.phase = None /\ Intake.ok = <<>>
      /\ Intake.satisfied = FALSE /\ Intake.reason = None
  BY DEF Intake
<1>5. None \in Drafting
  BY DEF Drafting
<1>6. None \notin Planned \cup {"waiting_human_tune"}
  BY PhasesAssumption DEF Planned, Phases, Stays, Waiting
<1>7. None # "round_limit"
  BY WorkflowAssumption
<1> QED
  BY <1>3, <1>4, <1>5, <1>6, <1>7 DEF Sound, Planned

LEMMA IdleSure ==
  ASSUME NEW G, NEW A, NEW J
  PROVE  /\ Idle \in Runs /\ Sure(Idle, G, A, J) /\ Single(Idle)
         /\ Idle.at = "idle"
<1>1. Intake \in Snapshot
  BY IntakeSound DEF Sound
<1>2. Idle \in Runs
  BY <1>1 DEF Idle, Runs
<1>3. /\ Idle.at = "idle" /\ Idle.data = Intake /\ Idle.act = None
      /\ Idle.freed = 0
  BY DEF Idle
<1>4. Sure(Idle, G, A, J)
  BY <1>3, IntakeSound DEF Sure
<1> QED
  BY <1>2, <1>3, <1>4 DEF Single

LEMMA SoundAdvances ==
  ASSUME NEW s, NEW G, NEW A, NEW J, Sound(s, G, A, J), NEW stage \in Stages
  PROVE  /\ Sound(Advanced(s, DomainTarget(stage, s)), G, A, J)
         /\ Advanced(s, DomainTarget(stage, s)).state = s.state
         /\ Advanced(s, DomainTarget(stage, s)).phase = s.phase
         /\ ApprovalValid(s) => ApprovalValid(Advanced(s, DomainTarget(stage, s)))
<1>1. s \in Snapshot /\ s.domain \in 0..16
  BY DEF Sound, Snapshot
<1>2. DomainTarget(stage, s) \in 0..16
  BY DEF DomainTarget, Stages
<1>3. PICK k \in 0..16 :
        Advanced(s, DomainTarget(stage, s)) = [s EXCEPT !.domain = k]
  <2>1. s = [s EXCEPT !.domain = s.domain]
    BY <1>1 DEF Snapshot
  <2> QED BY <1>1, <1>2, <2>1 DEF Advanced
<1> DEFINE f == [s EXCEPT !.domain = k]
<1>4. f \in Snapshot
  BY <1>1 DEF Snapshot
<1>5. /\ f.state = s.state /\ f.phase = s.phase /\ f.rev = s.rev /\ f.ok = s.ok
      /\ f.satisfied = s.satisfied /\ f.reason = s.reason /\ f.asset = s.asset
  BY <1>1 DEF Snapshot
<1>6. /\ f.cat = s.cat /\ f.catOk = s.catOk /\ f.skill = s.skill
      /\ f.skillOk = s.skillOk
  BY <1>1 DEF Snapshot
<1> HIDE DEF f
<1>7. Sound(f, G, A, J) /\ (ApprovalValid(s) => ApprovalValid(f))
  BY <1>4, <1>5, <1>6 DEF Sound, ApprovalValid
<1> QED
  BY <1>3, <1>5, <1>7 DEF f

(* A handler's result is checkpointed: the run stops, or goes on with it.  *)
LEMMA FinishKeeps ==
  ASSUME NEW G, NEW A, NEW J,
         run \in Runs, Sure(run, G, A, J), Single(run), run.at # "idle",
         head \in [node : Stages \cup {None}, data : Snapshot], Kept(head, G, A, J),
         NEW e \in Snapshot, Sound([e EXCEPT !.state = run.target], G, A, J),
         run.target \notin Drafting => ApprovalValid(e),
         Finish(e)
  PROVE  /\ head' \in [node : Stages \cup {None}, data : Snapshot]
         /\ Kept(head', G, A, J)
         /\ policy' = policy /\ mark' = mark /\ failed' \in Stages \cup {None}
         /\ run' \in Runs /\ Sure(run', G, A, J) /\ Single(run')
<1>1. run.target \in Stages
  BY DEF Sure
<1>2. CASE Failed
  BY <1>1, <1>2, IdleSure DEF Failed, Gone
<1>3. CASE ~ Failed
  <2> DEFINE s  == [e EXCEPT !.state = run.target]
             to == DomainTarget(run.target, s)
             f  == Advanced(s, to)
  <2>1. /\ Save(run.target, f)
        /\ \/ Gone
           \/ /\ run.target # "final_approval"
              /\ run' = [run EXCEPT !.at = "next", !.data = f,
                                    !.target = NextState(f)]
    BY <1>3 DEF Finish
  <2>2. s.state = run.target /\ s.ok = e.ok /\ s.rev = e.rev
    BY DEF Snapshot
  <2> HIDE DEF s
  <2>3. Sound(s, G, A, J)
    BY DEF s
  <2>4. /\ Sound(f, G, A, J) /\ f.state = run.target /\ f \in Snapshot
        /\ ApprovalValid(s) => ApprovalValid(f)
    <3>1. /\ Sound(f, G, A, J) /\ f.state = s.state
          /\ ApprovalValid(s) => ApprovalValid(f)
      BY <1>1, <2>3, SoundAdvances
    <3>2. f \in Snapshot
      BY <3>1 DEF Sound
    <3> QED BY <2>2, <3>1, <3>2
  <2>5. run.target \notin Drafting => ApprovalValid(f)
    BY <2>2, <2>4 DEF ApprovalValid
  <2> HIDE DEF f
  <2>6. head' = [node |-> run.target, data |-> f]
        /\ policy' = policy /\ mark' = mark /\ failed' = None
    BY <2>1 DEF Save
  <2>7. head' \in [node : Stages \cup {None}, data : Snapshot]
    BY <1>1, <2>4, <2>6
  <2>8. Kept(head', G, A, J)
    BY <1>1, <2>4, <2>5, <2>6, WorkflowAssumption DEF Kept
  <2>9. run' \in Runs /\ Sure(run', G, A, J) /\ Single(run')
    <3>1. CASE Gone
      BY <3>1, IdleSure DEF Gone
    <3>2. CASE /\ run.target # "final_approval"
               /\ run' = [run EXCEPT !.at = "next", !.data = f,
                                     !.target = NextState(f)]
      <4>1. NextState(f) \in Stages /\ f.state # None
        BY <1>1, <2>4, <3>2, NextStateStage, WorkflowAssumption
      <4>2. run' \in Runs
        BY <2>4, <3>2, <4>1 DEF Runs
      <4>3. /\ run'.at = "next" /\ run'.data = f /\ run'.target = NextState(f)
            /\ run'.policy = run.policy
            /\ run'.act = run.act /\ run'.opts = run.opts
            /\ run'.freed = run.freed
        BY <3>2 DEF Runs
      <4>4. Sure(run', G, A, J)
        BY <2>4, <4>1, <4>3 DEF Sure
      <4> QED
        BY <4>2, <4>3, <4>4 DEF Single
    <3> QED BY <2>1, <3>1, <3>2
  <2> QED
    BY <2>6, <2>7, <2>8, <2>9
<1> QED
  BY <1>2, <1>3

-----------------------------------------------------------------------------
(* Steps.                                                                  *)

Checkpoints == [node : Stages \cup {None}, data : Snapshot]

Inspections == [image : Nat, task : Revisions, verdict : Verdicts]

ImagesFine == images \in Seq(Paid) /\ PaidWasReleased

DeliveriesFine == /\ delivered \subseteq [image : Nat, task : Revisions]
                  /\ DeliveredWasJudged

(* What a step may do to the ghosts.                                       *)
Grows ==
  /\ granted \subseteq granted' /\ granted' \subseteq Revisions
  /\ accepted \subseteq accepted' /\ accepted' \subseteq Nat
  /\ judged \subseteq judged' /\ judged' \subseteq Inspections
  /\ wanted' \subseteq Nat

LEMMA KeptGrows ==
  ASSUME NEW c, NEW G, NEW A, NEW J, Kept(c, G, A, J),
         NEW G2, NEW A2, NEW J2, G \subseteq G2, A \subseteq A2, J \subseteq J2
  PROVE  Kept(c, G2, A2, J2)
BY SoundGrows DEF Kept

LEMMA SureGrows ==
  ASSUME NEW r, NEW G, NEW A, NEW J, Sure(r, G, A, J),
         NEW G2, NEW A2, NEW J2, G \subseteq G2, A \subseteq A2, J \subseteq J2
  PROVE  Sure(r, G2, A2, J2)
<1>1. Sound(r.data, G2, A2, J2)
  BY SoundGrows DEF Sure
<1> QED
  BY <1>1 DEF Sure

LEMMA Unpaid ==
  ASSUME WInv, images' = images, granted \subseteq granted'
  PROVE  ImagesFine'
BY DEF WInv, TypeOK, ImagesFine, PaidWasReleased

LEMMA NothingGrows == ASSUME WInv, UNCHANGED <<judged, ghost>> PROVE Grows
BY DEF WInv, TypeOK, Grows, ghost, Inspections

LEMMA Undelivered ==
  ASSUME WInv, Grows, delivered' = delivered
  PROVE  DeliveriesFine'
BY DEF WInv, TypeOK, Grows, DeliveriesFine, DeliveredWasJudged

LEMMA StepKeeps ==
  ASSUME WInv, Grows, ImagesFine', DeliveriesFine', mark' = mark,
         head' \in Checkpoints, Kept(head', granted', accepted', judged'),
         policy' = policy, failed' \in Stages \cup {None},
         run' \in Runs, Sure(run', granted', accepted', judged'), Single(run')
  PROVE  WInv'
<1>1. mark' # None => Kept(mark', granted', accepted', judged')
  BY KeptGrows DEF WInv, Grows
<1>3. (run.at \in {"inspect", "decide", "reworked", "round"} => run.check # None)'
  BY GatesAssumption DEF Sure
<1>4. TypeOK'
  BY <1>3 DEF WInv, TypeOK, Grows, ImagesFine, DeliveriesFine, Checkpoints, Inspections
<1> QED
  BY <1>1, <1>4 DEF WInv, ImagesFine, DeliveriesFine

(* The run alone moves on, or is gone.                                     *)
LEMMA RunKeeps ==
  ASSUME WInv, UNCHANGED <<store, images, judged, ghost>>,
         run' \in Runs, Sure(run', granted, accepted, judged), Single(run')
  PROVE  WInv'
<1>1. /\ UNCHANGED <<head, policy, failed, mark, granted, accepted, delivered, wanted>>
      /\ Grows /\ ImagesFine' /\ DeliveriesFine'
  BY NothingGrows, Unpaid, Undelivered DEF store, ghost
<1>2. /\ head' \in Checkpoints /\ Kept(head', granted', accepted', judged')
      /\ failed' \in Stages \cup {None}
  BY <1>1 DEF WInv, TypeOK, Checkpoints
<1> QED
  BY <1>1, <1>2, StepKeeps

LEMMA GoneKeeps ==
  ASSUME WInv, Gone, UNCHANGED <<store, images, judged, ghost>>
  PROVE  WInv'
BY IdleSure, RunKeeps DEF Gone

(* What is noted of an image later leaves its data alone.                  *)
LEMMA Noted ==
  ASSUME images \in Seq(Paid), NEW n \in Nat,
         \/ images' = [images EXCEPT ![n].lost = TRUE]
         \/ \E key \in Keys : images' = [images EXCEPT ![n].found = {key}]
  PROVE  /\ images' \in Seq(Paid) /\ Len(images') = Len(images)
         /\ Len(images) \in Nat
         /\ \A i \in 1..Len(images) :
              /\ images'[i].key = images[i].key
              /\ images'[i].task = images[i].task
              /\ images'[i].released = images[i].released
              /\ i # n => images'[i] = images[i]
<1>1. images \in [1..Len(images) -> Paid] /\ Len(images) \in Nat
  BY LenProperties
<1>2. images' \in [1..Len(images) -> Paid]
  <2>1. ASSUME images' = [images EXCEPT ![n].lost = TRUE]
        PROVE  images' \in [1..Len(images) -> Paid]
    BY <1>1, <2>1 DEF Paid
  <2>2. ASSUME NEW key \in Keys, images' = [images EXCEPT ![n].found = {key}]
        PROVE  images' \in [1..Len(images) -> Paid]
    BY <1>1, <2>2 DEF Paid
  <2> QED BY <2>1, <2>2
<1>3. images' \in Seq(Paid) /\ Len(images') = Len(images)
  BY <1>1, <1>2, SeqDef
<1>4. \A i \in 1..Len(images) :
        /\ images'[i].key = images[i].key /\ images'[i].task = images[i].task
        /\ images'[i].released = images[i].released
        /\ i # n => images'[i] = images[i]
  BY <1>1 DEF Paid
<1> QED
  BY <1>1, <1>3, <1>4

LEMMA NotedFine ==
  ASSUME WInv, granted \subseteq granted', NEW n \in Nat,
         \/ images' = [images EXCEPT ![n].lost = TRUE]
         \/ \E key \in Keys : images' = [images EXCEPT ![n].found = {key}]
  PROVE  ImagesFine'
<1>1. images \in Seq(Paid) /\ PaidWasReleased
  BY DEF WInv, TypeOK
<1>2. /\ images' \in Seq(Paid) /\ Len(images') = Len(images)
      /\ \A i \in 1..Len(images) :
           /\ images'[i].task = images[i].task
           /\ images'[i].released = images[i].released
  BY <1>1, Noted
<1> QED
  BY <1>1, <1>2 DEF ImagesFine, PaidWasReleased

LEMMA DropFine ==
  ASSUME WInv, Drop, granted \subseteq granted'
  PROVE  ImagesFine'
<1>1. Len(images) \in Nat
  BY LenProperties DEF WInv, TypeOK
<1> QED
  BY <1>1, NotedFine, Unpaid DEF Drop

LEMMA CrashKeeps ==
  ASSUME WInv, Crash
  PROVE  WInv'
<1>1. /\ UNCHANGED <<head, policy, failed, mark, judged, ghost>> /\ run' = Idle
      /\ UNCHANGED <<granted, accepted, delivered, wanted>>
  BY DEF Crash, Gone, store, ghost
<1>2. Grows /\ ImagesFine' /\ DeliveriesFine'
  BY <1>1, NothingGrows, DropFine, Undelivered DEF Crash
<1>3. /\ head \in Checkpoints /\ Kept(head, granted, accepted, judged)
      /\ failed \in Stages \cup {None}
  BY DEF WInv, TypeOK, Checkpoints
<1> QED
  BY <1>1, <1>2, <1>3, IdleSure, StepKeeps

(* A handler's result is checkpointed, whatever a human decided with it.   *)
LEMMA HandledKeeps ==
  ASSUME WInv, Grows, UNCHANGED <<images, judged, delivered>>, run.at # "idle",
         NEW e \in Snapshot,
         Sound([e EXCEPT !.state = run.target], granted', accepted', judged'),
         run.target \notin Drafting => ApprovalValid(e),
         Finish(e)
  PROVE  WInv'
<1>1. /\ Kept(head, granted', accepted', judged') /\ head \in Checkpoints
      /\ Sure(run, granted', accepted', judged') /\ run \in Runs /\ Single(run)
  BY KeptGrows, SureGrows DEF WInv, TypeOK, Grows, Checkpoints
<1>2. /\ head' \in Checkpoints /\ Kept(head', granted', accepted', judged')
      /\ policy' = policy /\ mark' = mark /\ failed' \in Stages \cup {None}
      /\ run' \in Runs /\ Sure(run', granted', accepted', judged')
      /\ Single(run')
  BY <1>1, FinishKeeps DEF Checkpoints
<1>3. ImagesFine' /\ DeliveriesFine'
  BY Unpaid, Undelivered DEF Grows
<1> QED
  BY <1>2, <1>3, StepKeeps

(* An endpoint saves a checkpoint beside the run.                          *)
LEMMA SavedKeeps ==
  ASSUME WInv, UNCHANGED <<run, judged, ghost>>, ImagesFine',
         NEW node \in Stages, NEW d, Save(node, d),
         Sound(d, granted, accepted, judged), d.state # None,
         node \notin Drafting => ApprovalValid(d)
  PROVE  WInv'
<1>1. /\ UNCHANGED <<granted, accepted, delivered, wanted>> /\ Grows
      /\ d \in Snapshot
  BY NothingGrows DEF ghost, Sound
<1>2. /\ head' = [node |-> node, data |-> d] /\ failed' = None
      /\ policy' = policy /\ mark' = mark
  BY DEF Save
<1>3. head' \in Checkpoints
  BY <1>1, <1>2 DEF Checkpoints
<1>4. Kept(head', granted', accepted', judged')
  BY <1>1, <1>2 DEF Kept
<1>5. run' \in Runs /\ Sure(run', granted', accepted', judged') /\ Single(run')
  BY <1>1 DEF WInv, TypeOK
<1>6. DeliveriesFine'
  BY <1>1, Undelivered
<1> QED
  BY <1>1, <1>2, <1>3, <1>4, <1>5, <1>6, StepKeeps

(* An image is paid for under sound data.                                  *)
LEMMA BuyKeeps ==
  ASSUME WInv, NEW key \in Keys, NEW d, Sound(d, granted, accepted, judged),
         ApprovalValid(d),
         key.kind = "candidate" =>
           d.cat = d.catOk /\ d.skill > 0 /\ d.skill = d.skillOk,
         Buy(key, d), granted' = granted
  PROVE  ImagesFine' /\ Newest \in Nat
<1> DEFINE new == Image(key, d)
<1>1. new \in Paid /\ new.released /\ new.task \in granted
  BY DEF Image, Paid, Released, Sound, Snapshot, ApprovalValid
<1>2. images' = Append(images, new) /\ images \in Seq(Paid)
  BY DEF Buy, WInv, TypeOK
<1> HIDE DEF new
<1>3. /\ images' \in Seq(Paid) /\ Len(images') = Len(images) + 1
      /\ Len(images) \in Nat
      /\ \A i \in 1..Len(images) : images'[i] = images[i]
      /\ images'[Len(images) + 1] = new
  BY <1>1, <1>2, AppendProperties, LenProperties
<1>4. PaidWasReleased'
  <2> SUFFICES ASSUME NEW i \in 1..Len(images')
               PROVE  images'[i].released /\ images'[i].task \in granted'
    BY DEF PaidWasReleased
  <2>1. i \in 1..Len(images) \/ i = Len(images) + 1
    BY <1>3
  <2> QED
    BY <1>1, <1>3, <2>1 DEF WInv, PaidWasReleased
<1> QED
  BY <1>3, <1>4 DEF ImagesFine, Newest

LEMMA BoughtNat == ASSUME WInv, NEW key, NEW k \in Bought(key) PROVE k \in Nat
<1>1. Len(images) \in Nat
  BY LenProperties DEF WInv, TypeOK
<1> QED BY <1>1 DEF Bought

-----------------------------------------------------------------------------
(* Requests.                                                               *)

LEMMA InitInv == Init => WInv
<1> SUFFICES ASSUME Init PROVE WInv
  OBVIOUS
<1>1. Idle \in Runs /\ Sure(run, granted, accepted, judged) /\ Single(run)
  BY IdleSure DEF Init
<1>2. /\ Sound(Intake, granted, accepted, judged) /\ Intake \in Snapshot
      /\ None \in Drafting
  BY IntakeSound DEF Sound, Drafting
<1>3. Kept(head, granted, accepted, judged) /\ mark = None
  BY <1>2 DEF Init, Kept
<1>4. images \in Seq(Paid) /\ Len(images) = 0
  BY EmptySeq DEF Init
<1>5. PaidWasReleased /\ DeliveredWasJudged
  BY <1>4 DEF Init, PaidWasReleased, DeliveredWasJudged
<1>6. TypeOK
  BY <1>1, <1>2, <1>4, IdleSure DEF Init, TypeOK
<1> QED
  BY <1>1, <1>3, <1>5, <1>6 DEF WInv

LEMMA RequestMade ==
  ASSUME WInv, NEW target \in Stages, NEW only \in Stages \cup {None},
         NEW o \in SUBSET Inputs,
         head.data.state = None => target = "category_constraint",
         run' = [Idle EXCEPT !.at = "queued", !.data = head.data, !.opts = o,
                             !.target = target, !.only = only,
                             !.policy = policy, !.act = ActOf(o)]
  PROVE  run' \in Runs /\ Sure(run', granted, accepted, judged) /\ Single(run')
<1>1. /\ head.data \in Snapshot /\ policy \in Policies
      /\ Sound(head.data, granted, accepted, judged)
  BY DEF WInv, TypeOK, Kept
<1>2. Idle \in Runs /\ ActOf(o) \in Acts \cup {None}
  BY IdleSure, ActOfType
<1>3. run' \in Runs
  BY <1>1, <1>2 DEF Runs
<1>4. /\ run'.at = "queued" /\ run'.data = head.data /\ run'.opts = o
      /\ run'.target = target /\ run'.act = ActOf(o) /\ run'.freed = 0
      /\ run'.policy = policy
  BY DEF Idle
<1> QED
  BY <1>1, <1>3, <1>4 DEF Sure, Single

LEMMA SubmitKeeps ==
  ASSUME WInv, NEW o \in Requests(head.data.phase), Submit(o)
  PROVE  WInv'
<1>1. head.data \in Snapshot /\ head.data.state \in Stages \cup {None}
      /\ head.data.phase \in Phases \cup {None}
  BY DEF WInv, TypeOK, Snapshot
<1>2. o \in SUBSET Inputs
  BY <1>1, PhasesAssumption
<1>3. /\ NextState(head.data) \in Stages
      /\ head.data.state = None => NextState(head.data) = "category_constraint"
  BY <1>1, NextStateStage DEF Submit
<1>4. run' \in Runs /\ Sure(run', granted, accepted, judged) /\ Single(run')
  BY <1>2, <1>3, RequestMade DEF Submit
<1> QED
  BY <1>4, RunKeeps DEF Submit

LEMMA RetryKeeps ==
  ASSUME WInv, NEW o \in Requests(head.data.phase), Retry(o)
  PROVE  WInv'
<1>1. head.data \in Snapshot /\ head.data.phase \in Phases \cup {None}
      /\ head \in Checkpoints /\ Kept(head, granted, accepted, judged)
  BY DEF WInv, TypeOK, Snapshot, Checkpoints
<1>2. o \in SUBSET Inputs
  BY <1>1, PhasesAssumption
<1>3. failed \in Stages /\ head.data.state # None
  BY <1>1 DEF Retry, WInv, TypeOK, Kept
<1>4. run' \in Runs /\ Sure(run', granted, accepted, judged) /\ Single(run')
  BY <1>2, <1>3, RequestMade DEF Retry
<1>5. /\ UNCHANGED <<head, policy, mark, images, judged, ghost>> /\ failed' = None
      /\ UNCHANGED <<granted, accepted, delivered, wanted>>
  BY DEF Retry, ghost
<1>6. Grows /\ ImagesFine' /\ DeliveriesFine'
  BY <1>5, NothingGrows, Unpaid, Undelivered
<1> QED
  BY <1>1, <1>4, <1>5, <1>6, StepKeeps DEF Checkpoints

LEMMA StartKeeps ==
  ASSUME WInv, Start
  PROVE  WInv'
<1> UNCHANGED <<store, images, judged, ghost>> /\ run.at = "queued"
  BY DEF Start
<1>1. CASE Gone
  BY <1>1, GoneKeeps
<1>2. CASE \E k \in 0..16 : run' = [run EXCEPT !.at = "next", !.data.domain = k]
  <2>1. PICK k \in 0..16 : run' = [run EXCEPT !.at = "next", !.data.domain = k]
    BY <1>2
  <2> DEFINE d == run.data
             f == [d EXCEPT !.domain = k]
  <2>2. /\ run \in Runs /\ Sure(run, granted, accepted, judged) /\ Single(run)
        /\ Sound(d, granted, accepted, judged) /\ d \in Snapshot
    BY DEF WInv, TypeOK, Sure, Sound
  <2>3. run' = [run EXCEPT !.at = "next", !.data = f]
    BY <2>1, <2>2 DEF Runs
  <2> HIDE DEF d
  <2>4. f \in Snapshot
    BY <2>2 DEF Snapshot
  <2>5. /\ f.state = d.state /\ f.phase = d.phase /\ f.rev = d.rev
        /\ f.ok = d.ok
        /\ f.satisfied = d.satisfied /\ f.reason = d.reason
        /\ f.asset = d.asset
    BY <2>2 DEF Snapshot
  <2>6. /\ f.cat = d.cat /\ f.catOk = d.catOk /\ f.skill = d.skill
        /\ f.skillOk = d.skillOk
    BY <2>2 DEF Snapshot
  <2> HIDE DEF f
  <2>7. Sound(f, granted, accepted, judged)
    BY <2>2, <2>4, <2>5, <2>6 DEF Sound, ApprovalValid
  <2>8. run' \in Runs
    BY <2>2, <2>3, <2>4 DEF Runs
  <2>9. /\ run'.at = "next" /\ run'.data = f /\ run'.target = run.target
        /\ run'.policy = run.policy
        /\ run'.act = run.act /\ run'.opts = run.opts /\ run'.freed = run.freed
    BY <2>2, <2>3 DEF Runs
  <2>10. Sure(run', granted, accepted, judged)
    BY <2>2, <2>5, <2>7, <2>9 DEF Sure, d
  <2>11. Single(run')
    BY <2>2, <2>9 DEF Single
  <2> QED
    BY <2>8, <2>10, <2>11, RunKeeps
<1> QED
  <2>1. run.data.domain \in 0..16 /\ 1 \in 0..16
    BY DEF WInv, TypeOK, Runs, Snapshot
  <2> QED
    BY <1>1, <1>2, <2>1 DEF Start

LEMMA RaiseKeeps ==
  ASSUME WInv, Raise
  PROVE  WInv'
<1>1. run.target \in Stages
  BY DEF WInv, Sure, Raise
<1>2. /\ UNCHANGED <<head, policy, mark, judged, ghost>>
      /\ UNCHANGED <<granted, accepted, delivered, wanted>>
      /\ failed' = run.target /\ run' = Idle
  BY DEF Raise, Failed, Gone, ghost
<1>3. Grows /\ ImagesFine' /\ DeliveriesFine'
  BY <1>2, NothingGrows, DropFine, Undelivered DEF Raise
<1>4. head \in Checkpoints /\ Kept(head, granted, accepted, judged)
  BY DEF WInv, TypeOK, Checkpoints
<1> QED
  BY <1>1, <1>2, <1>3, <1>4, IdleSure, StepKeeps DEF Checkpoints

-----------------------------------------------------------------------------
(* The stages that pay for no image.                                       *)

LEMMA AtFact ==
  ASSUME WInv, NEW stage \in Stages, At(stage)
  PROVE  /\ run.at = "next" /\ run.target = stage /\ run \in Runs
         /\ Sound(run.data, granted, accepted, judged)
         /\ run.data \in Snapshot /\ run.opts \in SUBSET Inputs
         /\ stage \in Drafting => run.data.state \in Drafting
         /\ stage \notin Drafting \cup {"initial_candidate_generation"} =>
              run.data.state \notin Drafting /\ ApprovalValid(run.data)
<1>1. /\ run.at = "next" /\ run.target = stage /\ run \in Runs
      /\ MayEnter(run.data, stage)
      /\ Sound(run.data, granted, accepted, judged)
      /\ run.data.state = None => stage = "category_constraint"
  BY DEF At, WInv, TypeOK, Sure
<1>2. run.data \in Snapshot /\ run.opts \in SUBSET Inputs
  BY <1>1 DEF Runs
<1>3. run.data.state \in Stages \cup {None}
  BY <1>2 DEF Snapshot
<1>4. /\ stage \in Drafting => run.data.state \in Drafting
      /\ stage \notin Drafting \cup {"initial_candidate_generation"}
           => run.data.state \notin Drafting
  BY <1>1, <1>3, EnterFrom
<1> QED
  BY <1>1, <1>2, <1>4 DEF Sound

LEMMA DraftsSound ==
  ASSUME NEW d, NEW G, NEW A, NEW J, Sound(d, G, A, J), d.state \in Drafting,
         NEW okay, NEW e, Drafts(d, e, okay), okay \subseteq G \cup {<<>>},
         NEW stage \in Stages, stage \in Drafting
  PROVE  Sound([e EXCEPT !.state = stage], G, A, J) /\ e \in Snapshot
<1> DEFINE f == [e EXCEPT !.state = stage]
<1>1. e \in Snapshot
  BY DEF Drafts
<1>2. f \in Snapshot
  BY <1>1 DEF Snapshot
<1>3. /\ f.state = stage /\ f.phase = e.phase /\ f.ok = e.ok
      /\ f.satisfied = e.satisfied /\ f.reason = e.reason
  BY <1>1 DEF Snapshot
<1> HIDE DEF f
<1>4. f.ok # <<>> => f.ok \in G
  BY <1>3 DEF Sound, Drafts
<1>5. ~ f.satisfied /\ f.reason # "round_limit"
  BY <1>3 DEF Sound, Drafts
<1>6. f.phase \notin Planned /\ f.phase # "waiting_human_tune"
      /\ f.phase # "skill_approved_pending_render"
  BY <1>3 DEF Drafts, DraftingPhases, Planned
<1>7. Sound(f, G, A, J)
  BY <1>2, <1>3, <1>4, <1>5, <1>6 DEF Sound
<1> QED
  BY <1>1, <1>7 DEF f

LEMMA CategoryKeeps ==
  ASSUME WInv, CategoryConstraint
  PROVE  WInv'
<1>1. "category_constraint" \in Stages /\ "category_constraint" \in Drafting
  BY DEF Stages, Drafting
<1>2. PICK e \in Category(run.data, run.opts, run.policy) : Finish(e)
  BY DEF CategoryConstraint
<1>3. At("category_constraint") /\ UNCHANGED <<images, judged, ghost>>
  BY DEF CategoryConstraint
<1>4. Drafts(run.data, e, {})
  BY <1>1, <1>3, AtFact, CategoryFact
<1>5. /\ Sound([e EXCEPT !.state = run.target], granted, accepted, judged)
      /\ e \in Snapshot /\ run.target \in Drafting /\ run.at # "idle"
  BY <1>1, <1>3, <1>4, AtFact, DraftsSound
<1>6. Grows /\ UNCHANGED <<granted, accepted, delivered>>
  BY <1>3, NothingGrows DEF ghost
<1> QED
  BY <1>2, <1>3, <1>5, <1>6, HandledKeeps

LEMMA ClarifyKeeps ==
  ASSUME WInv, IntakeClarify
  PROVE  WInv'
<1>1. "intake_clarify" \in Stages /\ "intake_clarify" \in Drafting
  BY DEF Stages, Drafting
<1>2. PICK e \in Clarify(run.data, run.opts) : Finish(e)
  BY DEF IntakeClarify
<1>3. At("intake_clarify") /\ UNCHANGED <<images, judged, ghost>>
  BY DEF IntakeClarify
<1>4. Drafts(run.data, e, {})
  BY <1>1, <1>3, AtFact, ClarifyFact
<1>5. /\ Sound([e EXCEPT !.state = run.target], granted, accepted, judged)
      /\ e \in Snapshot /\ run.target \in Drafting /\ run.at # "idle"
  BY <1>1, <1>3, <1>4, AtFact, DraftsSound
<1>6. Grows /\ UNCHANGED <<granted, accepted, delivered>>
  BY <1>3, NothingGrows DEF ghost
<1> QED
  BY <1>2, <1>3, <1>5, <1>6, HandledKeeps

LEMMA ConfirmationKeeps ==
  ASSUME WInv, ConfirmationBuild
  PROVE  WInv'
<1>1. "confirmation_build" \in Stages /\ "confirmation_build" \in Drafting
  BY DEF Stages, Drafting
<1>2. PICK e \in Confirmation(run.data, run.opts) :
        /\ Finish(e)
        /\ granted' = IF "approve_task" \in run.opts /\ e.ok # <<>>
                      THEN granted \cup {e.ok} ELSE granted
  BY DEF ConfirmationBuild
<1>3. /\ At("confirmation_build")
      /\ UNCHANGED <<images, judged, accepted, delivered, wanted>>
  BY DEF ConfirmationBuild
<1> DEFINE okay == IF "approve_task" \in run.opts THEN {e.ok} ELSE {}
<1>4. Drafts(run.data, e, okay)
  BY <1>1, <1>3, AtFact, ConfirmationFact
<1>5. e \in Snapshot /\ e.ok \in Revisions /\ okay \subseteq granted' \cup {<<>>}
  BY <1>2, <1>4 DEF Drafts, Snapshot
<1>6. Grows
  BY <1>2, <1>3, <1>5 DEF WInv, TypeOK, Grows, Inspections
<1>7. Sound(run.data, granted', accepted', judged')
  BY <1>1, <1>3, <1>6, AtFact, SoundGrows DEF Grows
<1>8. /\ Sound([e EXCEPT !.state = run.target], granted', accepted', judged')
      /\ run.target \in Drafting /\ run.at # "idle"
  BY <1>1, <1>3, <1>4, <1>5, <1>7, AtFact, DraftsSound
<1> QED
  BY <1>2, <1>3, <1>5, <1>6, <1>8, HandledKeeps

LEMMA SelectionKeeps ==
  ASSUME WInv, MasterSelection
  PROVE  WInv'
<1> DEFINE d == run.data
<1>1. "master_candidate_selection" \in Stages
      /\ "master_candidate_selection" \notin Drafting \cup {"initial_candidate_generation"}
  BY WorkflowAssumption DEF Stages, Drafting
<1>2. At("master_candidate_selection") /\ UNCHANGED <<images, judged, ghost>>
  BY DEF MasterSelection
<1>3. /\ run.at = "next" /\ run.target = "master_candidate_selection"
      /\ Sound(d, granted, accepted, judged) /\ d \in Snapshot
      /\ ApprovalValid(d)
  BY <1>1, <1>2, AtFact
<1>4. PICK m \in Nat, ph \in {"master_selected", "waiting_master_selection"} :
        Finish([d EXCEPT !.master = m, !.phase = ph])
  <2>1. d.cands \in Nat /\ d.master \in Nat
    BY <1>3 DEF Snapshot
  <2>2. [d EXCEPT !.phase = "waiting_master_selection"]
          = [d EXCEPT !.master = d.master, !.phase = "waiting_master_selection"]
    BY <1>3 DEF Snapshot
  <2>3. \/ Finish([d EXCEPT !.master = d.cands, !.phase = "master_selected"])
        \/ Finish([d EXCEPT !.phase = "waiting_master_selection"])
    BY DEF MasterSelection
  <2> QED BY <2>1, <2>2, <2>3
<1> DEFINE e == [d EXCEPT !.master = m, !.phase = ph]
           f == [e EXCEPT !.state = run.target]
<1>5. ph \in Phases /\ ph \notin Planned \cup {"waiting_human_tune"}
  BY DEF Phases, Waiting, Planned
<1> HIDE DEF d
<1>6. /\ e \in Snapshot /\ f \in Snapshot /\ f.rev = d.rev /\ f.ok = d.ok
      /\ f.state = run.target /\ f.phase = ph
  BY <1>1, <1>3, <1>5 DEF Snapshot
<1>7. /\ f.satisfied = d.satisfied /\ f.reason = d.reason /\ f.asset = d.asset
      /\ e.rev = d.rev /\ e.ok = d.ok
  BY <1>3 DEF Snapshot
<1> HIDE DEF e, f
<1>8. Sound(f, granted, accepted, judged) /\ ApprovalValid(e)
  BY <1>1, <1>3, <1>5, <1>6, <1>7, SoundMoves DEF ApprovalValid, Sound
<1>9. Grows /\ UNCHANGED <<granted, accepted, delivered>>
  BY <1>2, NothingGrows DEF ghost
<1> QED
  BY <1>2, <1>3, <1>4, <1>6, <1>8, <1>9, HandledKeeps DEF e, f

(* What is delivered is the image that the snapshot calls satisfying.      *)
LEMMA FinalKeeps ==
  ASSUME WInv, Final
  PROVE  WInv'
<1> DEFINE d == run.data
           e == [d EXCEPT !.done = TRUE]
           f == [e EXCEPT !.state = run.target]
<1>1. /\ "final_approval" \in Stages
      /\ "final_approval" \notin Drafting \cup {"initial_candidate_generation"}
  BY WorkflowAssumption DEF Stages, Drafting
<1>2. /\ At("final_approval") /\ Deliverable(d) /\ Finish(e)
      /\ delivered' = delivered \cup {[image |-> d.asset, task |-> d.rev]}
      /\ UNCHANGED <<images, judged, granted, accepted, wanted>>
  BY DEF Final
<1>3. /\ run.at = "next" /\ run.target = "final_approval" /\ run \in Runs
      /\ Sound(d, granted, accepted, judged) /\ d \in Snapshot
      /\ ApprovalValid(d) /\ d.state \notin Drafting
  BY <1>1, <1>2, AtFact
<1>4. d.satisfied /\ d.asset \in Nat /\ d.rev \in Revisions
  BY <1>2, <1>3 DEF Deliverable, Snapshot
<1>5. Grows
  BY <1>2 DEF WInv, TypeOK, Grows, Inspections
<1>6. d.asset \in accepted \/ Pass(d.asset, d.rev) \in judged
  BY <1>3, <1>4 DEF Sound
<1>7. DeliveriesFine'
  <2>1. delivered' \subseteq [image : Nat, task : Revisions]
    BY <1>2, <1>4 DEF WInv, TypeOK
  <2>2. DeliveredWasJudged'
    <3> SUFFICES ASSUME NEW x \in delivered'
                 PROVE  x.image \in accepted \/ Pass(x.image, x.task) \in judged
      BY <1>2 DEF DeliveredWasJudged, Pass
    <3>1. CASE x \in delivered
      BY <3>1 DEF WInv, DeliveredWasJudged, Pass
    <3>2. CASE x = [image |-> d.asset, task |-> d.rev]
      BY <1>6, <3>2
    <3> QED BY <1>2, <3>1, <3>2
  <2> QED BY <2>1, <2>2 DEF DeliveriesFine
<1> HIDE DEF d
<1>8. /\ e \in Snapshot /\ f \in Snapshot /\ f.rev = d.rev /\ f.ok = d.ok
      /\ f.state = run.target /\ f.phase = d.phase
  BY <1>1, <1>3 DEF Snapshot
<1>9. /\ f.satisfied = d.satisfied /\ f.reason = d.reason /\ f.asset = d.asset
      /\ e.rev = d.rev /\ e.ok = d.ok
  BY <1>3 DEF Snapshot
<1>10. /\ f.cat = d.cat /\ f.catOk = d.catOk /\ f.skill = d.skill
       /\ f.skillOk = d.skillOk
  BY <1>3 DEF Snapshot
<1> HIDE DEF e, f
<1>11. Sound(f, granted, accepted, judged) /\ ApprovalValid(e)
  BY <1>1, <1>3, <1>8, <1>9, <1>10 DEF Sound, ApprovalValid
<1>12. head \in Checkpoints /\ Kept(head, granted, accepted, judged)
       /\ Sure(run, granted, accepted, judged) /\ Single(run)
  BY DEF WInv, TypeOK, Checkpoints
<1>13. /\ head' \in Checkpoints /\ Kept(head', granted, accepted, judged)
       /\ policy' = policy /\ mark' = mark /\ failed' \in Stages \cup {None}
       /\ run' \in Runs /\ Sure(run', granted, accepted, judged)
       /\ Single(run')
  BY <1>2, <1>3, <1>8, <1>11, <1>12, FinishKeeps DEF Checkpoints, f
<1>14. ImagesFine'
  BY <1>2, Unpaid
<1> QED
  BY <1>2, <1>5, <1>7, <1>13, <1>14, StepKeeps

-----------------------------------------------------------------------------
(* The candidates.                                                         *)

LEMMA PlanKeeps ==
  ASSUME WInv, PlanCandidates
  PROVE  WInv'
<1>1. /\ "initial_candidate_generation" \in Stages
      /\ "initial_candidate_generation" \notin Drafting
  BY WorkflowAssumption DEF Stages, Drafting
<1>2. PICK e \in SkillsWaiting(run.data, run.opts, run.policy) :
        /\ Finish(e)
        /\ wanted' = IF "retry_skill" \in run.opts THEN wanted \cup {e.skill}
                     ELSE wanted
  BY DEF PlanCandidates
<1>3. /\ At("initial_candidate_generation")
      /\ UNCHANGED <<images, judged, granted, accepted, delivered>>
  BY DEF PlanCandidates
<1>4. /\ run.at = "next" /\ run.target = "initial_candidate_generation"
      /\ Sound(run.data, granted, accepted, judged)
  BY <1>1, <1>3, AtFact
<1>5. run.policy \in Policies
  BY <1>4 DEF WInv, Sure
<1>6. /\ Sound(e, granted, accepted, judged) /\ ApprovalValid(e)
      /\ e.phase = "waiting_skill_approval"
  BY <1>4, <1>5, SkillsWaitingFact
<1> DEFINE f == [e EXCEPT !.state = run.target]
<1>7. e \in Snapshot /\ e.skill \in Nat
  BY <1>6 DEF Sound, Snapshot
<1>8. /\ f \in Snapshot /\ f.rev = e.rev /\ f.ok = e.ok
      /\ f.state = run.target /\ f.phase = e.phase
  BY <1>1, <1>4, <1>7 DEF Snapshot
<1>9. f.satisfied = e.satisfied /\ f.reason = e.reason /\ f.asset = e.asset
  BY <1>7 DEF Snapshot
<1>10. /\ f.cat = e.cat /\ f.catOk = e.catOk /\ f.skill = e.skill
       /\ f.skillOk = e.skillOk
  BY <1>7 DEF Snapshot
<1> HIDE DEF f
<1>11. Sound(f, granted, accepted, judged)
  BY <1>1, <1>4, <1>6, <1>8, <1>9, <1>10 DEF Sound, ApprovalValid
<1>12. Grows
  BY <1>2, <1>3, <1>7 DEF WInv, TypeOK, Grows, Inspections
<1> QED
  BY <1>2, <1>3, <1>4, <1>6, <1>7, <1>11, <1>12, HandledKeeps DEF f

LEMMA FreezeKeeps ==
  ASSUME WInv, FreezeBoundary
  PROVE  WInv'
<1>1. /\ "initial_candidate_generation" \in Stages
      /\ "initial_candidate_generation" \notin Drafting
  BY WorkflowAssumption DEF Stages, Drafting
<1>2. PICK e \in SkillsReleased(run.data, run.opts, run.policy) :
        /\ Save("initial_candidate_generation", Frozen(e, run.policy))
        /\ run' = [run EXCEPT !.at = "render", !.data = Frozen(e, run.policy)]
  BY DEF FreezeBoundary
<1>3. /\ At("initial_candidate_generation")
      /\ UNCHANGED <<images, judged, ghost>>
  BY DEF FreezeBoundary
<1>4. /\ run.at = "next" /\ run.target = "initial_candidate_generation"
      /\ run \in Runs /\ Sound(run.data, granted, accepted, judged)
      /\ run.policy \in Policies /\ run.data.state # None /\ Single(run)
  BY <1>1, <1>3, AtFact DEF WInv, Sure
<1> DEFINE b == Frozen(e, run.policy)
<1>5. /\ Sound(b, granted, accepted, judged) /\ ApprovalValid(b)
      /\ b.phase = "skill_approved_pending_render" /\ b.state = run.data.state
  BY <1>4, SkillsReleasedFact
<1>6. /\ head' = [node |-> "initial_candidate_generation", data |-> b]
      /\ failed' = None /\ policy' = policy /\ mark' = mark
      /\ run' = [run EXCEPT !.at = "render", !.data = b]
      /\ UNCHANGED <<granted, accepted, delivered, wanted, images, judged>>
  BY <1>2, <1>3 DEF Save, ghost
<1> HIDE DEF b
<1>7. b \in Snapshot
  BY <1>5 DEF Sound
<1>8. head' \in Checkpoints /\ Kept(head', granted', accepted', judged')
  BY <1>1, <1>4, <1>5, <1>6, <1>7 DEF Checkpoints, Kept
<1>9. run' \in Runs
  BY <1>4, <1>6, <1>7 DEF Runs
<1>10. /\ run'.at = "render" /\ run'.data = b /\ run'.target = run.target
       /\ run'.act = run.act /\ run'.opts = run.opts /\ run'.freed = run.freed
       /\ run'.policy = run.policy
  BY <1>4, <1>6 DEF Runs
<1>11. Sure(run', granted', accepted', judged') /\ Single(run')
  BY <1>1, <1>4, <1>5, <1>6, <1>10 DEF Sure, Single
<1>12. Grows /\ ImagesFine' /\ DeliveriesFine'
  BY <1>3, <1>6, NothingGrows, Unpaid, Undelivered
<1> QED
  BY <1>6, <1>8, <1>9, <1>11, <1>12, StepKeeps

(* The run has a result: data that is sound and approved.                  *)
LEMMA DoneKeeps ==
  ASSUME WInv, UNCHANGED <<store, judged, ghost>>, ImagesFine', run.at # "idle",
         run.target \notin Drafting,
         NEW e, Sound(e, granted, accepted, judged), ApprovalValid(e),
         run' = [run EXCEPT !.at = "done", !.data = e]
  PROVE  WInv'
<1>1. /\ run \in Runs /\ Sure(run, granted, accepted, judged) /\ Single(run)
      /\ e \in Snapshot
  BY DEF WInv, TypeOK, Sound
<1>2. run' \in Runs
  BY <1>1 DEF Runs
<1>3. /\ run'.at = "done" /\ run'.data = e /\ run'.target = run.target
      /\ run'.act = run.act /\ run'.opts = run.opts /\ run'.freed = run.freed
      /\ run'.policy = run.policy
  BY <1>1 DEF Runs
<1>4. Sure(run', granted, accepted, judged) /\ Single(run')
  BY <1>1, <1>3 DEF Sure, Single
<1>5. /\ UNCHANGED <<head, policy, failed, mark, granted, accepted, delivered, wanted>>
      /\ Grows
  BY NothingGrows DEF store, ghost
<1>6. /\ head' \in Checkpoints /\ Kept(head', granted', accepted', judged')
      /\ failed' \in Stages \cup {None}
  BY <1>5 DEF WInv, TypeOK, Checkpoints
<1>7. DeliveriesFine'
  BY <1>5, Undelivered
<1> QED
  BY <1>2, <1>4, <1>5, <1>6, <1>7, StepKeeps

(* The run has its candidate.                                              *)
LEMMA RenderedKeeps ==
  ASSUME WInv, run.at \in {"render", "rendered"}, NEW k \in Nat, Rendered(k),
         UNCHANGED <<store, judged, ghost>>, ImagesFine'
  PROVE  WInv'
<1> DEFINE d == run.data
           e == [d EXCEPT !.cands = k, !.phase = "candidate_generation_completed"]
<1>1. /\ run \in Runs /\ Sound(d, granted, accepted, judged) /\ d \in Snapshot
      /\ d.phase = "skill_approved_pending_render"
      /\ run.target \notin Drafting /\ run.at # "idle"
  BY DEF WInv, TypeOK, Sure, Sound
<1>2. ApprovalValid(d)
  BY <1>1 DEF Sound, Planned
<1>5. run' = [run EXCEPT !.at = "done", !.data = e]
  BY <1>1 DEF Runs, Rendered
<1>6. "candidate_generation_completed" \in Phases
      /\ "candidate_generation_completed" \notin Planned \cup {"waiting_human_tune"}
  BY DEF Phases, Planned
<1> HIDE DEF d
<1>7. /\ e \in Snapshot /\ e.rev = d.rev /\ e.ok = d.ok
      /\ e.state = d.state /\ e.phase = "candidate_generation_completed"
  BY <1>1, <1>6 DEF Snapshot
<1>8. e.satisfied = d.satisfied /\ e.reason = d.reason /\ e.asset = d.asset
  BY <1>1 DEF Snapshot
<1> HIDE DEF e
<1>9. e.state \in Drafting => ~ e.satisfied /\ e.reason # "round_limit"
  BY <1>1, <1>7, <1>8 DEF Sound
<1>10. Sound(e, granted, accepted, judged) /\ ApprovalValid(e)
  BY <1>1, <1>2, <1>6, <1>7, <1>8, <1>9, SoundMoves DEF ApprovalValid
<1> QED
  BY <1>1, <1>5, <1>10, DoneKeeps

(* The run has paid, and holds the answer.                                 *)
LEMMA HeldKeeps ==
  ASSUME WInv, UNCHANGED <<store, judged, ghost>>, ImagesFine',
         \/ run.at = "render" /\ run' = [run EXCEPT !.at = "rendered"]
         \/ /\ run.at = "decide" /\ run' = [run EXCEPT !.at = "reworked"]
            /\ Held(run.verdict) => run.act # None
  PROVE  WInv'
<1>1. /\ run \in Runs /\ Sure(run, granted, accepted, judged) /\ Single(run)
  BY DEF WInv, TypeOK
<1>2. run' \in Runs
  BY <1>1 DEF Runs
<1>3. /\ run'.data = run.data /\ run'.target = run.target
      /\ run'.act = run.act /\ run'.opts = run.opts /\ run'.freed = run.freed
      /\ run'.policy = run.policy /\ run'.check = run.check
      /\ run'.verdict = run.verdict
      /\ \/ run.at = "render" /\ run'.at = "rendered"
         \/ /\ run.at = "decide" /\ run'.at = "reworked"
            /\ Held(run.verdict) => run.act # None
  BY <1>1 DEF Runs
<1>4. Sure(run', granted, accepted, judged) /\ Single(run')
  BY <1>1, <1>3 DEF Sure, Single, Held
<1>5. /\ UNCHANGED <<head, policy, failed, mark, granted, accepted, delivered, wanted>>
      /\ Grows
  BY NothingGrows DEF store, ghost
<1>6. /\ head' \in Checkpoints /\ Kept(head', granted', accepted', judged')
      /\ failed' \in Stages \cup {None}
  BY <1>5 DEF WInv, TypeOK, Checkpoints
<1>7. DeliveriesFine'
  BY <1>5, Undelivered
<1> QED
  BY <1>2, <1>4, <1>5, <1>6, <1>7, StepKeeps

LEMMA CandidateKeyType ==
  ASSUME WInv PROVE CandidateKey \in Keys /\ CandidateKey.kind = "candidate"
<1>1. run.data \in Snapshot
  BY DEF WInv, TypeOK, Runs
<1>2. Scope(run.data) \in Scopes
  BY <1>1 DEF Scope, Scopes, Snapshot
<1> QED
  BY <1>2 DEF CandidateKey, Key, Keys

LEMMA RenderKeeps ==
  ASSUME WInv, RenderCandidates
  PROVE  WInv'
<1>1. /\ run.at = "render" /\ UNCHANGED <<store, judged, ghost>>
  BY DEF RenderCandidates
<1>2. CASE \E k \in Bought(CandidateKey) : Rendered(k) /\ images' = images
  <2>1. PICK k \in Bought(CandidateKey) : Rendered(k)
    BY <1>2
  <2>2. k \in Nat /\ ImagesFine'
    BY <1>1, <1>2, BoughtNat, Unpaid DEF ghost
  <2> QED
    BY <1>1, <2>1, <2>2, RenderedKeeps
<1>3. CASE Buy(CandidateKey, run.data) /\ run' = [run EXCEPT !.at = "rendered"]
  <2> DEFINE d == run.data
  <2>1. /\ Sound(d, granted, accepted, judged)
        /\ d.phase = "skill_approved_pending_render"
    BY <1>1 DEF WInv, Sure
  <2>2. /\ ApprovalValid(d) /\ d.cat = d.catOk /\ d.skill > 0
        /\ d.skill = d.skillOk
    BY <2>1 DEF Sound, Planned
  <2> HIDE DEF d
  <2>3. ImagesFine'
    BY <1>1, <1>3, <2>1, <2>2, CandidateKeyType, BuyKeeps DEF ghost, d
  <2> QED
    BY <1>1, <1>3, <2>3, HeldKeeps
<1> QED
  BY <1>2, <1>3 DEF RenderCandidates

LEMMA SucceededKeeps ==
  ASSUME WInv, CandidateSucceeded
  PROVE  WInv'
<1>1. /\ run.at = "rendered" /\ UNCHANGED <<store, judged, ghost>>
      /\ Record(CandidateKey) /\ Rendered(Len(images)) /\ Len(images) \in Nat
  BY LenProperties DEF CandidateSucceeded, WInv, TypeOK
<1>2. ImagesFine'
  BY <1>1, CandidateKeyType, NotedFine DEF Record, ghost
<1> QED
  BY <1>1, <1>2, RenderedKeeps

LEMMA ResultKeeps ==
  ASSUME WInv, Done
  PROVE  WInv'
<1> DEFINE e == run.data
           f == [e EXCEPT !.state = run.target]
<1>1. /\ run.at = "done" /\ Finish(e) /\ UNCHANGED <<images, judged, ghost>>
      /\ Sound(e, granted, accepted, judged) /\ ApprovalValid(e)
      /\ run.target \in Stages /\ run.target \notin Drafting
  BY DEF Done, WInv, Sure
<1>2. e \in Snapshot
  BY <1>1 DEF Sound
<1> HIDE DEF e
<1>3. /\ f \in Snapshot /\ f.rev = e.rev /\ f.ok = e.ok
      /\ f.state = run.target /\ f.phase = e.phase
  BY <1>1, <1>2 DEF Snapshot
<1>4. f.satisfied = e.satisfied /\ f.reason = e.reason /\ f.asset = e.asset
  BY <1>2 DEF Snapshot
<1>5. /\ f.cat = e.cat /\ f.catOk = e.catOk /\ f.skill = e.skill
      /\ f.skillOk = e.skillOk
  BY <1>2 DEF Snapshot
<1> HIDE DEF f
<1>6. Sound(f, granted, accepted, judged)
  BY <1>1, <1>3, <1>4, <1>5 DEF Sound, ApprovalValid
<1>7. Grows /\ UNCHANGED <<granted, accepted, delivered>>
  BY <1>1, NothingGrows DEF ghost
<1> QED
  BY <1>1, <1>2, <1>6, <1>7, HandledKeeps DEF f

-----------------------------------------------------------------------------
(* The self-check.                                                         *)

(* The result e of a stage after the candidates, checkpointed under stage. *)
LEMMA StagedSound ==
  ASSUME NEW d, NEW G, NEW A, NEW J, Sound(d, G, A, J), d.state \notin Drafting,
         NEW e \in Snapshot, e.rev = d.rev, e.ok = d.ok, e.state = d.state,
         e.phase \notin Planned,
         e.satisfied => \/ d.satisfied /\ e.asset = d.asset
                        \/ e.asset \in A
                        \/ Pass(e.asset, d.rev) \in J,
         NEW stage \in Stages, stage \notin Drafting
  PROVE  /\ Sound(e, G, A, J) /\ ApprovalValid(e)
         /\ Sound([e EXCEPT !.state = stage], G, A, J)
<1>1. ApprovalValid(d)
  BY DEF Sound
<1>2. Sound(e, G, A, J) /\ ApprovalValid(e)
  BY <1>1, SoundMoves DEF ApprovalValid
<1> DEFINE f == [e EXCEPT !.state = stage]
<1>3. /\ f \in Snapshot /\ f.rev = e.rev /\ f.ok = e.ok /\ f.state = stage
      /\ f.phase = e.phase /\ f.satisfied = e.satisfied /\ f.asset = e.asset
  BY DEF Snapshot
<1> HIDE DEF f
<1>4. Sound(f, G, A, J)
  BY <1>1, <1>3, SoundMoves
<1> QED
  BY <1>2, <1>4 DEF f

LEMMA StatusesAre ==
  /\ {"waiting_human_decision", "terminated", "human_accepted", "completed"}
       \subseteq Statuses
  /\ {"human", "pass", "round_limit"} \subseteq Reasons
BY DEF Statuses, Reasons

LEMMA CompletedPhase ==
  /\ {"calibration_completed", "terminated_without_delivery",
      "waiting_human_approval", "waiting_human_tune"} \subseteq Phases
  /\ Planned \cap {"calibration_completed", "terminated_without_delivery",
                   "waiting_human_approval", "waiting_human_tune",
                   "round_checkpointed", "additional_rounds_approved"} = {}
BY DEF Phases, Waiting, Planned

LEMMA EndedType ==
  ASSUME NEW d \in Snapshot, NEW asset \in Nat, NEW phase \in Phases,
         NEW status \in Statuses, NEW reason \in Reasons, NEW chosen \in OwnPolicy
  PROVE  /\ Ended(d, asset, phase, status, reason, chosen) \in Snapshot
         /\ Ended(d, asset, phase, status, reason, chosen).rev = d.rev
         /\ Ended(d, asset, phase, status, reason, chosen).ok = d.ok
         /\ Ended(d, asset, phase, status, reason, chosen).state = d.state
         /\ Ended(d, asset, phase, status, reason, chosen).phase = phase
         /\ Ended(d, asset, phase, status, reason, chosen).asset = asset
         /\ Ended(d, asset, phase, status, reason, chosen).satisfied
              <=> phase = "calibration_completed"
<1> DEFINE sat == phase = "calibration_completed"
           e == [d EXCEPT !.asset = asset, !.phase = phase, !.status = status,
                          !.reason = reason, !.selected = chosen, !.satisfied = sat]
<1>1. sat \in BOOLEAN
  OBVIOUS
<1> HIDE DEF sat
<1>2. e \in Snapshot
  BY <1>1 DEF Snapshot
<1>3. /\ e.rev = d.rev /\ e.ok = d.ok /\ e.state = d.state /\ e.phase = phase
      /\ e.asset = asset /\ e.satisfied = sat
  BY DEF Snapshot
<1>4. Ended(d, asset, phase, status, reason, chosen) = e
  BY DEF Ended, sat
<1> HIDE DEF e
<1> QED
  BY <1>2, <1>3, <1>4 DEF sat

(* The same, with the image that was checked.                              *)
LEMMA CheckedType ==
  ASSUME NEW d \in Snapshot, NEW c \in Nat
  PROVE  /\ [d EXCEPT !.checked = c] \in Snapshot
         /\ [d EXCEPT !.checked = c].rev = d.rev
         /\ [d EXCEPT !.checked = c].ok = d.ok
         /\ [d EXCEPT !.checked = c].state = d.state
         /\ [d EXCEPT !.checked = c].phase = d.phase
         /\ [d EXCEPT !.checked = c].asset = d.asset
         /\ [d EXCEPT !.checked = c].satisfied = d.satisfied
BY DEF Snapshot

LEMMA OrType == ASSUME NEW a \in Nat, NEW b \in Nat PROVE Or(a, b) \in Nat
BY DEF Or

LEMMA CheckPolicyType ==
  ASSUME NEW d \in Snapshot, run.policy \in Policies
  PROVE  /\ SelfCheckPolicy(d) \in OwnPolicy /\ SelfCheckPolicy(d) # None
         /\ Usable(d) => SelfCheckPolicy(d) \in SelfChecks
<1>1. /\ d.own \in SelfChecks \cup {None, Malformed}
      /\ run.policy.check \in SelfChecks
  BY GatesAssumption DEF Snapshot, OwnPolicy
<1>2. None \notin SelfChecks
  BY GatesAssumption
<1> QED
  BY <1>1, <1>2 DEF SelfCheckPolicy, Usable, OwnPolicy

LEMMA AcceptedGrows ==
  ASSUME WInv, UNCHANGED <<judged, granted, delivered, wanted>>, NEW a \in Nat,
         accepted' = accepted \cup {a}
  PROVE  Grows
BY DEF WInv, TypeOK, Grows, Inspections

LEMMA DispositionKeeps ==
  ASSUME WInv, SelfCheckDisposition
  PROVE  WInv'
<1> DEFINE d == run.data
           a == Or(d.asset, d.master)
           b == Or(d.best, Or(d.asset, d.master))
           q == SelfCheckPolicy(d)
<1>1. /\ "self_check_iteration" \in Stages
      /\ "self_check_iteration" \notin Drafting \cup {"initial_candidate_generation"}
  BY WorkflowAssumption DEF Stages, Drafting
<1>2. At("self_check_iteration") /\ UNCHANGED <<images, judged>>
  BY DEF SelfCheckDisposition
<1>3. /\ run.at = "next" /\ run.target = "self_check_iteration"
      /\ Sound(d, granted, accepted, judged) /\ d \in Snapshot
      /\ d.state \notin Drafting
  BY <1>1, <1>2, AtFact
<1>4. a \in Nat /\ b \in Nat
  BY <1>3, OrType DEF Snapshot
<1>5. run.policy \in Policies
  BY <1>3 DEF WInv, Sure
<1>6. q \in OwnPolicy
  BY <1>3, <1>5, CheckPolicyType
<1> HIDE DEF d, a, b, q
<1>7. CASE /\ Finish([Ended(d, a, "calibration_completed", "human_accepted",
                            "human", q) EXCEPT !.checked = a])
           /\ Accept(a)
  <2> DEFINE c == Ended(d, a, "calibration_completed", "human_accepted", "human", q)
             e == [c EXCEPT !.checked = a]
  <2>1. /\ c \in Snapshot /\ c.rev = d.rev /\ c.ok = d.ok /\ c.state = d.state
        /\ c.phase = "calibration_completed" /\ c.asset = a
    BY <1>3, <1>4, <1>6, EndedType, CompletedPhase, StatusesAre
  <2> HIDE DEF c
  <2>2. /\ e \in Snapshot /\ e.rev = d.rev /\ e.ok = d.ok /\ e.state = d.state
        /\ e.phase = "calibration_completed" /\ e.asset = a
    BY <1>4, <2>1, CheckedType
  <2>3. /\ Finish(e) /\ accepted' = accepted \cup {a}
        /\ UNCHANGED <<granted, delivered, wanted>>
    BY <1>7 DEF Accept, c
  <2> HIDE DEF e
  <2>4. Grows
    BY <1>2, <1>4, <2>3, AcceptedGrows
  <2>5. Sound(d, granted', accepted', judged') /\ a \in accepted'
    BY <1>3, <2>3, <2>4, SoundGrows DEF Grows
  <2>6. /\ Sound([e EXCEPT !.state = run.target], granted', accepted', judged')
        /\ ApprovalValid(e)
    BY <1>1, <1>3, <2>2, <2>5, StagedSound, CompletedPhase
  <2> QED
    BY <1>2, <1>3, <2>2, <2>3, <2>4, <2>6, HandledKeeps
<1>8. CASE /\ Finish(Ended(d, b, "terminated_without_delivery", "terminated",
                           "human", q))
           /\ UNCHANGED ghost
  <2> DEFINE e == Ended(d, b, "terminated_without_delivery", "terminated", "human", q)
  <2>1. /\ e \in Snapshot /\ e.rev = d.rev /\ e.ok = d.ok /\ e.state = d.state
        /\ e.phase = "terminated_without_delivery"
        /\ ~ e.satisfied
    BY <1>3, <1>4, <1>6, EndedType, CompletedPhase, StatusesAre
  <2>2. Finish(e) /\ Grows /\ UNCHANGED <<granted, accepted, delivered>>
    BY <1>2, <1>8, NothingGrows DEF ghost
  <2> HIDE DEF e
  <2>3. /\ Sound([e EXCEPT !.state = run.target], granted, accepted, judged)
        /\ ApprovalValid(e)
    BY <1>1, <1>3, <2>1, StagedSound, CompletedPhase
  <2> QED
    BY <1>2, <1>3, <2>1, <2>2, <2>3, HandledKeeps
<1> QED
  BY <1>7, <1>8 DEF SelfCheckDisposition, d, a, b, q

LEMMA SelfCheckKeeps ==
  ASSUME WInv, SelfCheck
  PROVE  WInv'
<1> DEFINE d == run.data
<1>1. /\ "self_check_iteration" \in Stages
      /\ "self_check_iteration" \notin Drafting \cup {"initial_candidate_generation"}
  BY WorkflowAssumption DEF Stages, Drafting
<1>2. At("self_check_iteration") /\ UNCHANGED <<store, images, judged, ghost>>
      /\ Usable(d)
  BY DEF SelfCheck
<1>3. /\ run.at = "next" /\ run.target = "self_check_iteration" /\ run \in Runs
      /\ Sound(d, granted, accepted, judged) /\ d \in Snapshot
      /\ d.state \notin Drafting
  BY <1>1, <1>2, AtFact
<1>4. run.policy \in Policies /\ run.target \in Stages /\ Single(run)
  BY <1>1, <1>3 DEF WInv, Sure
<1>5. SelfCheckPolicy(d) \in SelfChecks
  BY <1>2, <1>3, <1>4, CheckPolicyType
<1> HIDE DEF d
<1>6. /\ Or(d.asset, d.master) \in Nat /\ Or(d.best, Or(d.asset, d.master)) \in Nat
      /\ d.round \in Nat /\ d.round + 1 \in Nat
  <2>1. /\ d.asset \in Nat /\ d.master \in Nat /\ d.best \in Nat
        /\ d.round \in Nat
    BY <1>3 DEF Snapshot
  <2>2. Or(d.asset, d.master) \in Nat
    BY <2>1, OrType
  <2>3. Or(d.best, Or(d.asset, d.master)) \in Nat
    BY <2>1, <2>2, OrType
  <2> QED
    BY <2>1, <2>2, <2>3
<1>7. PICK check \in SelfChecks, num \in Nat, cur \in Nat : LoopFrom(check, num, cur)
  <2> DEFINE p == SelfCheckPolicy(d)
  <2>1. ASSUME d.round + 1 <= MaxRounds
        PROVE  [p EXCEPT !.solo = TRUE, !.limit = d.round + 1] \in SelfChecks
    <3>1. d.round + 1 \in 0..MaxRounds
      BY <1>6, <2>1, GatesAssumption
    <3>2. p \in SelfChecks
      BY <1>5
    <3> HIDE DEF p
    <3> QED
      BY <3>1, <3>2 DEF SelfChecks
  <2> QED
    BY <1>5, <1>6, <2>1 DEF SelfCheck, d
<1>8. run' = [run EXCEPT !.at = "inspect", !.check = check, !.num = num, !.cur = cur]
  BY <1>7 DEF LoopFrom
<1>9. run' \in Runs
  BY <1>3, <1>8 DEF Runs
<1>10. /\ run'.at = "inspect" /\ run'.data = d /\ run'.target = run.target
       /\ run'.act = run.act /\ run'.opts = run.opts /\ run'.freed = run.freed
       /\ run'.policy = run.policy /\ run'.check = check
  BY <1>3, <1>8 DEF Runs, d
<1>11. Sure(run', granted, accepted, judged) /\ Single(run')
  BY <1>1, <1>3, <1>4, <1>10 DEF Sure, Single
<1> QED
  BY <1>2, <1>9, <1>11, RunKeeps

-----------------------------------------------------------------------------
(* The loop.                                                               *)

(* What a place of the loop says of the run.                               *)
LEMMA LoopFact ==
  ASSUME WInv, run.at \in Loop
  PROVE  /\ run \in Runs /\ Single(run)
         /\ Sound(run.data, granted, accepted, judged) /\ run.data \in Snapshot
         /\ run.data.state \notin Drafting /\ run.target \notin Drafting
         /\ run.target \in Stages /\ run.policy \in Policies
         /\ run.check \in SelfChecks /\ run.check.limit \in Nat
         /\ run.num \in Nat /\ run.cur \in Nat /\ run.seen \in Nat
         /\ "self_check_iteration" \in Stages
         /\ "self_check_iteration" \notin Drafting
<1>1. /\ run \in Runs /\ Single(run)
      /\ Sound(run.data, granted, accepted, judged)
      /\ run.data.state \notin Drafting /\ run.target \notin Drafting
      /\ run.target \in Stages /\ run.policy \in Policies
      /\ run.check \in SelfChecks
  BY DEF WInv, TypeOK, Sure
<1>2. run.num \in Nat /\ run.cur \in Nat /\ run.seen \in Nat
  BY <1>1 DEF Runs
<1>3. run.check.limit \in Nat
  BY <1>1, GatesAssumption DEF SelfChecks
<1>4. /\ "self_check_iteration" \in Stages
      /\ "self_check_iteration" \notin Drafting
  BY WorkflowAssumption DEF Stages, Drafting
<1> QED
  BY <1>1, <1>2, <1>3, <1>4 DEF Sound

LEMMA RoundFact ==
  ASSUME WInv, run.at \in Loop,
         NEW phase \in Phases \cup {None}, NEW reason \in Reasons
  PROVE  /\ Round(phase, reason) \in Snapshot
         /\ Round(phase, reason).state = "self_check_iteration"
         /\ Round(phase, reason).phase = phase
         /\ Round(phase, reason).rev = run.data.rev
         /\ Round(phase, reason).ok = run.data.ok
         /\ Round(phase, reason).satisfied = FALSE
<1> DEFINE d == run.data
           n == run.num
           c == run.cur
           m == run.seen
           s == "self_check_iteration"
<1>1. d \in Snapshot /\ n \in Nat /\ c \in Nat /\ m \in Nat /\ s \in Stages
  BY LoopFact
<1> DEFINE e == [d EXCEPT !.state = s, !.phase = phase, !.round = n, !.asset = c,
                   !.seen = m, !.satisfied = FALSE, !.reason = reason, !.best = 0]
<1>2. e = Round(phase, reason)
  BY DEF Round
<1> HIDE DEF d, n, c, m, s
<1>3. e \in Snapshot
  BY <1>1 DEF Snapshot
<1>4. /\ e.state = s /\ e.phase = phase /\ e.rev = d.rev /\ e.ok = d.ok
      /\ e.satisfied = FALSE
  BY <1>1 DEF Snapshot
<1> HIDE DEF e
<1> QED
  BY <1>2, <1>3, <1>4 DEF d, s

LEMMA EndFact ==
  ASSUME NEW r \in Snapshot, NEW n \in Nat, NEW a \in Nat,
         NEW e, e = [r EXCEPT !.round = n, !.checked = a, !.seen = a, !.best = 0]
  PROVE  /\ e \in Snapshot /\ e.state = r.state /\ e.phase = r.phase
         /\ e.rev = r.rev /\ e.ok = r.ok /\ e.asset = r.asset
         /\ e.satisfied = r.satisfied
<1>1. e \in Snapshot
  BY DEF Snapshot
<1>2. /\ e.state = r.state /\ e.phase = r.phase /\ e.rev = r.rev
      /\ e.ok = r.ok /\ e.asset = r.asset /\ e.satisfied = r.satisfied
  BY DEF Snapshot
<1> QED
  BY <1>1, <1>2

LEMMA LoopSaves ==
  ASSUME WInv, Grows, run.at \in Loop,
         UNCHANGED <<images, granted, accepted, delivered, wanted>>,
         NEW b \in Snapshot, Save("self_check_iteration", b),
         b.rev = run.data.rev, b.ok = run.data.ok, ~ b.satisfied,
         b.state = "self_check_iteration", b.phase \notin Planned,
         run' \in Runs, Sure(run', granted', accepted', judged'), Single(run')
  PROVE  WInv'
<1>1. /\ Sound(run.data, granted', accepted', judged')
      /\ run.data.state \notin Drafting
      /\ "self_check_iteration" \in Stages
      /\ "self_check_iteration" \notin Drafting
  BY LoopFact, SoundGrows DEF Grows
<1>2. ApprovalValid(run.data)
  BY <1>1 DEF Sound
<1>3. Sound(b, granted', accepted', judged') /\ ApprovalValid(b)
  BY <1>1, <1>2, SoundMoves DEF ApprovalValid
<1>4. /\ head' = [node |-> "self_check_iteration", data |-> b]
      /\ failed' = None
      /\ policy' = policy /\ mark' = mark
  BY DEF Save
<1>5. head' \in Checkpoints /\ Kept(head', granted', accepted', judged')
  BY <1>1, <1>3, <1>4, WorkflowAssumption DEF Checkpoints, Kept
<1>6. ImagesFine' /\ DeliveriesFine'
  BY Unpaid, Undelivered DEF Grows
<1> QED
  BY <1>4, <1>5, <1>6, StepKeeps

LEMMA InspectKeeps ==
  ASSUME WInv, Inspect
  PROVE  WInv'
<1> DEFINE d == run.data
           b == [Round("waiting_human_approval", "human")
                 EXCEPT !.seen = run.cur, !.status = "waiting_human_decision",
                        !.checked = run.cur, !.selected = run.check]
<1>1. run.at = "inspect" /\ UNCHANGED <<images, ghost>>
  BY DEF Inspect
<1>2. PICK v \in Verdicts :
        /\ judged' = judged \cup {[image |-> run.cur, task |-> d.rev, verdict |-> v]}
        /\ run' = [run EXCEPT !.at = "decide", !.verdict = v, !.seen = run.cur]
        /\ IF Held(v) THEN Save("self_check_iteration", b) ELSE UNCHANGED store
  BY DEF Inspect, Recorded
<1>3. /\ run \in Runs /\ Single(run) /\ run.cur \in Nat
      /\ run.check \in SelfChecks
      /\ Sound(d, granted, accepted, judged) /\ d \in Snapshot
      /\ d.state \notin Drafting /\ run.target \notin Drafting
      /\ run.target \in Stages /\ run.policy \in Policies
  BY <1>1, LoopFact
<1>4. d.rev \in Revisions
  BY <1>3 DEF Snapshot
<1>5. Grows
  BY <1>1, <1>2, <1>3, <1>4 DEF Grows, WInv, TypeOK, Inspections, ghost
<1>6. run' \in Runs
  BY <1>2, <1>3 DEF Runs
<1>7. /\ run'.at = "decide" /\ run'.verdict = v /\ run'.data = d
      /\ run'.target = run.target /\ run'.policy = run.policy
      /\ run'.check = run.check /\ run'.cur = run.cur /\ run'.act = run.act
      /\ run'.opts = run.opts /\ run'.freed = run.freed
  BY <1>2, <1>3 DEF Runs
<1> HIDE DEF d
<1>8. Sound(d, granted', accepted', judged')
  BY <1>3, <1>5, SoundGrows DEF Grows
<1>9. Sure(run', granted', accepted', judged') /\ Single(run')
  BY <1>2, <1>3, <1>7, <1>8 DEF Sure, Single
<1>10. UNCHANGED <<granted, accepted, delivered, wanted>>
  BY <1>1 DEF ghost
<1>11. CASE Held(v)
  <2> DEFINE r == Round("waiting_human_approval", "human")
  <2>1. /\ r \in Snapshot /\ r.state = "self_check_iteration"
        /\ r.phase = "waiting_human_approval" /\ r.rev = d.rev /\ r.ok = d.ok
        /\ r.satisfied = FALSE
    <3>1. /\ "waiting_human_approval" \in Phases \cup {None}
          /\ "human" \in Reasons
      BY CompletedPhase, StatusesAre
    <3> QED
      BY <1>1, <3>1, RoundFact DEF d
  <2>2. /\ run.check \in OwnPolicy /\ "waiting_human_decision" \in Statuses
    BY <1>3, StatusesAre DEF OwnPolicy
  <2>3. b = [r EXCEPT !.seen = run.cur, !.status = "waiting_human_decision",
                      !.checked = run.cur, !.selected = run.check]
    OBVIOUS
  <2>4. Save("self_check_iteration", b)
    BY <1>2, <1>11
  <2> HIDE DEF b, r
  <2>5. b \in Snapshot
    BY <1>3, <2>1, <2>2, <2>3 DEF Snapshot
  <2>6. /\ b.rev = d.rev /\ b.ok = d.ok /\ ~ b.satisfied
        /\ b.state = "self_check_iteration"
        /\ b.phase = "waiting_human_approval"
    BY <2>1, <2>3 DEF Snapshot
  <2> QED
    BY <1>1, <1>5, <1>6, <1>9, <1>10, <2>4, <2>5, <2>6, LoopSaves DEF d, Planned
<1>12. CASE ~ Held(v)
  <2>1. /\ UNCHANGED <<head, policy, failed, mark>>
    BY <1>2, <1>12 DEF store
  <2>2. /\ head' \in Checkpoints /\ failed' \in Stages \cup {None}
        /\ Kept(head', granted', accepted', judged')
    BY <1>5, <2>1, KeptGrows DEF WInv, TypeOK, Grows, Checkpoints
  <2>3. ImagesFine' /\ DeliveriesFine'
    BY <1>1, <1>5, <1>10, Unpaid, Undelivered DEF Grows
  <2> QED
    BY <1>5, <1>6, <1>9, <2>1, <2>2, <2>3, StepKeeps
<1> QED
  BY <1>11, <1>12

(* The result of the loop.                                                 *)
LEMMA ResultFact ==
  ASSUME WInv, run.at \in Loop,
         NEW phase \in Phases, NEW status \in Statuses, NEW reason \in Reasons
  PROVE  LET e == Result(phase, status, reason)
         IN  /\ e \in Snapshot /\ e.state = run.data.state /\ e.phase = phase
             /\ e.rev = run.data.rev /\ e.ok = run.data.ok /\ e.asset = run.cur
             /\ e.satisfied <=> phase = "calibration_completed"
<1> DEFINE c == Ended(run.data, run.cur, phase, status, reason, run.check)
           e == Result(phase, status, reason)
<1>1. /\ run.data \in Snapshot /\ run.num \in Nat /\ run.cur \in Nat
      /\ run.check \in OwnPolicy
  BY LoopFact DEF OwnPolicy
<1>2. /\ c \in Snapshot /\ c.state = run.data.state /\ c.phase = phase
      /\ c.rev = run.data.rev /\ c.ok = run.data.ok /\ c.asset = run.cur
      /\ c.satisfied <=> phase = "calibration_completed"
  BY <1>1, EndedType
<1>3. e = [c EXCEPT !.round = run.num, !.checked = run.cur, !.seen = run.cur,
                    !.best = 0]
  BY DEF Result
<1> HIDE DEF c, e
<1>4. /\ e \in Snapshot /\ e.state = c.state /\ e.phase = c.phase
      /\ e.rev = c.rev /\ e.ok = c.ok /\ e.asset = c.asset
      /\ e.satisfied = c.satisfied
  BY <1>1, <1>2, <1>3, EndFact
<1> QED
  BY <1>2, <1>4 DEF e

LEMMA ResultSound ==
  ASSUME WInv, run.at \in Loop, Grows,
         NEW phase \in Phases, NEW status \in Statuses, NEW reason \in Reasons,
         phase \notin Planned, phase # "waiting_human_tune",
         phase = "calibration_completed" =>
           run.cur \in accepted' \/ Pass(run.cur, run.data.rev) \in judged'
  PROVE  /\ Sound(Result(phase, status, reason), granted', accepted', judged')
         /\ ApprovalValid(Result(phase, status, reason))
<1> DEFINE d == run.data
           e == Result(phase, status, reason)
<1>1. /\ Sound(d, granted', accepted', judged') /\ d.state \notin Drafting
  BY LoopFact, SoundGrows DEF Grows
<1>2. /\ e \in Snapshot /\ e.state = d.state /\ e.phase = phase
      /\ e.rev = d.rev /\ e.ok = d.ok /\ e.asset = run.cur
      /\ e.satisfied <=> phase = "calibration_completed"
  BY ResultFact
<1>3. ApprovalValid(d)
  BY <1>1 DEF Sound
<1> HIDE DEF d, e
<1>4. e.satisfied => e.asset \in accepted' \/ Pass(e.asset, d.rev) \in judged'
  BY <1>2 DEF d
<1>5. Sound(e, granted', accepted', judged')
  BY <1>1, <1>2, <1>3, <1>4, SoundMoves
<1>6. ApprovalValid(e)
  BY <1>2, <1>3 DEF ApprovalValid
<1> QED
  BY <1>5, <1>6 DEF e

(* The loop ends with a result.                                            *)
LEMMA StopKeeps ==
  ASSUME WInv, Grows, run.at = "decide", UNCHANGED <<granted, delivered>>,
         NEW e, Stop(e), Sound(e, granted', accepted', judged'), ApprovalValid(e)
  PROVE  WInv'
<1>1. /\ run \in Runs /\ Single(run) /\ run.target \in Stages
      /\ run.target \notin Drafting /\ run.policy \in Policies
      /\ e \in Snapshot
  BY LoopFact DEF Sound
<1>2. /\ run' = [run EXCEPT !.at = "done", !.data = e]
      /\ UNCHANGED <<head, policy, failed, mark, images>>
  BY DEF Stop, store
<1>3. run' \in Runs
  BY <1>1, <1>2 DEF Runs
<1>4. /\ run'.at = "done" /\ run'.data = e /\ run'.target = run.target
      /\ run'.act = run.act /\ run'.opts = run.opts /\ run'.freed = run.freed
      /\ run'.policy = run.policy
  BY <1>1, <1>2 DEF Runs
<1>5. Sure(run', granted', accepted', judged') /\ Single(run')
  BY <1>1, <1>4 DEF Sure, Single
<1>6. /\ head' \in Checkpoints /\ failed' \in Stages \cup {None}
      /\ Kept(head', granted', accepted', judged')
  BY <1>2, KeptGrows DEF WInv, TypeOK, Grows, Checkpoints
<1>7. ImagesFine' /\ DeliveriesFine'
  BY <1>2, Unpaid, Undelivered DEF Grows
<1> QED
  BY <1>2, <1>3, <1>5, <1>6, <1>7, StepKeeps

LEMMA StoppingKeeps ==
  ASSUME WInv, run.at = "decide", Stopping \/ Passed
  PROVE  WInv'
<1>1. /\ run.cur \in Nat
      /\ run.verdict = "pass" => Pass(run.cur, run.data.rev) \in judged
  BY LoopFact DEF WInv, Sure, Pass
<1>2. CASE /\ UNCHANGED ghost
           /\ \/ Stop(Result("waiting_human_approval", "waiting_human_decision", "human"))
              \/ Stop(Result("terminated_without_delivery", "terminated", "human"))
              \/ /\ Stop(Result("calibration_completed", "completed", "pass"))
                 /\ run.verdict = "pass"
  <2>1. PICK phase \in {"waiting_human_approval", "terminated_without_delivery",
                        "calibration_completed"},
             status \in Statuses, reason \in Reasons :
          /\ Stop(Result(phase, status, reason))
          /\ phase = "calibration_completed" => run.verdict = "pass"
    <3>1. CASE Stop(Result("waiting_human_approval", "waiting_human_decision", "human"))
      BY <3>1, StatusesAre
    <3>2. CASE Stop(Result("terminated_without_delivery", "terminated", "human"))
      BY <3>2, StatusesAre
    <3>3. CASE /\ Stop(Result("calibration_completed", "completed", "pass"))
               /\ run.verdict = "pass"
      BY <3>3, StatusesAre
    <3> QED
      BY <1>2, <3>1, <3>2, <3>3
  <2>2. judged' = judged /\ UNCHANGED <<granted, delivered>>
    BY <1>2, <2>1 DEF Stop, ghost
  <2>3. Grows
    BY <1>2, <2>2, NothingGrows
  <2>4. /\ phase \in Phases \ Planned /\ phase # "waiting_human_tune"
        /\ phase = "calibration_completed"
             => Pass(run.cur, run.data.rev) \in judged'
    BY <1>1, <2>1, <2>2, CompletedPhase
  <2>5. /\ Sound(Result(phase, status, reason), granted', accepted', judged')
        /\ ApprovalValid(Result(phase, status, reason))
    BY <2>3, <2>4, ResultSound
  <2> QED
    BY <2>1, <2>2, <2>3, <2>5, StopKeeps
<1>3. CASE /\ Stop(Result("calibration_completed", "human_accepted", "human"))
           /\ Accept(run.cur)
  <2>1. /\ judged' = judged /\ accepted' = accepted \cup {run.cur}
        /\ UNCHANGED <<granted, delivered, wanted>>
    BY <1>3 DEF Stop, Accept
  <2>2. Grows
    BY <1>1, <2>1, AcceptedGrows
  <2>3. /\ Sound(Result("calibration_completed", "human_accepted", "human"),
                 granted', accepted', judged')
        /\ ApprovalValid(Result("calibration_completed", "human_accepted", "human"))
    BY <2>1, <2>2, ResultSound, CompletedPhase, StatusesAre
  <2> QED
    BY <1>3, <2>1, <2>2, <2>3, StopKeeps
<1> QED
  BY <1>2, <1>3 DEF Stopping, Passed

LEMMA LimitKeeps ==
  ASSUME WInv, run.at = "decide", LimitReached
  PROVE  WInv'
<1> DEFINE d == run.data
           r == Round("waiting_human_approval", "round_limit")
           w == Result("waiting_human_approval", "waiting_human_decision", "round_limit")
<1>1. PICK best \in Best :
        /\ Save("self_check_iteration",
                [r EXCEPT !.status = "waiting_human_decision",
                          !.checked = run.cur, !.best = best])
        /\ run' = [run EXCEPT !.at = "done", !.data = [w EXCEPT !.best = best]]
  BY DEF LimitReached
<1>2. UNCHANGED <<images, judged, ghost>>
  BY DEF LimitReached
<1>3. Grows /\ UNCHANGED <<granted, accepted, delivered, wanted>>
  BY <1>2, NothingGrows DEF ghost
<1>4. best \in Nat
  BY <1>1 DEF Best, WInv, TypeOK
<1>5. /\ run \in Runs /\ Single(run) /\ run.cur \in Nat
      /\ run.target \in Stages
      /\ run.target \notin Drafting /\ run.policy \in Policies
  BY LoopFact
<1>6. /\ r \in Snapshot /\ r.state = "self_check_iteration"
      /\ r.phase = "waiting_human_approval"
      /\ r.rev = d.rev /\ r.ok = d.ok /\ ~ r.satisfied
  <2>1. /\ "waiting_human_approval" \in Phases \cup {None}
        /\ "round_limit" \in Reasons
    BY CompletedPhase, StatusesAre
  <2> QED
    BY <2>1, RoundFact
<1>7. Sound(w, granted', accepted', judged') /\ ApprovalValid(w)
  BY <1>3, ResultSound, CompletedPhase, StatusesAre
<1>8. w.phase = "waiting_human_approval" /\ ~ w.satisfied
  BY ResultFact, CompletedPhase, StatusesAre
<1> DEFINE b == [r EXCEPT !.status = "waiting_human_decision", !.checked = run.cur,
                          !.best = best]
           e == [w EXCEPT !.best = best]
<1>12. b = [r EXCEPT !.status = "waiting_human_decision", !.checked = run.cur,
                     !.best = best]
  OBVIOUS
<1>13. run' = [run EXCEPT !.at = "done", !.data = e]
  BY <1>1
<1>14. Save("self_check_iteration", b)
  BY <1>1
<1> HIDE DEF d, r, w, b
<1>9. /\ b \in Snapshot /\ b.state = r.state /\ b.phase = r.phase
      /\ b.rev = r.rev /\ b.ok = r.ok /\ b.satisfied = r.satisfied
  <2>1. "waiting_human_decision" \in Statuses
    BY StatusesAre
  <2>2. b \in Snapshot
    BY <1>4, <1>5, <1>6, <1>12, <2>1 DEF Snapshot
  <2>3. /\ b.state = r.state /\ b.phase = r.phase
        /\ b.rev = r.rev /\ b.ok = r.ok /\ b.satisfied = r.satisfied
    BY <1>6, <1>12 DEF Snapshot
  <2> QED
    BY <2>2, <2>3
<1>10. w \in Snapshot
  BY <1>7 DEF Sound
<1>11. /\ e \in Snapshot /\ e.state = w.state /\ e.phase = w.phase
       /\ e.rev = w.rev /\ e.ok = w.ok /\ e.satisfied = w.satisfied
       /\ e.reason = w.reason
  <2>1. e \in Snapshot
    BY <1>4, <1>10 DEF Snapshot
  <2>2. e.state = w.state /\ e.phase = w.phase /\ e.rev = w.rev /\ e.ok = w.ok
    BY <1>10 DEF Snapshot
  <2>3. e.satisfied = w.satisfied /\ e.reason = w.reason
    BY <1>10 DEF Snapshot
  <2> QED
    BY <2>1, <2>2, <2>3
<1> HIDE DEF e
<1>15. Sound(e, granted', accepted', judged') /\ ApprovalValid(e)
  BY <1>7, <1>8, <1>11, CompletedPhase DEF Sound, ApprovalValid, Planned
<1>16. run' \in Runs
  BY <1>5, <1>11, <1>13 DEF Runs
<1>17. /\ run'.at = "done" /\ run'.data = e /\ run'.target = run.target
       /\ run'.act = run.act /\ run'.opts = run.opts /\ run'.freed = run.freed
       /\ run'.policy = run.policy
  BY <1>5, <1>13 DEF Runs
<1>18. Sure(run', granted', accepted', judged') /\ Single(run')
  BY <1>5, <1>15, <1>17 DEF Sure, Single
<1>19. b.rev = run.data.rev /\ b.ok = run.data.ok
  BY <1>6, <1>9 DEF d
<1>20. images' = images
  BY <1>2
<1> QED
  BY <1>3, <1>6, <1>9, <1>14, <1>16, <1>18, <1>19, <1>20, LoopSaves DEF Planned

(* A human's decision is used up by the round it was given for.            *)
LEMMA RoundKeeps ==
  ASSUME WInv, run.at \in {"decide", "round"}, RoundCheckpointed,
         Held(run.verdict) => run.act # None
  PROVE  WInv'
<1> DEFINE b == Round("round_checkpointed", None)
<1>1. /\ Save("self_check_iteration", b) /\ UNCHANGED <<images, judged, ghost>>
      /\ run' = [run EXCEPT !.at = "inspect", !.num = run.num + 1, !.act = Unused,
                   !.freed = IF Held(run.verdict) THEN run.freed + 1 ELSE run.freed]
  BY LoopFact DEF RoundCheckpointed, Runs
<1>2. Grows /\ UNCHANGED <<granted, accepted, delivered, wanted>>
  BY <1>1, NothingGrows DEF ghost
<1>3. /\ run \in Runs /\ Single(run) /\ run.target \in Stages
      /\ run.target \notin Drafting /\ run.policy \in Policies
      /\ run.check \in SelfChecks /\ run.data.state \notin Drafting
      /\ Sound(run.data, granted, accepted, judged) /\ run.num + 1 \in Nat
  BY LoopFact
<1>4. /\ run.act \in Acts \cup {None} /\ run.freed \in Nat
  BY <1>3 DEF Runs
<1>5. /\ "round_checkpointed" \in Phases /\ None \in Reasons
      /\ "round_checkpointed" \notin Planned
  BY DEF Phases, Reasons, Planned
<1>6. /\ b \in Snapshot /\ b.state = "self_check_iteration"
      /\ b.phase = "round_checkpointed" /\ b.rev = run.data.rev
      /\ b.ok = run.data.ok /\ ~ b.satisfied
  BY <1>5, RoundFact
<1> HIDE DEF b
<1>7. PICK act \in Acts \cup {None}, freed \in Nat :
        /\ run' = [run EXCEPT !.at = "inspect", !.num = run.num + 1, !.act = act,
                              !.freed = freed]
        /\ act \in {None, ActOf(run.opts)}
        /\ freed = 0 \/ (freed = 1 /\ act = None /\ ActOf(run.opts) # None)
  <2>1. CASE Held(run.verdict)
    <3>1. run.act = ActOf(run.opts) /\ run.freed = 0 /\ ActOf(run.opts) # None
      BY <1>3, <2>1 DEF Single
    <3>2. run' = [run EXCEPT !.at = "inspect", !.num = run.num + 1, !.act = None,
                             !.freed = 1]
      BY <1>1, <2>1, <3>1 DEF Unused
    <3> QED
      BY <3>1, <3>2
  <2>2. CASE ~ Held(run.verdict)
    BY <1>1, <1>3, <1>4, <2>2 DEF Unused, Single
  <2> QED
    BY <2>1, <2>2
<1>8. run' \in Runs
  BY <1>3, <1>7 DEF Runs
<1>9. /\ run'.at = "inspect" /\ run'.data = run.data
      /\ run'.target = run.target
      /\ run'.act = act /\ run'.opts = run.opts /\ run'.freed = freed
      /\ run'.policy = run.policy /\ run'.check = run.check
  BY <1>3, <1>7 DEF Runs
<1>10. Sure(run', granted', accepted', judged') /\ Single(run')
  BY <1>1, <1>2, <1>3, <1>7, <1>9 DEF Sure, Single
<1>11. images' = images
  BY <1>1
<1> QED
  BY <1>1, <1>2, <1>5, <1>6, <1>8, <1>10, <1>11, LoopSaves

LEMMA DecideKeeps ==
  ASSUME WInv, Decide
  PROVE  WInv'
<1>1. run.at = "decide"
  BY DEF Decide
<1>2. CASE NextRound
  <2>1. Held(run.verdict) => run.act # None
    BY <1>2 DEF NextRound, Goes, Choice
  <2> QED
    BY <1>1, <1>2, <2>1, RoundKeeps DEF NextRound
<1> QED
  BY <1>1, <1>2, StoppingKeeps, LimitKeeps DEF Decide

LEMMA RoundEndsKeeps == ASSUME WInv, RoundEnds PROVE WInv'
<1>1. Held(run.verdict) => run.act # None
  BY DEF RoundEnds, WInv, Single, Held
<1> QED
  BY <1>1, RoundKeeps DEF RoundEnds

(* The run has the image of its next round.                                *)
LEMMA ReworkedKeeps ==
  ASSUME WInv, run.at \in {"decide", "reworked"}, NEW k \in Nat, Reworked(k),
         Held(run.verdict) => run.act # None,
         UNCHANGED <<store, judged, ghost>>, ImagesFine'
  PROVE  WInv'
<1>1. /\ run \in Runs /\ Single(run) /\ Sure(run, granted, accepted, judged)
      /\ run.verdict \in Verdicts
  BY DEF WInv, TypeOK, Sure
<1>2. run' \in Runs
  BY <1>1 DEF Runs, Reworked
<1>3. /\ run'.at = "round" /\ run'.data = run.data /\ run'.target = run.target
      /\ run'.act = run.act /\ run'.opts = run.opts /\ run'.freed = run.freed
      /\ run'.policy = run.policy /\ run'.check = run.check
      /\ run'.verdict = run.verdict
  BY <1>1 DEF Runs, Reworked
<1>4. Sure(run', granted, accepted, judged) /\ Single(run')
  BY <1>1, <1>3 DEF Sure, Single, Held
<1>5. /\ UNCHANGED <<head, policy, failed, mark, granted, accepted, delivered, wanted>>
      /\ Grows /\ judged' = judged
  BY NothingGrows DEF store, ghost
<1>6. /\ head' \in Checkpoints /\ Kept(head', granted', accepted', judged')
      /\ failed' \in Stages \cup {None}
  BY <1>5 DEF WInv, TypeOK, Checkpoints
<1>7. DeliveriesFine'
  BY <1>5, Undelivered
<1> QED
  BY <1>2, <1>4, <1>5, <1>6, <1>7, StepKeeps

LEMMA ReworkKeyType ==
  ASSUME WInv PROVE ReworkKey \in Keys /\ ReworkKey.kind = "rework"
<1>1. run.data \in Snapshot /\ run.cur \in Nat
  BY DEF WInv, TypeOK, Runs
<1>2. <<run.data.rev, Delta>> \in Scopes
  BY <1>1 DEF Scopes, Delta, Snapshot
<1> QED
  BY <1>1, <1>2 DEF ReworkKey, Key, Keys

LEMMA ReworkKeeps ==
  ASSUME WInv, Rework
  PROVE  WInv'
<1>1. /\ run.at = "decide" /\ UNCHANGED <<store, judged, ghost>>
      /\ Held(run.verdict) => run.act # None
  BY DEF Rework, Goes, Choice
<1>2. CASE \E k \in Bought(ReworkKey) : Reworked(k) /\ images' = images
  <2>1. PICK k \in Bought(ReworkKey) : Reworked(k)
    BY <1>2
  <2>2. k \in Nat /\ ImagesFine'
    BY <1>1, <1>2, BoughtNat, Unpaid DEF ghost
  <2> QED
    BY <1>1, <2>1, <2>2, ReworkedKeeps
<1>3. CASE Buy(ReworkKey, run.data) /\ run' = [run EXCEPT !.at = "reworked"]
  <2>1. /\ Sound(run.data, granted, accepted, judged)
        /\ run.data.state \notin Drafting
    BY <1>1, LoopFact
  <2>2. ApprovalValid(run.data)
    BY <2>1 DEF Sound
  <2>3. ImagesFine'
    BY <1>1, <1>3, <2>1, <2>2, ReworkKeyType, BuyKeeps DEF ghost
  <2> QED
    BY <1>1, <1>3, <2>3, HeldKeeps
<1> QED
  BY <1>2, <1>3 DEF Rework

LEMMA CompletedKeeps ==
  ASSUME WInv, ReworkCompleted
  PROVE  WInv'
<1>1. /\ run.at = "reworked" /\ UNCHANGED <<store, judged, ghost>>
      /\ Record(ReworkKey) /\ Reworked(Len(images)) /\ Len(images) \in Nat
  BY LenProperties DEF ReworkCompleted, WInv, TypeOK
<1>2. ImagesFine'
  BY <1>1, ReworkKeyType, NotedFine DEF Record, ghost
<1>3. Held(run.verdict) => run.act # None
  BY <1>1 DEF WInv, Single, Held
<1> QED
  BY <1>1, <1>2, <1>3, ReworkedKeeps

-----------------------------------------------------------------------------
(* The human's own edits.                                                  *)

LEMMA StageNames ==
  /\ {"self_check_iteration", "human_prompt_iteration"} \subseteq Stages
  /\ {"self_check_iteration", "human_prompt_iteration"} \cap
       (Drafting \cup {"initial_candidate_generation"}) = {}
BY WorkflowAssumption DEF Stages, Drafting

LEMMA TuningFact ==
  ASSUME NEW d \in Snapshot, NEW n \in Nat
  PROVE  /\ Tuning(d, n) \in Snapshot
         /\ Tuning(d, n).rev = d.rev /\ Tuning(d, n).ok = d.ok
         /\ Tuning(d, n).state = d.state /\ ~ Tuning(d, n).satisfied
         /\ Tuning(d, n).phase = "waiting_human_tune"
<1> DEFINE e == [d EXCEPT !.asset = n, !.phase = "waiting_human_tune",
                          !.tune = TRUE, !.status = "waiting_human_tune",
                          !.satisfied = FALSE, !.reason = "human", !.checked = 0]
<1>1. /\ "waiting_human_tune" \in Phases /\ "waiting_human_tune" \in Statuses
      /\ "human" \in Reasons
  BY CompletedPhase, StatusesAre DEF Statuses
<1>2. e \in Snapshot
  BY <1>1 DEF Snapshot
<1>3. /\ e.rev = d.rev /\ e.ok = d.ok /\ e.state = d.state
      /\ e.satisfied = FALSE /\ e.phase = "waiting_human_tune"
  BY DEF Snapshot
<1>4. e = Tuning(d, n)
  BY DEF Tuning
<1> HIDE DEF e
<1> QED
  BY <1>2, <1>3, <1>4

LEMMA HumanPromptKeeps ==
  ASSUME WInv, HumanPrompt
  PROVE  WInv'
<1> DEFINE d == run.data
           q == IF d.selected # None THEN d.selected
                ELSE IF d.own # None THEN d.own ELSE Malformed
<1>1. At("human_prompt_iteration") /\ UNCHANGED <<images, judged>>
  BY DEF HumanPrompt
<1>2. /\ run.at = "next" /\ run.target = "human_prompt_iteration"
      /\ Sound(d, granted, accepted, judged) /\ d \in Snapshot
      /\ d.state \notin Drafting
  BY <1>1, StageNames, AtFact
<1>3. d.asset \in Nat /\ q \in OwnPolicy
  BY <1>2 DEF Snapshot, OwnPolicy
<1> HIDE DEF q
<1>4. CASE Automatic(d) /\ Finish(d) /\ UNCHANGED ghost
  <2>1. d.phase = "calibration_completed"
    BY <1>4 DEF Automatic
  <2> HIDE DEF d
  <2>2. /\ Sound([d EXCEPT !.state = run.target], granted, accepted, judged)
        /\ ApprovalValid(d)
    BY <1>2, <2>1, StagedSound, CompletedPhase, StageNames
  <2>3. Grows /\ UNCHANGED <<granted, accepted, delivered>>
    BY <1>1, <1>4, NothingGrows DEF ghost
  <2> QED
    BY <1>1, <1>2, <1>4, <2>2, <2>3, HandledKeeps
<1>5. CASE /\ Finish([Ended(d, d.asset, "calibration_completed",
                            "human_accepted", "human", q)
                      EXCEPT !.checked = d.asset])
           /\ Accept(d.asset)
  <2> DEFINE a == d.asset
             c == Ended(d, a, "calibration_completed", "human_accepted", "human", q)
             e == [c EXCEPT !.checked = a]
  <2>1. a \in Nat
    BY <1>3
  <2>2. /\ Finish(e) /\ accepted' = accepted \cup {a}
        /\ UNCHANGED <<granted, delivered, wanted>>
    BY <1>5 DEF Accept
  <2> HIDE DEF d, a
  <2>3. /\ c \in Snapshot /\ c.rev = d.rev /\ c.ok = d.ok /\ c.state = d.state
        /\ c.phase = "calibration_completed" /\ c.asset = a
    BY <1>2, <1>3, <2>1, EndedType, CompletedPhase, StatusesAre
  <2> HIDE DEF c
  <2>4. /\ e \in Snapshot /\ e.rev = d.rev /\ e.ok = d.ok /\ e.state = d.state
        /\ e.phase = "calibration_completed" /\ e.asset = a
    BY <2>1, <2>3, CheckedType
  <2> HIDE DEF e
  <2>5. Grows
    BY <1>1, <2>1, <2>2, AcceptedGrows
  <2>6. Sound(d, granted', accepted', judged') /\ a \in accepted'
    BY <1>2, <2>2, <2>5, SoundGrows DEF Grows
  <2>7. /\ Sound([e EXCEPT !.state = run.target], granted', accepted', judged')
        /\ ApprovalValid(e)
    BY <1>2, <2>4, <2>6, StagedSound, CompletedPhase, StageNames
  <2> QED
    BY <1>1, <1>2, <2>2, <2>4, <2>5, <2>7, HandledKeeps
<1>6. CASE /\ Finish([d EXCEPT !.phase = "waiting_human_tune", !.tune = TRUE])
           /\ UNCHANGED ghost
  <2> DEFINE e == [d EXCEPT !.phase = "waiting_human_tune", !.tune = TRUE]
  <2>1. Finish(e) /\ Grows /\ UNCHANGED <<granted, accepted, delivered>>
    BY <1>1, <1>6, NothingGrows DEF ghost
  <2> HIDE DEF d
  <2>2. e \in Snapshot
    BY <1>2, CompletedPhase DEF Snapshot
  <2>3. /\ e.rev = d.rev /\ e.ok = d.ok /\ e.state = d.state
        /\ e.phase = "waiting_human_tune" /\ e.asset = d.asset
        /\ e.satisfied = d.satisfied
    BY <1>2 DEF Snapshot
  <2> HIDE DEF e
  <2>4. /\ Sound([e EXCEPT !.state = run.target], granted, accepted, judged)
        /\ ApprovalValid(e)
    BY <1>2, <2>2, <2>3, StagedSound, CompletedPhase, StageNames
  <2> QED
    BY <1>1, <1>2, <2>1, <2>2, <2>4, HandledKeeps
<1> QED
  BY <1>4, <1>5, <1>6 DEF HumanPrompt, q

LEMMA HumanEditKeeps ==
  ASSUME WInv, HumanEdit
  PROVE  WInv'
<1> DEFINE d == run.data
<1>1. /\ \/ At("human_prompt_iteration") \/ At("self_check_iteration")
      /\ UNCHANGED <<store, judged, ghost>>
  BY DEF HumanEdit
<1>2. /\ run.at = "next" /\ run \in Runs /\ run.target \notin Drafting
      /\ Sound(d, granted, accepted, judged) /\ d \in Snapshot
      /\ d.state \notin Drafting /\ run.target \in Stages
  BY <1>1, StageNames, AtFact
<1>3. PICK source \in Nat :
        /\ Buy(Key("edit", source, <<>>), d)
        /\ run' = [run EXCEPT !.at = "done", !.data = Tuning(d, Newest)]
  <2>1. d.asset \in Nat /\ d.best \in Nat /\ d.master \in Nat
    BY <1>2 DEF Snapshot
  <2>2. Or(d.best, Or(d.asset, d.master)) \in Nat
    BY <2>1, OrType
  <2> QED
    BY <2>1, <2>2 DEF HumanEdit
<1>4. /\ ApprovalValid(d) /\ granted' = granted
      /\ Key("edit", source, <<>>) \in Keys
      /\ Key("edit", source, <<>>).kind = "edit"
  BY <1>1, <1>2 DEF Sound, Scopes, ghost, Key, Keys
<1>5. ImagesFine' /\ Newest \in Nat
  BY <1>2, <1>3, <1>4, BuyKeeps
<1> HIDE DEF d
<1>6. PICK e : e = Tuning(d, Newest)
  OBVIOUS
<1>7. /\ e \in Snapshot /\ e.rev = d.rev /\ e.ok = d.ok /\ e.state = d.state
      /\ ~ e.satisfied /\ e.phase = "waiting_human_tune"
  BY <1>2, <1>5, <1>6, TuningFact
<1>8. Sound(e, granted, accepted, judged) /\ ApprovalValid(e)
  BY <1>2, <1>7, StagedSound, CompletedPhase
<1> QED
  BY <1>1, <1>2, <1>3, <1>5, <1>6, <1>8, DoneKeeps

LEMMA AnnotateKeeps ==
  ASSUME WInv, Annotate
  PROVE  WInv'
<1> DEFINE d == head.data
<1>1. /\ d.phase = "waiting_human_tune" /\ UNCHANGED <<run, judged, ghost>>
      /\ Save("human_prompt_iteration",
              [Tuning(d, Newest) EXCEPT !.state = "human_prompt_iteration"])
  BY DEF Annotate
<1>2. PICK i \in 1..Len(images) : Buy(Key("edit", i, <<>>), d)
  BY DEF Annotate
<1>3. Sound(d, granted, accepted, judged) /\ d \in Snapshot
  BY DEF WInv, Kept, Sound
<1>4. d.state \notin Drafting /\ ApprovalValid(d)
  BY <1>1, <1>3 DEF Sound
<1>5. /\ Key("edit", i, <<>>) \in Keys /\ Key("edit", i, <<>>).kind = "edit"
      /\ granted' = granted
  BY <1>1 DEF ghost, Key, Keys, Scopes
<1>6. ImagesFine' /\ Newest \in Nat
  BY <1>2, <1>3, <1>4, <1>5, BuyKeeps
<1> HIDE DEF d
<1>7. PICK e : e = Tuning(d, Newest)
  OBVIOUS
<1>8. /\ e \in Snapshot /\ e.rev = d.rev /\ e.ok = d.ok /\ e.state = d.state
      /\ ~ e.satisfied /\ e.phase = "waiting_human_tune"
  BY <1>3, <1>6, <1>7, TuningFact
<1>9. PICK f : f = [e EXCEPT !.state = "human_prompt_iteration"]
  OBVIOUS
<1>10. Sound(f, granted, accepted, judged)
  BY <1>3, <1>4, <1>8, <1>9, StagedSound, CompletedPhase, StageNames
<1>11. f.state = "human_prompt_iteration" /\ f.rev = e.rev /\ f.ok = e.ok
  BY <1>8, <1>9 DEF Snapshot
<1>12. Save("human_prompt_iteration", f)
  BY <1>1, <1>7, <1>9
<1>13. f.state # None /\ ApprovalValid(f)
  BY <1>4, <1>8, <1>11, StageNames, WorkflowAssumption DEF ApprovalValid
<1> QED
  BY <1>1, <1>6, <1>10, <1>12, <1>13, SavedKeeps, StageNames

-----------------------------------------------------------------------------
(* The dispositions of a self-check.                                       *)

(* The newest checkpoint is replaced by e, of the same task book.          *)
LEMMA DisposedKeeps ==
  ASSUME WInv, NEW d, d = head.data, AtRoundLimit(d), NEW e \in Snapshot,
         Dispose(e), e.rev = d.rev, e.ok = d.ok, e.state = d.state,
         ~ e.satisfied, e.phase \notin Planned
  PROVE  WInv'
<1>1. Sound(d, granted, accepted, judged)
  BY DEF WInv, Kept
<1>2. d.state \notin Drafting
  BY <1>1 DEF Sound, AtRoundLimit
<1>3. Sound(e, granted, accepted, judged) /\ ApprovalValid(e)
  BY <1>1, <1>2, StagedSound, StageNames
<1>4. /\ Save("self_check_iteration", e) /\ UNCHANGED <<run, judged, ghost>>
      /\ images' = images /\ e.state # None
  BY <1>2 DEF Dispose, Drafting
<1>5. ImagesFine'
  BY <1>4, Unpaid DEF ghost
<1> QED
  BY <1>3, <1>4, <1>5, SavedKeeps, StageNames

LEMMA AbandonKeeps ==
  ASSUME WInv, Abandon
  PROVE  WInv'
<1> DEFINE d == head.data
           e == [d EXCEPT !.phase = "terminated_without_delivery",
                          !.status = "terminated", !.satisfied = FALSE,
                          !.reason = "human"]
<1>1. AtRoundLimit(d) /\ Dispose(e) /\ d \in Snapshot
  BY DEF Abandon, WInv, TypeOK
<1> HIDE DEF d
<1>2. e \in Snapshot
  BY <1>1, CompletedPhase, StatusesAre DEF Snapshot
<1>3. /\ e.rev = d.rev /\ e.ok = d.ok /\ e.state = d.state
      /\ e.phase = "terminated_without_delivery" /\ e.satisfied = FALSE
  BY <1>1 DEF Snapshot
<1> HIDE DEF e
<1> QED
  BY <1>1, <1>2, <1>3, DisposedKeeps, CompletedPhase DEF d

LEMMA OfferedType ==
  ASSUME NEW d \in Snapshot
  PROVE  Offered(d) \in Nat
<1>1. d.best \in Nat /\ d.seen \in Nat /\ d.asset \in Nat
  BY DEF Snapshot
<1> QED
  BY <1>1 DEF Offered, Or

LEMMA AddRoundsKeeps ==
  ASSUME WInv, AddRounds
  PROVE  WInv'
<1> DEFINE d == head.data
           base == IF d.own # None THEN d.own ELSE d.selected
           limit == d.round + 1
           more == IF base \in {None, Malformed} THEN Malformed
                   ELSE [base EXCEPT !.solo = TRUE, !.limit = limit]
           a == Offered(d)
           e == [d EXCEPT !.asset = a, !.own = more,
                          !.phase = "additional_rounds_approved",
                          !.status = "pending", !.round = limit,
                          !.best = 0, !.reason = None, !.satisfied = FALSE]
<1>1. AtRoundLimit(d) /\ d.round < MaxRounds /\ d \in Snapshot
  BY DEF AddRounds, WInv, TypeOK
<1>2. Dispose(e)
  <2>1. [d EXCEPT !.asset = a, !.own = more,
                  !.phase = "additional_rounds_approved",
                  !.status = "pending", !.round = @ + 1,
                  !.best = 0, !.reason = None, !.satisfied = FALSE] = e
    BY <1>1 DEF Snapshot
  <2> QED
    BY <2>1 DEF AddRounds
<1> HIDE DEF d
<1>3. limit \in 0..MaxRounds /\ limit \in Nat
  BY <1>1, GatesAssumption DEF Snapshot
<1>4. base \in SelfChecks \cup {None, Malformed}
  BY <1>1 DEF Snapshot, OwnPolicy
<1> HIDE DEF base, limit
<1>5. more \in OwnPolicy
  <2>1. CASE base \in {None, Malformed}
    BY <2>1 DEF OwnPolicy
  <2>2. CASE base \in SelfChecks
    <3>1. [base EXCEPT !.solo = TRUE, !.limit = limit] \in SelfChecks
      BY <1>3, <2>2 DEF SelfChecks
    <3> QED
      BY <3>1 DEF OwnPolicy
  <2> QED
    BY <1>4, <2>1, <2>2
<1>6. a \in Nat
  BY <1>1, OfferedType
<1>7. /\ "additional_rounds_approved" \in Phases /\ "pending" \in Statuses
      /\ None \in Reasons
  BY DEF Phases, Statuses, Reasons
<1> HIDE DEF more, a
<1>8. e \in Snapshot
  BY <1>1, <1>3, <1>5, <1>6, <1>7 DEF Snapshot
<1>9. /\ e.rev = d.rev /\ e.ok = d.ok /\ e.state = d.state
      /\ e.phase = "additional_rounds_approved" /\ e.satisfied = FALSE
  BY <1>1 DEF Snapshot
<1> HIDE DEF e
<1> QED
  BY <1>1, <1>2, <1>8, <1>9, DisposedKeeps DEF d, Planned

-----------------------------------------------------------------------------
(* Branches.                                                               *)

(* The head and the policy of the project move, beside any run.            *)
LEMMA BranchKeeps ==
  ASSUME WInv, UNCHANGED <<mark, run, images, judged, ghost>>,
         head' \in Checkpoints, Kept(head', granted, accepted, judged),
         policy' \in Policies, failed' = None
  PROVE  WInv'
<1>1. UNCHANGED <<granted, accepted, delivered, wanted>>
  BY DEF ghost
<1>2. TypeOK'
  BY <1>1 DEF WInv, TypeOK, Checkpoints
<1>3. /\ Kept(head', granted', accepted', judged')
      /\ mark' # None => Kept(mark', granted', accepted', judged')
      /\ Sure(run', granted', accepted', judged') /\ Single(run')
  BY <1>1 DEF WInv
<1>4. PaidWasReleased' /\ DeliveredWasJudged'
  BY <1>1 DEF WInv, PaidWasReleased, DeliveredWasJudged
<1> QED
  BY <1>2, <1>3, <1>4 DEF WInv

(* What may be branched from.                                              *)
LEMMA BranchPoint ==
  ASSUME WInv, NEW c \in {head, mark}, c # None
  PROVE  /\ Kept(c, granted, accepted, judged) /\ c.data \in Snapshot
         /\ c.node \in Stages \cup {None}
         /\ Sound(c.data, granted, accepted, judged)
         /\ (c = mark => mark.policy \in Policies)
<1>1. CASE c = head /\ c # mark
  BY <1>1 DEF WInv, TypeOK, Kept
<1>2. CASE c = mark
  BY <1>2 DEF WInv, TypeOK, Kept
<1> QED
  BY <1>1, <1>2

LEMMA HumanTuneBestKeeps ==
  ASSUME WInv, NEW c \in {head, mark}, HumanTuneBest(c)
  PROVE  WInv'
<1> DEFINE d == c.data
           t == Tuning(d, Offered(d))
           e == [t EXCEPT !.best = 0]
<1>1. /\ c # None /\ d.state = "self_check_iteration"
      /\ head' = [node |-> "self_check_iteration", data |-> e]
      /\ policy' = IF c = mark THEN mark.policy ELSE policy
      /\ failed' = None /\ UNCHANGED <<mark, run, images, judged, ghost>>
  BY DEF HumanTuneBest, CanTune
<1>2. Sound(d, granted, accepted, judged) /\ d \in Snapshot
      /\ (c = mark => mark.policy \in Policies)
  BY <1>1, BranchPoint
<1> HIDE DEF d
<1>3. /\ t \in Snapshot /\ t.rev = d.rev /\ t.ok = d.ok /\ t.state = d.state
      /\ ~ t.satisfied /\ t.phase = "waiting_human_tune"
  BY <1>2, OfferedType, TuningFact
<1> HIDE DEF t
<1>4. /\ e \in Snapshot /\ e.rev = t.rev /\ e.ok = t.ok /\ e.state = t.state
      /\ e.satisfied = t.satisfied /\ e.phase = t.phase
  BY <1>3 DEF Snapshot
<1> HIDE DEF e
<1>5. Sound(e, granted, accepted, judged) /\ ApprovalValid(e)
  BY <1>1, <1>2, <1>3, <1>4, StagedSound, CompletedPhase, StageNames
<1>6. head' \in Checkpoints /\ Kept(head', granted, accepted, judged)
  BY <1>1, <1>3, <1>4, <1>5, StageNames, WorkflowAssumption
     DEF Checkpoints, Kept
<1>7. policy' \in Policies
  BY <1>1, <1>2 DEF WInv, TypeOK
<1> QED
  BY <1>1, <1>6, <1>7, BranchKeeps

LEMMA MarkKeeps ==
  ASSUME WInv, Mark
  PROVE  WInv'
<1>1. /\ head.node # None
      /\ mark' = [node |-> head.node, data |-> head.data, policy |-> policy]
      /\ UNCHANGED <<head, policy, failed, run, images, judged, ghost>>
  BY DEF Mark, MayBranch
<1>2. UNCHANGED <<granted, accepted, delivered, wanted>>
  BY <1>1 DEF ghost
<1>3. mark' \in [node : Stages, data : Snapshot, policy : Policies]
  BY <1>1 DEF WInv, TypeOK
<1>4. TypeOK'
  BY <1>1, <1>2, <1>3 DEF WInv, TypeOK
<1>5. Kept(mark', granted, accepted, judged)
  BY <1>1 DEF WInv, Kept
<1>6. /\ Kept(head', granted', accepted', judged')
      /\ Kept(mark', granted', accepted', judged')
      /\ Sure(run', granted', accepted', judged') /\ Single(run')
  BY <1>1, <1>2, <1>5 DEF WInv
<1>7. PaidWasReleased' /\ DeliveredWasJudged'
  BY <1>1, <1>2 DEF WInv, PaidWasReleased, DeliveredWasJudged
<1> QED
  BY <1>4, <1>6, <1>7 DEF WInv

LEMMA ForkKeeps ==
  ASSUME WInv, NEW c \in {head, mark}, NEW p \in Policies, ForkAfter(c, p)
  PROVE  WInv'
<1>1. /\ c # None /\ head' = [node |-> c.node, data |-> c.data]
      /\ policy' = p /\ failed' = None
      /\ UNCHANGED <<mark, run, images, judged, ghost>>
  BY DEF ForkAfter, Branch, MayBranch
<1>2. /\ Kept(c, granted, accepted, judged) /\ c.data \in Snapshot
      /\ c.node \in Stages \cup {None}
  BY <1>1, BranchPoint
<1>3. head' \in Checkpoints /\ Kept(head', granted, accepted, judged)
  BY <1>1, <1>2 DEF Checkpoints, Kept
<1> QED
  BY <1>1, <1>3, BranchKeeps

(* What a rewind to a stage leaves of a snapshot.                          *)
Leaves(stage, d, e) ==
  /\ e \in Snapshot
  /\ e.ok \in {<<>>, d.ok}
  /\ stage \notin Drafting => e.ok = d.ok /\ e.rev = d.rev
  /\ e.satisfied => d.satisfied /\ e.asset = d.asset

LEMMA UncheckedFact ==
  ASSUME NEW d \in Snapshot
  PROVE  /\ Unchecked(d) \in Snapshot
         /\ Unchecked(d).ok = d.ok /\ Unchecked(d).rev = d.rev
         /\ Unchecked(d).satisfied = FALSE /\ Unchecked(d).reason = None
<1> DEFINE e == [d EXCEPT !.seen = 0, !.best = 0, !.checked = 0, !.round = 0,
                   !.selected = None, !.status = None, !.satisfied = FALSE,
                   !.reason = None, !.tune = FALSE, !.done = FALSE]
<1>1. None \in OwnPolicy /\ None \in Statuses /\ None \in Reasons
  BY DEF OwnPolicy, Statuses, Reasons
<1>2. e \in Snapshot
  BY <1>1 DEF Snapshot
<1>3. /\ e.ok = d.ok /\ e.rev = d.rev /\ e.satisfied = FALSE /\ e.reason = None
  BY DEF Snapshot
<1>4. e = Unchecked(d)
  BY DEF Unchecked
<1> HIDE DEF e
<1> QED
  BY <1>2, <1>3, <1>4

LEMMA EarlyStages ==
  ASSUME NEW stage \in Stages
  PROVE  /\ stage \in Drafting =>
              From(stage, "master_candidate_selection")
         /\ stage \notin Drafting => ~ From(stage, "confirmation_build")
<1>1. stage # None
  BY WorkflowAssumption
<1> QED
  BY <1>1, Places DEF From, Drafting, Stages

LEMMA ClearedFact ==
  ASSUME NEW d \in Snapshot, NEW stage \in Stages
  PROVE  /\ Leaves(stage, d, Cleared(stage, d))
         /\ stage \in Drafting => /\ ~ Cleared(stage, d).satisfied
                                  /\ Cleared(stage, d).reason = None
<1> DEFINE c1 == IF From(stage, "category_constraint")
                 THEN [d EXCEPT !.cat = 0, !.catOk = 0] ELSE d
           c2 == IF From(stage, "intake_clarify")
                 THEN [c1 EXCEPT !.asked = 0, !.blocked = IntakeBlocked] ELSE c1
           c3 == IF From(stage, "confirmation_build")
                 THEN [c2 EXCEPT !.revs = <<>>, !.rev = <<>>, !.ok = <<>>] ELSE c2
           c4 == IF From(stage, "initial_candidate_generation")
                 THEN [c3 EXCEPT !.skill = 0, !.skillOk = 0, !.planRev = <<>>,
                                 !.planPolicy = None, !.cands = 0] ELSE c3
           c5 == IF From(stage, "master_candidate_selection")
                 THEN [Unchecked(c4) EXCEPT !.master = 0, !.asset = 0] ELSE c4
<1>1. /\ c1 \in Snapshot /\ c1.ok = d.ok /\ c1.rev = d.rev
      /\ c1.satisfied = d.satisfied /\ c1.asset = d.asset
  <2>1. CASE c1 = [d EXCEPT !.cat = 0, !.catOk = 0]
    <3> HIDE DEF c1
    <3>1. c1 \in Snapshot
      BY <2>1 DEF Snapshot
    <3>2. /\ c1.ok = d.ok /\ c1.rev = d.rev
          /\ c1.satisfied = d.satisfied /\ c1.asset = d.asset
      BY <2>1 DEF Snapshot
    <3> QED
      BY <3>1, <3>2
  <2>2. CASE c1 = d
    BY <2>2
  <2> QED
    BY <2>1, <2>2
<1> HIDE DEF c1
<1>2. /\ c2 \in Snapshot /\ c2.ok = d.ok /\ c2.rev = d.rev
      /\ c2.satisfied = d.satisfied /\ c2.asset = d.asset
  <2>1. CASE c2 = [c1 EXCEPT !.asked = 0, !.blocked = IntakeBlocked]
    <3> HIDE DEF c2
    <3>1. c2 \in Snapshot
      BY <1>1, <2>1, WorkflowAssumption DEF Snapshot
    <3>2. /\ c2.ok = c1.ok /\ c2.rev = c1.rev
          /\ c2.satisfied = c1.satisfied /\ c2.asset = c1.asset
      BY <1>1, <2>1 DEF Snapshot
    <3> QED
      BY <1>1, <3>1, <3>2
  <2>2. CASE c2 = c1
    BY <1>1, <2>2
  <2> QED
    BY <2>1, <2>2
<1> HIDE DEF c2
<1>3. <<>> \in Revisions
  BY EmptySeq DEF Revisions
<1>4. /\ c3 \in Snapshot /\ c3.ok \in {<<>>, d.ok}
      /\ stage \notin Drafting => c3.ok = d.ok /\ c3.rev = d.rev
      /\ c3.satisfied = d.satisfied /\ c3.asset = d.asset
  <2>1. CASE From(stage, "confirmation_build")
    <3>1. c3 = [c2 EXCEPT !.revs = <<>>, !.rev = <<>>, !.ok = <<>>]
      BY <2>1
    <3> HIDE DEF c3
    <3>2. c3 \in Snapshot
      BY <1>2, <1>3, <3>1 DEF Snapshot
    <3>3. c3.ok = <<>> /\ c3.satisfied = c2.satisfied /\ c3.asset = c2.asset
      BY <1>2, <3>1 DEF Snapshot
    <3> QED
      BY <1>2, <2>1, <3>2, <3>3, EarlyStages
  <2>2. CASE ~ From(stage, "confirmation_build")
    BY <1>2, <2>2
  <2> QED
    BY <2>1, <2>2
<1> HIDE DEF c3
<1>5. /\ c4 \in Snapshot /\ c4.ok = c3.ok /\ c4.rev = c3.rev
      /\ c4.satisfied = c3.satisfied /\ c4.asset = c3.asset
  <2>1. CASE From(stage, "initial_candidate_generation")
    <3>1. c4 = [c3 EXCEPT !.skill = 0, !.skillOk = 0, !.planRev = <<>>,
                          !.planPolicy = None, !.cands = 0]
      BY <2>1
    <3> HIDE DEF c4
    <3>2. c4 \in Snapshot
      BY <1>3, <1>4, <3>1 DEF Snapshot
    <3>3. /\ c4.ok = c3.ok /\ c4.rev = c3.rev
          /\ c4.satisfied = c3.satisfied /\ c4.asset = c3.asset
      BY <1>4, <3>1 DEF Snapshot
    <3> QED
      BY <3>2, <3>3
  <2>2. CASE ~ From(stage, "initial_candidate_generation")
    BY <1>4, <2>2
  <2> QED
    BY <2>1, <2>2
<1> HIDE DEF c4
<1>6. /\ c5 \in Snapshot /\ c5.ok = c4.ok /\ c5.rev = c4.rev
      /\ c5.satisfied => c4.satisfied /\ c5.asset = c4.asset
      /\ stage \in Drafting => ~ c5.satisfied /\ c5.reason = None
  <2>1. CASE From(stage, "master_candidate_selection")
    <3> DEFINE u == Unchecked(c4)
    <3>1. c5 = [u EXCEPT !.master = 0, !.asset = 0]
      BY <2>1
    <3>2. /\ u \in Snapshot /\ u.ok = c4.ok /\ u.rev = c4.rev
          /\ u.satisfied = FALSE /\ u.reason = None
      BY <1>5, UncheckedFact
    <3> HIDE DEF c5, u
    <3>3. c5 \in Snapshot
      <4>1. u \in Snapshot
        BY <3>2
      <4> QED
        BY <3>1, <4>1 DEF Snapshot
    <3>4. /\ c5.ok = u.ok /\ c5.rev = u.rev
          /\ c5.satisfied = u.satisfied /\ c5.reason = u.reason
      BY <3>1, <3>2 DEF Snapshot
    <3> QED
      BY <3>2, <3>3, <3>4
  <2>2. CASE ~ From(stage, "master_candidate_selection")
    BY <1>5, <2>2, EarlyStages
  <2> QED
    BY <2>1, <2>2
<1> HIDE DEF c5
<1> DEFINE e == IF stage = "self_check_iteration" THEN Unchecked(c5) ELSE c5
<1>7. /\ e \in Snapshot /\ e.ok = c5.ok /\ e.rev = c5.rev
      /\ e.satisfied => c5.satisfied /\ e.asset = c5.asset
      /\ stage \in Drafting => ~ e.satisfied /\ e.reason = None
  BY <1>6, UncheckedFact
<1>8. Cleared(stage, d) = e
  BY DEF Cleared, e, c5, c4, c3, c2, c1
<1> HIDE DEF e
<1> QED
  BY <1>4, <1>5, <1>6, <1>7, <1>8 DEF Leaves

LEMMA RerunPhases ==
  ASSUME NEW stage \in Stages
  PROVE  /\ RerunPhase[stage] \in Phases /\ RerunPhase[stage] \notin Planned
         /\ RerunPhase[stage] = "waiting_human_tune"
              => stage = "human_prompt_iteration"
<1>1. /\ {"waiting_master_selection", "waiting_human_tune"} \subseteq Phases
      /\ {"ready_for_category_match", "ready_for_clarification",
          "ready_for_taskbook", "ready_for_style_direction",
          "ready_for_quality_inspection", "ready_for_final_approval"}
           \subseteq Phases
  BY DEF Phases, Waiting, Boundary
<1> QED
  BY <1>1 DEF RerunPhase, Stages, Planned

LEMMA RewoundSound ==
  ASSUME NEW d, NEW G, NEW A, NEW J, Sound(d, G, A, J), NEW stage \in Stages,
         stage \notin Drafting => ApprovalValid(d)
  PROVE  /\ Sound(Rewound(stage, d), G, A, J)
         /\ Rewound(stage, d).state = stage
         /\ stage \notin Drafting => ApprovalValid(Rewound(stage, d))
<1> DEFINE c == Cleared(stage, d)
           ph == RerunPhase[stage]
           tune == c.tune \/ stage = "human_prompt_iteration"
           e == [c EXCEPT !.state = stage, !.phase = ph, !.tune = tune,
                          !.domain = 0]
<1>1. d \in Snapshot
  BY DEF Sound
<1>2. /\ Leaves(stage, d, c) /\ c \in Snapshot
      /\ stage \in Drafting => ~ c.satisfied /\ c.reason = None
  BY <1>1, ClearedFact DEF Leaves
<1>3. /\ ph \in Phases /\ ph \notin Planned
      /\ ph = "waiting_human_tune" => stage = "human_prompt_iteration"
  BY RerunPhases
<1> HIDE DEF c, ph
<1>4. tune \in BOOLEAN
  BY <1>2 DEF Snapshot
<1>5. Rewound(stage, d) = e
  BY <1>2 DEF Rewound, Snapshot, c, ph
<1>13. stage \in Stages \cup {None} /\ 0 \in 0..16
       /\ ph \in Phases \cup {None}
  BY <1>3
<1> HIDE DEF tune
<1>6. e \in Snapshot
  BY <1>2, <1>4, <1>13 DEF Snapshot
<1>7. /\ e.state = stage /\ e.phase = ph /\ e.rev = c.rev /\ e.ok = c.ok
      /\ e.satisfied = c.satisfied /\ e.reason = c.reason /\ e.asset = c.asset
  BY <1>2 DEF Snapshot
<1> HIDE DEF e
<1>8. e.ok # <<>> => e.ok \in G
  BY <1>2, <1>7 DEF Leaves, Sound
<1>9. stage \notin Drafting => ApprovalValid(e)
  BY <1>2, <1>7 DEF Leaves, ApprovalValid
<1>10. e.satisfied => e.asset \in A \/ Pass(e.asset, e.rev) \in J
  BY <1>2, <1>7 DEF Leaves, Sound
<1>11. None # "round_limit"
  BY WorkflowAssumption
<1>12. Sound(e, G, A, J)
  BY <1>2, <1>3, <1>6, <1>7, <1>8, <1>9, <1>10, <1>11, StageNames
     DEF Sound, Planned
<1> QED
  BY <1>5, <1>7, <1>9, <1>12

LEMMA RerunKeeps ==
  ASSUME WInv, NEW c \in {head, mark}, NEW p \in Policies, Rerun(c, p)
  PROVE  WInv'
<1>1. /\ c # None /\ c.node # None
      /\ head' = [node |-> c.node, data |-> Rewound(c.node, c.data)]
      /\ policy' = p /\ failed' = None
      /\ UNCHANGED <<mark, run, images, judged, ghost>>
  BY DEF Rerun, Branch, MayBranch
<1>2. /\ Kept(c, granted, accepted, judged) /\ c.node \in Stages
      /\ Sound(c.data, granted, accepted, judged)
  BY <1>1, BranchPoint
<1>3. c.node \notin Drafting => ApprovalValid(c.data)
  BY <1>2 DEF Kept
<1> DEFINE e == Rewound(c.node, c.data)
<1>4. /\ Sound(e, granted, accepted, judged) /\ e.state = c.node
      /\ c.node \notin Drafting => ApprovalValid(e)
  BY <1>2, <1>3, RewoundSound
<1> HIDE DEF e
<1>5. head' \in Checkpoints /\ Kept(head', granted, accepted, judged)
  BY <1>1, <1>2, <1>4 DEF Checkpoints, Kept, Sound, e
<1> QED
  BY <1>1, <1>5, BranchKeeps

-----------------------------------------------------------------------------
(* Every step keeps the invariant.                                         *)

LEMMA StuttersKeep == ASSUME WInv, UNCHANGED vars PROVE WInv'
<1>1. /\ UNCHANGED <<head, policy, failed, mark, run, images, judged>>
      /\ UNCHANGED <<granted, accepted, delivered, wanted>>
  BY DEF vars, store, ghost
<1>2. TypeOK'
  BY <1>1 DEF WInv, TypeOK
<1> QED
  BY <1>1, <1>2 DEF WInv, PaidWasReleased, DeliveredWasJudged

LEMMA EndpointsKeep == ASSUME WInv, Endpoints PROVE WInv'
<1>1. CASE \E o \in Requests(head.data.phase) : Submit(o) \/ Retry(o)
  BY <1>1, SubmitKeeps, RetryKeeps
<1>2. CASE Annotate \/ Abandon \/ AddRounds \/ Mark
  BY <1>2, AnnotateKeeps, AbandonKeeps, AddRoundsKeeps, MarkKeeps
<1>3. CASE \E c \in {head, mark} : HumanTuneBest(c)
  BY <1>3, HumanTuneBestKeeps
<1>4. CASE \E c \in {head, mark}, p \in Policies : ForkAfter(c, p) \/ Rerun(c, p)
  BY <1>4, ForkKeeps, RerunKeeps
<1> QED
  BY <1>1, <1>2, <1>3, <1>4 DEF Endpoints

LEMMA StepsKeep == ASSUME WInv, Step PROVE WInv'
<1>1. CASE Start \/ Done
  BY <1>1, StartKeeps, ResultKeeps
<1>2. CASE Stages1
  BY <1>2, CategoryKeeps, ClarifyKeeps, ConfirmationKeeps, PlanKeeps,
     FreezeKeeps, RenderKeeps, SucceededKeeps, SelectionKeeps DEF Stages1
<1>3. CASE Stages2
  BY <1>3, DispositionKeeps, SelfCheckKeeps, InspectKeeps, DecideKeeps,
     ReworkKeeps, CompletedKeeps, RoundEndsKeeps, HumanPromptKeeps, HumanEditKeeps, FinalKeeps
     DEF Stages2
<1> QED
  BY <1>1, <1>2, <1>3 DEF Step

LEMMA NextKeeps == ASSUME WInv, [Next]_vars PROVE WInv'
<1>1. CASE Refused
  BY <1>1, GoneKeeps DEF Refused
<1> QED
  BY <1>1, EndpointsKeep, StepsKeep, RaiseKeeps, CrashKeeps, StuttersKeep DEF Next

-----------------------------------------------------------------------------
(* In every reachable state whatever snapshot is kept anywhere is sound.   *)
THEOREM AlwaysWInv == Spec => []WInv
<1>1. Init => WInv
  BY InitInv
<1>2. WInv /\ [Next]_vars => WInv'
  BY NextKeeps
<1> QED
  BY <1>1, <1>2, PTL DEF Spec

(* The variables keep their types: a checkpoint, also a rewound or merged  *)
(* one, has every field a later stage reads, with a value it can handle.   *)
THEOREM WorkflowTypeCorrect == Spec => []TypeOK
<1>1. WInv => TypeOK
  BY DEF WInv
<1> QED
  BY <1>1, AlwaysWInv, PTL

(* No image is paid for on a task book that no human approved, whatever    *)
(* the branch, the retry, the stale snapshot or the crash that led there   *)
(* (workflow_runner.py: the guards of the candidates, the self-check's     *)
(* reworks and the human's edits).                                         *)
THEOREM PaidAlwaysReleased == Spec => []PaidWasReleased
<1>1. WInv => PaidWasReleased
  BY DEF WInv
<1> QED
  BY <1>1, AlwaysWInv, PTL

(* What _final delivers passed its inspection against the task book it is  *)
(* delivered under, or a human accepted that very image.                   *)
THEOREM DeliveredAlwaysJudged == Spec => []DeliveredWasJudged
<1>1. WInv => DeliveredWasJudged
  BY DEF WInv
<1> QED
  BY <1>1, AlwaysWInv, PTL

(* A decision that a human sends with a request lets one held round of the *)
(* self-check pass, never a second one (calibration_loop.py).              *)
THEOREM OneDecisionAlwaysOneRound == Spec => []OneDecisionOneRound
<1>1. WInv => OneDecisionOneRound
  BY DEF WInv, Single, OneDecisionOneRound
<1> QED
  BY <1>1, AlwaysWInv, PTL

-----------------------------------------------------------------------------
(* Payments.                                                               *)

(* The key under which the run is about to record what it has in hand.     *)
HandKey == IF run.at = "rendered" THEN CandidateKey ELSE ReworkKey

(* Every keyed image is recorded under its own key, was lost, or is in the *)
(* hand of the run that paid for it; what a run still needs to compute its *)
(* key has not changed since.                                              *)
Accounted(i) ==
  \/ images[i].key.kind = "edit"
  \/ images[i].lost
  \/ images[i].key \in images[i].found
  \/ run.at \in InHand /\ i = Len(images)

PInv ==
  /\ run.at \in InHand => Len(images) > 0 /\ images[Len(images)].key = HandKey
  /\ \A i \in 1..Len(images) : Accounted(i)
  /\ PaidAgainOnlyAfterALoss

LEMMA StillPaid == ASSUME PInv, UNCHANGED <<images, run>> PROVE PInv'
BY DEF PInv, Accounted, PaidAgainOnlyAfterALoss, HandKey, CandidateKey,
       ReworkKey, Delta, Choice, Held

(* No payment, and nothing in hand before or after.                        *)
LEMMA QuietPaid ==
  ASSUME PInv, images' = images, run.at \notin InHand, run'.at \notin InHand
  PROVE  PInv'
BY DEF PInv, Accounted, PaidAgainOnlyAfterALoss

(* A payment with nothing in hand: an edit, or what was looked up in vain. *)
LEMMA BoughtPaid ==
  ASSUME WInv, PInv, run.at \notin InHand, NEW key, NEW d, Buy(key, d),
         \/ key.kind = "edit" /\ run'.at \notin InHand
         \/ Bought(key) = {} /\ run'.at \in InHand /\ HandKey' = key
  PROVE  PInv'
<1> DEFINE new == Image(key, d)
<1>1. new.key = key
  BY DEF Image
<1>2. images' = Append(images, new) /\ images \in Seq(Paid)
  BY DEF Buy, WInv, TypeOK
<1> HIDE DEF new
<1>3. /\ Len(images') = Len(images) + 1 /\ Len(images) \in Nat
      /\ \A i \in 1..Len(images) : images'[i] = images[i]
      /\ images'[Len(images) + 1] = new
  <2>1. images \in Seq(Paid \cup {new})
    BY <1>2, SeqDef
  <2> QED BY <1>2, <2>1, AppendProperties, LenProperties
<1>4. \A i \in 1..Len(images') : i \in 1..Len(images) \/ i = Len(images) + 1
  BY <1>3
<1>5. \A i \in 1..Len(images) :
        \/ images[i].key.kind = "edit" \/ images[i].lost
        \/ images[i].key \in images[i].found
  BY DEF PInv, Accounted
<1>6. \A i \in 1..Len(images') : Accounted(i)'
  BY <1>1, <1>3, <1>4, <1>5 DEF Accounted
<1>7. PaidAgainOnlyAfterALoss'
  <2> SUFFICES ASSUME NEW i \in 1..Len(images'), NEW j \in 1..Len(images'),
                      i < j, images'[i].key = images'[j].key,
                      images'[i].key.kind # "edit"
               PROVE  images'[i].lost
    BY DEF PaidAgainOnlyAfterALoss
  <2>1. i \in 1..Len(images)
    BY <1>3, <1>4
  <2>2. CASE j \in 1..Len(images)
    BY <1>3, <2>1, <2>2 DEF PInv, PaidAgainOnlyAfterALoss
  <2>3. CASE j = Len(images) + 1
    <3>1. images[i].key = key /\ key.kind # "edit"
      BY <1>1, <1>3, <2>1, <2>3
    <3>2. key \notin images[i].found
      BY <2>1, <3>1 DEF Bought
    <3> QED
      BY <1>3, <1>5, <2>1, <3>1, <3>2
  <2> QED
    BY <1>4, <2>2, <2>3
<1>8. run'.at \in InHand => /\ Len(images') > 0
                           /\ images'[Len(images')].key = HandKey'
  BY <1>1, <1>3
<1> QED
  BY <1>6, <1>7, <1>8 DEF PInv

(* The image in hand is recorded under the key it was paid under.          *)
LEMMA RecordedPaid ==
  ASSUME WInv, PInv, run.at \in InHand, Record(HandKey), run'.at \notin InHand
  PROVE  PInv'
<1> DEFINE n == Len(images)
<1>1. n \in Nat /\ images[n].key = HandKey /\ images \in Seq(Paid)
      /\ n \in 1..n /\ images[n] \in Paid /\ images \in [1..n -> Paid]
  BY LenProperties, ElementOfSeq DEF PInv, WInv, TypeOK
<1>2. HandKey \in Keys
  BY CandidateKeyType, ReworkKeyType DEF HandKey
<1>3. images' = [images EXCEPT ![n].found = {HandKey}]
  BY DEF Record
<1>4. Len(images') = n /\ \A i \in 1..n : /\ images'[i].key = images[i].key
                                          /\ i # n => images'[i] = images[i]
  BY <1>1, <1>2, <1>3, Noted
<1>5. images'[n].found = {HandKey} /\ images'[n].lost = images[n].lost
  BY <1>1, <1>3 DEF Paid
<1> HIDE DEF n
<1>6. \A i \in 1..n : Accounted(i)'
  <2> SUFFICES ASSUME NEW i \in 1..n PROVE Accounted(i)'
    OBVIOUS
  <2>1. Accounted(i)
    BY DEF PInv, n
  <2>2. CASE i = n
    <3>1. images'[n].key \in images'[n].found
      BY <1>1, <1>4, <1>5
    <3> QED BY <2>2, <3>1 DEF Accounted
  <2>3. CASE i # n
    BY <1>4, <2>1, <2>3 DEF Accounted, n
  <2> QED BY <2>2, <2>3
<1>7. PaidAgainOnlyAfterALoss'
  BY <1>4, <1>5 DEF PInv, PaidAgainOnlyAfterALoss, n
<1> QED
  BY <1>4, <1>6, <1>7 DEF PInv

(* The run that holds an image ends: it is lost.                           *)
LEMMA DroppedPaid ==
  ASSUME WInv, PInv, Drop, run'.at \notin InHand
  PROVE  PInv'
<1>1. CASE run.at \notin InHand
  BY <1>1, QuietPaid DEF Drop
<1>2. CASE run.at \in InHand
  <2> DEFINE n == Len(images)
  <2>1. n \in Nat /\ images \in Seq(Paid) /\ n \in 1..n /\ images[n] \in Paid
        /\ images \in [1..n -> Paid]
    BY <1>2, LenProperties, ElementOfSeq DEF PInv, WInv, TypeOK
  <2>2. images' = [images EXCEPT ![n].lost = TRUE]
    BY <1>2 DEF Drop
  <2>3. Len(images') = n /\ \A i \in 1..n : /\ images'[i].key = images[i].key
                                            /\ i # n => images'[i] = images[i]
    BY <2>1, <2>2, Noted
  <2>4. images'[n].lost
    BY <2>1, <2>2 DEF Paid
  <2> HIDE DEF n
  <2>5. \A i \in 1..n : Accounted(i)'
    <3> SUFFICES ASSUME NEW i \in 1..n PROVE Accounted(i)'
      OBVIOUS
    <3>1. Accounted(i)
      BY DEF PInv, n
    <3>2. CASE i = n
      BY <2>4, <3>2 DEF Accounted
    <3>3. CASE i # n
      BY <2>3, <3>1, <3>3 DEF Accounted, n
    <3> QED BY <3>2, <3>3
  <2>6. PaidAgainOnlyAfterALoss'
    BY <2>3, <2>4 DEF PInv, PaidAgainOnlyAfterALoss, n
  <2> QED
    BY <2>3, <2>5, <2>6 DEF PInv
<1> QED
  BY <1>1, <1>2

LEMMA FinishQuiet ==
  ASSUME WInv, NEW e, Finish(e) PROVE run'.at \in {"idle", "next"}
<1>1. Idle.at = "idle"
  BY DEF Idle
<1> QED
  BY <1>1 DEF Finish, Failed, Gone, WInv, TypeOK, Runs

LEMMA StagesPaid == ASSUME WInv, PInv, Stages1 PROVE PInv'
<1>1. CASE CategoryConstraint
  BY <1>1, FinishQuiet, QuietPaid DEF CategoryConstraint, At, InHand
<1>2. CASE IntakeClarify
  BY <1>2, FinishQuiet, QuietPaid DEF IntakeClarify, At, InHand
<1>3. CASE ConfirmationBuild
  BY <1>3, FinishQuiet, QuietPaid DEF ConfirmationBuild, At, InHand
<1>4. CASE PlanCandidates
  BY <1>4, FinishQuiet, QuietPaid DEF PlanCandidates, At, InHand
<1>5. CASE FreezeBoundary
  <2>1. run.at = "next" /\ images' = images /\ run'.at = "render"
    BY <1>5 DEF FreezeBoundary, At, WInv, TypeOK, Runs
  <2> QED BY <2>1, QuietPaid DEF InHand
<1>6. CASE RenderCandidates
  <2>1. run.at = "render"
    BY <1>6 DEF RenderCandidates
  <2>2. CASE \E k \in Bought(CandidateKey) : Rendered(k) /\ images' = images
    <3>1. run'.at = "done"
      BY <2>2 DEF Rendered, WInv, TypeOK, Runs
    <3> QED BY <2>1, <2>2, <3>1, QuietPaid DEF InHand
  <2>3. CASE /\ Bought(CandidateKey) = {} /\ Buy(CandidateKey, run.data)
             /\ run' = [run EXCEPT !.at = "rendered"]
    <3>1. run'.at = "rendered" /\ run'.data = run.data
      BY <2>3 DEF WInv, TypeOK, Runs
    <3>2. HandKey' = CandidateKey
      BY <3>1 DEF HandKey, CandidateKey
    <3> QED BY <2>1, <2>3, <3>1, <3>2, BoughtPaid DEF InHand
  <2> QED BY <1>6, <2>2, <2>3 DEF RenderCandidates
<1>7. CASE CandidateSucceeded
  <2>1. run.at = "rendered" /\ Record(HandKey) /\ run'.at = "done"
    BY <1>7 DEF CandidateSucceeded, HandKey, Rendered, WInv, TypeOK, Runs
  <2> QED BY <2>1, RecordedPaid DEF InHand
<1>8. CASE MasterSelection
  <2>1. run.at = "next" /\ images' = images /\ \E e : Finish(e)
    BY <1>8 DEF MasterSelection, At
  <2> QED BY <2>1, FinishQuiet, QuietPaid DEF InHand
<1> QED
  BY <1>1, <1>2, <1>3, <1>4, <1>5, <1>6, <1>7, <1>8 DEF Stages1

LEMMA ReworkPaid == ASSUME WInv, PInv, Rework \/ ReworkCompleted PROVE PInv'
<1>1. CASE Rework
  <2>1. run.at = "decide"
    BY <1>1 DEF Rework
  <2>2. CASE \E k \in Bought(ReworkKey) : Reworked(k) /\ images' = images
    <3>1. run'.at = "round"
      BY <2>2 DEF Reworked, WInv, TypeOK, Runs
    <3> QED BY <2>1, <2>2, <3>1, QuietPaid DEF InHand
  <2>3. CASE /\ Bought(ReworkKey) = {} /\ Buy(ReworkKey, run.data)
             /\ run' = [run EXCEPT !.at = "reworked"]
    <3>1. /\ run'.at = "reworked" /\ run'.data = run.data /\ run'.cur = run.cur
          /\ run'.check = run.check /\ run'.verdict = run.verdict
          /\ run'.act = run.act
      BY <2>3 DEF WInv, TypeOK, Runs
    <3>2. HandKey' = ReworkKey
      BY <3>1 DEF HandKey, ReworkKey, Delta, Choice, Held
    <3> QED BY <2>1, <2>3, <3>1, <3>2, BoughtPaid DEF InHand
  <2> QED BY <1>1, <2>2, <2>3 DEF Rework
<1>2. CASE ReworkCompleted
  <2>1. run.at = "reworked" /\ Record(HandKey) /\ run'.at = "round"
    BY <1>2 DEF ReworkCompleted, HandKey, Reworked, WInv, TypeOK, Runs
  <2> QED BY <2>1, RecordedPaid DEF InHand
<1> QED
  BY <1>1, <1>2

(* The steps of the loop that pay for nothing.                             *)
LEMMA InspectPaid == ASSUME WInv, PInv, Inspect PROVE PInv'
<1>1. run.at = "inspect" /\ images' = images
  BY DEF Inspect
<1>2. PICK v \in Verdicts :
        run' = [run EXCEPT !.at = "decide", !.verdict = v, !.seen = run.cur]
  BY DEF Inspect, Recorded
<1>3. run'.at = "decide"
  BY <1>2 DEF WInv, TypeOK, Runs
<1> QED
  BY <1>1, <1>3, QuietPaid DEF InHand

LEMMA LoopPaid ==
  ASSUME WInv, PInv, Decide \/ RoundEnds
  PROVE  PInv'
<1>1. CASE RoundEnds
  <2>1. run.at = "round" /\ images' = images /\ run'.at = "inspect"
    BY <1>1 DEF RoundEnds, RoundCheckpointed, WInv, TypeOK, Runs
  <2> QED BY <2>1, QuietPaid DEF InHand
<1>2. CASE Decide
  <2>1. run.at = "decide"
    BY <1>2 DEF Decide
  <2>2. \A e : Stop(e) => images' = images /\ run'.at = "done"
    BY DEF Stop, WInv, TypeOK, Runs
  <2>3. Stopping \/ Passed => images' = images /\ run'.at = "done"
    BY <2>2 DEF Stopping, Passed
  <2>4. LimitReached => images' = images /\ run'.at = "done"
    BY DEF LimitReached, WInv, TypeOK, Runs
  <2>5. NextRound => images' = images /\ run'.at = "inspect"
    BY DEF NextRound, RoundCheckpointed, WInv, TypeOK, Runs
  <2> QED BY <1>2, <2>1, <2>3, <2>4, <2>5, QuietPaid DEF Decide, InHand
<1> QED
  BY <1>1, <1>2

(* The stages after the candidates.                                        *)
LEMMA LaterPaid == ASSUME WInv, PInv, Stages2 PROVE PInv'
<1>1. CASE SelfCheckDisposition
  <2>1. run.at = "next" /\ images' = images /\ \E e : Finish(e)
    BY <1>1 DEF SelfCheckDisposition, At
  <2> QED BY <2>1, FinishQuiet, QuietPaid DEF InHand
<1>2. CASE SelfCheck
  <2>1. \A check, num, cur : LoopFrom(check, num, cur) => run'.at = "inspect"
    BY DEF LoopFrom, WInv, TypeOK, Runs
  <2>2. run.at = "next" /\ images' = images /\ run'.at = "inspect"
    BY <1>2, <2>1 DEF SelfCheck, At
  <2> QED BY <2>2, QuietPaid DEF InHand
<1>3. CASE HumanPrompt
  <2>1. run.at = "next" /\ images' = images /\ \E e : Finish(e)
    BY <1>3 DEF HumanPrompt, At
  <2> QED BY <2>1, FinishQuiet, QuietPaid DEF InHand
<1>4. CASE HumanEdit
  <2>1. PICK source : Buy(Key("edit", source, <<>>), run.data)
    BY <1>4 DEF HumanEdit
  <2>2. run.at = "next" /\ run'.at = "done"
    BY <1>4 DEF HumanEdit, At, WInv, TypeOK, Runs
  <2>3. Key("edit", source, <<>>).kind = "edit"
    BY DEF Key
  <2> QED BY <2>1, <2>2, <2>3, BoughtPaid DEF InHand
<1>5. CASE Final
  <2>1. run.at = "next" /\ images' = images /\ \E e : Finish(e)
    BY <1>5 DEF Final, At
  <2> QED BY <2>1, FinishQuiet, QuietPaid DEF InHand
<1> QED
  BY <1>1, <1>2, <1>3, <1>4, <1>5, ReworkPaid, InspectPaid, LoopPaid
     DEF Stages2

(* A request arrives, waits, starts or ends.                               *)
LEMMA ArrivedPaid ==
  ASSUME WInv, PInv, NEW o, Submit(o) \/ Retry(o) PROVE PInv'
<1>1. run.at = "idle" /\ images' = images /\ run'.at = "queued"
  BY DEF Submit, Retry, Idle
<1> QED
  BY <1>1, QuietPaid DEF InHand

LEMMA RequestPaid ==
  ASSUME WInv, PInv,
         \/ Start \/ Done \/ Refused \/ Raise \/ Crash
         \/ \E o \in Requests(head.data.phase) : Submit(o) \/ Retry(o)
  PROVE  PInv'
<1>1. Idle.at = "idle"
  BY DEF Idle
<1>2. CASE Start
  <2>1. run.at = "queued" /\ images' = images
    BY <1>2 DEF Start
  <2>2. run'.at \in {"next", "idle"}
    BY <1>1, <1>2 DEF Start, Gone, WInv, TypeOK, Runs
  <2> QED BY <2>1, <2>2, QuietPaid DEF InHand
<1>3. CASE Done
  <2>1. run.at = "done" /\ images' = images /\ Finish(run.data)
    BY <1>3 DEF Done
  <2> QED BY <2>1, FinishQuiet, QuietPaid DEF InHand
<1>4. CASE Refused
  <2>1. run.at \in {"queued", "next"} /\ images' = images /\ run' = Idle
    BY <1>4 DEF Refused, Gone
  <2> QED BY <1>1, <2>1, QuietPaid DEF InHand
<1>5. CASE Raise \/ Crash
  <2>1. Drop /\ run' = Idle
    BY <1>5 DEF Raise, Crash, Failed, Gone
  <2> QED BY <1>1, <2>1, DroppedPaid DEF InHand
<1>6. CASE \E o \in Requests(head.data.phase) : Submit(o) \/ Retry(o)
  BY <1>6, ArrivedPaid
<1> QED
  BY <1>2, <1>3, <1>4, <1>5, <1>6

(* The other endpoints: an edit of an annotated image, or no payment.      *)
LEMMA EndpointPaid ==
  ASSUME WInv, PInv,
         \/ Annotate \/ Abandon \/ AddRounds \/ Mark
         \/ \E c \in {head, mark} : HumanTuneBest(c)
         \/ \E c \in {head, mark}, p \in Policies : ForkAfter(c, p) \/ Rerun(c, p)
  PROVE  PInv'
<1>1. CASE Annotate
  <2>1. PICK i : Buy(Key("edit", i, <<>>), head.data)
    BY <1>1 DEF Annotate
  <2>2. run.at \in {"idle", "queued"} /\ run' = run
    BY <1>1 DEF Annotate, Unlocked
  <2>3. Key("edit", i, <<>>).kind = "edit"
    BY DEF Key
  <2> QED BY <2>1, <2>2, <2>3, BoughtPaid DEF InHand
<1>2. CASE Abandon \/ AddRounds \/ Mark
  BY <1>2, StillPaid DEF Abandon, AddRounds, Mark, Dispose
<1>3. CASE \E c \in {head, mark} : HumanTuneBest(c)
  BY <1>3, StillPaid DEF HumanTuneBest
<1>4. CASE \E c \in {head, mark}, p \in Policies : ForkAfter(c, p) \/ Rerun(c, p)
  BY <1>4, StillPaid DEF ForkAfter, Rerun, Branch
<1> QED
  BY <1>1, <1>2, <1>3, <1>4

LEMMA NextPaid == ASSUME WInv, PInv, [Next]_vars PROVE PInv'
<1>1. CASE UNCHANGED vars
  BY <1>1, StillPaid DEF vars
<1> QED
  BY <1>1, StagesPaid, LaterPaid, RequestPaid, EndpointPaid
     DEF Next, Endpoints, Step

LEMMA InitPaid == Init => PInv
<1> SUFFICES ASSUME Init PROVE PInv
  OBVIOUS
<1>1. images = <<>> /\ run.at = "idle"
  BY DEF Init, Idle
<1>2. \A i \in 1..Len(images) : FALSE
  BY <1>1
<1> QED
  BY <1>1, <1>2 DEF PInv, InHand, PaidAgainOnlyAfterALoss

(* A candidate or rework is paid for again only if every earlier image     *)
(* under its key was lost between the payment and its record               *)
(* (batch.py:86, calibration_loop.py:161-162): no retry, round, rerun,     *)
(* branch or crash at any other place buys what the event log has.         *)
THEOREM PaidAgainAlwaysAfterALoss == Spec => []PaidAgainOnlyAfterALoss
<1>1. Init => PInv
  BY InitPaid
<1>2. WInv /\ PInv /\ [Next]_vars => PInv'
  BY NextPaid
<1>3. PInv => PaidAgainOnlyAfterALoss
  BY DEF PInv
<1> QED
  BY <1>1, <1>2, <1>3, AlwaysWInv, PTL DEF Spec

=============================================================================
