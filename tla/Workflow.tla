------------------------------ MODULE Workflow ------------------------------
(***************************************************************************)
(* A project on its way from the intake to the delivery: the run that      *)
(* agent_core/workflow_runner.py makes of a request, the rounds of         *)
(* calibrator/calibration_loop.py and the endpoints of main_front.py that  *)
(* write checkpoints beside it.                                            *)
(*                                                                         *)
(* The store is the newest checkpoint of the current branch, head, and one *)
(* older one, mark; ProjectStore shows that a checkpoint is atomic.  A     *)
(* batch is one image (see CandidateBatch).  A candidate or rework is paid *)
(* for in one step (see ModelGateway) and recorded in the next; a run that *)
(* ends between the two has lost it.  A request reads its snapshot before  *)
(* it waits for the project lock.  Requests of one project are one at a    *)
(* time, as its jobs are (see JobRegistry).                                *)
(***************************************************************************)
EXTENDS WorkflowGates, FiniteSets

CONSTANTS
  Requests(_),   \* the inputs that a page of a phase may send
  IntakeBlocked, \* whether the task at intake has a blocking unknown
  Malformed,     \* a self-check policy that lacks fields
  BranchPhases,  \* bound: phases of the checkpoints branched from
  MaxImages, MaxVersions

ASSUME WorkflowAssumption ==
  /\ IntakeBlocked \in BOOLEAN
  /\ None \notin Stages \cup {"round_limit"}
  /\ Malformed \notin SelfChecks \cup {None}
  /\ MaxImages \in Nat /\ MaxVersions \in Nat

VARIABLES
  head,      \* the newest checkpoint: its node, its data
  policy,    \* the policy the current branch is bound to
  failed,    \* failed_step of the manifest
  mark,      \* an older checkpoint and the policy of its branch
  run,       \* the request being served
  images,    \* the images paid for, with the data at that moment, the keys
             \* each is recorded under, and whether it was lost before that
  judged,    \* inspections recorded: image, task revision, decision
  granted,   \* task revisions a human approved
  accepted,  \* images a human accepted
  delivered, \* deliveries: image and task revision
  wanted     \* versions of the plans that a human asked for

store == <<head, policy, failed, mark>>
ghost == <<granted, accepted, delivered, wanted>>
vars  == <<store, run, images, judged, ghost>>

Acts == {"execute", "edit_and_execute", "skip", "end", "accept_current",
         "human_tune_best", "add_rounds"}

Inputs == Acts \cup
  {"approve_category", "retry_category", "answer", "defaults", "continue",
   "edit", "scope", "approve_task", "approve_skill", "retry_skill", "pick",
   "prompt", "final"}

ActOf(o) == IF o \cap Acts = {} THEN None ELSE CHOOSE a \in Acts : a \in o

(* The snapshot before the first checkpoint.                               *)
Intake ==
  [state |-> None, phase |-> None, domain |-> 0, cat |-> 0, catOk |-> 0,
   blocked |-> IntakeBlocked, asked |-> 0, revs |-> <<>>, rev |-> <<>>,
   ok |-> <<>>, skill |-> 0, skillOk |-> 0, planRev |-> <<>>,
   planPolicy |-> None, frozen |-> None, cands |-> 0, master |-> 0,
   asset |-> 0, seen |-> 0, best |-> 0, checked |-> 0, round |-> 0,
   own |-> None, selected |-> None, status |-> None, satisfied |-> FALSE,
   reason |-> None, tune |-> FALSE, done |-> FALSE]

Idle == [at |-> "idle", data |-> Intake, target |-> None, only |-> None,
         opts |-> {}, policy |-> None, check |-> None, num |-> 0, cur |-> 0,
         seen |-> 0, verdict |-> None, act |-> None, freed |-> 0]

Init ==
  /\ head = [node |-> None, data |-> Intake]
  /\ policy \in Policies
  /\ failed = None /\ mark = None
  /\ run = Idle
  /\ images = <<>> /\ judged = {}
  /\ granted = {} /\ accepted = {} /\ delivered = {} /\ wanted = {}

-----------------------------------------------------------------------------
(* Helpers.                                                                *)

Unlocked == run.at \in {"idle", "queued"}

Save(node, d) == /\ head' = [node |-> node, data |-> d]
                 /\ failed' = None
                 /\ UNCHANGED <<policy, mark>>

Gone == run' = Idle

(* What an image is paid under: a task book that stands approved, and a    *)
(* candidate moreover a released category and released plans.              *)
Released(kind, d) ==
  /\ d.ok # <<>> /\ d.ok = d.rev
  /\ kind = "candidate" => /\ d.cat = d.catOk
                           /\ d.skill > 0 /\ d.skill = d.skillOk

Key(kind, from, scope) == [kind |-> kind, from |-> from, scope |-> scope]

Image(key, d) ==
  [key |-> key, task |-> d.rev, released |-> Released(key.kind, d),
   found |-> {}, lost |-> FALSE]

(* The images the event log has under a key.                               *)
Bought(key) == {i \in 1..Len(images) : key \in images[i].found}

Buy(key, d) ==
  /\ Len(images) < MaxImages
  /\ images' = Append(images, Image(key, d))

Newest == Len(images')

(* Mutant: the key is made of what came back, not of what was asked for.   *)
RecordOfAnswer(key) ==
  images' = [images EXCEPT ![Len(images)].found =
                             {[key EXCEPT !.from = Len(images)]}]

(* candidate_succeeded, rework_completed.                                  *)
Record(key) == images' = [images EXCEPT ![Len(images)].found = {key}]

(* An image is paid for and not yet recorded.                              *)
InHand == {"rendered", "reworked"}

(* The run ends, and what it has in hand is lost.                          *)
Drop == images' = IF run.at \in InHand
                  THEN [images EXCEPT ![Len(images)].lost = TRUE] ELSE images

(* The handler raised: the step is recorded as failed.                     *)
Failed == /\ failed' = run.target
          /\ UNCHANGED <<head, policy, mark>>
          /\ Gone

(* The result e of the handler is checkpointed, and the run stops or goes  *)
(* on; with no valid approval for its domain state it fails instead.       *)
Finish(e) ==
  LET s  == [e EXCEPT !.state = run.target]
      to == DomainTarget(run.target, s)
      f  == Advanced(s, to)
  IN  IF ~ MayAdvance(s, to) THEN Failed
      ELSE /\ Save(run.target, f)
           /\ IF \/ run.only # None \/ f.phase \in Waiting
                 \/ run.target = "final_approval"
              THEN Gone
              ELSE run' = [run EXCEPT !.at = "next", !.data = f,
                                      !.target = NextState(f)]

-----------------------------------------------------------------------------
(* A request.                                                              *)

(* The snapshot and the policy are read, the lock not taken yet.           *)
Submit(o) ==
  /\ run.at = "idle"
  /\ NextState(head.data) # None
  /\ run' = [Idle EXCEPT !.at = "queued", !.data = head.data, !.opts = o,
                         !.target = NextState(head.data), !.only = None,
                         !.policy = policy, !.act = ActOf(o)]
  /\ UNCHANGED <<store, images, judged, ghost>>

(* /retry: a branch from the newest checkpoint, for the failed step only.  *)
Retry(o) ==
  /\ run.at = "idle" /\ failed # None /\ head.node # None
  /\ failed' = None
  /\ run' = [Idle EXCEPT !.at = "queued", !.data = head.data, !.opts = o,
                         !.target = failed, !.only = failed,
                         !.policy = policy, !.act = ActOf(o)]
  /\ UNCHANGED <<head, policy, mark, images, judged, ghost>>

(* The lock is taken; a branch bound to another policy is refused.         *)
Start ==
  /\ run.at = "queued"
  /\ IF run.policy = policy
     THEN run' = [run EXCEPT !.at = "next",
                             !.data.domain = IF @ = 0 THEN 1 ELSE @]
     ELSE Gone
  /\ UNCHANGED <<store, images, judged, ghost>>

(* The lock is not free in time, or the transition is not one of the graph.*)
Refused ==
  /\ \/ run.at = "queued"
     \/ run.at = "next" /\ ~ MayEnter(run.data, run.target)
  /\ Gone
  /\ UNCHANGED <<store, images, judged, ghost>>

At(stage) == /\ run.at = "next" /\ run.target = stage
             /\ MayEnter(run.data, stage)

(* A step may raise wherever it stands: a model call fails, an input is    *)
(* refused, a field is missing.                                            *)
Raise ==
  /\ run.at \notin {"idle", "queued"}
  /\ run.at = "next" => MayEnter(run.data, run.target)
  /\ Failed /\ Drop
  /\ UNCHANGED <<judged, ghost>>

(* The process dies; what is checkpointed or recorded stays.               *)
Crash == /\ run.at # "idle" /\ Gone /\ Drop
         /\ UNCHANGED <<store, judged, ghost>>

-----------------------------------------------------------------------------
(* The stages that pay for no image.                                       *)

CategoryConstraint ==
  /\ At("category_constraint")
  /\ \E e \in Category(run.data, run.opts, run.policy) :
       e.cat <= MaxVersions /\ Finish(e)
  /\ UNCHANGED <<images, judged, ghost>>

IntakeClarify ==
  /\ At("intake_clarify")
  /\ \E e \in Clarify(run.data, run.opts) : Finish(e)
  /\ UNCHANGED <<images, judged, ghost>>

ConfirmationBuild ==
  /\ At("confirmation_build")
  /\ \E e \in Confirmation(run.data, run.opts) :
       /\ Finish(e)
       /\ granted' = IF "approve_task" \in run.opts /\ e.ok # <<>>
                     THEN granted \cup {e.ok} ELSE granted
  /\ UNCHANGED <<images, judged, accepted, delivered, wanted>>

(* _selection, of the one candidate.                                       *)
MasterSelection ==
  /\ At("master_candidate_selection")
  /\ IF "pick" \in run.opts
     THEN /\ run.data.cands # 0
          /\ Finish([run.data EXCEPT !.master = run.data.cands,
                                     !.phase = "master_selected"])
     ELSE Finish([run.data EXCEPT !.phase = "waiting_master_selection"])
  /\ UNCHANGED <<images, judged, ghost>>

(* _final: the asset is the one judged last, and a human confirms.         *)
Deliverable(d) ==
  /\ d.satisfied /\ d.status \in {"completed", "human_accepted"}
  /\ d.checked # 0 /\ d.checked = d.asset
  /\ d.selected # None /\ d.reason # None
  /\ ApprovalValid(d)

Final ==
  LET d == run.data
  IN  /\ At("final_approval")
      /\ "final" \in run.opts /\ Deliverable(d)
      /\ Finish([d EXCEPT !.done = TRUE])
      /\ delivered' = delivered \cup {[image |-> d.asset, task |-> d.rev]}
      /\ UNCHANGED <<images, judged, granted, accepted, wanted>>

-----------------------------------------------------------------------------
(* The candidates.                                                         *)

(* What the plans make of the request; the style gate may ask a human.     *)
PlanCandidates ==
  /\ At("initial_candidate_generation")
  /\ \E e \in SkillsWaiting(run.data, run.opts, run.policy) :
       /\ e.skill <= MaxVersions
       /\ Finish(e)
       /\ wanted' = IF "retry_skill" \in run.opts THEN wanted \cup {e.skill}
                    ELSE wanted
  /\ UNCHANGED <<images, judged, granted, accepted, delivered>>

(* The boundary is checkpointed before the first paid call.                *)
FreezeBoundary ==
  /\ At("initial_candidate_generation")
  /\ \E e \in SkillsReleased(run.data, run.opts, run.policy) :
       LET b == Frozen(e, run.policy)
       IN  /\ e.skill <= MaxVersions
           /\ Save("initial_candidate_generation", b)
           /\ run' = [run EXCEPT !.at = "render", !.data = b]
  /\ UNCHANGED <<images, judged, ghost>>

(* The scope under which a candidate is stored and found again.            *)
Scope(d) == <<d.planRev, d.cat, d.skill, d.planPolicy>>

CandidateKey == Key("candidate", 0, Scope(run.data))

Rendered(k) ==
  run' = [run EXCEPT !.at = "done", !.data.cands = k,
                     !.data.phase = "candidate_generation_completed"]

(* A stored candidate is used, or one is paid for ...                      *)
RenderCandidates ==
  /\ run.at = "render" /\ PlansCurrent(run.data)
  /\ \/ /\ \E k \in Bought(CandidateKey) : Rendered(k)
        /\ UNCHANGED images
     \/ /\ Bought(CandidateKey) = {}
        /\ Buy(CandidateKey, run.data)
        /\ run' = [run EXCEPT !.at = "rendered"]
  /\ UNCHANGED <<store, judged, ghost>>

(* ... and recorded.                                                       *)
CandidateSucceeded ==
  /\ run.at = "rendered"
  /\ Record(CandidateKey) /\ Rendered(Len(images))
  /\ UNCHANGED <<store, judged, ghost>>

(* The result of a handler that has paid is checkpointed.                  *)
Done == /\ run.at = "done"
        /\ Finish(run.data)
        /\ UNCHANGED <<images, judged, ghost>>

-----------------------------------------------------------------------------
(* The self-check: inspections and paid reworks.                           *)

Or(a, b) == IF a # 0 THEN a ELSE b

Accept(i) == /\ accepted' = accepted \cup {i}
             /\ UNCHANGED <<granted, delivered, wanted>>

AtRoundLimit(d) == /\ d.phase = "waiting_human_approval"
                   /\ d.reason = "round_limit"

(* Mutant: without a policy of its own, the one selected last.             *)
SelfCheckPolicySelected(d) == IF d.own = None THEN d.selected ELSE d.own

SelfCheckPolicy(d) == IF d.own = None THEN run.policy.check ELSE d.own

(* The result of a self-check that ends or waits.                          *)
Ended(d, asset, phase, status, reason, chosen) ==
  [d EXCEPT !.asset = asset, !.phase = phase, !.status = status,
            !.reason = reason, !.selected = chosen,
            !.satisfied = phase = "calibration_completed"]

(* The disposition of a project at its limit of rounds.                    *)
SelfCheckDisposition ==
  LET d == run.data
  IN  /\ At("self_check_iteration") /\ AtRoundLimit(d)
      /\ CASE run.act = "accept_current" ->
                /\ Finish([Ended(d, Or(d.asset, d.master),
                                 "calibration_completed", "human_accepted",
                                 "human", SelfCheckPolicy(d))
                           EXCEPT !.checked = Or(d.asset, d.master)])
                /\ Accept(Or(d.asset, d.master))
           [] run.act = "end" ->
                /\ Finish(Ended(d, Or(d.best, Or(d.asset, d.master)),
                                "terminated_without_delivery", "terminated",
                                "human", SelfCheckPolicy(d)))
                /\ UNCHANGED ghost
           [] OTHER -> FALSE
      /\ UNCHANGED <<images, judged>>

(* The policy has all its fields.                                          *)
Usable(d) == SelfCheckPolicy(d) # Malformed

(* The loop starts, at the round of the checkpoint.                        *)
LoopFrom(check, num, cur) ==
  run' = [run EXCEPT !.at = "inspect", !.check = check, !.num = num,
                     !.cur = cur]

SelfCheck ==
  LET d == run.data
      n == d.round + 1
  IN  /\ At("self_check_iteration")
      /\ Usable(d)
      /\ Or(d.asset, d.master) # 0
      /\ IF AtRoundLimit(d) /\ run.act # None
         THEN \/ /\ run.act \in {"execute", "edit_and_execute", "skip"}
                 /\ LoopFrom(SelfCheckPolicy(d), d.round, Or(d.asset, d.master))
              \/ /\ run.act = "add_rounds" /\ n <= MaxRounds
                 /\ LoopFrom([SelfCheckPolicy(d) EXCEPT !.solo = TRUE, !.limit = n],
                             n, Or(d.best, Or(d.asset, d.master)))
         ELSE LoopFrom(SelfCheckPolicy(d), IF d.round = 0 THEN 1 ELSE d.round,
                       Or(d.asset, d.master))
      /\ UNCHANGED <<store, images, judged, ghost>>

(* What a round checkpoints: the context of the run, and its own state.    *)
Round(phase, reason) ==
  [run.data EXCEPT !.state = "self_check_iteration", !.phase = phase,
                   !.round = run.num, !.asset = run.cur, !.seen = run.seen,
                   !.satisfied = FALSE, !.reason = reason, !.best = 0]

Verdicts == {"pass", "continue", "blocked"}

Recorded(image, task) ==
  {v \in Verdicts : [image |-> image, task |-> task, verdict |-> v] \in judged}

Held(v) == run.check.manual \/ v = "blocked"

(* An inspection, once per image and task book; where a human must release *)
(* it, a boundary is checkpointed first.                                   *)
Inspect ==
  LET d == run.data
      known == Recorded(run.cur, d.rev)
      b == [Round("waiting_human_approval", "human")
            EXCEPT !.seen = run.cur, !.status = "waiting_human_decision",
                   !.checked = run.cur, !.selected = run.check]
  IN  /\ run.at = "inspect" /\ run.num <= run.check.limit
      /\ \E v \in IF known = {} THEN Verdicts ELSE known :
           /\ judged' = judged \cup {[image |-> run.cur, task |-> d.rev,
                                      verdict |-> v]}
           /\ run' = [run EXCEPT !.at = "decide", !.verdict = v,
                                 !.seen = run.cur]
           /\ IF Held(v) THEN Save("self_check_iteration", b)
              ELSE UNCHANGED store
      /\ UNCHANGED <<images, ghost>>

(* The decision on an inspection: a human's if it is held, who decides one *)
(* round only; none given, the run waits.                                  *)
Choice == IF Held(run.verdict) THEN run.act ELSE "execute"

(* Mutant: the decision of the human serves every round of the run.        *)
UnusedKept == run.act

Unused == IF Held(run.verdict) THEN None ELSE run.act

Result(phase, status, reason) ==
  [Ended(run.data, run.cur, phase, status, reason, run.check)
   EXCEPT !.round = run.num, !.checked = run.cur, !.seen = run.cur, !.best = 0]

Stop(e) == /\ run' = [run EXCEPT !.at = "done", !.data = e]
           /\ UNCHANGED <<store, images, judged>>

Stopping ==
  \/ /\ Choice = None
     /\ Stop(Result("waiting_human_approval", "waiting_human_decision", "human"))
     /\ UNCHANGED ghost
  \/ /\ Choice = "end"
     /\ Stop(Result("terminated_without_delivery", "terminated", "human"))
     /\ UNCHANGED ghost
  \/ /\ Choice = "accept_current"
     /\ Stop(Result("calibration_completed", "human_accepted", "human"))
     /\ Accept(run.cur)

Goes == Choice \notin {None, "end", "accept_current"}

LastRound == run.num >= run.check.limit

Passed ==
  /\ Goes /\ run.verdict = "pass"
  /\ run.check.solo \/ run.check.early \/ LastRound
  /\ Stop(Result("calibration_completed", "completed", "pass"))
  /\ UNCHANGED ghost

(* The best by verdict and score, of all the project ever inspected.       *)
Best == LET passed == {j \in judged : j.verdict = "pass"}
        IN  {j.image : j \in IF passed = {} THEN judged ELSE passed}

LimitReached ==
  /\ Goes /\ run.verdict # "pass" /\ LastRound
  /\ \E best \in Best :
       /\ Save("self_check_iteration",
               [Round("waiting_human_approval", "round_limit")
                EXCEPT !.status = "waiting_human_decision",
                       !.checked = run.cur, !.best = best])
       /\ run' = [run EXCEPT !.at = "done", !.data =
            [Result("waiting_human_approval", "waiting_human_decision",
                    "round_limit") EXCEPT !.best = best]]
  /\ UNCHANGED <<images, judged, ghost>>

(* The round ends: its checkpoint is written and the next one begins.      *)
RoundCheckpointed ==
  /\ Save("self_check_iteration", Round("round_checkpointed", None))
  /\ run' = [run EXCEPT !.at = "inspect", !.num = @ + 1, !.act = Unused,
                         !.freed = IF Held(run.verdict) THEN @ + 1 ELSE @]
  /\ UNCHANGED <<images, judged, ghost>>

NextRound ==
  /\ Goes /\ ~ LastRound
  /\ \/ run.verdict = "pass" /\ ~ run.check.solo /\ ~ run.check.early
     \/ run.verdict # "pass" /\ Choice = "skip"
  /\ RoundCheckpointed

Decide == /\ run.at = "decide"
          /\ Stopping \/ Passed \/ LimitReached \/ NextRound

(* The delta of a rework: the inspection's, or the human's.                *)
Delta == IF Choice = "edit_and_execute" THEN "edited" ELSE "suggested"

ReworkKey == Key("rework", run.cur, <<run.data.rev, Delta>>)

Reworked(k) == run' = [run EXCEPT !.at = "round", !.cur = k]

(* A stored rework is used, or one is paid for ...                         *)
Rework ==
  /\ run.at = "decide" /\ Goes /\ Choice # "skip"
  /\ run.verdict # "pass" /\ ~ LastRound
  /\ \/ /\ \E k \in Bought(ReworkKey) : Reworked(k)
        /\ UNCHANGED images
     \/ /\ Bought(ReworkKey) = {}
        /\ Buy(ReworkKey, run.data)
        /\ run' = [run EXCEPT !.at = "reworked"]
  /\ UNCHANGED <<store, judged, ghost>>

(* ... and recorded.                                                       *)
ReworkCompleted ==
  /\ run.at = "reworked"
  /\ Record(ReworkKey) /\ Reworked(Len(images))
  /\ UNCHANGED <<store, judged, ghost>>

RoundEnds == run.at = "round" /\ RoundCheckpointed

-----------------------------------------------------------------------------
(* The human's own edits.                                                  *)

(* Mutant: what a human edits counts as accepted.                          *)
TuningAccepted(d, asset) ==
  [d EXCEPT !.asset = asset, !.phase = "calibration_completed",
            !.status = "completed", !.satisfied = TRUE, !.reason = "human",
            !.checked = asset]

Tuning(d, asset) ==
  [d EXCEPT !.asset = asset, !.phase = "waiting_human_tune", !.tune = TRUE,
            !.status = "waiting_human_tune", !.satisfied = FALSE,
            !.reason = "human", !.checked = 0]

Automatic(d) == d.phase = "calibration_completed" /\ ~ d.tune

(* _human_rework without a payment: passed through, accepted or waiting.   *)
HumanPrompt ==
  LET d == run.data
      chosen == IF d.selected # None THEN d.selected
                ELSE IF d.own # None THEN d.own ELSE Malformed
  IN  /\ At("human_prompt_iteration")
      /\ CASE Automatic(d) -> Finish(d) /\ UNCHANGED ghost
           [] ~ Automatic(d) /\ run.act = "accept_current" ->
                /\ d.asset # 0
                /\ Finish([Ended(d, d.asset, "calibration_completed",
                                 "human_accepted", "human", chosen)
                           EXCEPT !.checked = d.asset])
                /\ Accept(d.asset)
           [] OTHER ->
                /\ "prompt" \notin run.opts
                /\ Finish([d EXCEPT !.phase = "waiting_human_tune",
                                    !.tune = TRUE])
                /\ UNCHANGED ghost
      /\ UNCHANGED <<images, judged>>

(* An edit is paid for; at the limit of rounds, of the best image.         *)
HumanEdit ==
  LET d == run.data
      source == IF run.target = "human_prompt_iteration" THEN d.asset
                ELSE Or(d.best, Or(d.asset, d.master))
  IN  /\ \/ At("human_prompt_iteration") /\ ~ Automatic(d)
            /\ run.act # "accept_current"
         \/ At("self_check_iteration") /\ AtRoundLimit(d)
            /\ run.act = "human_tune_best"
      /\ "prompt" \in run.opts /\ source # 0
      /\ Buy(Key("edit", source, <<>>), d)
      /\ run' = [run EXCEPT !.at = "done", !.data = Tuning(d, Newest)]
      /\ UNCHANGED <<store, judged, ghost>>

(* /annotations: an edit of any image, outside a run.                      *)
Annotate ==
  LET d == head.data
  IN  /\ Unlocked /\ d.phase = "waiting_human_tune" /\ d.tune
      /\ \E i \in 1..Len(images) : Buy(Key("edit", i, <<>>), d)
      /\ Save("human_prompt_iteration",
              [Tuning(d, Newest) EXCEPT !.state = "human_prompt_iteration"])
      /\ UNCHANGED <<run, judged, ghost>>

-----------------------------------------------------------------------------
(* /quality-disposition, on the newest checkpoint or a branch from c.      *)

CanTune(d) == d.state = "self_check_iteration" /\ d.asset # 0

Offered(d) ==
  Or(IF AtRoundLimit(d) THEN d.best ELSE 0, Or(d.seen, d.asset))

Dispose(d) ==
  /\ Unlocked
  /\ Save("self_check_iteration", d)
  /\ UNCHANGED <<run, images, judged, ghost>>

(* Of the marked checkpoint it makes a branch bound as that one is.        *)
HumanTuneBest(c) ==
  /\ Unlocked
  /\ c # None /\ CanTune(c.data)
  /\ head' = [node |-> "self_check_iteration",
              data |-> [Tuning(c.data, Offered(c.data)) EXCEPT !.best = 0]]
  /\ policy' = IF c = mark THEN mark.policy ELSE policy
  /\ failed' = None
  /\ UNCHANGED <<mark, run, images, judged, ghost>>

Abandon ==
  LET d == head.data
  IN  /\ AtRoundLimit(d)
      /\ Dispose([d EXCEPT !.phase = "terminated_without_delivery",
                           !.status = "terminated", !.satisfied = FALSE,
                           !.reason = "human"])

(* One more round; the policy is the project's own from now on.            *)
AddRounds ==
  LET d == head.data
      base == IF d.own # None THEN d.own ELSE d.selected
      more == IF base \in {None, Malformed} THEN Malformed
              ELSE [base EXCEPT !.solo = TRUE, !.limit = d.round + 1]
  IN  /\ AtRoundLimit(d) /\ d.round < MaxRounds
      /\ Dispose([d EXCEPT !.asset = Offered(d), !.own = more,
                           !.phase = "additional_rounds_approved",
                           !.status = "pending", !.round = @ + 1,
                           !.best = 0, !.reason = None, !.satisfied = FALSE])

-----------------------------------------------------------------------------
(* Branches.                                                               *)

(* _rewind_stage: what a rerun of a stage starts from.  The fields of the  *)
(* self-check go, those of the stage and of all later ones go.             *)
Unchecked(d) ==
  [d EXCEPT !.seen = 0, !.best = 0, !.checked = 0, !.round = 0,
            !.selected = None, !.status = None, !.satisfied = FALSE,
            !.reason = None, !.tune = FALSE, !.done = FALSE]

From(stage, first) == stage # None /\ Place(stage) <= Place(first)

Cleared(stage, d) ==
  LET c1 == IF From(stage, "category_constraint")
            THEN [d EXCEPT !.cat = 0, !.catOk = 0] ELSE d
      c2 == IF From(stage, "intake_clarify")
            THEN [c1 EXCEPT !.asked = 0, !.blocked = IntakeBlocked] ELSE c1
      c3 == IF From(stage, "confirmation_build")
            THEN [c2 EXCEPT !.revs = <<>>, !.rev = <<>>, !.ok = <<>>] ELSE c2
      c4 == IF From(stage, "initial_candidate_generation")
            THEN [c3 EXCEPT !.skill = 0, !.skillOk = 0, !.planRev = <<>>,
                            !.planPolicy = None, !.cands = 0] ELSE c3
      c5 == IF From(stage, "master_candidate_selection")
            THEN [Unchecked(c4) EXCEPT !.master = 0, !.asset = 0] ELSE c4
  IN  IF stage = "self_check_iteration" THEN Unchecked(c5) ELSE c5

RerunPhase ==
  [category_constraint          |-> "ready_for_category_match",
   intake_clarify               |-> "ready_for_clarification",
   confirmation_build           |-> "ready_for_taskbook",
   initial_candidate_generation |-> "ready_for_style_direction",
   master_candidate_selection   |-> "waiting_master_selection",
   self_check_iteration         |-> "ready_for_quality_inspection",
   human_prompt_iteration       |-> "waiting_human_tune",
   final_approval               |-> "ready_for_final_approval"]

MayRewind(stage, d) ==
  CASE stage = "master_candidate_selection" -> d.cands # 0
    [] stage = "self_check_iteration"       -> d.master # 0 \/ d.asset # 0
    [] OTHER                                -> TRUE

Rewound(stage, d) ==
  [Cleared(stage, d) EXCEPT !.state = stage, !.phase = RerunPhase[stage],
     !.tune = @ \/ stage = "human_prompt_iteration", !.domain = 0]

MayBranch(c) == c # None /\ c.node # None /\ c.data.phase \in BranchPhases

(* A later branch starts from this checkpoint.                             *)
Mark ==
  /\ run.at = "idle" /\ mark = None /\ MayBranch(head)
  /\ mark' = [node |-> head.node, data |-> head.data, policy |-> policy]
  /\ UNCHANGED <<head, policy, failed, run, images, judged, ghost>>

(* A branch from the newest or the marked checkpoint, bound to the latest  *)
(* policy: /branches in both modes, and the activation of a policy.        *)
Branch(c, d, p) ==
  /\ Unlocked
  /\ head' = [node |-> c.node, data |-> d]
  /\ policy' = p /\ failed' = None
  /\ UNCHANGED <<mark, run, images, judged, ghost>>

ForkAfter(c, p) == MayBranch(c) /\ Branch(c, c.data, p)

Rerun(c, p) == /\ MayBranch(c) /\ MayRewind(c.node, c.data)
               /\ Branch(c, Rewound(c.node, c.data), p)

-----------------------------------------------------------------------------
Endpoints == \/ \E o \in Requests(head.data.phase) : Submit(o) \/ Retry(o)
             \/ Annotate \/ Abandon \/ AddRounds \/ Mark
             \/ \E c \in {head, mark} : HumanTuneBest(c)
             \/ \E c \in {head, mark}, p \in Policies :
                  ForkAfter(c, p) \/ Rerun(c, p)

Stages1 == \/ CategoryConstraint \/ IntakeClarify \/ ConfirmationBuild
           \/ PlanCandidates \/ FreezeBoundary \/ RenderCandidates
           \/ CandidateSucceeded \/ MasterSelection

Stages2 == \/ SelfCheckDisposition \/ SelfCheck \/ Inspect \/ Decide \/ Rework
           \/ ReworkCompleted \/ RoundEnds \/ HumanPrompt \/ HumanEdit \/ Final

Step == Start \/ Stages1 \/ Stages2 \/ Done

Next == Endpoints \/ Step \/ Refused \/ Raise \/ Crash

Spec == Init /\ [][Next]_vars

-----------------------------------------------------------------------------
Revisions == Seq(Docs)

Policy == [askCategory : BOOLEAN, askSkill : BOOLEAN, check : SelfChecks]

Phases == Waiting \cup Stays \cup DOMAIN Boundary \cup
          {"category_approved", "ready_to_draft", "task_approved",
           "candidate_generation_completed", "master_selected",
           "calibration_completed", "round_checkpointed",
           "additional_rounds_approved"}

ASSUME PhasesAssumption ==
  /\ None \notin Phases
  /\ \A phase \in Phases \cup {None} : Requests(phase) \subseteq SUBSET Inputs

Statuses == {None, "completed", "human_accepted", "terminated", "pending",
             "waiting_human_decision", "waiting_human_tune"}

Reasons == {None, "round_limit", "human", "pass"}

OwnPolicy == SelfChecks \cup {None, Malformed}

Snapshot ==
  [state : Stages \cup {None}, phase : Phases \cup {None}, domain : 0..16,
   cat : Nat, catOk : Nat, blocked : BOOLEAN, asked : Nat,
   revs : Revisions, rev : Revisions, ok : Revisions,
   skill : Nat, skillOk : Nat, planRev : Revisions,
   planPolicy : Policy \cup {None}, frozen : Policy \cup {None},
   cands : Nat, master : Nat, asset : Nat, seen : Nat, best : Nat,
   checked : Nat, round : Nat, own : OwnPolicy, selected : OwnPolicy,
   status : Statuses, satisfied : BOOLEAN, reason : Reasons,
   tune : BOOLEAN, done : BOOLEAN]

Scopes == {<<>>} \cup (Revisions \X {"suggested", "edited"})
               \cup (Revisions \X Nat \X Nat \X (Policy \cup {None}))

Keys == [kind : {"candidate", "rework", "edit"}, from : Nat, scope : Scopes]

Paid == [key : Keys, task : Revisions, released : BOOLEAN,
         found : SUBSET Keys, lost : BOOLEAN]

Runs == [at : {"idle", "queued", "next", "render", "rendered", "inspect",
               "decide", "reworked", "round", "done"},
         data : Snapshot, target : Stages \cup {None},
         only : Stages \cup {None}, opts : SUBSET Inputs,
         policy : Policies \cup {None}, check : SelfChecks \cup {None},
         num : Nat, cur : Nat, seen : Nat,
         verdict : Verdicts \cup {None}, act : Acts \cup {None}, freed : Nat]

TypeOK ==
  /\ head \in [node : Stages \cup {None}, data : Snapshot]
  /\ policy \in Policies
  /\ failed \in Stages \cup {None}
  /\ mark \in [node : Stages, data : Snapshot, policy : Policies] \cup {None}
  /\ run \in Runs
  /\ run.at \in {"inspect", "decide", "reworked", "round"} => run.check # None
  /\ images \in Seq(Paid)
  /\ judged \subseteq [image : Nat, task : Revisions, verdict : Verdicts]
  /\ granted \subseteq Revisions
  /\ accepted \subseteq Nat
  /\ delivered \subseteq [image : Nat, task : Revisions]
  /\ wanted \subseteq Nat

(* Every paid image is made of a task book that a human approved and that  *)
(* still stands approved, and a candidate of a released category and       *)
(* released style plans, on whatever branch, retry or stale snapshot.      *)
PaidWasReleased ==
  \A i \in 1..Len(images) : images[i].released /\ images[i].task \in granted

(* What is delivered passed an inspection against the delivered task book, *)
(* or a human accepted that very image.                                    *)
DeliveredWasJudged ==
  \A d \in delivered :
    \/ d.image \in accepted
    \/ [image |-> d.image, task |-> d.task, verdict |-> "pass"] \in judged

(* A decision of a human releases one round (calibration_loop.py:96): the  *)
(* next round that must be released waits for a decision of its own.       *)
OneDecisionOneRound ==
  run.freed <= IF ActOf(run.opts) # None THEN 1 ELSE 0

(* A candidate or rework is paid for a second time only if every earlier   *)
(* image under its key was lost: the run failed or died after the payment  *)
(* and before candidate_succeeded (batch.py:86) or rework_completed        *)
(* (calibration_loop.py:162).  Once recorded it is found again, by a       *)
(* retry, a later round, a rerun or another branch.                        *)
PaidAgainOnlyAfterALoss ==
  \A i, j \in 1..Len(images) :
    /\ i < j /\ images[i].key = images[j].key
    /\ images[i].key.kind # "edit"
    => images[i].lost

(* The batch of an approved task book is paid for once, under one category *)
(* and policy, unless it was lost or a human asked for other plans.        *)
BatchPaidOnce ==
  \A i, j \in 1..Len(images) :
    LET u == images[i].key.scope
        v == images[j].key.scope
    IN  /\ images[i].key.kind = "candidate" /\ ~ images[i].lost
        /\ images[j].key.kind = "candidate"
        /\ u[1] = v[1] /\ u[2] = v[2] /\ u[4] = v[4] /\ u[3] < v[3]
        => v[3] \in wanted
=============================================================================
