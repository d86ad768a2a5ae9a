----------------------------- MODULE WorkOrders -----------------------------
(***************************************************************************)
(* What agent_core/jobs.py promises its callers.  An order is a project    *)
(* and an idempotency key.  It is accepted once, waits, is worked on at    *)
(* most once and ends, possibly without any work; a project has one open   *)
(* order at a time.  Crashes, expiry and cancellation are ways to end.     *)
(***************************************************************************)
CONSTANTS Projects, Keys

VARIABLE order   \* project and key -> none, waiting, working, over

Open == {"waiting", "working"}

Init == order = [o \in Projects \X Keys |-> "none"]

(* Orders of the project that waited too long may end by the same step.    *)
Accept(p, k) ==
  /\ order[<<p, k>>] = "none"
  /\ \A c \in Keys : order[<<p, c>>] # "working"
  /\ \E ended \in SUBSET {o \in Projects \X Keys : order[o] = "waiting"} :
       /\ \A c \in Keys : order[<<p, c>>] = "waiting" => <<p, c>> \in ended
       /\ order' = [o \in Projects \X Keys |->
            IF o = <<p, k>> THEN "waiting"
            ELSE IF o \in ended THEN "over" ELSE order[o]]

Begin(o) == order[o] = "waiting" /\ order' = [order EXCEPT ![o] = "working"]

End(S) == /\ \A o \in S : order[o] \in Open
          /\ order' = [o \in Projects \X Keys |->
                          IF o \in S THEN "over" ELSE order[o]]

Next == \/ \E p \in Projects, k \in Keys : Accept(p, k)
        \/ \E o \in Projects \X Keys : Begin(o)
        \/ \E S \in SUBSET (Projects \X Keys) : End(S)

Spec == Init /\ [][Next]_order
=============================================================================
