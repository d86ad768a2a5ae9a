--------------------------- MODULE ProjectHistory ---------------------------
(***************************************************************************)
(* What a managed project promises to those who read it: a history of      *)
(* immutable checkpoints grouped into branches, of which one is active.    *)
(* Every operation of storage/project_store.py is one atomic step here.    *)
(* A crash, an interrupted write, a recovery or a rollback is no step at   *)
(* all: none of them can be seen through this interface.                   *)
(***************************************************************************)
EXTENDS Naturals

CONSTANTS
  Branches,     \* branch names
  Main,         \* the branch a new project starts on
  States,       \* workflow states a checkpoint may record
  MaxSeq,       \* bound on the checkpoints of one branch
  Policies,     \* configuration bindings (runtime policy, model config, hashes)
  InitPolicy,   \* the binding the project was created with
  Keys,         \* idempotency keys of configuration apply requests
  None          \* absence of any of the above

Ckpt == [branch : Branches, seq : 1 .. MaxSeq, state : States]

(* A branch remembers the checkpoint it was forked from, the configuration *)
(* bound to it, and the apply request that made it, if one did.            *)
Details == [from   : Ckpt \cup {None},
            policy : Policies,
            key    : Keys \cup {None}]

VARIABLES
  head,      \* the active branch and its newest checkpoint
  history,   \* every checkpoint that was ever committed
  lineage,   \* branch -> its details, None for an unused name
  applied    \* key -> the configuration applied before the first step

hvars == <<head, history, lineage, applied>>

InitDetails == [from |-> None, policy |-> InitPolicy, key |-> None]

Init ==
  /\ head = [branch |-> Main, ptr |-> None]
  /\ history = {}
  /\ lineage = [b \in Branches |-> IF b = Main THEN InitDetails ELSE None]
  /\ applied = [k \in Keys |-> None]

(* A step of the workflow succeeded: its checkpoint extends the branch.    *)
Commit(c) ==
  /\ c \notin history
  /\ c.branch = head.branch
  /\ c.seq = IF head.ptr = None THEN 1 ELSE head.ptr.seq + 1
  /\ history' = history \cup {c}
  /\ head' = [head EXCEPT !.ptr = c]
  /\ UNCHANGED <<lineage, applied>>

(* A branch is forked from any committed checkpoint and becomes active.    *)
Fork(b, d) ==
  /\ lineage[b] = None
  /\ d.from \in history
  /\ LET c == [branch |-> b, seq |-> 1, state |-> d.from.state]
     IN  /\ history' = history \cup {c}
         /\ head' = [branch |-> b, ptr |-> c]
  /\ lineage' = [lineage EXCEPT ![b] = d]
  /\ UNCHANGED applied

(* The configuration is replaced while nothing has run yet.                *)
Configure(k, p) ==
  /\ history = {}
  /\ applied[k] = None
  /\ applied' = [applied EXCEPT ![k] = p]
  /\ lineage' = [lineage EXCEPT ![head.branch].policy = p]
  /\ UNCHANGED <<head, history>>

(* Another branch becomes active, at its newest checkpoint.                *)
Switch(c) ==
  /\ c \in history
  /\ \A d \in history : d.branch = c.branch => d.seq <= c.seq
  /\ head' = [branch |-> c.branch, ptr |-> c]
  /\ UNCHANGED <<history, lineage, applied>>

Next ==
  \/ \E c \in Ckpt : Commit(c) \/ Switch(c)
  \/ \E b \in Branches, d \in Details : Fork(b, d)
  \/ \E k \in Keys, p \in Policies : Configure(k, p)

Spec == Init /\ [][Next]_hvars
=============================================================================
