---------------------------- MODULE ModelGateway ----------------------------
(***************************************************************************)
(* The paid model calls of model_router/gateway.py.  A call is identified  *)
(* by the hash of everything that determines it; its history is what the   *)
(* project's event log says of that key.  When the outcome is unknown the  *)
(* call may have been charged, and only a human may let it happen again    *)
(* (resolve_unknown_model_call, an HTTP request or the command line, which *)
(* takes no project lock).                                                 *)
(*                                                                         *)
(* Abstractions.                                                           *)
(*  - The project lock gives a key at most one caller at a time (at[k]).   *)
(*  - ModelExecutor.classify calls no failure retryable, so run invokes    *)
(*    the provider once per call.                                          *)
(*  - The prompt audit, usage records and model_config_loaded events       *)
(*    decide nothing and are left out, but for their writes that may fail. *)
(*  - A call refused by its route or capability raises before anything is  *)
(*    written and is left out.                                             *)
(***************************************************************************)
EXTENDS Naturals, Sequences, FiniteSets

CONSTANTS
  Keys,      \* idempotency keys of calls
  Humans,    \* concurrent requests that resolve an unknown outcome
  None,
  MaxCalls,  \* bound: calls per key
  MaxLost    \* bound: answers lost per key

ASSUME GatewayAssumption ==
  /\ None \notin Keys
  /\ MaxCalls \in Nat /\ MaxLost \in Nat

VARIABLES
  log,      \* per key, its events: started, completed, unknown, resolved
  at,       \* per key, where its call stands in memory
  asked,    \* per human: the key it found unresolved and is about to resolve
  charged   \* per key, how often the provider did the work

vars == <<log, at, asked, charged>>

-----------------------------------------------------------------------------
Count(k, type) == Cardinality({n \in 1 .. Len(log[k]) : log[k][n] = type})

Has(k, type) == Count(k, type) > 0

Logged(k, type) == log' = [log EXCEPT ![k] = Append(@, type)]

Goes(k, place) == at' = [at EXCEPT ![k] = place]

Charge(k, n) == charged' = [charged EXCEPT ![k] = @ + n]

(* Mutant: one decision settles a key for ever.                            *)
OutstandingOnce(k) == Has(k, "unknown") /\ ~ Has(k, "resolved")

(* The last event about the outcome leaves it unknown.                     *)
Outstanding(k) ==
  \E n \in 1 .. Len(log[k]) :
    /\ log[k][n] = "unknown"
    /\ \A m \in n + 1 .. Len(log[k]) : log[k][m] # "resolved"

(* unresolved_model_call_actions: what a human is asked to decide.         *)
Unresolved(k) == Has(k, "unknown") /\ ~ Has(k, "resolved")

Init ==
  /\ log = [k \in Keys |-> <<>>]
  /\ at = [k \in Keys |-> "idle"]
  /\ asked = [h \in Humans |-> None]
  /\ charged = [k \in Keys |-> 0]

(* Mutant: the start is not written before the provider is called.         *)
StartUnlogged(k) ==
  /\ at[k] = "idle" /\ ~ Outstanding(k) /\ charged[k] < MaxCalls
  /\ Goes(k, "started")
  /\ UNCHANGED <<log, asked, charged>>

(* call: refused while the outcome of an earlier call is open; otherwise   *)
(* the start is in the log before the provider hears of it.                *)
Start(k) ==
  /\ at[k] = "idle" /\ ~ Outstanding(k) /\ Count(k, "started") < MaxCalls
  /\ Goes(k, "started")
  /\ Logged(k, "started")
  /\ UNCHANGED <<asked, charged>>

Refuse(k) ==
  /\ at[k] = "idle" /\ Outstanding(k)
  /\ Goes(k, "raised")
  /\ UNCHANGED <<log, asked, charged>>

(* invoke(route): the provider answers; refuses, or answers what cannot be *)
(* used; or nothing comes back and it is not known whether it did the work.*)
Invoke(k) ==
  /\ at[k] = "started"
  /\ \/ Goes(k, "answered") /\ Charge(k, 1)
     \/ Goes(k, "raised") /\ \E n \in {0, 1} : Charge(k, n)
     \/ /\ Count(k, "unknown") < MaxLost
        /\ Goes(k, "lost") /\ \E n \in {0, 1} : Charge(k, n)
  /\ UNCHANGED <<log, asked>>

Record(k) ==
  /\ \/ at[k] = "answered" /\ Logged(k, "completed") /\ Goes(k, "returned")
     \/ at[k] = "lost"     /\ Logged(k, "unknown")   /\ Goes(k, "raised")
  /\ UNCHANGED <<asked, charged>>

(* The append of the outcome, or of the usage behind it, raises: the       *)
(* caller sees an exception.                                               *)
RecordFails(k) ==
  /\ at[k] \in {"answered", "lost"}
  /\ Goes(k, "raised")
  /\ \/ UNCHANGED log
     \/ at[k] = "answered" /\ Logged(k, "completed")
  /\ UNCHANGED <<asked, charged>>

(* The caller takes the result or the exception.                           *)
Return(k) ==
  /\ at[k] \in {"returned", "raised"}
  /\ Goes(k, "idle")
  /\ UNCHANGED <<log, asked, charged>>

(* resolve_unknown_model_call: the check and the append are two steps.     *)
CheckUnresolved(h, k) ==
  /\ asked[h] = None /\ Unresolved(k)
  /\ asked' = [asked EXCEPT ![h] = k]
  /\ UNCHANGED <<log, at, charged>>

Resolve(h) ==
  /\ asked[h] # None
  /\ Logged(asked[h], "resolved")
  /\ asked' = [asked EXCEPT ![h] = None]
  /\ UNCHANGED <<at, charged>>

(* The process dies with its calls and requests; the log survives, and     *)
(* with it a start whose outcome nothing records.                          *)
Crash ==
  /\ \/ \E k \in Keys : at[k] # "idle"
     \/ \E h \in Humans : asked[h] # None
  /\ at' = [k \in Keys |-> "idle"]
  /\ asked' = [h \in Humans |-> None]
  /\ UNCHANGED <<log, charged>>

Next ==
  \/ \E k \in Keys : \/ Start(k) \/ Refuse(k) \/ Invoke(k) \/ Record(k)
                     \/ RecordFails(k) \/ Return(k)
  \/ \E h \in Humans : Resolve(h) \/ \E k \in Keys : CheckUnresolved(h, k)
  \/ Crash

Spec == Init /\ [][Next]_vars

-----------------------------------------------------------------------------
TypeOK ==
  /\ log \in [Keys -> Seq({"started", "completed", "unknown", "resolved"})]
  /\ at \in [Keys -> {"idle", "started", "answered", "lost", "returned",
                      "raised"}]
  /\ asked \in [Humans -> Keys \cup {None}]
  /\ charged \in [Keys -> Nat]

(* Whatever the provider charged has a start in the log, written before    *)
(* the call: no crash hides a paid call from the audit.                    *)
ChargesAreAudited == \A k \in Keys : charged[k] <= Count(k, "started")

(* A call with an unknown outcome never starts again before a human        *)
(* decided: the log has a decision between the two.                        *)
NoBlindRetry ==
  \A k \in Keys : \A m, n \in 1 .. Len(log[k]) :
    m < n /\ log[k][m] = "unknown" /\ log[k][n] = "started"
      => \E i \in m + 1 .. n - 1 : log[k][i] = "resolved"
=============================================================================
