------------------------ MODULE CandidateBatchProofs ------------------------
(***************************************************************************)
(* Theorems about CandidateBatch, for any slots, pool size and humans.     *)
(***************************************************************************)
EXTENDS CandidateBatch, TLAPS

Typed == /\ charged \in [Slots -> Nat]
         /\ batch \in {"none", "running", "raised", "complete"}
         /\ todo \subseteq Slots /\ active \subseteq Slots
         /\ failed \subseteq Slots /\ stored \subseteq Slots

(* A slot is waiting, in the hands of a thread, or stored, never two of    *)
(* them; only a running batch has work; and it has lost no slot.           *)
SlotsApart == /\ todo \cap active = {}
              /\ stored \cap (todo \cup active) = {}

OnlyRunningWorks == batch # "running" => todo = {} /\ active = {}

NoneLost == batch = "running" => Slots = todo \cup active \cup failed \cup stored

BInv == Typed /\ SlotsApart /\ OnlyRunningWorks /\ NoneLost /\ CompleteHasAll

-----------------------------------------------------------------------------
(* Charges are natural numbers, whichever call the provider charges.       *)
LEMMA ChargeTyped ==
  ASSUME charged \in [Slots -> Nat], NEW k \in Slots, NEW n \in Nat, G!Charge(k, n)
  PROVE  /\ charged' \in [Slots -> Nat]
         /\ \A j \in Slots \ {k} : charged'[j] = charged[j]
<1>1. charged[k] + n \in Nat
  OBVIOUS
<1> QED
  BY <1>1 DEF G!Charge

LEMMA InvokeCharges ==
  ASSUME charged \in [Slots -> Nat], NEW k \in Slots, G!Invoke(k)
  PROVE  /\ charged' \in [Slots -> Nat]
         /\ \A j \in Slots \ {k} : charged'[j] = charged[j]
<1>1. PICK n \in {0, 1} : G!Charge(k, n)
  BY DEF G!Invoke
<1> QED
  BY <1>1, ChargeTyped

(* Only a thread that renders makes the provider charge anything.          *)
LEMMA OnlyRenderCharges ==
  ASSUME Next, ~ \E k \in Slots : Render(k)
  PROVE  charged' = charged
<1>1. ASSUME NEW k \in Slots, Take(k) PROVE charged' = charged
  BY <1>1 DEF Take, G!Start, G!Refuse
<1>2. ASSUME NEW k \in Slots, Record(k) PROVE charged' = charged
  BY <1>2 DEF Record, G!Record, G!RecordFails
<1>3. ASSUME NEW k \in Slots, Store(k) \/ Fail(k) PROVE charged' = charged
  BY <1>3 DEF Store, Fail, G!Return
<1>4. ASSUME Generate \/ Finish PROVE charged' = charged
  BY <1>4 DEF Generate, Finish, gateway
<1>5. ASSUME Human PROVE charged' = charged
  BY <1>5 DEF Human, Decide, G!CheckUnresolved, G!Resolve
<1>6. ASSUME Crash PROVE charged' = charged
  BY <1>6 DEF Crash, G!Crash, gateway
<1> QED
  BY <1>1, <1>2, <1>3, <1>4, <1>5, <1>6 DEF Next, Work

LEMMA InitBInv == Init => BInv
  BY DEF Init, G!Init, BInv, Typed, SlotsApart, OnlyRunningWorks, NoneLost,
         CompleteHasAll

LEMMA NextBInv == BInv /\ [Next]_vars => BInv'
<1> SUFFICES ASSUME BInv, [Next]_vars PROVE BInv'
  OBVIOUS
<1> USE DEF BInv, SlotsApart, OnlyRunningWorks, NoneLost, CompleteHasAll
<1>1. CASE Generate
  <2>1. charged' = charged
    BY <1>1 DEF Generate, gateway
  <2> QED
    BY <1>1, <2>1 DEF Generate, Pending, Typed
<1>2. CASE Finish
  <2>1. charged' = charged
    BY <1>2 DEF Finish, gateway
  <2> QED
    BY <1>2, <2>1 DEF Finish, Typed
<1>3. ASSUME NEW k \in Slots, Take(k) PROVE BInv'
  <2>1. charged' = charged
    BY <1>3 DEF Take, G!Start, G!Refuse
  <2> QED
    BY <1>3, <2>1 DEF Take, Typed
<1>4. ASSUME NEW k \in Slots, Render(k) PROVE BInv'
  <2>1. charged' \in [Slots -> Nat]
    BY <1>4, InvokeCharges DEF Render, Typed
  <2> QED
    BY <1>4, <2>1 DEF Render, Typed
<1>5. ASSUME NEW k \in Slots, Record(k) PROVE BInv'
  <2>1. charged' = charged
    BY <1>5 DEF Record, G!Record, G!RecordFails
  <2> QED
    BY <1>5, <2>1 DEF Record, Typed
<1>6. ASSUME NEW k \in Slots, Store(k) PROVE BInv'
  <2>1. charged' = charged
    BY <1>6 DEF Store, G!Return
  <2> QED
    BY <1>6, <2>1 DEF Store, Typed
<1>7. ASSUME NEW k \in Slots, Fail(k) PROVE BInv'
  <2>1. charged' = charged
    BY <1>7 DEF Fail, G!Return
  <2> QED
    BY <1>7, <2>1 DEF Fail, Typed
<1>8. CASE Human
  <2>1. charged' = charged
    BY <1>8 DEF Human, Decide, G!CheckUnresolved, G!Resolve
  <2> QED
    BY <1>8, <2>1 DEF Human, Typed
<1>9. CASE Crash
  <2>1. charged' = charged
    BY <1>9 DEF Crash, G!Crash, gateway
  <2> QED
    BY <1>9, <2>1 DEF Crash, Typed
<1>10. CASE UNCHANGED vars
  BY <1>10 DEF vars, gateway, Typed
<1> QED
  BY <1>1, <1>2, <1>3, <1>4, <1>5, <1>6, <1>7, <1>8, <1>9, <1>10 DEF Next, Work

LEMMA AlwaysBInv == Spec => []BInv
  BY InitBInv, NextBInv, PTL DEF Spec

-----------------------------------------------------------------------------
(* CandidateBatchGenerator.generate returns without failures only when     *)
(* every slot has a stored image.                                          *)
THEOREM CompleteAlwaysHasAll == Spec => []CompleteHasAll
<1>1. BInv => CompleteHasAll
  BY DEF BInv
<1> QED
  BY <1>1, AlwaysBInv, PTL

(* No batch, retry or restart pays again for a candidate that an earlier   *)
(* one stored.                                                             *)
THEOREM StoredAlwaysPaidOnce == Spec => StoredIsPaidOnce
<1>1. BInv /\ [Next]_vars => [\A k \in stored : charged'[k] = charged[k]]_vars
  <2> SUFFICES ASSUME BInv, Next, NEW j \in stored
               PROVE  charged'[j] = charged[j]
    OBVIOUS
  <2>1. j \in Slots /\ j \notin active /\ charged \in [Slots -> Nat]
    BY DEF BInv, SlotsApart, Typed
  <2>2. CASE \E k \in Slots : Render(k)
    <3>1. PICK k \in Slots : Render(k)
      BY <2>2
    <3>2. k # j /\ G!Invoke(k)
      BY <2>1, <3>1 DEF Render
    <3> QED
      BY <2>1, <3>2, InvokeCharges
  <2>3. CASE ~ \E k \in Slots : Render(k)
    BY <2>3, OnlyRenderCharges
  <2> QED
    BY <2>2, <2>3
<1> QED
  BY <1>1, AlwaysBInv, PTL DEF Spec, StoredIsPaidOnce

-----------------------------------------------------------------------------
(* What a slot may have been charged for beyond its excuses: a stored      *)
(* image, an answer in memory, or an unknown outcome that no human has     *)
(* settled yet, which keeps the gateway from starting the call again.      *)
Earned(k) == \/ k \in stored
             \/ at[k] \in {"answered", "lost", "returned"}
             \/ G!Outstanding(k)

Places == {"idle", "started", "answered", "lost", "returned", "raised"}

Events == {"started", "completed", "unknown", "resolved"}

GatewayTyped == /\ log \in [Slots -> Seq(Events)]
                /\ at \in [Slots -> Places]
                /\ asked \in [Humans -> Slots \cup {None}]
                /\ excuses \in [Slots -> Nat]

Accounts ==
  \A k \in Slots :
    /\ at[k] # "idle" => k \in active
    /\ at[k] = "started" => ~ G!Outstanding(k)
    /\ charged[k] <= excuses[k] + (IF Earned(k) THEN 1 ELSE 0)

PInv == GatewayTyped /\ Accounts

(* An event of one call leaves the others; only an unknown outcome makes   *)
(* it outstanding, and it does.                                            *)
LEMMA LoggedOutstanding ==
  ASSUME GatewayTyped, NEW k \in Slots, NEW d \in Events, G!Logged(k, d)
  PROVE  /\ log' \in [Slots -> Seq(Events)]
         /\ \A j \in Slots \ {k} : G!Outstanding(j)' = G!Outstanding(j)
         /\ d = "unknown" => G!Outstanding(k)'
         /\ d # "unknown" /\ ~ G!Outstanding(k) => ~ G!Outstanding(k)'
         /\ d # "resolved" /\ G!Outstanding(k) => G!Outstanding(k)'
<1>1. log[k] \in Seq(Events) /\ Append(log[k], d) \in Seq(Events)
  BY DEF GatewayTyped
<1>2. log' = [log EXCEPT ![k] = Append(@, d)]
  BY DEF G!Logged
<1>3. /\ log' \in [Slots -> Seq(Events)]
      /\ \A j \in Slots \ {k} : log'[j] = log[j]
      /\ log'[k] = Append(log[k], d)
  BY <1>1, <1>2 DEF GatewayTyped
<1>4. /\ Len(log[k]) \in Nat
      /\ Len(log'[k]) = Len(log[k]) + 1
      /\ \A n \in 1 .. Len(log[k]) : log'[k][n] = log[k][n]
      /\ log'[k][Len(log[k]) + 1] = d
  BY <1>1, <1>3
<1>5. \A j \in Slots \ {k} : G!Outstanding(j)' = G!Outstanding(j)
  BY <1>3 DEF G!Outstanding
<1>6. d = "unknown" => G!Outstanding(k)'
  <2>1. \A m \in Len(log[k]) + 2 .. Len(log'[k]) : FALSE
    BY <1>4
  <2> QED
    BY <1>4, <2>1 DEF G!Outstanding
<1>7. ASSUME d # "unknown", G!Outstanding(k)' PROVE G!Outstanding(k)
  <2>1. PICK n \in 1 .. Len(log'[k]) :
          /\ log'[k][n] = "unknown"
          /\ \A m \in n + 1 .. Len(log'[k]) : log'[k][m] # "resolved"
    BY <1>7 DEF G!Outstanding
  <2>2. n \in 1 .. Len(log[k])
    BY <1>4, <1>7, <2>1
  <2>3. log[k][n] = "unknown"
    BY <1>4, <2>1, <2>2
  <2>4. ASSUME NEW m \in n + 1 .. Len(log[k]) PROVE log[k][m] # "resolved"
    <3>1. m \in n + 1 .. Len(log'[k]) /\ m \in 1 .. Len(log[k])
      BY <1>4, <2>2
    <3> QED
      BY <1>4, <2>1, <3>1
  <2> QED
    BY <2>2, <2>3, <2>4 DEF G!Outstanding
<1>8. ASSUME d # "resolved", G!Outstanding(k) PROVE G!Outstanding(k)'
  <2>1. PICK n \in 1 .. Len(log[k]) :
          /\ log[k][n] = "unknown"
          /\ \A m \in n + 1 .. Len(log[k]) : log[k][m] # "resolved"
    BY <1>8 DEF G!Outstanding
  <2>2. n \in 1 .. Len(log'[k]) /\ log'[k][n] = "unknown"
    BY <1>4, <2>1
  <2>3. ASSUME NEW m \in n + 1 .. Len(log'[k]) PROVE log'[k][m] # "resolved"
    <3>1. m = Len(log[k]) + 1 \/ (m \in n + 1 .. Len(log[k]) /\ m \in 1 .. Len(log[k]))
      BY <1>4, <2>1
    <3> QED
      BY <1>4, <1>8, <2>1, <3>1
  <2> QED
    BY <2>2, <2>3 DEF G!Outstanding
<1> QED
  BY <1>3, <1>5, <1>6, <1>7, <1>8

(* A reason is counted for the slots it is given for.                      *)
LEMMA ExcuseCounts ==
  ASSUME excuses \in [Slots -> Nat], NEW S, Excuse(S)
  PROVE  /\ excuses' \in [Slots -> Nat]
         /\ \A j \in Slots : excuses'[j] = excuses[j] + (IF j \in S THEN 1 ELSE 0)
  BY DEF Excuse

LEMMA LogKeepsOutstanding ==
  ASSUME UNCHANGED log
  PROVE  \A j \in Slots : G!Outstanding(j)' = G!Outstanding(j)
  BY DEF G!Outstanding

LEMMA InitPInv == Init => PInv
<1> SUFFICES ASSUME Init PROVE PInv
  OBVIOUS
<1>1. GatewayTyped
  BY DEF Init, G!Init, GatewayTyped, Places
<1>2. \A k \in Slots : at[k] = "idle" /\ charged[k] = 0 /\ excuses[k] = 0
  BY DEF Init, G!Init
<1> QED
  BY <1>1, <1>2 DEF PInv, Accounts

(* The steps of the thread that holds slot k, other than its start.        *)
LEMMA ThreadPInv ==
  ASSUME BInv, PInv, NEW k \in Slots,
         Render(k) \/ Record(k) \/ Store(k) \/ Fail(k)
  PROVE  PInv'
<1>0. /\ GatewayTyped /\ Accounts /\ Typed
      /\ \A j \in Slots : charged[j] \in Nat /\ excuses[j] \in Nat
  BY DEF PInv, BInv, GatewayTyped, Typed
<1>1. CASE Render(k)
  <2>1. at[k] = "started" /\ k \in active /\ UNCHANGED <<log, asked, stored, active>>
    BY <1>1 DEF Render, G!Invoke
  <2>2. PICK n \in {0, 1}, p \in {"answered", "raised", "lost"} :
          G!Goes(k, p) /\ G!Charge(k, n)
    BY <1>1 DEF Render, G!Invoke
  <2>3. /\ at' \in [Slots -> Places] /\ at'[k] = p
        /\ \A j \in Slots \ {k} : at'[j] = at[j]
    BY <2>2, <1>0 DEF G!Goes, GatewayTyped, Places
  <2>4. charged'[k] = charged[k] + n /\ \A j \in Slots \ {k} : charged'[j] = charged[j]
    BY <2>2, <1>0 DEF G!Charge, Typed
  <2>5. /\ excuses' \in [Slots -> Nat]
        /\ \A j \in Slots \ {k} : excuses'[j] = excuses[j]
        /\ excuses'[k] = excuses[k] + (IF p = "raised" /\ n = 1 THEN 1 ELSE 0)
    <3>1. Excuse({j \in {k} : at'[j] = "raised" /\ charged'[j] # charged[j]})
      BY <1>1 DEF Render
    <3> QED
      BY <3>1, <1>0, <2>3, <2>4, ExcuseCounts DEF GatewayTyped
  <2>6. ~ Earned(k)
    <3>1. ~ G!Outstanding(k)
      BY <1>0, <2>1 DEF Accounts
    <3>2. k \notin stored
      BY <2>1 DEF BInv, SlotsApart
    <3> QED
      BY <2>1, <3>1, <3>2 DEF Earned
  <2>7. charged[k] <= excuses[k]
    BY <1>0, <2>6 DEF Accounts
  <2>8. /\ \A j \in Slots \ {k} : Earned(j)' = Earned(j)
        /\ p # "raised" => Earned(k)'
    BY <2>1, <2>3, LogKeepsOutstanding DEF Earned
  <2>9. Accounts'
    <3> SUFFICES ASSUME NEW j \in Slots
                 PROVE  /\ at'[j] # "idle" => j \in active'
                        /\ at'[j] = "started" => ~ G!Outstanding(j)'
                        /\ charged'[j] <= excuses'[j] + (IF Earned(j)' THEN 1 ELSE 0)
      BY DEF Accounts
    <3>1. CASE j = k
      <4>1. charged'[j] <= excuses'[j] + (IF Earned(j)' THEN 1 ELSE 0)
        BY <3>1, <1>0, <2>2, <2>4, <2>5, <2>7, <2>8
      <4> QED
        BY <3>1, <4>1, <2>1, <2>2, <2>3
    <3>2. CASE j # k
      <4>1. G!Outstanding(j)' = G!Outstanding(j)
        BY <2>1, LogKeepsOutstanding
      <4> QED
        BY <3>2, <4>1, <1>0, <2>1, <2>3, <2>4, <2>5, <2>8 DEF Accounts
    <3> QED
      BY <3>1, <3>2
  <2>10. GatewayTyped'
    BY <1>0, <2>1, <2>3, <2>5 DEF GatewayTyped
  <2> QED
    BY <2>9, <2>10 DEF PInv
<1>2. CASE Record(k)
  <2>1. k \in active /\ UNCHANGED <<asked, stored, active, charged>>
    BY <1>2 DEF Record, G!Record, G!RecordFails
  <2>2. CASE G!Record(k) /\ UNCHANGED excuses
    <3>1. PICK d \in {"completed", "unknown"}, p \in {"returned", "raised"} :
            /\ G!Logged(k, d) /\ G!Goes(k, p) /\ at[k] \in {"answered", "lost"}
            /\ d = "completed" => p = "returned"
      BY <2>2 DEF G!Record
    <3>2. /\ at' \in [Slots -> Places] /\ at'[k] = p
          /\ \A j \in Slots \ {k} : at'[j] = at[j]
      BY <3>1, <1>0 DEF G!Goes, GatewayTyped, Places
    <3>3. /\ log' \in [Slots -> Seq(Events)]
          /\ \A j \in Slots \ {k} : G!Outstanding(j)' = G!Outstanding(j)
          /\ d = "unknown" => G!Outstanding(k)'
      BY <3>1, <1>0, LoggedOutstanding DEF Events
    <3>4. /\ Earned(k) /\ Earned(k)'
          /\ \A j \in Slots \ {k} : Earned(j)' = Earned(j)
      BY <2>1, <3>1, <3>2, <3>3 DEF Earned
    <3>5. Accounts'
      <4> SUFFICES ASSUME NEW j \in Slots
                   PROVE  /\ at'[j] # "idle" => j \in active'
                          /\ at'[j] = "started" => ~ G!Outstanding(j)'
                          /\ charged'[j] <= excuses'[j] + (IF Earned(j)' THEN 1 ELSE 0)
        BY DEF Accounts
      <4>1. CASE j = k
        BY <4>1, <1>0, <2>1, <2>2, <3>1, <3>2, <3>4 DEF Accounts
      <4>2. CASE j # k
        BY <4>2, <1>0, <2>1, <2>2, <3>2, <3>3, <3>4 DEF Accounts
      <4> QED
        BY <4>1, <4>2
    <3> QED
      BY <1>0, <2>1, <2>2, <3>2, <3>3, <3>5 DEF PInv, GatewayTyped
  <2>3. CASE G!RecordFails(k) /\ Excuse({k})
    <3>1. G!Goes(k, "raised") /\ (UNCHANGED log \/ G!Logged(k, "completed"))
      BY <2>3 DEF G!RecordFails
    <3>2. /\ at' \in [Slots -> Places] /\ at'[k] = "raised"
          /\ \A j \in Slots \ {k} : at'[j] = at[j]
      BY <3>1, <1>0 DEF G!Goes, GatewayTyped, Places
    <3>3. /\ excuses' \in [Slots -> Nat]
          /\ \A j \in Slots : excuses'[j] = excuses[j] + (IF j = k THEN 1 ELSE 0)
      BY <2>3, <1>0, ExcuseCounts DEF GatewayTyped
    <3>4. /\ log' \in [Slots -> Seq(Events)]
          /\ \A j \in Slots \ {k} : G!Outstanding(j)' = G!Outstanding(j)
      <4>1. CASE UNCHANGED log
        BY <4>1, <1>0, LogKeepsOutstanding DEF GatewayTyped
      <4>2. CASE G!Logged(k, "completed")
        BY <4>2, <1>0, LoggedOutstanding DEF Events
      <4> QED
        BY <3>1, <4>1, <4>2
    <3>5. \A j \in Slots \ {k} : Earned(j)' = Earned(j)
      BY <2>1, <3>2, <3>4 DEF Earned
    <3>6. Accounts'
      <4> SUFFICES ASSUME NEW j \in Slots
                   PROVE  /\ at'[j] # "idle" => j \in active'
                          /\ at'[j] = "started" => ~ G!Outstanding(j)'
                          /\ charged'[j] <= excuses'[j] + (IF Earned(j)' THEN 1 ELSE 0)
        BY DEF Accounts
      <4>1. CASE j = k
        <5>1. charged[k] <= excuses[k] + 1
          BY <1>0 DEF Accounts
        <5> QED
          BY <4>1, <5>1, <1>0, <2>1, <3>2, <3>3
      <4>2. CASE j # k
        BY <4>2, <1>0, <2>1, <3>2, <3>3, <3>4, <3>5 DEF Accounts
      <4> QED
        BY <4>1, <4>2
    <3> QED
      BY <1>0, <2>1, <3>2, <3>3, <3>4, <3>6 DEF PInv, GatewayTyped
  <2> QED
    BY <1>2, <2>2, <2>3 DEF Record
<1>3. CASE Store(k) \/ Fail(k)
  <2>1. /\ G!Goes(k, "idle") /\ UNCHANGED <<log, asked, charged>>
        /\ at[k] \in {"returned", "raised"}
        /\ active' = active \ {k} /\ stored \subseteq stored'
        /\ \A j \in Slots \ {k} : j \in stored' <=> j \in stored
    BY <1>3 DEF Store, Fail, G!Return
  <2>2. /\ at' \in [Slots -> Places] /\ at'[k] = "idle"
        /\ \A j \in Slots \ {k} : at'[j] = at[j]
    BY <2>1, <1>0 DEF G!Goes, GatewayTyped, Places
  <2>3. /\ excuses' \in [Slots -> Nat]
        /\ \A j \in Slots \ {k} : excuses'[j] = excuses[j]
        /\ excuses'[k] = excuses[k] \/ excuses'[k] = excuses[k] + 1
        /\ at[k] = "returned" => k \in stored' \/ excuses'[k] = excuses[k] + 1
    <3>1. CASE Store(k)
      BY <3>1, <1>0 DEF Store, GatewayTyped
    <3>2. CASE Fail(k) /\ at[k] = "returned"
      <4>1. Excuse({k})
        BY <3>2 DEF Fail
      <4> QED
        BY <4>1, <1>0, ExcuseCounts DEF GatewayTyped
    <3>3. CASE Fail(k) /\ at[k] # "returned"
      BY <3>3, <1>0 DEF Fail, GatewayTyped
    <3> QED
      BY <1>3, <3>1, <3>2, <3>3
  <2>4. \A j \in Slots : G!Outstanding(j)' = G!Outstanding(j)
    BY <2>1, LogKeepsOutstanding
  <2>5. /\ \A j \in Slots \ {k} : Earned(j)' = Earned(j)
        /\ at[k] = "raised" /\ Earned(k) => Earned(k)'
        /\ k \in stored' => Earned(k)'
    BY <2>1, <2>2, <2>4 DEF Earned
  <2>6. Accounts'
    <3> SUFFICES ASSUME NEW j \in Slots
                 PROVE  /\ at'[j] # "idle" => j \in active'
                        /\ at'[j] = "started" => ~ G!Outstanding(j)'
                        /\ charged'[j] <= excuses'[j] + (IF Earned(j)' THEN 1 ELSE 0)
      BY DEF Accounts
    <3>1. CASE j = k
      <4>1. charged[k] <= excuses[k] + (IF Earned(k) THEN 1 ELSE 0)
        BY <1>0 DEF Accounts
      <4>2. charged'[k] = charged[k]
        BY <2>1
      <4> QED
        BY <3>1, <4>1, <4>2, <1>0, <2>1, <2>2, <2>3, <2>5
    <3>2. CASE j # k
      BY <3>2, <1>0, <2>1, <2>2, <2>3, <2>4, <2>5 DEF Accounts
    <3> QED
      BY <3>1, <3>2
  <2> QED
    BY <1>0, <2>1, <2>2, <2>3, <2>6 DEF PInv, GatewayTyped
<1> QED
  BY <1>1, <1>2, <1>3

LEMMA NextPInv == BInv /\ PInv /\ [Next]_vars => PInv'
<1> SUFFICES ASSUME BInv, PInv, [Next]_vars PROVE PInv'
  OBVIOUS
<1>0. /\ GatewayTyped /\ Accounts /\ Typed
      /\ \A j \in Slots : charged[j] \in Nat /\ excuses[j] \in Nat
  BY DEF PInv, BInv, GatewayTyped, Typed
<1>1. CASE Generate \/ Finish \/ UNCHANGED vars
  <2>1. UNCHANGED <<log, at, asked, charged, active, stored, excuses>>
    BY <1>1 DEF Generate, Finish, gateway, vars
  <2>2. \A j \in Slots : G!Outstanding(j)' = G!Outstanding(j)
    BY <2>1, LogKeepsOutstanding
  <2>3. \A j \in Slots : Earned(j)' = Earned(j)
    BY <2>1, <2>2 DEF Earned
  <2> QED
    BY <1>0, <2>1, <2>2, <2>3 DEF PInv, GatewayTyped, Accounts
<1>2. ASSUME NEW k \in Slots, Take(k) PROVE PInv'
  <2>1. /\ k \in todo /\ UNCHANGED <<stored, excuses, asked, charged>>
        /\ active' = active \cup {k}
    BY <1>2 DEF Take, G!Start, G!Refuse
  <2>2. CASE G!Start(k)
    <3>1. G!Goes(k, "started") /\ G!Logged(k, "started") /\ ~ G!Outstanding(k)
          /\ at[k] = "idle"
      BY <2>2 DEF G!Start
    <3>2. /\ at' \in [Slots -> Places] /\ at'[k] = "started"
          /\ \A j \in Slots \ {k} : at'[j] = at[j]
      BY <3>1, <1>0 DEF G!Goes, GatewayTyped, Places
    <3>3. /\ log' \in [Slots -> Seq(Events)]
          /\ \A j \in Slots \ {k} : G!Outstanding(j)' = G!Outstanding(j)
          /\ ~ G!Outstanding(k)'
      BY <3>1, <1>0, LoggedOutstanding DEF Events
    <3>4. ~ Earned(k) /\ \A j \in Slots \ {k} : Earned(j)' = Earned(j)
      <4>1. k \notin stored
        BY <2>1 DEF BInv, SlotsApart
      <4> QED
        BY <4>1, <2>1, <3>1, <3>2, <3>3 DEF Earned
    <3>5. Accounts'
      <4> SUFFICES ASSUME NEW j \in Slots
                   PROVE  /\ at'[j] # "idle" => j \in active'
                          /\ at'[j] = "started" => ~ G!Outstanding(j)'
                          /\ charged'[j] <= excuses'[j] + (IF Earned(j)' THEN 1 ELSE 0)
        BY DEF Accounts
      <4>1. CASE j = k
        <5>1. charged[k] <= excuses[k]
          BY <1>0, <3>4 DEF Accounts
        <5> QED
          BY <4>1, <5>1, <1>0, <2>1, <3>2, <3>3
      <4>2. CASE j # k
        BY <4>2, <1>0, <2>1, <3>2, <3>3, <3>4 DEF Accounts
      <4> QED
        BY <4>1, <4>2
    <3> QED
      BY <1>0, <2>1, <3>2, <3>3, <3>5 DEF PInv, GatewayTyped
  <2>3. CASE G!Refuse(k)
    <3>1. G!Goes(k, "raised") /\ UNCHANGED log /\ G!Outstanding(k)
      BY <2>3 DEF G!Refuse
    <3>2. /\ at' \in [Slots -> Places] /\ at'[k] = "raised"
          /\ \A j \in Slots \ {k} : at'[j] = at[j]
      BY <3>1, <1>0 DEF G!Goes, GatewayTyped, Places
    <3>3. \A j \in Slots : G!Outstanding(j)' = G!Outstanding(j)
      BY <3>1, LogKeepsOutstanding
    <3>4. \A j \in Slots : Earned(j) => Earned(j)'
      BY <2>1, <3>1, <3>2, <3>3 DEF Earned
    <3>5. Accounts'
      BY <1>0, <2>1, <3>2, <3>3, <3>4 DEF Accounts
    <3> QED
      BY <1>0, <2>1, <3>1, <3>2, <3>5 DEF PInv, GatewayTyped
  <2> QED
    BY <1>2, <2>2, <2>3 DEF Take
<1>3. ASSUME NEW k \in Slots, Render(k) \/ Record(k) \/ Store(k) \/ Fail(k) PROVE PInv'
  BY <1>3, ThreadPInv
<1>4. CASE Human
  <2>0. UNCHANGED <<at, charged, stored, active>>
    BY <1>4 DEF Human, Decide, G!CheckUnresolved, G!Resolve
  <2>1. ASSUME NEW h \in Humans, NEW k \in Slots, G!CheckUnresolved(h, k), UNCHANGED excuses
        PROVE  PInv'
    <3>1. UNCHANGED log /\ asked' \in [Humans -> Slots \cup {None}]
      BY <2>1, <1>0 DEF G!CheckUnresolved, GatewayTyped
    <3>2. \A j \in Slots : G!Outstanding(j)' = G!Outstanding(j)
      BY <3>1, LogKeepsOutstanding
    <3>3. \A j \in Slots : Earned(j)' = Earned(j)
      BY <2>0, <3>2 DEF Earned
    <3> QED
      BY <1>0, <2>0, <2>1, <3>1, <3>2, <3>3 DEF PInv, GatewayTyped, Accounts
  <2>2. ASSUME NEW h \in Humans, G!Resolve(h), Excuse({asked[h]}) PROVE PInv'
    <3>1. /\ asked[h] \in Slots /\ G!Logged(asked[h], "resolved")
          /\ asked' \in [Humans -> Slots \cup {None}]
      BY <2>2, <1>0 DEF G!Resolve, GatewayTyped
    <3>2. PICK k \in Slots : k = asked[h]
      BY <3>1
    <3>3. /\ excuses' \in [Slots -> Nat]
          /\ \A j \in Slots : excuses'[j] = excuses[j] + (IF j = k THEN 1 ELSE 0)
      BY <2>2, <3>2, <1>0, ExcuseCounts DEF GatewayTyped
    <3>4. /\ log' \in [Slots -> Seq(Events)]
          /\ \A j \in Slots \ {k} : G!Outstanding(j)' = G!Outstanding(j)
          /\ ~ G!Outstanding(k) => ~ G!Outstanding(k)'
      BY <3>1, <3>2, <1>0, LoggedOutstanding DEF Events
    <3>5. \A j \in Slots \ {k} : Earned(j)' = Earned(j)
      BY <2>0, <3>4 DEF Earned
    <3>6. Accounts'
      <4> SUFFICES ASSUME NEW j \in Slots
                   PROVE  /\ at'[j] # "idle" => j \in active'
                          /\ at'[j] = "started" => ~ G!Outstanding(j)'
                          /\ charged'[j] <= excuses'[j] + (IF Earned(j)' THEN 1 ELSE 0)
        BY DEF Accounts
      <4>1. CASE j = k
        <5>1. charged[k] <= excuses[k] + 1
          BY <1>0 DEF Accounts
        <5> QED
          BY <4>1, <5>1, <1>0, <2>0, <3>3, <3>4 DEF Accounts
      <4>2. CASE j # k
        <5>1. /\ at[j] # "idle" => j \in active
              /\ at[j] = "started" => ~ G!Outstanding(j)
              /\ charged[j] <= excuses[j] + (IF Earned(j) THEN 1 ELSE 0)
          BY <1>0 DEF Accounts
        <5>2. Earned(j)' = Earned(j) /\ G!Outstanding(j)' = G!Outstanding(j)
          BY <4>2, <3>4, <3>5
        <5>3. excuses'[j] = excuses[j]
          BY <4>2, <1>0, <3>3
        <5>4. charged'[j] <= excuses'[j] + (IF Earned(j)' THEN 1 ELSE 0)
          <6>1. charged'[j] = charged[j]
            BY <2>0
          <6>2. CASE Earned(j)
            BY <5>1, <5>2, <5>3, <6>1, <6>2
          <6>3. CASE ~ Earned(j)
            BY <5>1, <5>2, <5>3, <6>1, <6>3
          <6> QED
            BY <6>2, <6>3
        <5> QED
          BY <5>1, <5>2, <5>4, <2>0
      <4> QED
        BY <4>1, <4>2
    <3> QED
      BY <1>0, <2>0, <3>1, <3>3, <3>4, <3>6 DEF PInv, GatewayTyped
  <2> QED
    BY <1>4, <2>1, <2>2 DEF Human, Decide
<1>5. CASE Crash
  <2>1. /\ UNCHANGED <<log, charged, stored>>
        /\ active' = {} /\ Excuse({k \in active : at[k] # "raised"})
    BY <1>5 DEF Crash, G!Crash, gateway
  <2>2. /\ at' = [k \in Slots |-> "idle"] \/ (at' = at /\ active = {})
        /\ asked' \in [Humans -> Slots \cup {None}]
    BY <1>5, <1>0 DEF Crash, G!Crash, gateway, GatewayTyped
  <2>3. at' \in [Slots -> Places] /\ \A j \in Slots : at'[j] = "idle"
    BY <1>0, <2>2 DEF Accounts, GatewayTyped, Places
  <2>4. /\ excuses' \in [Slots -> Nat]
        /\ \A j \in Slots : excuses'[j] = excuses[j] +
             (IF j \in {k \in active : at[k] # "raised"} THEN 1 ELSE 0)
    BY <2>1, <1>0, ExcuseCounts DEF GatewayTyped
  <2>5. \A j \in Slots : G!Outstanding(j)' = G!Outstanding(j)
    BY <2>1, LogKeepsOutstanding
  <2>6. ASSUME NEW j \in Slots
        PROVE  charged'[j] <= excuses'[j] + (IF Earned(j)' THEN 1 ELSE 0)
    <3>1. charged[j] <= excuses[j] + (IF Earned(j) THEN 1 ELSE 0)
      BY <1>0 DEF Accounts
    <3>2. CASE j \in active /\ at[j] # "raised"
      BY <3>1, <3>2, <1>0, <2>1, <2>4
    <3>3. CASE ~ (j \in active /\ at[j] # "raised")
      <4>1. Earned(j) => Earned(j)'
        BY <3>3, <1>0, <2>1, <2>5 DEF Earned, Accounts
      <4> QED
        BY <4>1, <3>1, <3>3, <1>0, <2>1, <2>4
    <3> QED
      BY <3>2, <3>3
  <2> QED
    BY <1>0, <2>1, <2>2, <2>3, <2>4, <2>6 DEF PInv, GatewayTyped, Accounts
<1> QED
  BY <1>1, <1>2, <1>3, <1>4, <1>5 DEF Next, Work

LEMMA AlwaysPInv == Spec => []PInv
  BY InitPInv, NextPInv, AlwaysBInv, PTL DEF Spec

(* Every reachable state is well typed: the calls of the slots, what the   *)
(* humans are looking at, and the batch, which is never in a state between *)
(* those that the runner knows.                                            *)
THEOREM BatchTypeCorrect == Spec => []TypeOK
<1>1. BInv /\ PInv => TypeOK
  BY DEF BInv, Typed, PInv, GatewayTyped, Places, Events, TypeOK, G!TypeOK
<1> QED
  BY <1>1, AlwaysBInv, AlwaysPInv, PTL

(* Nobody pays twice for one candidate without a reason: a refusal, a      *)
(* crash, a failing write or the decision of a human comes first.          *)
THEOREM AlwaysPaidAgainForAReason == Spec => []PaidAgainForAReason
<1>1. BInv /\ PInv => PaidAgainForAReason
  <2> SUFFICES ASSUME BInv, PInv, NEW k \in Slots PROVE charged[k] <= 1 + excuses[k]
    BY DEF PaidAgainForAReason
  <2>1. /\ charged[k] <= excuses[k] + (IF Earned(k) THEN 1 ELSE 0)
        /\ charged[k] \in Nat /\ excuses[k] \in Nat
    BY DEF BInv, Typed, PInv, GatewayTyped, Accounts
  <2> QED
    BY <2>1
<1> QED
  BY <1>1, AlwaysBInv, AlwaysPInv, PTL

-----------------------------------------------------------------------------
(* The batch and the gateway. What is proved of the gateway alone holds of *)
(* the calls of a batch.                                                   *)
GP == INSTANCE ModelGatewayProofs WITH Keys <- Slots

(* The calls of a batch are calls of the gateway: whatever the pool, the   *)
(* failures, the crashes and the humans do, each step of a batch is a step *)
(* of ModelGateway over the slots, or leaves its calls alone.              *)
THEOREM BatchUsesTheGateway == Spec => G!Spec
<1>1. Init => G!Init
  BY DEF Init
<1>2. ASSUME [Next]_vars PROVE [G!Next]_(G!vars)
  <2>1. ASSUME NEW k \in Slots, Take(k) PROVE G!Next
    BY <2>1 DEF Take, G!Next
  <2>2. ASSUME NEW k \in Slots, Render(k) PROVE G!Next
    BY <2>2 DEF Render, G!Next
  <2>3. ASSUME NEW k \in Slots, Record(k) PROVE G!Next
    BY <2>3 DEF Record, G!Next
  <2>4. ASSUME NEW k \in Slots, Store(k) \/ Fail(k) PROVE G!Next
    BY <2>4 DEF Store, Fail, G!Next
  <2>5. ASSUME Human PROVE G!Next
    BY <2>5 DEF Human, Decide, G!Next
  <2>6. ASSUME Crash PROVE G!Next \/ UNCHANGED gateway
    BY <2>6 DEF Crash, G!Next
  <2>7. ASSUME Generate \/ Finish PROVE UNCHANGED gateway
    BY <2>7 DEF Generate, Finish
  <2>8. UNCHANGED gateway => UNCHANGED G!vars
    BY DEF gateway, G!vars
  <2>9. UNCHANGED vars => UNCHANGED gateway
    BY DEF vars
  <2> QED
    BY <1>2, <2>1, <2>2, <2>3, <2>4, <2>5, <2>6, <2>7, <2>8, <2>9 DEF Next, Work
<1> QED
  BY <1>1, <1>2, PTL DEF Spec, G!Spec

(* ModelGatewayProofs is about the same gateway.                           *)
LEMMA SameCount == \A k, type : G!Count(k, type) = GP!Count(k, type)
  BY Zenon DEF G!Count, GP!Count, G!Cardinality, GP!Cardinality

LEMMA SameGateway == G!Spec => GP!Spec
<1>1. G!Init => GP!Init
  BY DEF G!Init, GP!Init
<1>0. ASSUME NEW k \in Slots
      PROVE  /\ G!Count(k, "started") = GP!Count(k, "started")
             /\ G!Count(k, "unknown") = GP!Count(k, "unknown")
             /\ G!Outstanding(k) <=> GP!Outstanding(k)
             /\ G!Unresolved(k) <=> GP!Unresolved(k)
  BY SameCount DEF G!Outstanding, GP!Outstanding, G!Unresolved, GP!Unresolved,
                   G!Has, GP!Has
<1>2. G!Next => GP!Next
  <2>1. ASSUME NEW k \in Slots
        PROVE  /\ G!Start(k) => GP!Start(k)
               /\ G!Refuse(k) => GP!Refuse(k)
    BY <1>0 DEF G!Start, GP!Start, G!Refuse, GP!Refuse,
                G!Goes, GP!Goes, G!Logged, GP!Logged
  <2>2. ASSUME NEW k \in Slots, G!Invoke(k) PROVE GP!Invoke(k)
    BY <1>0, <2>2 DEF G!Invoke, GP!Invoke, G!Goes, GP!Goes, G!Charge, GP!Charge
  <2>3. ASSUME NEW k \in Slots
        PROVE  /\ G!Record(k) => GP!Record(k)
               /\ G!RecordFails(k) => GP!RecordFails(k)
               /\ G!Return(k) => GP!Return(k)
    BY DEF G!Record, GP!Record, G!RecordFails, GP!RecordFails, G!Return, GP!Return,
           G!Goes, GP!Goes, G!Logged, GP!Logged
  <2>4. ASSUME NEW h \in Humans
        PROVE  /\ G!Resolve(h) => GP!Resolve(h)
               /\ \A k \in Slots : G!CheckUnresolved(h, k) => GP!CheckUnresolved(h, k)
    BY <1>0 DEF G!Resolve, GP!Resolve, G!CheckUnresolved, GP!CheckUnresolved,
                G!Logged, GP!Logged
  <2>5. G!Crash => GP!Crash
    BY DEF G!Crash, GP!Crash
  <2> QED
    BY <2>1, <2>2, <2>3, <2>4, <2>5 DEF G!Next, GP!Next
<1>3. UNCHANGED G!vars => UNCHANGED GP!vars
  BY DEF G!vars, GP!vars
<1>4. [G!Next]_(G!vars) => [GP!Next]_(GP!vars)
  BY <1>2, <1>3
<1> QED
  BY <1>1, <1>4, PTL DEF G!Spec, GP!Spec

(* What a batch is charged for is in its log, through its retries, crashes *)
(* and partial failures.                                                   *)
THEOREM BatchChargesAreAudited == Spec => []G!ChargesAreAudited
<1>1. GP!Spec => []GP!ChargesAreAudited
  BY GP!ChargesAlwaysAudited, BatchAssumption DEF GP!GatewayAssumption
<1>2. GP!ChargesAreAudited => G!ChargesAreAudited
  BY SameCount DEF GP!ChargesAreAudited, G!ChargesAreAudited
<1> QED
  BY <1>1, <1>2, BatchUsesTheGateway, SameGateway, PTL

(* No slot with an unknown outcome is rendered again before a human        *)
(* decided, also when the whole batch is repeated.                         *)
THEOREM BatchNeverRetriesBlindly == Spec => []G!NoBlindRetry
<1>1. GP!Spec => []GP!NoBlindRetry
  BY GP!NeverBlindRetry, BatchAssumption DEF GP!GatewayAssumption
<1>2. GP!NoBlindRetry => G!NoBlindRetry
  BY DEF GP!NoBlindRetry, G!NoBlindRetry
<1> QED
  BY <1>1, <1>2, BatchUsesTheGateway, SameGateway, PTL
=============================================================================
