------------------------- MODULE ModelGatewayProofs -------------------------
(***************************************************************************)
(* Theorems about ModelGateway, for any calls, humans and bounds.          *)
(***************************************************************************)
EXTENDS ModelGateway, SequenceTheorems, FiniteSetTheorems, TLAPS

Events == {"started", "completed", "unknown", "resolved"}

(* A call that started and has no answer yet is one the provider may still *)
(* charge: its start in the log has to be there for it.                    *)
InFlight(k) == IF at[k] = "started" THEN 1 ELSE 0

ChargesCovered == \A k \in Keys : charged[k] + InFlight(k) <= Count(k, "started")

GInv == TypeOK /\ ChargesCovered /\ NoBlindRetry

-----------------------------------------------------------------------------
(* How often e occurs in the sequence s.                                   *)
At(s, e) == {n \in 1 .. Len(s) : s[n] = e}

LEMMA CountIsNat ==
  ASSUME NEW s \in Seq(Events), NEW e
  PROVE  IsFiniteSet(At(s, e)) /\ Cardinality(At(s, e)) \in Nat
<1>1. Len(s) \in Nat
  OBVIOUS
<1>2. IsFiniteSet(1 .. Len(s))
  BY <1>1, FS_Interval
<1>3. At(s, e) \subseteq 1 .. Len(s)
  BY DEF At
<1>4. IsFiniteSet(At(s, e))
  BY <1>2, <1>3, FS_Subset
<1> QED
  BY <1>4, FS_CardinalityType

LEMMA CountAppend ==
  ASSUME NEW s \in Seq(Events), NEW d \in Events, NEW e
  PROVE  Cardinality(At(Append(s, d), e)) =
           Cardinality(At(s, e)) + (IF d = e THEN 1 ELSE 0)
<1>1. Len(s) \in Nat /\ Len(Append(s, d)) = Len(s) + 1
  OBVIOUS
<1>2. \A n \in 1 .. Len(s) : Append(s, d)[n] = s[n]
  OBVIOUS
<1>3. Append(s, d)[Len(s) + 1] = d
  OBVIOUS
<1>4. CASE d = e
  <2>1. At(Append(s, d), e) = At(s, e) \cup {Len(s) + 1}
    BY <1>1, <1>2, <1>3, <1>4 DEF At
  <2>2. Len(s) + 1 \notin At(s, e)
    BY <1>1 DEF At
  <2>3. Cardinality(At(s, e) \cup {Len(s) + 1}) = Cardinality(At(s, e)) + 1
    BY <2>2, CountIsNat, FS_AddElement
  <2> QED
    BY <2>1, <2>3, <1>4
<1>5. CASE d # e
  <2>1. At(Append(s, d), e) = At(s, e)
    BY <1>1, <1>2, <1>3, <1>5 DEF At
  <2> QED
    BY <2>1, <1>5, CountIsNat
<1> QED
  BY <1>4, <1>5

(* An event in the log of one key: what it does to that log and to counts. *)
LEMMA LoggedCounts ==
  ASSUME TypeOK, NEW k \in Keys, NEW d \in Events, Logged(k, d)
  PROVE  /\ log' \in [Keys -> Seq(Events)]
         /\ \A j \in Keys \ {k} : log'[j] = log[j]
         /\ log'[k] = Append(log[k], d)
         /\ \A j \in Keys : Count(j, "started")' =
              Count(j, "started") + (IF j = k /\ d = "started" THEN 1 ELSE 0)
<1>1. log \in [Keys -> Seq(Events)]
  BY DEF TypeOK, Events
<1>2. /\ log' \in [Keys -> Seq(Events)]
      /\ \A j \in Keys \ {k} : log'[j] = log[j]
      /\ log'[k] = Append(log[k], d)
  <2>1. log[k] \in Seq(Events)
    BY <1>1
  <2>2. Append(log[k], d) \in Seq(Events)
    BY <2>1
  <2> QED
    BY <1>1, <2>2 DEF Logged
<1>3. ASSUME NEW j \in Keys
      PROVE  Count(j, "started")' =
               Count(j, "started") + (IF j = k /\ d = "started" THEN 1 ELSE 0)
  <2>1. /\ Count(j, "started") = Cardinality(At(log[j], "started"))
        /\ Count(j, "started")' = Cardinality(At(log'[j], "started"))
    BY DEF Count, At
  <2>2. log[j] \in Seq(Events)
    BY <1>1
  <2>3. Cardinality(At(log[j], "started")) \in Nat
    BY <2>2, CountIsNat
  <2>4. CASE j = k
    <3>1. Cardinality(At(Append(log[j], d), "started")) =
            Cardinality(At(log[j], "started")) + (IF d = "started" THEN 1 ELSE 0)
      BY <2>2, CountAppend
    <3> QED
      BY <2>1, <2>4, <3>1, <1>2
  <2>5. CASE j # k
    BY <2>1, <2>3, <2>5, <1>2
  <2> QED
    BY <2>4, <2>5
<1> QED
  BY <1>2, <1>3

(* An event other than a start leaves the order of starts and decisions.   *)
LEMMA OtherEventKeepsOrder ==
  ASSUME TypeOK, NoBlindRetry, NEW k \in Keys, NEW d \in Events, Logged(k, d),
         d = "started" => ~ Outstanding(k)
  PROVE  NoBlindRetry'
<1>1. /\ \A j \in Keys \ {k} : log'[j] = log[j]
      /\ log'[k] = Append(log[k], d)
  BY LoggedCounts
<1>2. log[k] \in Seq(Events)
  BY DEF TypeOK, Events
<1>3. /\ Len(log[k]) \in Nat
      /\ Len(log'[k]) = Len(log[k]) + 1
      /\ \A n \in 1 .. Len(log[k]) : log'[k][n] = log[k][n]
      /\ log'[k][Len(log[k]) + 1] = d
  BY <1>1, <1>2
<1>4. ASSUME NEW m \in 1 .. Len(log'[k]), NEW n \in 1 .. Len(log'[k]),
             m < n, log'[k][m] = "unknown", log'[k][n] = "started"
      PROVE  \E i \in m + 1 .. n - 1 : log'[k][i] = "resolved"
  <2>1. m \in 1 .. Len(log[k]) /\ log[k][m] = "unknown"
    BY <1>3, <1>4
  <2>2. CASE n \in 1 .. Len(log[k])
    <3>1. log[k][n] = "started"
      BY <2>2, <1>3, <1>4
    <3>2. PICK i \in m + 1 .. n - 1 : log[k][i] = "resolved"
      BY <2>1, <2>2, <3>1, <1>4 DEF NoBlindRetry
    <3>3. i \in 1 .. Len(log[k])
      BY <2>1, <2>2, <1>3
    <3> QED
      BY <3>2, <3>3, <1>3
  <2>3. CASE n = Len(log[k]) + 1
    <3>1. ~ Outstanding(k)
      BY <2>3, <1>3, <1>4
    <3>2. PICK i \in m + 1 .. Len(log[k]) : log[k][i] = "resolved"
      BY <2>1, <3>1 DEF Outstanding
    <3>3. i \in 1 .. Len(log[k]) /\ i \in m + 1 .. n - 1
      BY <2>1, <2>3, <1>3
    <3> QED
      BY <3>2, <3>3, <1>3
  <2> QED
    BY <2>2, <2>3, <1>3
<1>5. ASSUME NEW j \in Keys \ {k},
             NEW m \in 1 .. Len(log'[j]), NEW n \in 1 .. Len(log'[j]),
             m < n, log'[j][m] = "unknown", log'[j][n] = "started"
      PROVE  \E i \in m + 1 .. n - 1 : log'[j][i] = "resolved"
  BY <1>1, <1>5 DEF NoBlindRetry
<1> QED
  BY <1>4, <1>5 DEF NoBlindRetry

(* A step that leaves the log leaves what the log says.                    *)
LEMMA LogKept ==
  ASSUME TypeOK, NoBlindRetry, UNCHANGED log
  PROVE  /\ NoBlindRetry'
         /\ \A j \in Keys : Count(j, "started")' = Count(j, "started")
         /\ log' \in [Keys -> Seq(Events)]
  BY DEF NoBlindRetry, Count, TypeOK, Events

LEMMA CountsAreNat ==
  ASSUME TypeOK
  PROVE  \A k \in Keys : Count(k, "started") \in Nat
<1> SUFFICES ASSUME NEW k \in Keys PROVE Count(k, "started") \in Nat
  OBVIOUS
<1>1. log[k] \in Seq(Events)
  BY DEF TypeOK, Events
<1> QED
  BY <1>1, CountIsNat DEF Count, At

LEMMA InitGInv == Init => GInv
<1> SUFFICES ASSUME Init PROVE GInv
  OBVIOUS
<1>1. TypeOK
  BY DEF Init, TypeOK
<1>2. ChargesCovered
  BY <1>1, CountsAreNat DEF Init, ChargesCovered, InFlight
<1>3. NoBlindRetry
  BY DEF Init, NoBlindRetry
<1> QED
  BY <1>1, <1>2, <1>3 DEF GInv

LEMMA NextGInv == GInv /\ [Next]_vars => GInv'
<1> SUFFICES ASSUME GInv, [Next]_vars PROVE GInv'
  OBVIOUS
<1> USE DEF GInv
<1>0. \A k \in Keys : Count(k, "started") \in Nat /\ charged[k] \in Nat
  BY CountsAreNat DEF TypeOK
<1>1. ASSUME NEW k \in Keys, Start(k) PROVE GInv'
  <2>1. NoBlindRetry'
    BY <1>1, OtherEventKeepsOrder DEF Start, Events
  <2>2. /\ log' \in [Keys -> Seq(Events)]
        /\ \A j \in Keys : Count(j, "started")' =
             Count(j, "started") + (IF j = k THEN 1 ELSE 0)
    BY <1>1, LoggedCounts DEF Start, Events
  <2>3. TypeOK'
    BY <1>1, <2>2 DEF Start, Goes, TypeOK, Events
  <2>4. ChargesCovered'
    BY <1>0, <1>1, <2>2 DEF Start, Goes, TypeOK, ChargesCovered, InFlight
  <2> QED
    BY <2>1, <2>3, <2>4
<1>2. ASSUME NEW k \in Keys, Refuse(k) \/ Return(k) PROVE GInv'
  <2>1. UNCHANGED <<log, charged>>
    BY <1>2 DEF Refuse, Return
  <2>2. TypeOK'
    BY <1>2 DEF Refuse, Return, Goes, TypeOK
  <2>3. ChargesCovered'
    BY <1>0, <1>2, <2>1, LogKept DEF Refuse, Return, Goes, TypeOK, ChargesCovered, InFlight
  <2> QED
    BY <2>1, <2>2, <2>3, LogKept
<1>3. ASSUME NEW k \in Keys, Invoke(k) PROVE GInv'
  <2>1. UNCHANGED <<log, asked>> /\ at[k] = "started"
    BY <1>3 DEF Invoke
  <2>2. PICK n \in {0, 1}, p \in {"answered", "raised", "lost"} :
          Goes(k, p) /\ Charge(k, n)
    BY <1>3 DEF Invoke
  <2>3. TypeOK'
    BY <2>1, <2>2, <1>0 DEF Goes, Charge, TypeOK
  <2>4. ChargesCovered'
    BY <1>0, <2>1, <2>2, LogKept DEF Goes, Charge, TypeOK, ChargesCovered, InFlight
  <2> QED
    BY <2>1, <2>3, <2>4, LogKept
<1>4. ASSUME NEW k \in Keys, Record(k) PROVE GInv'
  <2>1. PICK d \in {"completed", "unknown"}, p \in {"returned", "raised"} :
          Logged(k, d) /\ Goes(k, p) /\ at[k] # "started"
    BY <1>4 DEF Record
  <2>2. d \in Events /\ d # "started"
    BY DEF Events
  <2>3. NoBlindRetry'
    BY <2>1, <2>2, OtherEventKeepsOrder
  <2>4. /\ log' \in [Keys -> Seq(Events)]
        /\ \A j \in Keys : Count(j, "started")' = Count(j, "started")
    BY <2>1, <2>2, LoggedCounts, <1>0
  <2>5. TypeOK'
    BY <1>4, <2>1, <2>4 DEF Record, Goes, TypeOK, Events
  <2>6. ChargesCovered'
    BY <1>0, <1>4, <2>1, <2>4 DEF Record, Goes, TypeOK, ChargesCovered, InFlight
  <2> QED
    BY <2>3, <2>5, <2>6
<1>5. ASSUME NEW k \in Keys, RecordFails(k) PROVE GInv'
  <2>1. /\ UNCHANGED <<charged, asked>> /\ Goes(k, "raised") /\ at[k] # "started"
        /\ UNCHANGED log \/ Logged(k, "completed")
    BY <1>5 DEF RecordFails, TypeOK
  <2>2. /\ log' \in [Keys -> Seq(Events)] /\ NoBlindRetry'
        /\ \A j \in Keys : Count(j, "started")' = Count(j, "started")
    <3>1. CASE UNCHANGED log
      BY <3>1, LogKept
    <3>2. CASE Logged(k, "completed")
      <4>1. "completed" \in Events /\ "completed" # "started"
        BY DEF Events
      <4> QED
        BY <3>2, <4>1, <1>0, LoggedCounts, OtherEventKeepsOrder
    <3> QED
      BY <2>1, <3>1, <3>2
  <2>3. TypeOK'
    BY <2>1, <2>2 DEF Goes, TypeOK, Events
  <2>4. ChargesCovered'
    BY <1>0, <2>1, <2>2 DEF Goes, TypeOK, ChargesCovered, InFlight
  <2> QED
    BY <2>2, <2>3, <2>4
<1>6. ASSUME NEW h \in Humans, NEW k \in Keys, CheckUnresolved(h, k) PROVE GInv'
  <2>1. UNCHANGED <<log, at, charged>>
    BY <1>6 DEF CheckUnresolved
  <2>2. TypeOK'
    BY <1>6 DEF CheckUnresolved, TypeOK
  <2> QED
    BY <2>1, <2>2, LogKept DEF ChargesCovered, InFlight
<1>7. ASSUME NEW h \in Humans, Resolve(h) PROVE GInv'
  <2>1. asked[h] \in Keys /\ Logged(asked[h], "resolved") /\ "resolved" \in Events
    BY <1>7 DEF Resolve, TypeOK, Events
  <2>2. NoBlindRetry'
    BY <2>1, OtherEventKeepsOrder
  <2>3. /\ log' \in [Keys -> Seq(Events)]
        /\ \A j \in Keys : Count(j, "started")' = Count(j, "started")
    BY <2>1, LoggedCounts, <1>0
  <2>4. TypeOK'
    BY <1>7, <2>3 DEF Resolve, TypeOK, Events
  <2>5. ChargesCovered'
    BY <1>7, <2>3 DEF Resolve, ChargesCovered, InFlight
  <2> QED
    BY <2>2, <2>4, <2>5
<1>8. CASE Crash
  <2>1. UNCHANGED <<log, charged>>
    BY <1>8 DEF Crash
  <2>2. TypeOK'
    BY <1>8 DEF Crash, TypeOK
  <2>3. ChargesCovered'
    BY <1>0, <1>8, <2>1, LogKept DEF Crash, TypeOK, ChargesCovered, InFlight
  <2> QED
    BY <2>1, <2>2, <2>3, LogKept
<1>9. CASE UNCHANGED vars
  <2>1. UNCHANGED <<log, at, asked, charged>>
    BY <1>9 DEF vars
  <2> QED
    BY <2>1, LogKept DEF TypeOK, ChargesCovered, InFlight
<1> QED
  BY <1>1, <1>2, <1>3, <1>4, <1>5, <1>6, <1>7, <1>8, <1>9 DEF Next

LEMMA AlwaysGInv == Spec => []GInv
  BY InitGInv, NextGInv, PTL DEF Spec

-----------------------------------------------------------------------------
(* Every reachable state of the gateway is well typed.                     *)
THEOREM GatewayTypeCorrect == Spec => []TypeOK
<1>1. GInv => TypeOK
  BY DEF GInv
<1> QED
  BY <1>1, AlwaysGInv, PTL

(* RuntimeModelGateway.call writes model_call_started before the provider  *)
(* can charge: no crash, lost answer or failing write hides a charge.      *)
THEOREM ChargesAlwaysAudited == Spec => []ChargesAreAudited
<1>1. GInv => ChargesAreAudited
  <2> SUFFICES ASSUME GInv, NEW k \in Keys PROVE charged[k] <= Count(k, "started")
    BY DEF ChargesAreAudited
  <2>1. Count(k, "started") \in Nat /\ charged[k] \in Nat
    BY CountsAreNat DEF GInv, TypeOK
  <2> QED
    BY <2>1 DEF GInv, ChargesCovered, InFlight
<1> QED
  BY <1>1, AlwaysGInv, PTL

(* A call whose outcome is recorded as unknown never starts again without  *)
(* a decision in between, however requests, retries and crashes interleave.*)
THEOREM NeverBlindRetry == Spec => []NoBlindRetry
<1>1. GInv => NoBlindRetry
  BY DEF GInv
<1> QED
  BY <1>1, AlwaysGInv, PTL
=============================================================================
