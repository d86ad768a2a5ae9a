-------------------------- MODULE JobRegistryProofs --------------------------
(***************************************************************************)
(* Theorems about JobRegistry, for any number of projects, keys, jobs and  *)
(* workers, and whether or not the writes of records may fail: its         *)
(* invariants, the timelines, the refinement of WorkOrders and, if writes  *)
(* succeed, that what is in flight is held by the queue or a worker.       *)
(***************************************************************************)
EXTENDS JobRegistry, SequenceTheorems, TLAPS

(* From "check" on, a worker owns its job.                                 *)
Owned == {"check", "execute", "succeeded", "failed", "cancelled"}

(* The invariant without the types: a key names one job, execute() was     *)
(* entered at most once and only for a job that started, a worker past the *)
(* start owns its job, and only a serving process has workers at work.     *)
KeyNamesOneJob ==
  \A i, j \in Existing :
    record[i].project = record[j].project /\ record[i].key = record[j].key => i = j

CallsCounted ==
  \A j \in Jobs :
    /\ calls[j] \in {0, 1}
    /\ calls[j] = 1 => Is(j, {"running", "cancelling", "succeeded", "failed",
                              "interrupted"})
    /\ Is(j, {"failed"}) => calls[j] = 1
    /\ Is(j, {"succeeded"}) => result[j] = "returned"

WorkersOwn ==
  \A w \in Workers : at[w] \in Owned =>
    /\ Is(job[w], {"running", "cancelling"})
    /\ calls[job[w]] = (IF at[w] \in {"check", "cancelled"} THEN 0 ELSE 1)
    /\ at[w] = "succeeded" => result[job[w]] = "returned"
    /\ \A v \in Workers : at[v] \in Owned /\ job[v] = job[w] => v = w

OnlyServingWorks ==
  phase # "up" => pool = <<>> /\ \A w \in Workers : at[w] = "free"

JInv == /\ TypeOK /\ OneJobPerProject /\ KeyNamesOneJob
        /\ CallsCounted /\ WorkersOwn /\ OnlyServingWorks

Places == {"free", "start", "check", "execute", "succeeded", "failed", "cancelled"}

-----------------------------------------------------------------------------
(* What the helpers of the actions do.                                     *)

LEMMA WithType ==
  ASSUME TypeOK, NEW S \in SUBSET Existing, NEW s \in InFlight \cup Terminal
  PROVE  /\ With(S, s) \in [Jobs -> Record \cup {None}]
         /\ \A j \in Jobs :
              /\ (With(S, s)[j] = None) <=> (record[j] = None)
              /\ record[j] # None =>
                   /\ With(S, s)[j].project = record[j].project
                   /\ With(S, s)[j].key = record[j].key
                   /\ With(S, s)[j].status =
                        IF j \in S THEN s ELSE record[j].status
<1> SUFFICES ASSUME NEW j \in Jobs
             PROVE  /\ With(S, s)[j] \in Record \cup {None}
                    /\ (With(S, s)[j] = None) <=> (record[j] = None)
                    /\ record[j] # None =>
                         /\ With(S, s)[j].project = record[j].project
                         /\ With(S, s)[j].key = record[j].key
                         /\ With(S, s)[j].status =
                              IF j \in S THEN s ELSE record[j].status
  BY DEF With
<1>1. record[j] \in Record \cup {None}
  BY DEF TypeOK
<1>2. CASE j \in S
  <2>1. record[j] \in Record
    BY <1>1, <1>2 DEF Existing
  <2>2. [record[j] EXCEPT !.status = s] \in Record
    BY <2>1 DEF Record
  <2>3. With(S, s)[j] = [record[j] EXCEPT !.status = s]
    BY <1>2 DEF With
  <2> QED
    BY <1>2, <2>1, <2>2, <2>3, JobAssumption DEF Record
<1>3. CASE j \notin S
  BY <1>1, <1>3 DEF With
<1> QED
  BY <1>2, <1>3

LEMMA WithOne ==
  ASSUME TypeOK, NEW j \in Existing, NEW s \in InFlight \cup Terminal
  PROVE  /\ With({j}, s) \in [Jobs -> Record \cup {None}]
         /\ \A i \in Jobs :
              /\ (With({j}, s)[i] = None) <=> (record[i] = None)
              /\ record[i] # None =>
                   /\ With({j}, s)[i].project = record[i].project
                   /\ With({j}, s)[i].key = record[i].key
                   /\ With({j}, s)[i].status =
                        IF i = j THEN s ELSE record[i].status
<1> DEFINE S == {j}
<1>1. S \in SUBSET Existing /\ \A i : i \in S <=> i = j
  OBVIOUS
<1> HIDE DEF S
<1>2. /\ With(S, s) \in [Jobs -> Record \cup {None}]
      /\ \A i \in Jobs :
           /\ (With(S, s)[i] = None) <=> (record[i] = None)
           /\ record[i] # None =>
                /\ With(S, s)[i].project = record[i].project
                /\ With(S, s)[i].key = record[i].key
                /\ With(S, s)[i].status = IF i \in S THEN s ELSE record[i].status
  BY <1>1, WithType
<1> QED
  BY <1>1, <1>2 DEF S

LEMMA NotifyType ==
  ASSUME TypeOK, NEW S, NEW s \in InFlight \cup Terminal, Notify(S, s)
  PROVE  told' \in [Jobs -> Seq(InFlight \cup Terminal)]
<1>1. PICK heard \in SUBSET (S \cap callback) :
        told' = [j \in Jobs |-> IF j \in heard THEN Append(told[j], s) ELSE told[j]]
  BY DEF Notify
<1>2. \A j \in Jobs : told[j] \in Seq(InFlight \cup Terminal)
  BY DEF TypeOK
<1>3. \A j \in Jobs : Append(told[j], s) \in Seq(InFlight \cup Terminal)
  BY <1>2, AppendProperties
<1> QED
  BY <1>1, <1>2, <1>3

LEMMA GoType ==
  ASSUME TypeOK, NEW w \in Workers, NEW j \in Jobs \cup {None},
         NEW place \in Places, place = "free" <=> j = None, Go(w, j, place)
  PROVE  /\ job' \in [Workers -> Jobs \cup {None}]
         /\ at' \in [Workers -> Places]
         /\ \A v \in Workers : at'[v] = "free" <=> job'[v] = None
         /\ job'[w] = j /\ at'[w] = place
         /\ \A v \in Workers \ {w} : job'[v] = job[v] /\ at'[v] = at[v]
BY DEF TypeOK, Go, Places

(* A queued job may end without work: nothing else is affected.            *)
LEMMA EndQueued ==
  ASSUME JInv, NEW S \in SUBSET Jobs, \A j \in S : Is(j, {"queued"}),
         NEW s \in {"stalled", "cancelled"}, record' = With(S, s),
         UNCHANGED <<calls, result>>
  PROVE  /\ record' \in [Jobs -> Record \cup {None}]
         /\ OneJobPerProject' /\ KeyNamesOneJob' /\ CallsCounted'
         /\ \A j \in Jobs : Is(j, {"running", "cancelling"})
                              => Is(j, {"running", "cancelling"})'
<1>1. TypeOK /\ S \in SUBSET Existing /\ s \in InFlight \cup Terminal
  BY DEF JInv, Existing, Is, InFlight, Terminal
<1>2. /\ record' \in [Jobs -> Record \cup {None}]
      /\ \A j \in Jobs :
           /\ (record'[j] = None) <=> (record[j] = None)
           /\ record[j] # None =>
                /\ record'[j].project = record[j].project
                /\ record'[j].key = record[j].key
                /\ record'[j].status = IF j \in S THEN s ELSE record[j].status
  BY <1>1, WithType
<1>3. OneJobPerProject'
  BY <1>2 DEF JInv, OneJobPerProject, Is, InFlight
<1>4. KeyNamesOneJob'
  BY <1>2 DEF JInv, KeyNamesOneJob, Existing
<1>5. CallsCounted'
  BY <1>2 DEF JInv, CallsCounted, Is
<1>6. \A j \in Jobs : Is(j, {"running", "cancelling"})
                        => Is(j, {"running", "cancelling"})'
  BY <1>2 DEF Is
<1> QED
  BY <1>2, <1>3, <1>4, <1>5, <1>6

(* Workers that keep or drop their jobs still own them.                    *)
LEMMA WorkersKept ==
  ASSUME JInv, UNCHANGED <<calls, result>>,
         \A w \in Workers : at'[w] \in Owned => at'[w] = at[w] /\ job'[w] = job[w],
         \A j \in Jobs : Is(j, {"running", "cancelling"})
                           => Is(j, {"running", "cancelling"})'
  PROVE  WorkersOwn'
<1> SUFFICES ASSUME NEW w \in Workers, at'[w] \in Owned
             PROVE  /\ Is(job[w], {"running", "cancelling"})'
                    /\ calls[job[w]] =
                         (IF at[w] \in {"check", "cancelled"} THEN 0 ELSE 1)
                    /\ at[w] = "succeeded" => result[job[w]] = "returned"
                    /\ \A v \in Workers : at'[v] \in Owned /\ job'[v] = job'[w]
                                            => v = w
  BY DEF WorkersOwn, Is
<1>1. at[w] \in Owned /\ job[w] \in Jobs
  BY DEF JInv, TypeOK, Owned
<1> QED
  BY <1>1 DEF JInv, WorkersOwn

-----------------------------------------------------------------------------
(* The HTTP threads.                                                       *)

LEMMA ExpireStep ==
  ASSUME JInv, NEW S \in SUBSET Jobs, \A j \in S : Expirable(j), Expire(S),
         UNCHANGED <<pool, job, at, cancelSet, overdue, phase, scan, calls, result>>
  PROVE  JInv'
<1>1. \A j \in S : Is(j, {"queued"})
  BY DEF Expirable
<1>2. /\ record' \in [Jobs -> Record \cup {None}]
      /\ OneJobPerProject' /\ KeyNamesOneJob' /\ CallsCounted'
      /\ \A j \in Jobs : Is(j, {"running", "cancelling"})
                           => Is(j, {"running", "cancelling"})'
  BY <1>1, EndQueued DEF Expire
<1>3. WorkersOwn'
  BY <1>2, WorkersKept
<1>4. told' \in [Jobs -> Seq(InFlight \cup Terminal)]
  BY NotifyType DEF JInv, Expire, Terminal
<1>5. TypeOK'
  BY <1>2, <1>4 DEF JInv, TypeOK, Expire
<1>6. OnlyServingWorks'
  BY DEF JInv, OnlyServingWorks
<1> QED
  BY <1>2, <1>3, <1>5, <1>6 DEF JInv

LEMMA SubmitExistingStep ==
  ASSUME JInv, NEW p \in Projects, NEW k \in Keys, SubmitExisting(p, k)
  PROVE  JInv'
<1>1. PICK S \in SUBSET Jobs : Expire(S) /\ \A j \in S : Expirable(j)
  BY DEF SubmitExisting, Existing
<1> QED
  BY <1>1, ExpireStep DEF SubmitExisting

LEMMA ObserveStep == ASSUME JInv, Observe PROVE JInv'
<1>1. PICK S \in SUBSET Jobs : Expire(S) /\ \A j \in S : Expirable(j)
  BY DEF Observe, Existing
<1> QED
  BY <1>1, ExpireStep DEF Observe

(* The new job is the only one of its project in flight and of its key.    *)
LEMMA SubmitNewStep ==
  ASSUME JInv, NEW p \in Projects, NEW k \in Keys, NEW j \in Jobs,
         SubmitNew(p, k, j)
  PROVE  JInv'
<1> DEFINE late == {i \in Existing : Expirable(i)}
           new == [project |-> p, key |-> k, status |-> "queued"]
           late_ended == With(late, "stalled")
<1>1. TypeOK /\ record[j] = None /\ late \in SUBSET Existing
      /\ "stalled" \in InFlight \cup Terminal
  BY DEF JInv, SubmitNew, Terminal
<1>2. /\ late_ended \in [Jobs -> Record \cup {None}]
      /\ \A i \in Jobs :
           /\ (late_ended[i] = None) <=> (record[i] = None)
           /\ record[i] # None =>
                /\ late_ended[i].project = record[i].project
                /\ late_ended[i].key = record[i].key
                /\ late_ended[i].status =
                     IF i \in late THEN "stalled" ELSE record[i].status
  BY <1>1, WithType
<1>3. new \in Record /\ new # None
  BY JobAssumption DEF Record, InFlight
<1>4. record' = [late_ended EXCEPT ![j] = new]
  BY DEF SubmitNew
<1>5. record' \in [Jobs -> Record \cup {None}] /\ record'[j] = new
      /\ \A i \in Jobs \ {j} : record'[i] = late_ended[i]
  BY <1>2, <1>3, <1>4
<1>6. \A i \in Existing :
        /\ record[i].project = p => ~ Is(i, InFlight) \/ i \in late
        /\ record[i].project = p => record[i].key # k
  BY DEF SubmitNew, Matches
<1>7. \A i \in Jobs \ {j} : /\ Is(i, InFlight)' => Is(i, InFlight) /\ i \notin late
                            /\ Is(i, {"queued"})' => Is(i, {"queued"})
                            /\ record'[i] # None => i \in Existing
  BY <1>2, <1>5 DEF Is, InFlight, Existing
<1>8. OneJobPerProject'
  <2>1. \A i \in Jobs \ {j} : Is(i, InFlight)' => record'[i].project # p
    BY <1>2, <1>5, <1>6, <1>7 DEF Is, Existing
  <2>2. \A i \in Jobs \ {j} : Is(i, InFlight)' => record'[i].project = record[i].project
    BY <1>2, <1>5, <1>7 DEF Is, Existing
  <2>3. record'[j].project = p
    BY <1>5
  <2> QED
    BY <1>7, <2>1, <2>2, <2>3 DEF JInv, OneJobPerProject
<1>9. KeyNamesOneJob'
  <2>1. \A i \in Jobs \ {j} : record'[i] # None =>
          /\ record'[i].project = record[i].project /\ record'[i].key = record[i].key
          /\ ~ (record'[i].project = p /\ record'[i].key = k)
    BY <1>2, <1>5, <1>6, <1>7 DEF Existing
  <2>2. record'[j].project = p /\ record'[j].key = k
    BY <1>5
  <2> QED
    BY <1>7, <2>1, <2>2 DEF JInv, KeyNamesOneJob, Existing
<1>10. CallsCounted'
  <2>1. calls[j] = 0 /\ calls' = calls /\ result' = result
    BY <1>1 DEF JInv, CallsCounted, Is, SubmitNew
  <2>2. \A i \in Jobs \ {j} :
          \A T \in {{"failed"}, {"succeeded"}} : Is(i, T)' => Is(i, T)
    BY <1>2, <1>5 DEF Is
  <2>3. \A i \in Jobs \ {j} : calls[i] = 1 =>
          Is(i, {"running", "cancelling", "succeeded", "failed", "interrupted"})'
    BY <1>2, <1>5 DEF Is, JInv, CallsCounted, Expirable
  <2>4. ~ Is(j, {"failed"})' /\ ~ Is(j, {"succeeded"})'
    BY <1>5 DEF Is
  <2> QED
    BY <2>1, <2>2, <2>3, <2>4 DEF JInv, CallsCounted
<1>11. \A i \in Jobs : Is(i, {"running", "cancelling"})
                         => Is(i, {"running", "cancelling"})'
  BY <1>1, <1>2, <1>5 DEF Is, Expirable
<1>12. WorkersOwn'
  BY <1>11, WorkersKept DEF SubmitNew
<1>13. told' \in [Jobs -> Seq(InFlight \cup Terminal)]
  <2>1. PICK heard \in SUBSET Jobs :
          told' = [i \in Jobs |->
                 IF i \notin heard THEN told[i]
                 ELSE Append(told[i], IF i = j THEN "queued" ELSE "stalled")]
    BY DEF SubmitNew, Existing
  <2>2. \A i \in Jobs : told[i] \in Seq(InFlight \cup Terminal)
    BY <1>1 DEF TypeOK
  <2>3. \A i \in Jobs : Append(told[i], IF i = j THEN "queued" ELSE "stalled")
                          \in Seq(InFlight \cup Terminal)
    BY <2>2, AppendProperties DEF InFlight, Terminal
  <2> QED
    BY <2>1, <2>2, <2>3
<1>14. pool' \in Seq(Jobs)
  BY <1>1, AppendProperties DEF TypeOK, SubmitNew
<1>15. callback' \subseteq Jobs
  BY <1>1 DEF TypeOK, SubmitNew
<1>16. TypeOK'
  BY <1>1, <1>5, <1>13, <1>14, <1>15 DEF TypeOK, SubmitNew
<1>17. OnlyServingWorks'
  BY DEF JInv, OnlyServingWorks, SubmitNew
<1> QED
  BY <1>8, <1>9, <1>10, <1>12, <1>16, <1>17 DEF JInv

LEMMA CancelQueuedStep ==
  ASSUME JInv, NEW j \in Jobs, CancelQueued(j)
  PROVE  JInv'
<1>1. {j} \in SUBSET Jobs /\ \A i \in {j} : Is(i, {"queued"})
  BY DEF CancelQueued, Cancellable
<1>2. /\ record' \in [Jobs -> Record \cup {None}]
      /\ OneJobPerProject' /\ KeyNamesOneJob' /\ CallsCounted'
      /\ \A i \in Jobs : Is(i, {"running", "cancelling"})
                           => Is(i, {"running", "cancelling"})'
  BY <1>1, EndQueued DEF CancelQueued
<1>3. WorkersOwn'
  BY <1>2, WorkersKept DEF CancelQueued
<1>4. told' \in [Jobs -> Seq(InFlight \cup Terminal)]
  BY NotifyType DEF JInv, CancelQueued, Terminal
<1>5. TypeOK'
  BY <1>2, <1>4 DEF JInv, TypeOK, CancelQueued
<1>6. OnlyServingWorks'
  BY DEF JInv, OnlyServingWorks, CancelQueued
<1> QED
  BY <1>2, <1>3, <1>5, <1>6 DEF JInv

LEMMA CancelRunningStep ==
  ASSUME JInv, NEW j \in Jobs, CancelRunning(j)
  PROVE  JInv'
<1>1. TypeOK /\ {j} \in SUBSET Existing /\ "cancelling" \in InFlight \cup Terminal
  BY DEF JInv, CancelRunning, Is, Existing, InFlight
<1>2. /\ record' \in [Jobs -> Record \cup {None}]
      /\ \A i \in Jobs :
           /\ (record'[i] = None) <=> (record[i] = None)
           /\ record[i] # None =>
                /\ record'[i].project = record[i].project
                /\ record'[i].key = record[i].key
                /\ record'[i].status =
                     IF i \in {j} THEN "cancelling" ELSE record[i].status
  BY <1>1, WithType DEF CancelRunning
<1>3. record[j] # None /\ record[j].status = "running"
  BY DEF CancelRunning, Is
<1>4. OneJobPerProject'
  BY <1>2, <1>3 DEF JInv, OneJobPerProject, Is, InFlight
<1>5. KeyNamesOneJob'
  BY <1>2 DEF JInv, KeyNamesOneJob, Existing
<1>6. CallsCounted'
  BY <1>2, <1>3 DEF JInv, CallsCounted, Is, CancelRunning
<1>7. \A i \in Jobs : Is(i, {"running", "cancelling"})
                        => Is(i, {"running", "cancelling"})'
  BY <1>2 DEF Is
<1>8. WorkersOwn'
  BY <1>7, WorkersKept DEF CancelRunning
<1>9. TypeOK'
  BY <1>2 DEF JInv, TypeOK, CancelRunning
<1>10. OnlyServingWorks'
  BY DEF JInv, OnlyServingWorks, CancelRunning
<1> QED
  BY <1>4, <1>5, <1>6, <1>8, <1>9, <1>10 DEF JInv

-----------------------------------------------------------------------------
(* The workers.                                                            *)

LEMMA TakeStep == ASSUME JInv, NEW w \in Workers, Take(w) PROVE JInv'
<1>1. /\ TypeOK /\ pool \in Seq(Jobs) /\ pool # <<>>
      /\ Head(pool) \in Jobs /\ Tail(pool) \in Seq(Jobs)
  <2>1. pool \in Seq(Jobs) /\ pool # <<>>
    BY DEF JInv, TypeOK, Take
  <2> QED
    BY <2>1, HeadTailProperties DEF JInv
<1>2. Head(pool) # None
  BY <1>1, JobAssumption
<1>3. /\ job' \in [Workers -> Jobs \cup {None}] /\ at' \in [Workers -> Places]
      /\ \A v \in Workers : at'[v] = "free" <=> job'[v] = None
      /\ job'[w] = Head(pool) /\ at'[w] = "start"
      /\ \A v \in Workers \ {w} : job'[v] = job[v] /\ at'[v] = at[v]
  <2>1. Go(w, Head(pool), "start") /\ "start" \in Places
    BY DEF Take, Places
  <2> QED
    BY <1>1, <1>2, <2>1, GoType
<1>4. WorkersOwn'
  <2>1. \A v \in Workers : at'[v] \in Owned => at'[v] = at[v] /\ job'[v] = job[v]
    BY <1>3 DEF Owned
  <2>2. \A j \in Jobs : Is(j, {"running", "cancelling"})
                          => Is(j, {"running", "cancelling"})'
    BY DEF Is, Take
  <2> QED
    BY <2>1, <2>2, WorkersKept DEF Take
<1>5. TypeOK'
  BY <1>1, <1>3 DEF TypeOK, Take, Places
<1>6. OneJobPerProject' /\ KeyNamesOneJob' /\ CallsCounted'
  BY DEF JInv, OneJobPerProject, KeyNamesOneJob, CallsCounted, Existing, Is, Take
<1>7. OnlyServingWorks'
  BY <1>1 DEF JInv, OnlyServingWorks, Take
<1> QED
  BY <1>4, <1>5, <1>6, <1>7 DEF JInv

(* A worker that serves holds a job, so the process serves.                *)
LEMMA AtWork ==
  ASSUME JInv, NEW w \in Workers, at[w] # "free"
  PROVE  job[w] \in Jobs /\ phase = "up"
BY DEF JInv, TypeOK, OnlyServingWorks

LEMMA StartStep == ASSUME JInv, NEW w \in Workers, Start(w) PROVE JInv'
<1>0. PICK j \in Jobs : job[w] = j
  BY AtWork DEF Start
<1>1. TypeOK /\ phase = "up" /\ j # None
  BY AtWork, JobAssumption DEF JInv, Start
<1>2. record[j] # None /\ record[j].status = "queued"
  BY <1>0 DEF Start, MayStart, Is
<1>3. j \in Existing /\ {j} \in SUBSET Jobs /\ "running" \in InFlight \cup Terminal
  BY <1>1, <1>2 DEF Existing, InFlight
<1>4. /\ record' \in [Jobs -> Record \cup {None}]
      /\ \A i \in Jobs :
           /\ (record'[i] = None) <=> (record[i] = None)
           /\ record[i] # None =>
                /\ record'[i].project = record[i].project
                /\ record'[i].key = record[i].key
                /\ record'[i].status = IF i = j THEN "running" ELSE record[i].status
  <2>1. record' = With({j}, "running")
    BY <1>0 DEF Start
  <2>2. TypeOK /\ j \in Existing /\ "running" \in InFlight \cup Terminal
    BY <1>1, <1>3
  <2> DEFINE next == With({j}, "running")
  <2>4. /\ next \in [Jobs -> Record \cup {None}]
        /\ \A i \in Jobs :
             /\ (next[i] = None) <=> (record[i] = None)
             /\ record[i] # None =>
                  /\ next[i].project = record[i].project
                  /\ next[i].key = record[i].key
                  /\ next[i].status = IF i = j THEN "running" ELSE record[i].status
    BY <2>2, WithOne
  <2> QED
    BY <2>1, <2>4
<1>5. /\ job' \in [Workers -> Jobs \cup {None}] /\ at' \in [Workers -> Places]
      /\ \A v \in Workers : at'[v] = "free" <=> job'[v] = None
      /\ job'[w] = j /\ at'[w] = "check"
      /\ \A v \in Workers \ {w} : job'[v] = job[v] /\ at'[v] = at[v]
  <2>1. Go(w, j, "check") /\ "check" \in Places
    BY <1>0 DEF Start, Places
  <2> QED
    BY <1>1, <2>1, GoType
<1>6. calls[j] = 0
  BY <1>1, <1>2 DEF JInv, CallsCounted, Is
<1>7. OneJobPerProject'
  BY <1>2, <1>4 DEF JInv, OneJobPerProject, Is, InFlight
<1>8. KeyNamesOneJob'
  BY <1>4 DEF JInv, KeyNamesOneJob, Existing
<1>9. CallsCounted'
  BY <1>2, <1>4, <1>6 DEF JInv, CallsCounted, Is, Start
<1>10. WorkersOwn'
  <2>1. ASSUME NEW v \in Workers, at[v] \in Owned
        PROVE  job[v] # j /\ job[v] \in Jobs /\ at[v] # "free"
    <3>1. Is(job[v], {"running", "cancelling"})
      BY <2>1 DEF JInv, WorkersOwn
    <3>2. at[v] # "free"
      BY <2>1 DEF Owned
    <3>3. job[v] \in Jobs
      BY <1>1, <3>2 DEF TypeOK
    <3> QED
      BY <1>2, <3>1, <3>2, <3>3 DEF Is
  <2>2. \A i \in Jobs : i # j /\ Is(i, {"running", "cancelling"}) =>
          record'[i] # None /\ record'[i].status \in {"running", "cancelling"}
    BY <1>4 DEF Is
  <2>3. record'[j] # None /\ record'[j].status \in {"running", "cancelling"}
    BY <1>2, <1>4
  <2>4. calls' = calls /\ result' = result
    BY DEF Start
  <2>5. \A v \in Workers : at'[v] \in Owned /\ v # w =>
          at[v] \in Owned /\ at'[v] = at[v] /\ job'[v] = job[v] /\ job[v] # j
    BY <1>5, <2>1
  <2>6. ASSUME NEW v \in Workers, at'[v] \in Owned
        PROVE  /\ record'[job'[v]] # None
               /\ record'[job'[v]].status \in {"running", "cancelling"}
               /\ calls[job'[v]] = (IF at'[v] \in {"check", "cancelled"} THEN 0 ELSE 1)
               /\ at'[v] = "succeeded" => result[job'[v]] = "returned"
               /\ \A u \in Workers : at'[u] \in Owned /\ job'[u] = job'[v] => u = v
    <3>1. CASE v = w
      BY <1>5, <1>6, <2>3, <2>5, <3>1
    <3>2. CASE v # w
      <4>1. at[v] \in Owned /\ at'[v] = at[v] /\ job'[v] = job[v] /\ job[v] # j
        BY <2>5, <2>6, <3>2
      <4>2. /\ Is(job[v], {"running", "cancelling"})
            /\ calls[job[v]] = (IF at[v] \in {"check", "cancelled"} THEN 0 ELSE 1)
            /\ at[v] = "succeeded" => result[job[v]] = "returned"
            /\ \A u \in Workers : at[u] \in Owned /\ job[u] = job[v] => u = v
        BY <4>1 DEF JInv, WorkersOwn
      <4>3. job[v] \in Jobs
        BY <2>1, <4>1
      <4>4. \A u \in Workers : at'[u] \in Owned /\ job'[u] = job'[v] => u = v
        BY <1>5, <2>5, <4>1, <4>2
      <4> QED
        BY <2>2, <4>1, <4>2, <4>3, <4>4
    <3> QED
      BY <3>1, <3>2
  <2> QED
    BY <2>4, <2>6 DEF WorkersOwn, Is
<1>11. told' \in [Jobs -> Seq(InFlight \cup Terminal)]
  BY <1>0, <1>1, <1>3, NotifyType DEF Start
<1>12. TypeOK'
  BY <1>1, <1>4, <1>5, <1>11 DEF TypeOK, Start, Places
<1>13. OnlyServingWorks'
  BY <1>1 DEF OnlyServingWorks, Start
<1> QED
  BY <1>7, <1>8, <1>9, <1>10, <1>12, <1>13 DEF JInv

(* A worker that lets go of its job.                                       *)
LEMMA ReleaseType ==
  ASSUME TypeOK, NEW w \in Workers, Release(w)
  PROVE  /\ job' \in [Workers -> Jobs \cup {None}]
         /\ at' \in [Workers -> Places]
         /\ \A v \in Workers : at'[v] = "free" <=> job'[v] = None
         /\ at'[w] = "free"
         /\ \A v \in Workers \ {w} : job'[v] = job[v] /\ at'[v] = at[v]
         /\ \A v \in Workers : at'[v] \in Owned => at'[v] = at[v] /\ job'[v] = job[v]
<1>1. Go(w, None, "free") /\ "free" \in Places
  BY DEF Release, Places
<1>2. /\ job' \in [Workers -> Jobs \cup {None}]
      /\ at' \in [Workers -> Places]
      /\ \A v \in Workers : at'[v] = "free" <=> job'[v] = None
      /\ at'[w] = "free"
      /\ \A v \in Workers \ {w} : job'[v] = job[v] /\ at'[v] = at[v]
  BY <1>1, GoType
<1> QED
  BY <1>2 DEF Owned

LEMMA RefuseStep == ASSUME JInv, NEW w \in Workers, Refuse(w) PROVE JInv'
<1> DEFINE late == {j \in {job[w]} : Expirable(j)}
<1>1. TypeOK /\ job[w] \in Jobs /\ phase = "up"
  BY AtWork DEF JInv, Refuse
<1>2. late \in SUBSET Jobs /\ \A j \in late : Is(j, {"queued"})
  BY <1>1 DEF Expirable
<1>3. record' = With(late, "stalled") /\ Notify(late, "stalled")
  BY DEF Refuse
<1>4. /\ record' \in [Jobs -> Record \cup {None}]
      /\ OneJobPerProject' /\ KeyNamesOneJob' /\ CallsCounted'
      /\ \A j \in Jobs : Is(j, {"running", "cancelling"})
                           => Is(j, {"running", "cancelling"})'
  <2> HIDE DEF late
  <2> QED
    BY <1>2, <1>3, EndQueued DEF Refuse
<1>5. /\ job' \in [Workers -> Jobs \cup {None}]
      /\ at' \in [Workers -> Places]
      /\ \A v \in Workers : at'[v] = "free" <=> job'[v] = None
      /\ \A v \in Workers : at'[v] \in Owned => at'[v] = at[v] /\ job'[v] = job[v]
  BY <1>1, ReleaseType DEF Refuse
<1>6. WorkersOwn'
  BY <1>4, <1>5, WorkersKept DEF Refuse
<1>7. told' \in [Jobs -> Seq(InFlight \cup Terminal)]
  <2>1. "stalled" \in InFlight \cup Terminal
    BY DEF Terminal
  <2> HIDE DEF late
  <2> QED
    BY <1>1, <1>3, <2>1, NotifyType
<1>8. TypeOK'
  BY <1>1, <1>4, <1>5, <1>7 DEF TypeOK, Refuse, Places
<1>9. OnlyServingWorks'
  BY <1>1 DEF OnlyServingWorks, Refuse
<1> QED
  BY <1>4, <1>6, <1>8, <1>9 DEF JInv

LEMMA CheckCancelStep == ASSUME JInv, NEW w \in Workers, CheckCancel(w) PROVE JInv'
<1> DEFINE j == job[w]
<1>1. TypeOK /\ j \in Jobs /\ phase = "up" /\ j # None
  BY AtWork, JobAssumption DEF JInv, CheckCancel
<1>2. /\ Is(j, {"running", "cancelling"}) /\ calls[j] = 0
      /\ \A v \in Workers : at[v] \in Owned /\ job[v] = j => v = w
  BY DEF JInv, WorkersOwn, CheckCancel, Owned
<1>3. PICK place \in {"cancelled", "execute"} :
        /\ Go(w, j, place)
        /\ calls' = IF place = "execute" THEN [calls EXCEPT ![j] = @ + 1] ELSE calls
  BY DEF CheckCancel
<1>4. /\ job' \in [Workers -> Jobs \cup {None}] /\ at' \in [Workers -> Places]
      /\ \A v \in Workers : at'[v] = "free" <=> job'[v] = None
      /\ job'[w] = j /\ at'[w] = place
      /\ \A v \in Workers \ {w} : job'[v] = job[v] /\ at'[v] = at[v]
  <2>1. place \in Places /\ place # "free"
    BY DEF Places
  <2> QED
    BY <1>1, <1>3, <2>1, GoType
<1>5. /\ calls' \in [Jobs -> Nat]
      /\ calls'[j] = (IF place = "execute" THEN 1 ELSE 0)
      /\ \A i \in Jobs \ {j} : calls'[i] = calls[i]
  BY <1>1, <1>2, <1>3 DEF TypeOK
<1>6. record' = record /\ result' = result
  BY DEF CheckCancel
<1>7. OneJobPerProject' /\ KeyNamesOneJob'
  BY <1>6 DEF JInv, OneJobPerProject, KeyNamesOneJob, Existing, Is
<1>8. CallsCounted'
  <2>1. ASSUME NEW i \in Jobs
        PROVE  /\ calls'[i] \in {0, 1}
               /\ calls'[i] = 1 => Is(i, {"running", "cancelling", "succeeded",
                                          "failed", "interrupted"})
               /\ Is(i, {"failed"}) => calls'[i] = 1
               /\ Is(i, {"succeeded"}) => result[i] = "returned"
    <3>1. CASE i = j
      BY <1>2, <1>5, <3>1 DEF Is, JInv, CallsCounted
    <3>2. CASE i # j
      BY <1>5, <3>2 DEF JInv, CallsCounted
    <3> QED
      BY <3>1, <3>2
  <2> QED
    BY <1>6, <2>1 DEF CallsCounted, Is
<1>9. WorkersOwn'
  <2>1. ASSUME NEW v \in Workers, at'[v] \in Owned
        PROVE  /\ Is(job'[v], {"running", "cancelling"})
               /\ calls'[job'[v]] = (IF at'[v] \in {"check", "cancelled"} THEN 0 ELSE 1)
               /\ at'[v] = "succeeded" => result[job'[v]] = "returned"
               /\ \A u \in Workers : at'[u] \in Owned /\ job'[u] = job'[v] => u = v
    <3>1. CASE v = w
      BY <1>2, <1>4, <1>5, <3>1
    <3>2. CASE v # w
      <4>1. at[v] \in Owned /\ job[v] # j /\ job[v] \in Jobs
        BY <1>1, <1>2, <1>4, <2>1, <3>2 DEF TypeOK, Owned
      <4> QED
        BY <1>2, <1>4, <1>5, <2>1, <3>2, <4>1 DEF JInv, WorkersOwn
    <3> QED
      BY <3>1, <3>2
  <2> QED
    BY <1>6, <2>1 DEF WorkersOwn, Is
<1>10. TypeOK'
  BY <1>1, <1>4, <1>5 DEF TypeOK, CheckCancel, Places
<1>11. OnlyServingWorks'
  BY <1>1 DEF OnlyServingWorks, CheckCancel
<1> QED
  BY <1>7, <1>8, <1>9, <1>10, <1>11 DEF JInv

LEMMA ExecuteStep == ASSUME JInv, NEW w \in Workers, Execute(w) PROVE JInv'
<1>0. PICK j \in Jobs : job[w] = j
  BY AtWork DEF Execute
<1>1. TypeOK /\ phase = "up" /\ j # None /\ at[w] = "execute"
  BY AtWork, JobAssumption DEF JInv, Execute
<1>2. /\ Is(j, {"running", "cancelling"}) /\ calls[j] = 1
      /\ \A v \in Workers : at[v] \in Owned /\ job[v] = j => v = w
  BY <1>0, <1>1 DEF JInv, WorkersOwn, Owned
<1>3. PICK outcome \in {"returned", "raised"} :
        /\ result' = [result EXCEPT ![j] = outcome]
        /\ Go(w, j, IF outcome = "returned" THEN "succeeded" ELSE "failed")
  BY <1>0 DEF Execute
<1>4. PICK place \in {"succeeded", "failed"} :
        Go(w, j, place) /\ (place = "succeeded" <=> outcome = "returned")
  BY <1>3
<1>5. /\ job' \in [Workers -> Jobs \cup {None}] /\ at' \in [Workers -> Places]
      /\ \A v \in Workers : at'[v] = "free" <=> job'[v] = None
      /\ job'[w] = j /\ at'[w] = place
      /\ \A v \in Workers \ {w} : job'[v] = job[v] /\ at'[v] = at[v]
  <2>1. place \in Places /\ place # "free"
    BY DEF Places
  <2> QED
    BY <1>1, <1>4, <2>1, GoType
<1>6. /\ result' \in [Jobs -> {"returned", "raised", None}]
      /\ result'[j] = outcome
      /\ \A i \in Jobs \ {j} : result'[i] = result[i]
  BY <1>1, <1>3 DEF TypeOK
<1>7. record' = record /\ calls' = calls
  BY DEF Execute
<1>8. OneJobPerProject' /\ KeyNamesOneJob'
  BY <1>7 DEF JInv, OneJobPerProject, KeyNamesOneJob, Existing, Is
<1>9. CallsCounted'
  <2>1. ~ Is(j, {"succeeded"})
    BY <1>2 DEF Is
  <2>2. \A i \in Jobs : Is(i, {"succeeded"}) => result'[i] = "returned"
    BY <1>6, <2>1 DEF JInv, CallsCounted
  <2> QED
    BY <1>7, <2>2 DEF JInv, CallsCounted, Is
<1>10. WorkersOwn'
  <2>1. ASSUME NEW v \in Workers, at'[v] \in Owned
        PROVE  /\ Is(job'[v], {"running", "cancelling"})
               /\ calls[job'[v]] = (IF at'[v] \in {"check", "cancelled"} THEN 0 ELSE 1)
               /\ at'[v] = "succeeded" => result'[job'[v]] = "returned"
               /\ \A u \in Workers : at'[u] \in Owned /\ job'[u] = job'[v] => u = v
    <3>1. CASE v = w
      BY <1>2, <1>4, <1>5, <1>6, <3>1
    <3>2. CASE v # w
      <4>1. at[v] \in Owned /\ job[v] # j /\ job[v] \in Jobs
        BY <1>1, <1>2, <1>5, <2>1, <3>2 DEF TypeOK, Owned
      <4> QED
        BY <1>2, <1>5, <1>6, <2>1, <3>2, <4>1 DEF JInv, WorkersOwn
    <3> QED
      BY <3>1, <3>2
  <2> QED
    BY <1>7, <2>1 DEF WorkersOwn, Is
<1>11. TypeOK'
  BY <1>1, <1>5, <1>6 DEF TypeOK, Execute, Places
<1>12. OnlyServingWorks'
  BY <1>1 DEF OnlyServingWorks, Execute
<1> QED
  BY <1>8, <1>9, <1>10, <1>11, <1>12 DEF JInv

(* The final record of a job that its worker owns.                         *)
LEMMA FinishStep == ASSUME JInv, NEW w \in Workers, Finish(w) PROVE JInv'
<1>0. PICK j \in Jobs : job[w] = j
  BY AtWork DEF Finish
<1>1. /\ TypeOK /\ phase = "up" /\ j # None
      /\ at[w] \in {"succeeded", "failed", "cancelled"}
  BY AtWork, JobAssumption DEF JInv, Finish
<1>2. /\ Is(j, {"running", "cancelling"})
      /\ at[w] \in {"succeeded", "failed"} => calls[j] = 1
      /\ at[w] = "cancelled" => calls[j] = 0
      /\ at[w] = "succeeded" => result[j] = "returned"
      /\ \A v \in Workers : at[v] \in Owned /\ job[v] = j => v = w
  BY <1>0, <1>1 DEF JInv, WorkersOwn, Owned
<1>3. /\ record' \in [Jobs -> Record \cup {None}]
      /\ \A i \in Jobs :
           /\ (record'[i] = None) <=> (record[i] = None)
           /\ record[i] # None =>
                /\ record'[i].project = record[i].project
                /\ record'[i].key = record[i].key
                /\ record'[i].status = IF i = j THEN at[w] ELSE record[i].status
  <2>1. PICK s \in {"succeeded", "failed", "cancelled"} : s = at[w]
    BY <1>1
  <2>2. record' = With({j}, s)
    BY <1>0, <2>1 DEF Finish
  <2>3. TypeOK /\ j \in Existing /\ s \in InFlight \cup Terminal
    BY <1>1, <1>2 DEF Existing, Is, Terminal
  <2> DEFINE next == With({j}, s)
  <2>4. /\ next \in [Jobs -> Record \cup {None}]
        /\ \A i \in Jobs :
             /\ (next[i] = None) <=> (record[i] = None)
             /\ record[i] # None =>
                  /\ next[i].project = record[i].project
                  /\ next[i].key = record[i].key
                  /\ next[i].status = IF i = j THEN s ELSE record[i].status
    BY <2>3, WithOne
  <2> QED
    BY <2>1, <2>2, <2>4
<1>4. /\ job' \in [Workers -> Jobs \cup {None}]
      /\ at' \in [Workers -> Places]
      /\ \A v \in Workers : at'[v] = "free" <=> job'[v] = None
      /\ at'[w] = "free"
      /\ \A v \in Workers \ {w} : job'[v] = job[v] /\ at'[v] = at[v]
      /\ \A v \in Workers : at'[v] \in Owned => at'[v] = at[v] /\ job'[v] = job[v]
  BY <1>1, ReleaseType DEF Finish
<1>5. calls' = calls /\ result' = result
  BY DEF Finish
<1>6. OneJobPerProject'
  <2>1. \A i \in Jobs : Is(i, InFlight)' => Is(i, InFlight)
    BY <1>1, <1>3 DEF Is, InFlight
  <2>2. \A i \in Jobs : Is(i, InFlight)' => record'[i].project = record[i].project
    BY <1>3 DEF Is
  <2> QED
    BY <2>1, <2>2 DEF JInv, OneJobPerProject
<1>7. KeyNamesOneJob'
  BY <1>3 DEF JInv, KeyNamesOneJob, Existing
<1>8. CallsCounted'
  <2>1. record[j] # None /\ record'[j] # None /\ record'[j].status = at[w]
    BY <1>2, <1>3 DEF Is
  <2>2. ASSUME NEW i \in Jobs
        PROVE  /\ calls[i] \in {0, 1}
               /\ calls[i] = 1 => record'[i] # None /\ record'[i].status \in
                    {"running", "cancelling", "succeeded", "failed", "interrupted"}
               /\ record'[i] # None /\ record'[i].status = "failed" => calls[i] = 1
               /\ record'[i] # None /\ record'[i].status = "succeeded"
                    => result[i] = "returned"
    <3>1. CASE i = j
      BY <1>1, <1>2, <2>1, <3>1
    <3>2. CASE i # j
      BY <1>3, <3>2 DEF JInv, CallsCounted, Is
    <3> QED
      BY <3>1, <3>2
  <2> QED
    BY <1>5, <2>2 DEF CallsCounted, Is
<1>9. WorkersOwn'
  <2>1. ASSUME NEW v \in Workers, at'[v] \in Owned
        PROVE  /\ record'[job'[v]] # None
               /\ record'[job'[v]].status \in {"running", "cancelling"}
               /\ calls[job'[v]] = (IF at'[v] \in {"check", "cancelled"} THEN 0 ELSE 1)
               /\ at'[v] = "succeeded" => result[job'[v]] = "returned"
               /\ \A u \in Workers : at'[u] \in Owned /\ job'[u] = job'[v] => u = v
    <3>1. v # w
      BY <1>4, <2>1 DEF Owned
    <3>2. at[v] \in Owned /\ job'[v] = job[v] /\ at'[v] = at[v]
      BY <1>4, <2>1
    <3>3. job[v] # j
      BY <1>2, <3>1, <3>2
    <3>4. job[v] \in Jobs
      BY <1>1, <3>2 DEF TypeOK, Owned
    <3>5. /\ Is(job[v], {"running", "cancelling"})
          /\ calls[job[v]] = (IF at[v] \in {"check", "cancelled"} THEN 0 ELSE 1)
          /\ at[v] = "succeeded" => result[job[v]] = "returned"
          /\ \A u \in Workers : at[u] \in Owned /\ job[u] = job[v] => u = v
      BY <3>2 DEF JInv, WorkersOwn
    <3>6. \A u \in Workers : at'[u] \in Owned /\ job'[u] = job'[v] => u = v
      BY <1>4, <3>2, <3>5
    <3> QED
      BY <1>3, <3>2, <3>3, <3>4, <3>5, <3>6 DEF Is
  <2> QED
    BY <1>5, <2>1 DEF WorkersOwn, Is
<1>10. told' \in [Jobs -> Seq(InFlight \cup Terminal)]
  <2>1. PICK s \in {"succeeded", "failed", "cancelled"} : s = at[w]
    BY <1>1
  <2>2. Notify({j}, s) /\ s \in InFlight \cup Terminal
    BY <1>0, <2>1 DEF Finish, Terminal
  <2> QED
    BY <1>1, <2>2, NotifyType
<1>11. TypeOK'
  BY <1>1, <1>3, <1>4, <1>10 DEF TypeOK, Finish, Places
<1>12. OnlyServingWorks'
  BY <1>1 DEF OnlyServingWorks, Finish
<1> QED
  BY <1>6, <1>7, <1>8, <1>9, <1>11, <1>12 DEF JInv

LEMMA SaveFailsStep == ASSUME JInv, NEW w \in Workers, SaveFails(w) PROVE JInv'
<1>1. at[w] # "free" /\ record' = record /\ calls' = calls /\ result' = result
  BY DEF SaveFails
<1>2. TypeOK /\ job[w] \in Jobs /\ job[w] # None /\ phase = "up" /\ phase' = phase
  BY <1>1, AtWork, JobAssumption DEF JInv, SaveFails
<1>3. OneJobPerProject' /\ KeyNamesOneJob' /\ CallsCounted'
  BY <1>1 DEF JInv, OneJobPerProject, KeyNamesOneJob, CallsCounted, Existing, Is
<1>4. \A i \in Jobs : Is(i, {"running", "cancelling"})
                        => Is(i, {"running", "cancelling"})'
  BY <1>1 DEF Is
<1>5. CASE Release(w)
  <2>1. /\ job' \in [Workers -> Jobs \cup {None}]
        /\ at' \in [Workers -> Places]
        /\ \A v \in Workers : at'[v] = "free" <=> job'[v] = None
        /\ \A v \in Workers : at'[v] \in Owned => at'[v] = at[v] /\ job'[v] = job[v]
    BY <1>2, <1>5, ReleaseType
  <2>2. WorkersOwn'
    BY <1>1, <1>4, <2>1, WorkersKept
  <2>3. TypeOK'
    BY <1>2, <2>1 DEF TypeOK, SaveFails, Places
  <2> QED
    BY <1>2, <1>3, <2>2, <2>3 DEF JInv, OnlyServingWorks
<1>6. CASE at[w] = "succeeded" /\ Go(w, job[w], "failed")
  <2>1. /\ job' \in [Workers -> Jobs \cup {None}] /\ at' \in [Workers -> Places]
        /\ \A v \in Workers : at'[v] = "free" <=> job'[v] = None
        /\ job'[w] = job[w] /\ at'[w] = "failed"
        /\ \A v \in Workers \ {w} : job'[v] = job[v] /\ at'[v] = at[v]
    <3>1. "failed" \in Places /\ job[w] \in Jobs \cup {None}
      BY <1>2 DEF Places
    <3> QED
      BY <1>2, <1>6, <3>1, GoType
  <2>2. WorkersOwn'
    <3>1. /\ at[w] \in Owned /\ calls[job[w]] = 1 /\ at'[w] \in Owned
          /\ \A v \in Workers : at'[v] \in Owned => at[v] \in Owned
          /\ job' = job
      BY <1>6, <2>1 DEF JInv, WorkersOwn, Owned, TypeOK
    <3>2. ASSUME NEW v \in Workers, at'[v] \in Owned
          PROVE  /\ Is(job[v], {"running", "cancelling"})
                 /\ calls[job[v]] = (IF at'[v] \in {"check", "cancelled"} THEN 0 ELSE 1)
                 /\ at'[v] = "succeeded" => result[job[v]] = "returned"
                 /\ \A u \in Workers : at'[u] \in Owned /\ job[u] = job[v] => u = v
      BY <2>1, <3>1, <3>2 DEF JInv, WorkersOwn
    <3> QED
      BY <1>1, <3>1, <3>2 DEF WorkersOwn, Is
  <2>3. TypeOK'
    BY <1>2, <2>1 DEF TypeOK, SaveFails, Places
  <2> QED
    BY <1>2, <1>3, <2>2, <2>3 DEF JInv, OnlyServingWorks
<1> QED
  BY <1>5, <1>6 DEF SaveFails

-----------------------------------------------------------------------------
(* The environment and restarts.                                           *)

(* Steps that touch neither records nor calls, and give no worker a job.   *)
LEMMA FrameStep ==
  ASSUME JInv, TypeOK', UNCHANGED <<record, calls, result>>,
         \A w \in Workers : at'[w] \in Owned => at'[w] = at[w] /\ job'[w] = job[w],
         OnlyServingWorks'
  PROVE  JInv'
<1>1. OneJobPerProject' /\ KeyNamesOneJob' /\ CallsCounted'
  BY DEF JInv, OneJobPerProject, KeyNamesOneJob, CallsCounted, Existing, Is
<1>2. WorkersOwn'
  BY WorkersKept DEF Is
<1> QED
  BY <1>1, <1>2 DEF JInv

LEMMA QueueTimePassesStep ==
  ASSUME JInv, NEW j \in Jobs, QueueTimePasses(j)
  PROVE  JInv'
<1>1. TypeOK'
  BY DEF JInv, TypeOK, QueueTimePasses, memory
<1>2. OnlyServingWorks'
  BY DEF JInv, OnlyServingWorks, QueueTimePasses, memory
<1> QED
  BY <1>1, <1>2, FrameStep DEF QueueTimePasses, memory

LEMMA CrashStep == ASSUME JInv, Crash PROVE JInv'
<1>1. TypeOK'
  BY EmptySeq DEF JInv, TypeOK, Crash
<1>2. OnlyServingWorks'
  BY DEF OnlyServingWorks, Crash
<1>3. \A w \in Workers : at'[w] \notin Owned
  BY DEF Crash, Owned
<1> QED
  BY <1>1, <1>2, <1>3, FrameStep DEF Crash

LEMMA RestartStep == ASSUME JInv, Restart PROVE JInv'
<1>1. TypeOK'
  BY DEF JInv, TypeOK, Restart, memory, Existing
<1>2. OnlyServingWorks'
  BY DEF JInv, OnlyServingWorks, Restart, memory
<1> QED
  BY <1>1, <1>2, FrameStep DEF Restart, memory

LEMMA ServeStep == ASSUME JInv, Serve PROVE JInv'
<1>1. TypeOK'
  BY DEF JInv, TypeOK, Serve, memory
<1>2. OnlyServingWorks'
  BY DEF OnlyServingWorks, Serve
<1> QED
  BY <1>1, <1>2, FrameStep DEF Serve, memory

LEMMA InterruptOrphanStep ==
  ASSUME JInv, NEW j \in Jobs, InterruptOrphan(j)
  PROVE  JInv'
<1>1. /\ TypeOK /\ phase' = phase /\ pool' = pool /\ at' = at /\ job' = job
      /\ calls' = calls /\ result' = result
      /\ \A w \in Workers : at[w] \notin Owned
  BY DEF JInv, OnlyServingWorks, InterruptOrphan, memory, Owned
<1>2. OnlyServingWorks'
  BY <1>1 DEF JInv, OnlyServingWorks
<1>3. CASE record' = record /\ told' = told
  <2>1. TypeOK'
    BY <1>1, <1>3 DEF TypeOK, InterruptOrphan, memory
  <2> QED
    BY <1>1, <1>2, <1>3, <2>1, FrameStep
<1>4. CASE /\ Orphan(j) /\ record' = With({j}, "interrupted")
           /\ told' \in {told, IF Listening
                               THEN [told EXCEPT ![j] = Append(@, "interrupted")]
                               ELSE told}
  <2>1. j \in Existing /\ "interrupted" \in InFlight \cup Terminal
    BY <1>4 DEF Orphan, Is, Existing, Terminal
  <2> DEFINE next == With({j}, "interrupted")
  <2>2. /\ next \in [Jobs -> Record \cup {None}]
        /\ \A i \in Jobs :
             /\ (next[i] = None) <=> (record[i] = None)
             /\ record[i] # None =>
                  /\ next[i].project = record[i].project
                  /\ next[i].key = record[i].key
                  /\ next[i].status = IF i = j THEN "interrupted"
                                               ELSE record[i].status
    BY <1>1, <2>1, WithOne
  <2> HIDE DEF next
  <2>3. record' = next
    BY <1>4 DEF next
  <2>4. OneJobPerProject'
    <3>1. \A i \in Jobs : Is(i, InFlight)' => Is(i, InFlight)
      BY <2>2, <2>3 DEF Is, InFlight
    <3>2. \A i \in Jobs : Is(i, InFlight)' => record'[i].project = record[i].project
      BY <2>2, <2>3 DEF Is
    <3> QED
      BY <3>1, <3>2 DEF JInv, OneJobPerProject
  <2>5. KeyNamesOneJob'
    BY <2>2, <2>3 DEF JInv, KeyNamesOneJob, Existing
  <2>6. CallsCounted'
    BY <1>1, <2>2, <2>3 DEF JInv, CallsCounted, Is
  <2>7. WorkersOwn'
    BY <1>1 DEF WorkersOwn
  <2>8. told' \in [Jobs -> Seq(InFlight \cup Terminal)]
    <3>1. told[j] \in Seq(InFlight \cup Terminal)
      BY <1>1 DEF TypeOK
    <3>2. Append(told[j], "interrupted") \in Seq(InFlight \cup Terminal)
      BY <2>1, <3>1, AppendProperties
    <3> QED
      BY <1>1, <1>4, <3>2 DEF TypeOK
  <2>9. TypeOK'
    BY <1>1, <2>2, <2>3, <2>8 DEF TypeOK, InterruptOrphan, memory
  <2> QED
    BY <1>2, <2>4, <2>5, <2>6, <2>7, <2>9 DEF JInv
<1> QED
  BY <1>3, <1>4 DEF InterruptOrphan

-----------------------------------------------------------------------------
(* The theorems.                                                           *)

LEMMA InitJInv == Init => JInv
<1> SUFFICES ASSUME Init PROVE JInv
  OBVIOUS
<1>1. TypeOK
  BY EmptySeq DEF Init, TypeOK
<1>2. OneJobPerProject /\ KeyNamesOneJob /\ CallsCounted
  BY DEF Init, OneJobPerProject, KeyNamesOneJob, CallsCounted, Existing, Is
<1>3. WorkersOwn /\ OnlyServingWorks
  BY DEF Init, WorkersOwn, OnlyServingWorks, Owned
<1> QED
  BY <1>1, <1>2, <1>3 DEF JInv

LEMMA NextJInv == JInv /\ [Next]_vars => JInv'
<1> SUFFICES ASSUME JInv, [Next]_vars PROVE JInv'
  OBVIOUS
<1>1. CASE Request
  BY <1>1, SubmitExistingStep, SubmitNewStep DEF Request
<1>2. CASE Observe
  BY <1>2, ObserveStep
<1>3. CASE \E j \in Jobs : CancelQueued(j) \/ CancelRunning(j) \/ QueueTimePasses(j)
  BY <1>3, CancelQueuedStep, CancelRunningStep, QueueTimePassesStep
<1>4. CASE \E w \in Workers : Work(w) \/ SaveFails(w)
  BY <1>4, TakeStep, StartStep, RefuseStep, CheckCancelStep, ExecuteStep,
     FinishStep, SaveFailsStep DEF Work
<1>5. CASE Crash
  BY <1>5, CrashStep
<1>6. CASE Recovery
  BY <1>6, RestartStep, ServeStep, InterruptOrphanStep DEF Recovery
<1>7. CASE UNCHANGED vars
  <2>1. TypeOK' /\ OnlyServingWorks'
    BY <1>7 DEF JInv, TypeOK, OnlyServingWorks, vars, memory
  <2> QED
    BY <1>7, <2>1, FrameStep DEF vars, memory
<1> QED
  BY <1>1, <1>2, <1>3, <1>4, <1>5, <1>6, <1>7 DEF Next

THEOREM JobInvariance == Spec => []JInv
BY InitJInv, NextJInv, PTL DEF Spec

(* Records, pool and workers keep their shape in every run.                *)
THEOREM JobTypeCorrect == Spec => []TypeOK
<1>1. JInv => TypeOK
  BY DEF JInv
<1> QED
  BY <1>1, JobInvariance, PTL

(* A project never has two jobs in flight, however many tabs submit,       *)
(* whatever expires and however often the process restarts.                *)
THEOREM AlwaysOneJobPerProject == Spec => []OneJobPerProject
<1>1. JInv => OneJobPerProject
  BY DEF JInv
<1> QED
  BY <1>1, JobInvariance, PTL

(* No two workers are ever inside execute() for one project.               *)
THEOREM AlwaysOneExecution == Spec => []OneExecutionPerProject
<1>1. JInv => OneExecutionPerProject
  <2> SUFFICES ASSUME JInv, NEW v \in Workers, NEW w \in Workers,
                      at[v] = "execute", at[w] = "execute",
                      record[job[v]].project = record[job[w]].project
               PROVE  v = w
    BY DEF OneExecutionPerProject
  <2>1. job[v] \in Jobs /\ job[w] \in Jobs
    BY AtWork
  <2>2. Is(job[v], InFlight) /\ Is(job[w], InFlight)
    BY DEF JInv, WorkersOwn, Owned, Is, InFlight
  <2>3. job[v] = job[w]
    BY <2>1, <2>2 DEF JInv, OneJobPerProject
  <2> QED
    BY <2>3 DEF JInv, WorkersOwn, Owned
<1> QED
  BY <1>1, JobInvariance, PTL

(* A key is worth at most one execution, for ever.                         *)
THEOREM KeyAlwaysRunsOnce == Spec => []KeyRunsOnce
<1>1. JInv => KeyRunsOnce
  BY DEF JInv, KeyRunsOnce, KeyNamesOneJob, CallsCounted, Existing
<1> QED
  BY <1>1, JobInvariance, PTL

(* What a status says about the paid work is true, also when writes fail.  *)
THEOREM OutcomeAlwaysTrue == Spec => []OutcomeIsTrue
<1>1. JInv => OutcomeIsTrue
  BY DEF JInv, OutcomeIsTrue, CallsCounted, Existing, Is
<1> QED
  BY <1>1, JobInvariance, PTL

-----------------------------------------------------------------------------
(* The timelines.                                                          *)

(* The statuses a job went through, as far as its record tells.            *)
Reached(j) ==
  IF record[j] = None THEN {}
  ELSE {"queued"} \cup (IF record[j].status = "queued" THEN {} ELSE {"running"})
                  \cup ({record[j].status} \cap Terminal)

(* The timeline of a job holds only what its record went through.          *)
TimelineOfRecord ==
  \A j \in Jobs : \A n \in 1 .. Len(told[j]) : told[j][n] \in Reached(j)

(* What a step does to a timeline: nothing, or it adds a status that the   *)
(* job just reached and that nothing final precedes.                       *)
Quiet(j) == told'[j] = told[j] /\ Reached(j) \subseteq Reached(j)'

Tells(j) == \E s \in InFlight \cup Terminal :
              /\ told'[j] = Append(told[j], s)
              /\ s \notin Reached(j) /\ Reached(j) \cap Terminal = {}
              /\ Reached(j) \cup {s} \subseteq Reached(j)'

LEMMA NotifyTells ==
  ASSUME JInv, NEW S \in SUBSET Jobs, NEW s \in Terminal \cup {"running"},
         \A j \in S : Is(j, IF s = "running" THEN {"queued"} ELSE InFlight),
         record' = With(S, s), Notify(S, s)
  PROVE  \A j \in Jobs : Quiet(j) \/ Tells(j)
<1> SUFFICES ASSUME NEW j \in Jobs PROVE Quiet(j) \/ Tells(j)
  OBVIOUS
<1>1. /\ TypeOK /\ S \in SUBSET Existing /\ s \in InFlight \cup Terminal
  BY DEF JInv, Existing, Is, InFlight
<1>2. \A i \in Jobs :
        /\ (record'[i] = None) <=> (record[i] = None)
        /\ record[i] # None =>
             record'[i].status = IF i \in S THEN s ELSE record[i].status
  BY <1>1, WithType
<1>3. PICK heard \in SUBSET (S \cap callback) :
        told' = [i \in Jobs |-> IF i \in heard THEN Append(told[i], s) ELSE told[i]]
  BY DEF Notify
<1>4. CASE j \notin S
  <2>1. told'[j] = told[j]
    BY <1>3, <1>4
  <2>2. Reached(j)' = Reached(j)
    BY <1>2, <1>4 DEF Reached
  <2> QED
    BY <2>1, <2>2 DEF Quiet
<1>5. CASE j \in S
  <2>1. /\ record[j] # None /\ record'[j] # None /\ record'[j].status = s
        /\ record[j].status \in InFlight
        /\ s = "running" => record[j].status = "queued"
    BY <1>1, <1>2, <1>5 DEF Is, Existing, InFlight
  <2>2. /\ s \notin Reached(j) /\ Reached(j) \cap Terminal = {}
        /\ Reached(j) \cup {s} \subseteq Reached(j)'
    BY <2>1 DEF Reached, InFlight, Terminal
  <2> QED
    BY <1>1, <1>3, <2>2 DEF Quiet, Tells
<1> QED
  BY <1>4, <1>5

(* A step that neither touches the records nor tells anything.             *)
LEMMA UntouchedIsQuiet ==
  ASSUME UNCHANGED <<record, told>>
  PROVE  \A j \in Jobs : Quiet(j) \/ Tells(j)
BY DEF Quiet, Reached

LEMMA SubmitTells ==
  ASSUME JInv, NEW p \in Projects, NEW k \in Keys, NEW j \in Jobs,
         SubmitNew(p, k, j)
  PROVE  \A i \in Jobs : Quiet(i) \/ Tells(i)
<1> DEFINE late == {i \in Existing : Expirable(i)}
           new == [project |-> p, key |-> k, status |-> "queued"]
           late_ended == With(late, "stalled")
<1>1. /\ TypeOK /\ record[j] = None /\ late \in SUBSET Existing
      /\ "stalled" \in InFlight \cup Terminal /\ "queued" \in InFlight
  BY DEF JInv, SubmitNew, Terminal, InFlight
<1>2. /\ late_ended \in [Jobs -> Record \cup {None}]
      /\ \A i \in Jobs :
           /\ (late_ended[i] = None) <=> (record[i] = None)
           /\ record[i] # None =>
                /\ late_ended[i].project = record[i].project
                /\ late_ended[i].key = record[i].key
                /\ late_ended[i].status =
                     IF i \in late THEN "stalled" ELSE record[i].status
  BY <1>1, WithType
<1>3. new # None /\ new.status = "queued"
  BY JobAssumption DEF Record, InFlight
<1>4. /\ record'[j] = new
      /\ \A i \in Jobs \ {j} : record'[i] = late_ended[i]
  BY <1>2 DEF SubmitNew
<1>5. PICK heard \in SUBSET (late \cup {j}) :
        told' = [i \in Jobs |->
                   IF i \notin heard THEN told[i]
                   ELSE Append(told[i], IF i = j THEN "queued" ELSE "stalled")]
  BY DEF SubmitNew
<1>6. \A i \in late : record[i] # None /\ record[i].status = "queued"
  BY DEF Expirable, Is
<1> HIDE DEF late, new, late_ended
<1> SUFFICES ASSUME NEW i \in Jobs PROVE Quiet(i) \/ Tells(i)
  OBVIOUS
<1>7. CASE i = j
  <2>1. Reached(i) = {} /\ Reached(i)' = {"queued"}
    BY <1>1, <1>3, <1>4, <1>7 DEF Reached, Terminal
  <2> QED
    BY <1>1, <1>5, <1>7, <2>1 DEF Quiet, Tells
<1>8. CASE i \in late /\ i # j
  <2>1. Reached(i) = {"queued"} /\ Reached(i)' = {"queued", "running", "stalled"}
    BY <1>2, <1>4, <1>6, <1>8 DEF Reached, Terminal
  <2>2. Reached(i) \cap Terminal = {}
    BY <2>1 DEF Terminal
  <2> QED
    BY <1>1, <1>5, <1>8, <2>1, <2>2 DEF Quiet, Tells
<1>9. CASE i \notin late /\ i # j
  <2>1. Reached(i)' = Reached(i)
    BY <1>2, <1>4, <1>9 DEF Reached
  <2> QED
    BY <1>5, <1>9, <2>1 DEF Quiet
<1> QED
  BY <1>7, <1>8, <1>9

LEMMA WorkTells ==
  ASSUME JInv, NEW w \in Workers, Work(w) \/ SaveFails(w)
  PROVE  \A j \in Jobs : Quiet(j) \/ Tells(j)
<1>1. CASE Take(w) \/ CheckCancel(w) \/ Execute(w) \/ SaveFails(w)
  BY <1>1, UntouchedIsQuiet DEF Take, CheckCancel, Execute, SaveFails
<1>2. CASE Start(w)
  <2>1. job[w] \in Jobs /\ Is(job[w], {"queued"})
    BY <1>2, AtWork DEF Start, MayStart
  <2> QED
    BY <1>2, <2>1, NotifyTells DEF Start
<1>3. CASE Refuse(w)
  <2> DEFINE late == {j \in {job[w]} : Expirable(j)}
  <2>1. late \in SUBSET Jobs /\ \A j \in late : Is(j, InFlight)
    BY <1>3, AtWork DEF Refuse, Expirable, Is, InFlight
  <2>2. record' = With(late, "stalled") /\ Notify(late, "stalled")
    BY <1>3 DEF Refuse
  <2> HIDE DEF late
  <2> QED
    BY <2>1, <2>2, NotifyTells DEF Terminal
<1>4. CASE Finish(w)
  <2>1. PICK s \in {"succeeded", "failed", "cancelled"} : s = at[w]
    BY <1>4 DEF Finish
  <2>2. job[w] \in Jobs /\ Is(job[w], InFlight)
    BY <1>4, AtWork DEF Finish, JInv, WorkersOwn, Owned, Is, InFlight
  <2> QED
    BY <1>4, <2>1, <2>2, NotifyTells DEF Finish, Terminal
<1> QED
  BY <1>1, <1>2, <1>3, <1>4 DEF Work

LEMMA InterruptTells ==
  ASSUME JInv, NEW j \in Jobs, InterruptOrphan(j)
  PROVE  \A i \in Jobs : Quiet(i) \/ Tells(i)
<1>1. CASE UNCHANGED <<record, told>>
  BY <1>1, UntouchedIsQuiet
<1>2. CASE /\ Orphan(j) /\ record' = With({j}, "interrupted")
           /\ told' \in {told, IF Listening
                               THEN [told EXCEPT ![j] = Append(@, "interrupted")]
                               ELSE told}
  <2>1. TypeOK /\ j \in Existing /\ "interrupted" \in InFlight \cup Terminal
    BY <1>2 DEF JInv, Orphan, Is, Existing, Terminal
  <2> DEFINE next == With({j}, "interrupted")
  <2>2. \A i \in Jobs :
          /\ (next[i] = None) <=> (record[i] = None)
          /\ record[i] # None =>
               next[i].status = IF i = j THEN "interrupted" ELSE record[i].status
    BY <2>1, WithOne
  <2>3. record' = next
    BY <1>2
  <2> HIDE DEF next
  <2>4. \A i \in Jobs \ {j} : Reached(i)' = Reached(i) /\ told'[i] = told[i]
    BY <1>2, <2>1, <2>2, <2>3 DEF Reached, TypeOK
  <2>5. told'[j] = told[j] \/ told'[j] = Append(told[j], "interrupted")
    BY <1>2, <2>1 DEF TypeOK
  <2>6. /\ record[j] # None /\ record[j].status \in InFlight
        /\ record'[j] # None /\ record'[j].status = "interrupted"
    BY <1>2, <2>2, <2>3 DEF Orphan, Is
  <2>7. /\ "interrupted" \notin Reached(j) /\ Reached(j) \cap Terminal = {}
        /\ Reached(j) \cup {"interrupted"} \subseteq Reached(j)'
    BY <2>6 DEF Reached, InFlight, Terminal
  <2> QED
    BY <2>1, <2>4, <2>5, <2>7 DEF Quiet, Tells
<1> QED
  BY <1>1, <1>2 DEF InterruptOrphan

LEMMA StepOfTimelines ==
  ASSUME JInv, [Next]_vars
  PROVE  \A j \in Jobs : Quiet(j) \/ Tells(j)
<1>1. ASSUME NEW S \in SUBSET Jobs, \A j \in S : Expirable(j), Expire(S)
      PROVE  \A j \in Jobs : Quiet(j) \/ Tells(j)
  <2>1. \A j \in S : Is(j, InFlight)
    BY <1>1 DEF Expirable, Is, InFlight
  <2> QED
    BY <1>1, <2>1, NotifyTells DEF Expire, Terminal
<1>2. CASE Request
  <2>1. ASSUME NEW p \in Projects, NEW k \in Keys, SubmitExisting(p, k)
        PROVE  \A j \in Jobs : Quiet(j) \/ Tells(j)
    <3>1. PICK S \in SUBSET Jobs : Expire(S) /\ \A j \in S : Expirable(j)
      BY <2>1 DEF SubmitExisting, Existing
    <3> QED
      BY <1>1, <3>1
  <2> QED
    BY <1>2, <2>1, SubmitTells DEF Request
<1>3. CASE Observe
  <2>1. PICK S \in SUBSET Jobs : Expire(S) /\ \A j \in S : Expirable(j)
    BY <1>3 DEF Observe, Existing
  <2> QED
    BY <1>1, <2>1
<1>4. ASSUME NEW j \in Jobs, CancelQueued(j)
      PROVE  \A i \in Jobs : Quiet(i) \/ Tells(i)
  <2>1. Is(j, InFlight)
    BY <1>4 DEF CancelQueued, Cancellable, Is, InFlight
  <2> QED
    BY <1>4, <2>1, NotifyTells DEF CancelQueued, Terminal
<1>5. ASSUME NEW j \in Jobs, CancelRunning(j)
      PROVE  \A i \in Jobs : Quiet(i) \/ Tells(i)
  <2>1. TypeOK /\ j \in Existing /\ "cancelling" \in InFlight \cup Terminal
    BY <1>5 DEF JInv, CancelRunning, Is, Existing, InFlight
  <2> DEFINE next == With({j}, "cancelling")
  <2>2. \A i \in Jobs :
          /\ (next[i] = None) <=> (record[i] = None)
          /\ record[i] # None =>
               next[i].status = IF i = j THEN "cancelling" ELSE record[i].status
    BY <2>1, WithOne
  <2>3. record' = next /\ told' = told
    BY <1>5 DEF CancelRunning
  <2>4. record[j] # None /\ record[j].status = "running"
    BY <1>5 DEF CancelRunning, Is
  <2> HIDE DEF next
  <2>5. \A i \in Jobs : Reached(i) \subseteq Reached(i)'
    BY <2>2, <2>3, <2>4 DEF Reached, Terminal
  <2> QED
    BY <2>3, <2>5 DEF Quiet
<1>6. CASE \/ Crash \/ Restart \/ Serve \/ UNCHANGED vars
           \/ \E j \in Jobs : QueueTimePasses(j)
  BY <1>6, UntouchedIsQuiet DEF Crash, Restart, Serve, vars, QueueTimePasses
<1> QED
  BY <1>2, <1>3, <1>4, <1>5, <1>6, WorkTells, InterruptTells DEF Next, Recovery

TimelineInv == TypeOK /\ TimelineOfRecord /\ TimelineEndsOnce

LEMMA TimelineGrows ==
  ASSUME TimelineInv, NEW j \in Jobs, Quiet(j) \/ Tells(j)
  PROVE  /\ \A n \in 1 .. Len(told'[j]) : told'[j][n] \in Reached(j)'
         /\ \A m, n \in 1 .. Len(told'[j]) :
              /\ told'[j][m] = told'[j][n] => m = n
              /\ told'[j][m] \in Terminal => n <= m
<1>1. told[j] \in Seq(InFlight \cup Terminal)
  BY DEF TimelineInv, TypeOK
<1>2. CASE Quiet(j)
  BY <1>2 DEF TimelineInv, TimelineOfRecord, TimelineEndsOnce, Quiet
<1>3. CASE Tells(j)
  <2>1. PICK s \in InFlight \cup Terminal :
          /\ told'[j] = Append(told[j], s)
          /\ s \notin Reached(j) /\ Reached(j) \cap Terminal = {}
          /\ Reached(j) \cup {s} \subseteq Reached(j)'
    BY <1>3 DEF Tells
  <2> DEFINE last == Len(told[j]) + 1
  <2>2. /\ Len(told'[j]) = last /\ told'[j][last] = s /\ last \in Nat
        /\ \A n \in 1 .. last : n # last => n \in 1 .. Len(told[j])
                                            /\ told'[j][n] = told[j][n]
    BY <1>1, <2>1, AppendProperties, LenProperties
  <2>3. \A n \in 1 .. Len(told[j]) :
          told[j][n] \in Reached(j) /\ told[j][n] # s /\ told[j][n] \notin Terminal
    BY <2>1 DEF TimelineInv, TimelineOfRecord
  <2>4. \A m, n \in 1 .. Len(told[j]) : told[j][m] = told[j][n] => m = n
    BY DEF TimelineInv, TimelineEndsOnce
  <2> HIDE DEF last
  <2> QED
    BY <2>1, <2>2, <2>3, <2>4
<1> QED
  BY <1>2, <1>3

(* The timeline of a job tells each status once and ends with a final one, *)
(* whatever callbacks are lost, writes fail and processes die.             *)
THEOREM TimelineAlwaysEndsOnce == Spec => []TimelineEndsOnce
<1>1. Init => TimelineInv
  BY InitJInv DEF Init, JInv, TimelineInv, TimelineOfRecord, TimelineEndsOnce
<1>2. TimelineInv /\ JInv /\ JInv' /\ [Next]_vars => TimelineInv'
  <2> SUFFICES ASSUME TimelineInv, JInv, JInv', [Next]_vars PROVE TimelineInv'
    OBVIOUS
  <2>1. \A j \in Jobs : Quiet(j) \/ Tells(j)
    BY StepOfTimelines
  <2> QED
    BY <2>1, TimelineGrows DEF JInv, TimelineInv, TimelineOfRecord, TimelineEndsOnce
<1>3. TimelineInv => TimelineEndsOnce
  BY DEF TimelineInv
<1> QED
  BY <1>1, <1>2, <1>3, JobInvariance, PTL DEF Spec

-----------------------------------------------------------------------------
(* The orders of WorkOrders.                                               *)

(* The order that a job serves, and how far it is.                         *)
Order(j) == <<record[j].project, record[j].key>>

Progress(j) == IF Is(j, Terminal) THEN "over"
               ELSE IF calls[j] > 0 THEN "working" ELSE "waiting"

(* An order is as far as its job, and without a job there is none.         *)
OrdersAreJobs ==
  /\ \A j \in Existing : /\ Order(j) \in Projects \X Keys
                         /\ OrderPhase[Order(j)] = Progress(j)
  /\ \A o \in Projects \X Keys :
       (\A j \in Existing : Order(j) # o) => OrderPhase[o] = "none"

LEMMA OrderOfJob == JInv => OrdersAreJobs
<1> SUFFICES ASSUME JInv PROVE OrdersAreJobs
  OBVIOUS
<1>1. \A j \in Existing : /\ record[j].project \in Projects
                          /\ record[j].key \in Keys
  BY DEF JInv, TypeOK, Existing, Record
<1>2. ASSUME NEW j \in Existing
      PROVE  /\ Order(j) \in Projects \X Keys
             /\ OrderPhase[Order(j)] = Progress(j)
  <2> DEFINE o == Order(j)
             mine == {i \in Existing : record[i].project = o[1]
                                       /\ record[i].key = o[2]}
  <2>1. o \in Projects \X Keys /\ o[1] = record[j].project /\ o[2] = record[j].key
    BY <1>1 DEF Order
  <2>2. mine = {j}
    BY <2>1 DEF JInv, KeyNamesOneJob
  <2>3. (CHOOSE i \in mine : TRUE) = j
    BY <2>2
  <2>4. OrderPhase[o] = Progress(j)
    BY <2>1, <2>2, <2>3 DEF OrderPhase, Progress
  <2> QED
    BY <2>1, <2>4
<1>3. ASSUME NEW o \in Projects \X Keys, \A j \in Existing : Order(j) # o
      PROVE  OrderPhase[o] = "none"
  <2> DEFINE mine == {i \in Existing : record[i].project = o[1]
                                       /\ record[i].key = o[2]}
  <2>1. \A j \in Existing : ~ (record[j].project = o[1] /\ record[j].key = o[2])
    BY <1>3 DEF Order
  <2>2. mine = {}
    BY <2>1
  <2> QED
    BY <2>2 DEF OrderPhase
<1> QED
  BY <1>2, <1>3 DEF OrdersAreJobs

OrderInv == JInv /\ OrdersAreJobs

-----------------------------------------------------------------------------
(* What a step does to the records.                                        *)

Unmoved == UNCHANGED <<record, calls>>

Ends == \E S \in SUBSET Existing, s \in Terminal :
          /\ \A j \in S : Is(j, InFlight)
          /\ record' = With(S, s) /\ calls' = calls

Turns == \E j \in Existing, s \in {"running", "cancelling"} :
           /\ Is(j, {"queued", "running"})
           /\ Is(j, {"queued"}) => \E w \in Workers : Start(w) /\ job[w] = j
           /\ record' = With({j}, s) /\ calls' = calls

Enters == \E j \in Existing :
            /\ Is(j, {"running", "cancelling"}) /\ calls[j] = 0
            /\ record' = record /\ calls' = [calls EXCEPT ![j] = @ + 1]

Submits == \E p \in Projects, k \in Keys, j \in Jobs : SubmitNew(p, k, j)

LEMMA StepOfRecords ==
  ASSUME JInv, [Next]_vars
  PROVE  Unmoved \/ Ends \/ Turns \/ Enters \/ Submits
<1> USE DEF Existing, Is
<1>1. \A S \in SUBSET Jobs : (\A j \in S : Expirable(j)) /\ record' = With(S, "stalled")
                             /\ calls' = calls => Ends
  BY DEF Expirable, InFlight, Terminal, Ends
<1>2. CASE Request
  <2>1. ASSUME NEW p \in Projects, NEW k \in Keys, SubmitExisting(p, k)
        PROVE  Ends
    BY <1>1, <2>1 DEF SubmitExisting, Expire
  <2> QED
    BY <1>2, <2>1 DEF Request, Submits
<1>3. CASE Observe
  BY <1>1, <1>3 DEF Observe, Expire
<1>4. ASSUME NEW j \in Jobs, CancelQueued(j) PROVE Ends
  BY <1>4 DEF CancelQueued, Cancellable, InFlight, Terminal, Ends
<1>5. ASSUME NEW j \in Jobs, CancelRunning(j) PROVE Turns
  BY <1>5 DEF CancelRunning, Turns
<1>6. ASSUME NEW w \in Workers, Work(w)
      PROVE  Unmoved \/ Ends \/ Turns \/ Enters
  <2>1. CASE Take(w) \/ Execute(w)
    BY <2>1 DEF Take, Execute, Unmoved
  <2>2. CASE Start(w)
    BY <2>2, AtWork DEF Start, MayStart, Turns
  <2>3. CASE Refuse(w)
    <3>1. job[w] \in Jobs
      BY <2>3, AtWork DEF Refuse
    <3> QED
      BY <1>1, <2>3, <3>1 DEF Refuse
  <2>4. CASE CheckCancel(w)
    <3>1. /\ job[w] \in Jobs /\ Is(job[w], {"running", "cancelling"})
          /\ calls[job[w]] = 0
      BY <2>4, AtWork DEF CheckCancel, JInv, WorkersOwn, Owned
    <3> QED
      BY <2>4, <3>1 DEF CheckCancel, Unmoved, Enters
  <2>5. CASE Finish(w)
    <3>1. /\ job[w] \in Jobs /\ Is(job[w], {"running", "cancelling"})
          /\ at[w] \in Terminal
      BY <2>5, AtWork DEF Finish, JInv, WorkersOwn, Owned, Terminal
    <3> QED
      BY <2>5, <3>1 DEF Finish, InFlight, Ends
  <2> QED
    BY <1>6, <2>1, <2>2, <2>3, <2>4, <2>5 DEF Work
<1>7. ASSUME NEW j \in Jobs, InterruptOrphan(j) PROVE Unmoved \/ Ends
  BY <1>7 DEF InterruptOrphan, Orphan, Unmoved, Ends, Terminal
<1>8. CASE \/ Crash \/ Restart \/ Serve \/ UNCHANGED vars
           \/ \E w \in Workers : SaveFails(w)
           \/ \E j \in Jobs : QueueTimePasses(j)
  BY <1>8 DEF Crash, Restart, Serve, vars, SaveFails, QueueTimePasses, Unmoved
<1> QED
  BY <1>2, <1>3, <1>4, <1>5, <1>6, <1>7, <1>8 DEF Next, Recovery

-----------------------------------------------------------------------------
(* A final status never changes again: no late worker, cancellation,       *)
(* expiry or restart touches a record that is over.                        *)
THEOREM FinalAlwaysStays == Spec => FinalStatusStays
<1>1. JInv /\ [Next]_vars
        => [\A j \in Jobs : Is(j, Terminal) => record'[j] = record[j]]_vars
  <2> SUFFICES ASSUME JInv, [Next]_vars, NEW j \in Jobs, Is(j, Terminal)
               PROVE  record'[j] = record[j]
    OBVIOUS
  <2>1. ~ Is(j, InFlight) /\ ~ Is(j, {"queued", "running"}) /\ record[j] # None
    BY DEF Is, InFlight, Terminal
  <2>2. CASE Unmoved \/ Enters
    BY <2>2 DEF Unmoved, Enters
  <2>3. CASE Ends \/ Turns
    BY <2>1, <2>3 DEF Ends, Turns, With
  <2>4. CASE Submits
    <3>1. \A i \in Existing : Expirable(i) => i # j
      BY <2>1 DEF Expirable, Is
    <3> QED
      BY <2>1, <2>4, <3>1 DEF Submits, SubmitNew, With
  <2> QED
    BY <2>2, <2>3, <2>4, StepOfRecords
<1> QED
  BY <1>1, JobInvariance, PTL DEF Spec, FinalStatusStays

-----------------------------------------------------------------------------
(* Each of these steps as a step of WorkOrders.                            *)

(* When every record keeps project and key, the orders keep their jobs.    *)
LEMMA OrdersFollowJobs ==
  ASSUME OrderInv, OrderInv', NEW S,
         \A j \in Jobs : record'[j] = None <=> record[j] = None,
         \A j \in Existing : Order(j)' = Order(j),
         \A j \in Existing : Progress(j)' = IF j \in S THEN "over" ELSE Progress(j)
  PROVE  OrderPhase' = [o \in Projects \X Keys |->
                          IF \E j \in Existing \cap S : Order(j) = o THEN "over"
                          ELSE OrderPhase[o]]
<1>1. Existing' = Existing
  BY DEF Existing
<1>2. ASSUME NEW o \in Projects \X Keys
      PROVE  OrderPhase'[o] = IF \E j \in Existing \cap S : Order(j) = o
                              THEN "over" ELSE OrderPhase[o]
  <2>1. CASE \A j \in Existing : Order(j) # o
    BY <1>1, <2>1 DEF OrderInv, OrdersAreJobs
  <2>2. ASSUME NEW j \in Existing, Order(j) = o
        PROVE  OrderPhase'[o] = IF \E i \in Existing \cap S : Order(i) = o
                                THEN "over" ELSE OrderPhase[o]
    <3>1. \A i \in Existing : Order(i) = o => i = j
      BY <2>2 DEF OrderInv, JInv, KeyNamesOneJob, Order
    <3>2. OrderPhase'[o] = Progress(j)' /\ OrderPhase[o] = Progress(j)
      BY <1>1, <2>2 DEF OrderInv, OrdersAreJobs
    <3> QED
      BY <2>2, <3>1, <3>2
  <2> QED
    BY <2>1, <2>2
<1>3. OrderPhase' = [o \in Projects \X Keys |-> OrderPhase'[o]]
  BY DEF OrderPhase
<1> QED
  BY <1>2, <1>3

LEMMA EndsEnd == ASSUME OrderInv, OrderInv', Ends PROVE WO!Next
<1> PICK S \in SUBSET Existing, s \in Terminal :
      /\ \A j \in S : Is(j, InFlight)
      /\ record' = With(S, s) /\ calls' = calls
  BY DEF Ends
<1> DEFINE O == {o \in Projects \X Keys : \E j \in S : Order(j) = o}
<1>1. \A j \in Jobs :
        /\ (record'[j] = None) <=> (record[j] = None)
        /\ record[j] # None =>
             /\ record'[j].project = record[j].project
             /\ record'[j].key = record[j].key
             /\ record'[j].status = IF j \in S THEN s ELSE record[j].status
  <2>1. s \in InFlight \cup Terminal /\ TypeOK
    BY DEF OrderInv, JInv
  <2> QED
    BY <2>1, WithType
<1>2. \A j \in Existing : Order(j)' = Order(j)
  BY <1>1 DEF Existing, Order
<1>3. \A j \in Existing : Progress(j)' = IF j \in S THEN "over" ELSE Progress(j)
  <2> SUFFICES ASSUME NEW j \in Existing
               PROVE  Progress(j)' = IF j \in S THEN "over" ELSE Progress(j)
    OBVIOUS
  <2>1. CASE j \in S
    <3>1. Is(j, Terminal)'
      BY <1>1, <2>1 DEF Existing, Is
    <3> QED
      BY <2>1, <3>1 DEF Progress
  <2>2. CASE j \notin S
    <3>1. Is(j, Terminal)' = Is(j, Terminal)
      BY <1>1, <2>2 DEF Existing, Is
    <3>2. calls'[j] = calls[j]
      OBVIOUS
    <3> QED
      BY <2>2, <3>1, <3>2 DEF Progress
  <2> QED
    BY <2>1, <2>2
<1>4. OrderPhase' = [o \in Projects \X Keys |->
                       IF \E j \in Existing \cap S : Order(j) = o THEN "over"
                       ELSE OrderPhase[o]]
  BY <1>1, <1>2, <1>3, OrdersFollowJobs
<1>5. \A o \in O : OrderPhase[o] \in WO!Open
  <2>1. \A j \in S : Progress(j) \in WO!Open
    BY DEF Progress, Is, InFlight, Terminal, WO!Open
  <2> QED
    BY <2>1 DEF OrderInv, OrdersAreJobs
<1>6. WO!End(O)
  BY <1>4, <1>5 DEF WO!End
<1> QED
  BY <1>6 DEF WO!Next

LEMMA TurnsStutter ==
  ASSUME OrderInv, OrderInv', Turns
  PROVE  OrderPhase' = OrderPhase
<1> PICK j \in Existing, s \in {"running", "cancelling"} :
      /\ Is(j, {"queued", "running"})
      /\ record' = With({j}, s) /\ calls' = calls
  BY DEF Turns
<1>1. \A i \in Jobs :
        /\ (record'[i] = None) <=> (record[i] = None)
        /\ record[i] # None =>
             /\ record'[i].project = record[i].project
             /\ record'[i].key = record[i].key
             /\ record'[i].status = IF i = j THEN s ELSE record[i].status
  <2>1. s \in InFlight \cup Terminal /\ TypeOK
    BY DEF OrderInv, JInv, InFlight
  <2> DEFINE next == With({j}, s)
  <2>2. \A i \in Jobs :
          /\ (next[i] = None) <=> (record[i] = None)
          /\ record[i] # None =>
               /\ next[i].project = record[i].project
               /\ next[i].key = record[i].key
               /\ next[i].status = IF i = j THEN s ELSE record[i].status
    BY <2>1, WithOne
  <2> QED
    BY <2>2
<1>2. \A i \in Existing : Order(i)' = Order(i)
  BY <1>1 DEF Existing, Order
<1>3. PICK T : T = {}
  OBVIOUS
<1>4. \A i \in Existing : Progress(i)' = IF i \in T THEN "over" ELSE Progress(i)
  <2>1. \A i \in Existing : Is(i, Terminal)' <=> Is(i, Terminal)
    BY <1>1 DEF Existing, Is, Terminal
  <2> QED
    BY <1>3, <2>1 DEF Progress
<1>5. OrderPhase' = [o \in Projects \X Keys |->
                       IF \E i \in Existing \cap T : Order(i) = o THEN "over"
                       ELSE OrderPhase[o]]
  <2>1. \A i \in Jobs : record'[i] = None <=> record[i] = None
    BY <1>1
  <2> QED
    BY <1>2, <1>4, <2>1, OrdersFollowJobs, Zenon
<1>6. OrderPhase = [o \in Projects \X Keys |-> OrderPhase[o]]
  BY DEF OrderPhase
<1> QED
  BY <1>3, <1>5, <1>6

LEMMA EntersBegins == ASSUME OrderInv, OrderInv', Enters PROVE WO!Next
<1> PICK j \in Existing :
      /\ Is(j, {"running", "cancelling"}) /\ calls[j] = 0
      /\ record' = record /\ calls' = [calls EXCEPT ![j] = @ + 1]
  BY DEF Enters
<1> DEFINE o == Order(j)
<1>1. /\ Existing' = Existing /\ \A i \in Existing : Order(i)' = Order(i)
      /\ \A i \in Existing : i # j => Order(i) # o
  BY DEF Existing, Order, OrderInv, JInv, KeyNamesOneJob
<1>2. /\ j \in Jobs /\ calls'[j] = 1
      /\ \A i \in Jobs \ {j} : calls'[i] = calls[i]
  BY DEF Existing, OrderInv, JInv, TypeOK
<1>3. ~ Is(j, Terminal) /\ ~ Is(j, Terminal)'
  BY DEF Is, Terminal
<1>4. Progress(j) = "waiting" /\ Progress(j)' = "working"
  BY <1>2, <1>3 DEF Progress
<1>5. \A i \in Existing : i # j => Progress(i)' = Progress(i)
  BY <1>2 DEF Existing, Progress, Is
<1>6. o \in Projects \X Keys /\ OrderPhase[o] = "waiting" /\ OrderPhase'[o] = "working"
  BY <1>1, <1>4 DEF OrderInv, OrdersAreJobs
<1>7. ASSUME NEW q \in Projects \X Keys, q # o
      PROVE  OrderPhase'[q] = OrderPhase[q]
  <2>1. CASE \A i \in Existing : Order(i) # q
    BY <1>1, <2>1 DEF OrderInv, OrdersAreJobs
  <2>2. ASSUME NEW i \in Existing, Order(i) = q
        PROVE  OrderPhase'[q] = OrderPhase[q]
    BY <1>1, <1>5, <1>7, <2>2 DEF OrderInv, OrdersAreJobs
  <2> QED
    BY <2>1, <2>2
<1>8. /\ OrderPhase = [q \in Projects \X Keys |-> OrderPhase[q]]
      /\ OrderPhase' = [q \in Projects \X Keys |-> OrderPhase'[q]]
  BY DEF OrderPhase
<1>9. WO!Begin(o)
  BY <1>6, <1>7, <1>8 DEF WO!Begin
<1> QED
  BY <1>6, <1>9 DEF WO!Next

(* The submission of a new job ends the waiting orders it finds overdue;   *)
(* what is at work in the project would have been returned instead.        *)
LEMMA SubmitsAccept ==
  ASSUME OrderInv, OrderInv', NEW p \in Projects, NEW k \in Keys, NEW j \in Jobs,
         SubmitNew(p, k, j)
  PROVE  WO!Next
<1> DEFINE late == {i \in Existing : Expirable(i)}
           new == [project |-> p, key |-> k, status |-> "queued"]
           ended == {o \in Projects \X Keys : \E i \in late : Order(i) = o}
<1>1. /\ TypeOK /\ record[j] = None /\ calls' = calls /\ j \notin Existing
      /\ record' = [With(late, "stalled") EXCEPT ![j] = new]
      /\ \A i \in Existing : ~ Matches(i, p, k)
      /\ new # None
  BY JobAssumption DEF OrderInv, JInv, SubmitNew, Existing, Record, InFlight
<1>2. /\ record'[j] = new /\ Existing' = Existing \cup {j}
      /\ \A i \in Existing :
           /\ record'[i].project = record[i].project
           /\ record'[i].key = record[i].key
           /\ record'[i].status = IF i \in late THEN "stalled" ELSE record[i].status
  <2>1. late \in SUBSET Existing /\ "stalled" \in InFlight \cup Terminal
    BY DEF Terminal
  <2> DEFINE next == With(late, "stalled")
  <2>2. /\ next \in [Jobs -> Record \cup {None}]
        /\ \A i \in Jobs :
             /\ (next[i] = None) <=> (record[i] = None)
             /\ record[i] # None =>
                  /\ next[i].project = record[i].project
                  /\ next[i].key = record[i].key
                  /\ next[i].status = IF i \in late THEN "stalled" ELSE record[i].status
    BY <1>1, <2>1, WithType
  <2>3. record' = [next EXCEPT ![j] = new]
    BY <1>1
  <2> HIDE DEF next, late, new
  <2>4. record'[j] = new /\ \A i \in Jobs \ {j} : record'[i] = next[i]
    BY <2>2, <2>3
  <2> QED
    BY <1>1, <2>2, <2>4 DEF Existing
<1>3. /\ Order(j)' = <<p, k>> /\ \A i \in Existing : Order(i)' = Order(i)
      /\ \A i \in Existing : Order(i) # <<p, k>>
  BY <1>1, <1>2 DEF Order, Matches
<1>4. calls[j] = 0 /\ \A i \in late : calls[i] = 0
  BY <1>1 DEF OrderInv, JInv, CallsCounted, Is, Expirable, Existing
<1>5. /\ Progress(j)' = "waiting" /\ \A i \in late : Progress(i) = "waiting"
      /\ \A i \in Existing :
           Progress(i)' = IF i \in late THEN "over" ELSE Progress(i)
  <2>1. Is(j, Terminal)' = FALSE
    BY <1>1, <1>2 DEF Is, Terminal
  <2>2. \A i \in late : ~ Is(i, Terminal)
    BY DEF Expirable, Is, Terminal
  <2>3. \A i \in late : Is(i, Terminal)'
    BY <1>2, <1>1 DEF Is, Terminal, Existing
  <2>4. \A i \in Existing : i \notin late => Is(i, Terminal)' = Is(i, Terminal)
    BY <1>2 DEF Is, Existing
  <2> HIDE DEF late
  <2>5. calls'[j] = 0 /\ ~ (0 > 0)
    BY <1>1, <1>4
  <2> QED
    BY <1>1, <1>4, <2>1, <2>2, <2>3, <2>4, <2>5 DEF Progress
<1>6. ASSUME NEW i \in Existing, record[i].project = p, ~ Is(i, Terminal)
      PROVE  i \in late
  <2>1. record[i].status \in InFlight
    BY <1>1, <1>6 DEF TypeOK, Record, Existing, Is
  <2> QED
    BY <1>1, <1>6, <2>1 DEF Matches, Is, Existing
<1>7. ASSUME NEW c \in Keys
      PROVE  /\ OrderPhase[<<p, c>>] # "working"
             /\ OrderPhase[<<p, c>>] = "waiting" => <<p, c>> \in ended
  <2>1. CASE \A i \in Existing : Order(i) # <<p, c>>
    BY <2>1 DEF OrderInv, OrdersAreJobs
  <2>2. ASSUME NEW i \in Existing, Order(i) = <<p, c>>
        PROVE  /\ OrderPhase[<<p, c>>] # "working"
               /\ OrderPhase[<<p, c>>] = "waiting" => <<p, c>> \in ended
    <3>1. OrderPhase[<<p, c>>] = Progress(i) /\ record[i].project = p
      BY <2>2 DEF OrderInv, OrdersAreJobs, Order
    <3>2. CASE Is(i, Terminal)
      BY <3>1, <3>2 DEF Progress
    <3>3. CASE ~ Is(i, Terminal)
      <4>1. i \in late
        BY <1>6, <3>1, <3>3
      <4>2. OrderPhase[<<p, c>>] = "waiting"
        BY <1>5, <3>1, <4>1
      <4>3. <<p, c>> \in ended
        <5>1. <<p, c>> \in Projects \X Keys
          OBVIOUS
        <5> HIDE DEF late
        <5> QED
          BY <2>2, <4>1, <5>1
      <4> HIDE DEF ended
      <4> QED
        BY <4>2, <4>3
    <3> QED
      BY <3>2, <3>3
  <2> QED
    BY <2>1, <2>2
<1>8. OrderPhase[<<p, k>>] = "none" /\ \A o \in ended : OrderPhase[o] = "waiting"
  BY <1>3, <1>5 DEF OrderInv, OrdersAreJobs
<1>9. ASSUME NEW o \in Projects \X Keys
      PROVE  OrderPhase'[o] = IF o = <<p, k>> THEN "waiting"
                              ELSE IF o \in ended THEN "over" ELSE OrderPhase[o]
  <2>1. CASE o = <<p, k>>
    BY <1>2, <1>3, <1>5, <2>1 DEF OrderInv, OrdersAreJobs
  <2>2. ASSUME o # <<p, k>>, NEW i \in Existing, Order(i) = o
        PROVE  OrderPhase'[o] = IF o \in ended THEN "over" ELSE OrderPhase[o]
    <3>1. OrderPhase'[o] = Progress(i)' /\ OrderPhase[o] = Progress(i)
      BY <1>2, <1>3, <2>2 DEF OrderInv, OrdersAreJobs
    <3>2. o \in ended <=> i \in late
      BY <2>2 DEF OrderInv, JInv, KeyNamesOneJob, Order
    <3> QED
      BY <1>5, <3>1, <3>2
  <2>3. CASE o # <<p, k>> /\ \A i \in Existing : Order(i) # o
    <3>1. \A i \in Existing' : Order(i)' # o
      BY <1>2, <1>3, <2>3
    <3> QED
      BY <2>3, <3>1 DEF OrderInv, OrdersAreJobs
  <2> QED
    BY <2>1, <2>2, <2>3
<1>10. OrderPhase' = [o \in Projects \X Keys |-> OrderPhase'[o]]
  BY DEF OrderPhase
<1>11. WO!Accept(p, k)
  <2> HIDE DEF late, new
  <2>1. ended \in SUBSET {o \in Projects \X Keys : OrderPhase[o] = "waiting"}
    BY <1>8
  <2> HIDE DEF ended
  <2> QED
    BY <1>7, <1>8, <1>9, <1>10, <2>1 DEF WO!Accept
<1> QED
  BY <1>11 DEF WO!Next

(* Every step of the registry, a crash, a failing write and a restart too, *)
(* is one step of WorkOrders or none: an order is accepted once, worked on *)
(* at most once and ends.                                                  *)
THEOREM RegistryKeepsItsPromise == Spec => ImplementsWorkOrders
<1>1. Init => WO!Init
  <2> SUFFICES ASSUME Init PROVE WO!Init
    OBVIOUS
  <2>1. Existing = {}
    BY DEF Init, Existing
  <2> QED
    BY <2>1 DEF OrderPhase, WO!Init
<1>2. OrderInv /\ OrderInv' /\ [Next]_vars => [WO!Next]_OrderPhase
  <2> SUFFICES ASSUME OrderInv, OrderInv', [Next]_vars
               PROVE  WO!Next \/ OrderPhase' = OrderPhase
    OBVIOUS
  <2>1. CASE Unmoved
    BY <2>1 DEF Unmoved, OrderPhase, Existing, Is
  <2>2. CASE Submits
    BY <2>2, SubmitsAccept DEF Submits
  <2> QED
    BY <2>1, <2>2, StepOfRecords, EndsEnd, TurnsStutter, EntersBegins DEF OrderInv
<1>3. JInv => OrderInv
  BY OrderOfJob DEF OrderInv
<1> QED
  BY <1>1, <1>2, <1>3, JobInvariance, PTL DEF Spec, ImplementsWorkOrders, WO!Spec

-----------------------------------------------------------------------------
(* The queue and the hands of the workers.                                 *)

(* A job that no worker started yet, or that is over.                      *)
Waiting(j) == record[j] # None /\ record[j].status \notin {"running", "cancelling"}

Held(j) == \/ \E n \in 1 .. Len(pool) : pool[n] = j
           \/ \E w \in Workers : job[w] = j

(* No two places of the queue, no two workers and no worker and place hold *)
(* one job, and what they hold was submitted and, up to the start, waits.  *)
QueueHolds ==
  /\ \A n \in 1 .. Len(pool) :
       /\ Waiting(pool[n])
       /\ \A m \in 1 .. Len(pool) : pool[m] = pool[n] => m = n
       /\ \A w \in Workers : job[w] # pool[n]
  /\ \A w \in Workers :
       /\ at[w] = "start" => Waiting(job[w])
       /\ job[w] # None => /\ record[job[w]] # None
                           /\ \A v \in Workers : job[v] = job[w] => v = w

(* Records stay, and what waits goes on waiting or ends.                   *)
Calm == \A j \in Existing : record'[j] # None /\ (Waiting(j) => Waiting(j)')

LEMMA StepIsCalm ==
  ASSUME JInv, [Next]_vars
  PROVE  Calm \/ \E w \in Workers : Start(w)
<1>1. CASE Unmoved \/ Enters
  BY <1>1 DEF Unmoved, Enters, Calm, Existing, Waiting
<1>2. CASE Ends
  <2>1. PICK S \in SUBSET Existing, s \in Terminal : record' = With(S, s)
    BY <1>2 DEF Ends
  <2>2. TypeOK /\ s \in InFlight \cup Terminal
    BY DEF JInv
  <2>3. \A j \in Jobs :
          /\ (record'[j] = None) <=> (record[j] = None)
          /\ record[j] # None =>
               record'[j].status = IF j \in S THEN s ELSE record[j].status
    BY <2>1, <2>2, WithType
  <2> QED
    BY <2>3 DEF Calm, Existing, Waiting, Terminal
<1>3. CASE Turns /\ ~ \E w \in Workers : Start(w)
  <2>1. PICK j \in Existing, s \in {"running", "cancelling"} :
          Is(j, {"running"}) /\ record' = With({j}, s)
    BY <1>3 DEF Turns, Is
  <2>2. TypeOK /\ s \in InFlight \cup Terminal
    BY DEF JInv, InFlight
  <2> DEFINE next == With({j}, s)
  <2>3. \A i \in Jobs :
          /\ (next[i] = None) <=> (record[i] = None)
          /\ record[i] # None =>
               next[i].status = IF i = j THEN s ELSE record[i].status
    BY <2>2, WithOne
  <2> HIDE DEF next
  <2> QED
    BY <2>1, <2>3 DEF next, Calm, Existing, Waiting, Is
<1>4. CASE Submits
  <2>1. PICK p \in Projects, k \in Keys, j \in Jobs : SubmitNew(p, k, j)
    BY <1>4 DEF Submits
  <2> DEFINE late == {i \in Existing : Expirable(i)}
             late_ended == With(late, "stalled")
  <2>2. TypeOK /\ late \in SUBSET Existing /\ "stalled" \in InFlight \cup Terminal
    BY DEF JInv, Terminal
  <2>3. /\ late_ended \in [Jobs -> Record \cup {None}]
        /\ \A i \in Jobs :
             /\ (late_ended[i] = None) <=> (record[i] = None)
             /\ record[i] # None =>
                  /\ late_ended[i].project = record[i].project
                  /\ late_ended[i].key = record[i].key
                  /\ late_ended[i].status =
                       IF i \in late THEN "stalled" ELSE record[i].status
    BY <2>2, WithType
  <2>4. record[j] = None /\ \A i \in Jobs \ {j} : record'[i] = late_ended[i]
    BY <2>1, <2>3 DEF SubmitNew
  <2> HIDE DEF late, late_ended
  <2> QED
    BY <2>3, <2>4 DEF Calm, Existing, Waiting
<1> QED
  BY <1>1, <1>2, <1>3, <1>4, StepOfRecords

(* Steps that give no worker and no place of the queue another job.        *)
LEMMA QueueKept ==
  ASSUME JInv, QueueHolds, Calm, pool' = pool,
         \A w \in Workers : job'[w] \in {job[w], None},
         \A w \in Workers : at'[w] = "start" => at[w] = "start" /\ job'[w] = job[w]
  PROVE  QueueHolds'
<1>1. TypeOK /\ \A n \in 1 .. Len(pool) : pool[n] \in Jobs
  BY ElementOfSeq DEF JInv, TypeOK
<1>2. \A j \in Jobs : Waiting(j) => j \in Existing
  BY DEF Waiting, Existing
<1>3. ASSUME NEW n \in 1 .. Len(pool)
      PROVE  /\ Waiting(pool[n])'
             /\ \A m \in 1 .. Len(pool) : pool[m] = pool[n] => m = n
             /\ \A w \in Workers : job'[w] # pool[n]
  <2>1. pool[n] # None
    BY <1>1, JobAssumption
  <2>2. Waiting(pool[n])'
    BY <1>1, <1>2 DEF QueueHolds, Calm, Waiting
  <2> QED
    BY <2>1, <2>2 DEF QueueHolds
<1>4. ASSUME NEW w \in Workers
      PROVE  /\ at'[w] = "start" => Waiting(job[w])'
             /\ job'[w] # None =>
                  /\ record'[job'[w]] # None
                  /\ \A v \in Workers : job'[v] = job'[w] => v = w
  <2>1. CASE at'[w] = "start"
    <3>1. at[w] = "start" /\ job'[w] = job[w] /\ job[w] \in Jobs
      BY <1>1, <2>1, AtWork
    <3>2. Waiting(job[w])'
      BY <1>2, <3>1 DEF QueueHolds, Calm, Waiting
    <3> QED
      BY <1>2, <3>1, <3>2 DEF QueueHolds, Calm
  <2>2. CASE at'[w] # "start"
    BY <1>1, <2>2 DEF QueueHolds, Calm, Existing, TypeOK
  <2> QED
    BY <2>1, <2>2
<1> QED
  BY <1>3, <1>4 DEF QueueHolds, Waiting

LEMMA QueueTake ==
  ASSUME JInv, QueueHolds, NEW w \in Workers, Take(w)
  PROVE  QueueHolds' /\ \A j \in Jobs : Held(j) => Held(j)'
<1>1. /\ pool \in Seq(Jobs) /\ pool # <<>> /\ pool' = Tail(pool) /\ record' = record
      /\ job \in [Workers -> Jobs \cup {None}] /\ at[w] = "free"
      /\ at \in [Workers -> Places] /\ \A v \in Workers : at[v] = "free" <=> job[v] = None
  BY DEF JInv, TypeOK, Take, Places
<1> DEFINE len == Len(pool)
<1>2. /\ len \in Nat \ {0} /\ Len(pool') = len - 1 /\ Head(pool) = pool[1]
      /\ \A n \in 1 .. len - 1 : pool'[n] = pool[n + 1]
      /\ \A n \in 1 .. len : pool[n] \in Jobs
  BY <1>1, HeadTailProperties, ElementOfSeq, LenProperties, EmptySeq
<1>3. /\ job'[w] = pool[1] /\ at'[w] = "start" /\ job[w] = None /\ pool[1] # None
      /\ \A v \in Workers \ {w} : job'[v] = job[v] /\ at'[v] = at[v]
  BY <1>1, <1>2, JobAssumption DEF Take, Go
<1> HIDE DEF len
<1>4. \A n \in 1 .. len :
        /\ Waiting(pool[n])
        /\ \A m \in 1 .. len : pool[m] = pool[n] => m = n
        /\ \A v \in Workers : job[v] # pool[n]
  BY DEF QueueHolds, len
<1>5. \A n \in 1 .. len - 1 :
        /\ n + 1 \in 1 .. len /\ n + 1 # 1 /\ pool'[n] = pool[n + 1]
  BY <1>2
<1>6. ASSUME NEW n \in 1 .. len - 1
      PROVE  /\ Waiting(pool'[n])
             /\ \A m \in 1 .. len - 1 : pool'[m] = pool'[n] => m = n
             /\ \A v \in Workers : job'[v] # pool'[n]
  <2>1. Waiting(pool'[n]) /\ 1 \in 1 .. len
    BY <1>2, <1>4, <1>5
  <2>2. ASSUME NEW m \in 1 .. len - 1, pool'[m] = pool'[n] PROVE m = n
    <3>1. m + 1 = n + 1
      BY <1>4, <1>5, <2>2
    <3> QED
      BY <1>2, <3>1
  <2>3. \A v \in Workers : job'[v] # pool'[n]
    BY <1>3, <1>4, <1>5, <2>1
  <2> QED
    BY <2>1, <2>2, <2>3
<1>7. ASSUME NEW v \in Workers
      PROVE  /\ at'[v] = "start" => Waiting(job'[v])
             /\ job'[v] # None =>
                  /\ record[job'[v]] # None
                  /\ \A u \in Workers : job'[u] = job'[v] => u = v
  <2>1. 1 \in 1 .. len
    BY <1>2
  <2>2. CASE v = w
    BY <1>3, <1>4, <2>1, <2>2 DEF Waiting
  <2>3. CASE v # w
    BY <1>3, <1>4, <2>1, <2>3 DEF QueueHolds
  <2> QED
    BY <2>2, <2>3
<1>8. QueueHolds'
  BY <1>1, <1>2, <1>6, <1>7 DEF QueueHolds, Waiting
<1>9. ASSUME NEW j \in Jobs, Held(j) PROVE Held(j)'
  <2>1. CASE \E v \in Workers : job[v] = j
    <3>1. j # None
      BY JobAssumption
    <3> QED
      BY <1>3, <2>1, <3>1 DEF Held
  <2>2. ASSUME NEW n \in 1 .. len, pool[n] = j PROVE Held(j)'
    <3>1. CASE n = 1
      BY <1>3, <2>2, <3>1 DEF Held
    <3>2. CASE n # 1
      <4>1. n - 1 \in 1 .. len - 1 /\ pool'[n - 1] = j
        <5>1. n - 1 \in 1 .. len - 1 /\ (n - 1) + 1 = n
          BY <1>2, <3>2
        <5> QED
          BY <1>2, <2>2, <5>1
      <4> QED
        BY <1>2, <4>1 DEF Held
    <3> QED
      BY <3>1, <3>2
  <2> QED
    BY <1>9, <2>1, <2>2 DEF Held, len
<1> QED
  BY <1>8, <1>9

LEMMA QueueSubmit ==
  ASSUME JInv, QueueHolds, Calm, NEW p \in Projects, NEW k \in Keys, NEW j \in Jobs,
         SubmitNew(p, k, j)
  PROVE  QueueHolds' /\ Held(j)' /\ \A i \in Jobs : Held(i) => Held(i)'
<1>1. /\ TypeOK /\ pool \in Seq(Jobs) /\ pool' = Append(pool, j)
      /\ job' = job /\ at' = at /\ record[j] = None
  BY DEF JInv, TypeOK, SubmitNew
<1> DEFINE len == Len(pool)
           waits(i) == /\ record'[i] # None
                       /\ record'[i].status \notin {"running", "cancelling"}
<1>2. /\ len \in Nat /\ Len(pool') = len + 1 /\ pool'[len + 1] = j
      /\ \A n \in 1 .. len : pool'[n] = pool[n] /\ pool[n] \in Jobs
  BY <1>1, AppendProperties, ElementOfSeq, LenProperties
<1>3. waits(j)
  <2>1. j \in Jobs /\ record'[j] = [project |-> p, key |-> k, status |-> "queued"]
    <3> DEFINE expired == With({i \in Existing : Expirable(i)}, "stalled")
    <3>1. expired \in [Jobs -> {expired[x] : x \in Jobs}]
      BY DEF With
    <3> QED
      BY <3>1 DEF SubmitNew
  <2>2. [project |-> p, key |-> k, status |-> "queued"] # None
    BY JobAssumption DEF Record, InFlight
  <2> QED
    BY <2>1, <2>2
<1>4. \A n \in 1 .. len :
        /\ Waiting(pool[n]) /\ pool[n] # j
        /\ \A m \in 1 .. len : pool[m] = pool[n] => m = n
        /\ \A w \in Workers : job[w] # pool[n]
  BY <1>1 DEF QueueHolds, Waiting
<1>5. \A w \in Workers : job[w] # j
  BY <1>1, JobAssumption DEF QueueHolds
<1>6. \A i \in Jobs : Waiting(i) => waits(i)
  BY DEF Calm, Waiting, Existing
<1>7. \A n \in 1 .. len + 1 : n \in 1 .. len \/ n = len + 1
  BY <1>2
<1> HIDE DEF len, waits
<1>8. ASSUME NEW n \in 1 .. len + 1
      PROVE  /\ waits(pool'[n])
             /\ \A m \in 1 .. len + 1 : pool'[m] = pool'[n] => m = n
             /\ \A w \in Workers : job[w] # pool'[n]
  <2>1. CASE n = len + 1
    <3>1. waits(pool'[n])
      BY <1>2, <1>3, <2>1
    <3> QED
      BY <1>2, <1>4, <1>5, <1>7, <2>1, <3>1
  <2>2. CASE n \in 1 .. len
    <3>1. waits(pool'[n])
      BY <1>2, <1>4, <1>6, <2>2
    <3> QED
      BY <1>2, <1>4, <1>7, <2>2, <3>1
  <2> QED
    BY <1>7, <2>1, <2>2
<1>9. ASSUME NEW w \in Workers
      PROVE  /\ at[w] = "start" => waits(job[w])
             /\ job[w] # None =>
                  /\ record'[job[w]] # None
                  /\ \A v \in Workers : job[v] = job[w] => v = w
  <2>1. at[w] = "start" => waits(job[w])
    BY <1>1, <1>6, AtWork DEF QueueHolds
  <2> QED
    BY <1>1, <2>1 DEF QueueHolds, Calm, Existing, TypeOK
<1>10. QueueHolds'
  BY <1>1, <1>2, <1>8, <1>9 DEF QueueHolds, Waiting, waits, len
<1>11. Held(j)' /\ \A i \in Jobs : Held(i) => Held(i)'
  <2>1. len + 1 \in 1 .. len + 1 /\ \A n \in 1 .. len : n \in 1 .. len + 1
    BY <1>2
  <2> QED
    BY <1>1, <1>2, <2>1 DEF Held, len
<1> QED
  BY <1>10, <1>11

(* A worker starts a job that no other one and no place of the queue holds.*)
LEMMA QueueStart ==
  ASSUME JInv, JInv', QueueHolds, NEW w \in Workers, Start(w)
  PROVE  QueueHolds'
<1>1. PICK j \in Jobs : job[w] = j
  BY AtWork DEF Start
<1>2. /\ TypeOK /\ j # None /\ at[w] = "start" /\ pool' = pool /\ j \in Existing
  BY <1>1, JobAssumption DEF JInv, Start, MayStart, Is, Existing
<1>3. \A i \in Jobs : /\ (record'[i] = None) <=> (record[i] = None)
                      /\ i # j => record'[i] = record[i]
  <2> DEFINE next == With({j}, "running")
  <2>1. "running" \in InFlight \cup Terminal
    BY DEF InFlight
  <2>2. \A i \in Jobs : (next[i] = None) <=> (record[i] = None)
    BY <1>2, <2>1, WithOne
  <2>3. \A i \in Jobs : i # j => next[i] = record[i]
    BY DEF With
  <2>4. record' = next
    BY <1>1 DEF Start
  <2> QED
    BY <2>2, <2>3, <2>4
<1>4. /\ job' = job /\ at'[w] = "check"
      /\ \A v \in Workers \ {w} : at'[v] = at[v]
  BY <1>1, <1>2 DEF Start, Go, TypeOK
<1>5. \A n \in 1 .. Len(pool) : pool[n] \in Jobs /\ pool[n] # j
  BY <1>1, <1>2, ElementOfSeq DEF TypeOK, QueueHolds
<1>6. \A v \in Workers : v # w => job[v] # j
  BY <1>1, <1>2 DEF QueueHolds
<1>7. \A v \in Workers : job[v] # None => job[v] \in Jobs
  BY <1>2 DEF TypeOK
<1>8. \A v \in Workers : at'[v] = "start" => v # w /\ at[v] = "start" /\ job[v] # None
  BY <1>2, <1>4 DEF TypeOK
<1> QED
  BY <1>2, <1>3, <1>4, <1>5, <1>6, <1>7, <1>8 DEF QueueHolds, Waiting

(* What a step does to the queue and to the hands of the workers.          *)
LEMMA QueueStep ==
  ASSUME JInv, JInv', QueueHolds, [Next]_vars
  PROVE  QueueHolds'
<1>1. CASE \E w \in Workers : Start(w)
  BY <1>1, QueueStart
<1>2. CASE Calm
  <2>1. CASE \E w \in Workers : Take(w)
    BY <2>1, QueueTake
  <2>2. CASE Submits
    BY <1>2, <2>2, QueueSubmit DEF Submits
  <2>3. CASE Crash
    BY <2>3 DEF Crash, QueueHolds
  <2>4. ASSUME NEW w \in Workers, Work(w) \/ SaveFails(w), ~ Take(w), ~ Start(w)
        PROVE  QueueHolds'
    <3>1. TypeOK /\ at[w] # "free" /\ pool' = pool
      BY <2>4 DEF JInv, Work, Refuse, CheckCancel, Execute, Finish, SaveFails
    <3>2. PICK j \in {job[w], None}, place \in Places \ {"start"} : Go(w, j, place)
      BY <2>4 DEF Work, Refuse, CheckCancel, Execute, Finish, SaveFails, Release, Places
    <3>3. /\ \A v \in Workers : job'[v] \in {job[v], None}
          /\ \A v \in Workers : at'[v] = "start" => at[v] = "start" /\ job'[v] = job[v]
      BY <3>1, <3>2 DEF Go, TypeOK
    <3> QED
      BY <1>2, <3>1, <3>3, QueueKept
  <2>5. CASE /\ pool' = pool /\ job' = job /\ at' = at
    BY <1>2, <2>5, QueueKept
  <2>6. CASE \/ UNCHANGED vars \/ Observe \/ Recovery
             \/ \E j \in Jobs : CancelQueued(j) \/ CancelRunning(j) \/ QueueTimePasses(j)
             \/ \E p \in Projects, k \in Keys : SubmitExisting(p, k)
    BY <2>5, <2>6 DEF vars, memory, Observe, Recovery, Restart, Serve, InterruptOrphan,
                      CancelQueued, CancelRunning, QueueTimePasses, SubmitExisting
  <2> QED
    BY <1>1, <2>1, <2>2, <2>3, <2>4, <2>6 DEF Next, Request, Submits
<1> QED
  BY <1>1, <1>2, StepIsCalm

(* Only a submission puts a job in flight.                                 *)
LEMMA FlightBegins ==
  ASSUME JInv, [Next]_vars, NEW j \in Jobs, Is(j, InFlight)'
  PROVE  Is(j, InFlight) \/ \E p \in Projects, k \in Keys : SubmitNew(p, k, j)
<1>1. CASE Unmoved \/ Enters
  BY <1>1 DEF Unmoved, Enters, Is
<1>2. CASE Ends
  <2>1. PICK S \in SUBSET Existing, s \in Terminal : record' = With(S, s)
    BY <1>2 DEF Ends
  <2>2. TypeOK /\ s \in InFlight \cup Terminal
    BY DEF JInv
  <2>3. /\ (record'[j] = None) <=> (record[j] = None)
        /\ record[j] # None =>
             record'[j].status = IF j \in S THEN s ELSE record[j].status
    BY <2>1, <2>2, WithType
  <2> QED
    BY <2>3 DEF Is, InFlight, Terminal
<1>3. CASE Turns
  <2>1. PICK i \in Existing, s \in {"running", "cancelling"} :
          Is(i, {"queued", "running"}) /\ record' = With({i}, s)
    BY <1>3 DEF Turns
  <2>2. CASE j = i
    BY <2>1, <2>2 DEF Is, InFlight
  <2>3. CASE j # i
    BY <2>1, <2>3 DEF Is, With
  <2> QED
    BY <2>2, <2>3
<1>4. CASE Submits
  <2>1. PICK p \in Projects, k \in Keys, i \in Jobs : SubmitNew(p, k, i)
    BY <1>4 DEF Submits
  <2>2. CASE j = i
    BY <2>1, <2>2
  <2>3. CASE j # i
    <3> DEFINE late == {n \in Existing : Expirable(n)}
    <3>1. record'[j] = With(late, "stalled")[j]
      BY <2>1, <2>3 DEF SubmitNew, With
    <3>2. j \in late => Is(j, InFlight)
      BY DEF Expirable, Is, InFlight
    <3>3. j \notin late => record'[j] = record[j]
      BY <3>1 DEF With
    <3> HIDE DEF late
    <3> QED
      BY <3>2, <3>3 DEF Is
  <2> QED
    BY <2>2, <2>3
<1> QED
  BY <1>1, <1>2, <1>3, <1>4, StepOfRecords

(* Whoever lets go of a job that it holds leaves it over.                  *)
LEMMA LetGoIsOver ==
  ASSUME WriteMayFail = FALSE, JInv, QueueHolds, NEW w \in Workers,
         Refuse(w) \/ Finish(w) \/ SaveFails(w),
         NEW j \in Jobs, job[w] = j, Is(j, InFlight)'
  PROVE  FALSE
<1>1. job[w] = j
  OBVIOUS
<1>2. CASE Refuse(w)
  <2>1. Waiting(j) /\ ~ (Is(j, {"queued"}) /\ ~ Expirable(j))
    BY <1>1, <1>2 DEF Refuse, MayStart, QueueHolds
  <2> DEFINE late == {i \in {job[w]} : Expirable(i)}
  <2>2. record' = With(late, "stalled") /\ (j \in late <=> Expirable(j))
    BY <1>1, <1>2 DEF Refuse
  <2> HIDE DEF late
  <2>3. CASE j \in late
    <3>1. record[j] \in Record
      BY <2>1 DEF JInv, TypeOK, Waiting
    <3>2. record'[j].status = "stalled"
      BY <2>2, <2>3, <3>1 DEF With, Record
    <3> QED
      BY <1>1, <1>2, <3>2 DEF Refuse, Is, InFlight
  <2>4. CASE j \notin late
    <3>1. record'[j] = record[j]
      BY <2>2, <2>4 DEF With
    <3>2. Is(j, InFlight)
      BY <1>1, <3>1, <1>2 DEF Is, Refuse
    <3> QED
      BY <2>1, <2>2, <2>4, <3>2 DEF Waiting, Is, InFlight
  <2> QED
    BY <2>3, <2>4
<1>3. CASE Finish(w)
  <2>1. record[j] \in Record
    BY <1>1, <1>3 DEF JInv, TypeOK, WorkersOwn, Owned, Finish, Is
  <2>2. record'[j].status = at[w]
    BY <1>1, <1>3, <2>1 DEF Finish, With, Record
  <2> QED
    BY <1>1, <1>3, <2>2 DEF Finish, Is, InFlight
<1> QED
  BY <1>2, <1>3 DEF SaveFails

(* While a process recovers, what is in flight is still to be read; when   *)
(* it serves, somebody holds it.                                           *)
Backed == \A j \in Jobs : Is(j, InFlight) =>
            /\ phase = "up" => Held(j)
            /\ phase = "recovering" => j \in scan

LEMMA BackedStep ==
  ASSUME WriteMayFail = FALSE, JInv, JInv', QueueHolds, Backed, [Next]_vars
  PROVE  Backed'
<1>1. CASE Submits
  <2>1. PICK p \in Projects, k \in Keys, j \in Jobs : SubmitNew(p, k, j)
    BY <1>1 DEF Submits
  <2>2. CASE Calm
    <3>1. Held(j)' /\ \A i \in Jobs : Held(i) => Held(i)'
      BY <2>1, <2>2, QueueSubmit
    <3>2. \A i \in Jobs \ {j} : Is(i, InFlight)' => Is(i, InFlight)
      <4>1. \A i \in Jobs \ {j} : \A q \in Projects, c \in Keys : ~ SubmitNew(q, c, i)
        <5> SUFFICES ASSUME NEW i \in Jobs \ {j}, NEW q \in Projects, NEW c \in Keys,
                            SubmitNew(q, c, i)
                     PROVE  FALSE
          OBVIOUS
        <5>1. pool' = Append(pool, i) /\ pool' = Append(pool, j) /\ pool \in Seq(Jobs)
          BY <2>1 DEF SubmitNew, JInv, TypeOK
        <5>2. Append(pool, i)[Len(pool) + 1] = i /\ Append(pool, j)[Len(pool) + 1] = j
          BY <5>1, AppendProperties
        <5> QED
          BY <5>1, <5>2
      <4> QED
        BY <4>1, FlightBegins
    <3> QED
      BY <2>1, <3>1, <3>2 DEF Backed, SubmitNew
  <2>3. CASE \E w \in Workers : Start(w)
    BY <2>1, <2>3 DEF SubmitNew, Start, JInv, TypeOK, Go
  <2> QED
    BY <2>2, <2>3, StepIsCalm
<1>2. CASE ~ Submits
  <2>1. \A j \in Jobs : Is(j, InFlight)' => Is(j, InFlight)
    BY <1>2, FlightBegins DEF Submits
  <2>2. ASSUME NEW w \in Workers, Work(w) \/ SaveFails(w) PROVE Backed'
    <3>1. phase = "up" /\ phase' = "up" /\ TypeOK
      <4>1. CASE Take(w)
        BY <4>1 DEF Take, JInv, OnlyServingWorks
      <4>2. CASE ~ Take(w)
        <5>1. at[w] # "free"
          BY <2>2, <4>2 DEF Work, Start, Refuse, CheckCancel, Execute, Finish, SaveFails
        <5>2. phase' = phase
          BY <2>2, <4>2 DEF Work, Start, Refuse, CheckCancel, Execute, Finish, SaveFails
        <5> QED
          BY <5>1, <5>2, AtWork DEF JInv
      <4>3. TypeOK
        BY DEF JInv
      <4> QED
        BY <4>1, <4>2, <4>3
    <3>2. CASE Take(w)
      BY <2>1, <3>1, <3>2, QueueTake DEF Backed
    <3>3. CASE Refuse(w) \/ Finish(w) \/ SaveFails(w)
      <4>1. /\ pool' = pool
            /\ \A v \in Workers \ {w} : job'[v] = job[v]
        BY <3>1, <3>3 DEF Refuse, Finish, SaveFails, Release, Go, TypeOK
      <4>2. \A j \in Jobs : Is(j, InFlight)' => j # job[w]
        BY <3>3, LetGoIsOver
      <4> QED
        BY <2>1, <3>1, <4>1, <4>2 DEF Backed, Held
    <3>4. CASE Start(w) \/ CheckCancel(w) \/ Execute(w)
      <4>1. pool' = pool /\ job' = job
        BY <3>1, <3>4 DEF Start, CheckCancel, Execute, Go, TypeOK
      <4> QED
        BY <2>1, <3>1, <4>1 DEF Backed, Held
    <3> QED
      BY <2>2, <3>2, <3>3, <3>4 DEF Work
  <2>3. CASE Crash
    BY <2>3 DEF Crash, Backed
  <2>4. CASE Restart
    BY <2>1, <2>4 DEF Restart, Backed, Is, Existing
  <2>5. CASE Serve
    BY <2>1, <2>5 DEF Serve, Backed
  <2>6. ASSUME NEW j \in Jobs, InterruptOrphan(j) PROVE Backed'
    <3>1. ~ Is(j, InFlight)'
      <4>1. CASE Orphan(j)
        <5>1. record[j] \in Record /\ record' = With({j}, "interrupted")
          BY <2>6, <4>1 DEF InterruptOrphan, Orphan, Is, JInv, TypeOK
        <5>2. record'[j].status = "interrupted"
          BY <5>1 DEF With, Record
        <5> QED
          BY <5>2 DEF Is, InFlight
      <4>2. CASE ~ Orphan(j)
        BY <2>6, <4>2 DEF InterruptOrphan, Orphan, Is
      <4> QED
        BY <4>1, <4>2
    <3>2. \A i \in Jobs : Is(i, InFlight)' => i # j
      BY <3>1 DEF Is
    <3> QED
      BY <2>1, <2>6, <3>2 DEF InterruptOrphan, Backed
  <2>7. CASE \/ UNCHANGED vars \/ Observe
             \/ \E j \in Jobs : CancelQueued(j) \/ CancelRunning(j) \/ QueueTimePasses(j)
             \/ \E p \in Projects, k \in Keys : SubmitExisting(p, k)
    <3>1. UNCHANGED <<pool, job, phase, scan>>
      BY <2>7 DEF vars, memory, Observe, CancelQueued, CancelRunning, QueueTimePasses,
                  SubmitExisting
    <3> QED
      BY <2>1, <3>1 DEF Backed, Held
  <2> QED
    BY <1>2, <2>2, <2>3, <2>4, <2>5, <2>6, <2>7 DEF Next, Request, Recovery, Submits
<1> QED
  BY <1>1, <1>2

(* No two workers hold one job, and a job is started by the only one that  *)
(* was ever given it: also when writes fail and processes die.             *)
THEOREM JobsHaveOneHolder == Spec => []QueueHolds
<1>1. Init => QueueHolds
  BY DEF Init, QueueHolds
<1> QED
  BY <1>1, QueueStep, JobInvariance, PTL DEF Spec

(* If the records can be written, a job in flight is always in the queue   *)
(* or with a worker while the process serves.                              *)
THEOREM InFlightAlwaysBacked ==
  ASSUME WriteMayFail = FALSE
  PROVE  Spec => []InFlightIsBacked
<1>1. Init => Backed
  BY DEF Init, Backed, Is
<1>2. Backed /\ JInv /\ JInv' /\ QueueHolds /\ [Next]_vars => Backed'
  BY BackedStep
<1>3. Backed => InFlightIsBacked
  BY DEF Backed, Held, InFlightIsBacked
<1> QED
  BY <1>1, <1>2, <1>3, JobInvariance, JobsHaveOneHolder, PTL DEF Spec
=============================================================================
