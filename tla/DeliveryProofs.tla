--------------------------- MODULE DeliveryProofs ---------------------------
(* Theorems about Delivery, for any images, branches and attempts.          *)
EXTENDS Delivery, TLAPS

(* Whatever part of a candidate is on disk was made from the checkpoint.    *)
PartsAreFrozen ==
  \A id \in DOMAIN bundles : \A p \in DOMAIN bundles[id] :
    bundles[id][p] = data[id]

Whole == CandidateIsWhole /\ PartsAreFrozen

DInv == TypeOK /\ Whole

----------------------------------------------------------------------------
(* Facts about the operators.                                               *)

LEMMA HasPart ==
  ASSUME NEW id, NEW p
  PROVE  Has(id, p) <=> id \in DOMAIN bundles /\ p \in DOMAIN bundles[id]
<1>1. DOMAIN <<>> = {}
  OBVIOUS
<1> QED
  BY <1>1 DEF Has, Written

LEMMA HasPartNext ==
  ASSUME NEW id, NEW p
  PROVE  Has(id, p)' <=> id \in DOMAIN bundles' /\ p \in DOMAIN bundles'[id]
<1>1. DOMAIN <<>> = {}
  OBVIOUS
<1> QED
  BY <1>1 DEF Has, Written

LEMMA PartsNamed ==
  /\ DOMAIN Parts = 1..4
  /\ Parts[1] = "image" /\ Parts[2] = "note" /\ Parts[3] = "envelope"
  /\ Parts[4] = "marker"
  BY DEF Parts

(* What a transaction or a recovery does to the checkpoints leaves the      *)
(* candidates alone.                                                        *)
LEMMA WholeKept ==
  ASSUME DInv, UNCHANGED candidates, DOMAIN data \subseteq DOMAIN data',
         \A id \in DOMAIN data : data'[id] = data[id]
  PROVE  Whole'
<1>1. bundles' = bundles /\ announced' = announced /\ DOMAIN bundles \subseteq DOMAIN data
  BY DEF candidates, DInv, TypeOK, FilesOK
<1>2. PartsAreFrozen'
  BY <1>1 DEF DInv, Whole, PartsAreFrozen
<1>3. CandidateIsWhole'
  <2> SUFFICES ASSUME NEW id \in Ids
               PROVE  /\ Has(id, "marker")' =>
                           \A i \in DOMAIN Parts : Has(id, Parts[i])' /\ Written(id)'[Parts[i]] = data'[id]
                      /\ announced'[id] <= 1
                      /\ announced'[id] = 1 => Has(id, "marker")'
    BY DEF CandidateIsWhole, Parts
  <2>1. \A p : Has(id, p)' <=> Has(id, p)
    BY <1>1 DEF Has, Written
  <2>2. Written(id)' = Written(id)
    BY <1>1 DEF Written
  <2>3. Has(id, "marker") => data'[id] = data[id]
    BY <1>1, HasPart
  <2> QED
    BY <1>1, <2>1, <2>2, <2>3 DEF DInv, Whole, CandidateIsWhole
<1> QED
  BY <1>2, <1>3 DEF Whole

THEOREM InitDInv == Init => DInv
<1> SUFFICES ASSUME Init PROVE DInv
  OBVIOUS
<1>1. DOMAIN <<>> = {} /\ DOMAIN data = {} /\ DOMAIN bundles = {}
  BY DEF Init
<1>2. StoreOK
  BY <1>1, DeliveryAssumption DEF Init, StoreOK, Manifests, Unfinished, Branches
<1>3. FilesOK
  BY <1>1 DEF Init, FilesOK
<1>4. ThreadsOK
  BY DEF Init, ThreadsOK, Idle, NoRequest
<1>5. PartsAreFrozen
  BY <1>1 DEF PartsAreFrozen
<1>6. CandidateIsWhole
  BY <1>1, HasPart DEF CandidateIsWhole, Init
<1> QED
  BY <1>2, <1>3, <1>4, <1>5, <1>6 DEF DInv, TypeOK, Whole

----------------------------------------------------------------------------
(* The transactions.                                                        *)

LEMMA BeginStep ==
  ASSUME DInv, NEW id \in Ids, NEW frozen \in Texts, Begin(id, frozen),
         UNCHANGED <<index, manifest, branches, exported, candidates>>
  PROVE  /\ StoreOK' /\ FilesOK' /\ Whole' /\ IntentOK'
         /\ DOMAIN data \subseteq DOMAIN data'
<1>1. /\ id \notin DOMAIN data /\ data' = Put(data, id, frozen)
      /\ pending' = [id |-> id, step |-> "intent", previous |-> manifest]
  BY DEF Begin, Fresh
<1>2. /\ DOMAIN data' = DOMAIN data \cup {id} /\ data'[id] = frozen
      /\ \A x \in DOMAIN data : data'[x] = data[x]
  BY <1>1 DEF Put
<1>3. /\ manifest \in Manifests /\ manifest.point \in index \cup {None}
      /\ index \subseteq DOMAIN data /\ id # None
  BY NoneAssumption DEF DInv, TypeOK, StoreOK
<1>4. IntentOK'
  BY <1>1, <1>2, <1>3 DEF IntentOK, Manifests
<1>5. StoreOK'
  BY <1>2, <1>4 DEF DInv, TypeOK, StoreOK, Manifests
<1>6. FilesOK'
  BY <1>2 DEF DInv, TypeOK, FilesOK, candidates
<1>7. Whole'
  BY <1>2, WholeKept
<1> QED
  BY <1>2, <1>4, <1>5, <1>6, <1>7

LEMMA WriterHolds ==
  ASSUME ThreadsOK, lock = "writer"
  PROVE  run # Idle /\ request = NoRequest
  BY NoneAssumption DEF ThreadsOK

LEMMA FreeLock ==
  ASSUME ThreadsOK, lock = None
  PROVE  run = Idle /\ request = NoRequest
  BY NoneAssumption DEF ThreadsOK

LEMMA CheckpointStep ==
  ASSUME DInv, NEW id \in Ids, Checkpoint(id)  PROVE DInv'
<1>1. /\ run.pc = "recover" /\ run.text \in Texts /\ run # Idle
      /\ request = NoRequest /\ lock = "writer"
  BY DEF DInv, TypeOK, ThreadsOK, Checkpoint, Idle
<1>2. /\ StoreOK' /\ FilesOK' /\ Whole' /\ IntentOK'
      /\ DOMAIN data \subseteq DOMAIN data'
  BY <1>1, BeginStep DEF Checkpoint
<1>3. /\ run' = [run EXCEPT !.pc = "commit"]
      /\ UNCHANGED <<lock, request, retry>>
  BY DEF Checkpoint
<1>4. run' \in [pc : {"commit"}, text : Texts] /\ run' # Idle
  BY <1>1, <1>3 DEF DInv, TypeOK, ThreadsOK, Idle
<1>5. ThreadsOK'
  BY <1>1, <1>2, <1>3, <1>4 DEF DInv, TypeOK, ThreadsOK, NoRequest, candidates
<1> QED
  BY <1>2, <1>5 DEF DInv, TypeOK

LEMMA ForkStep ==
  ASSUME DInv, NEW id \in index, NEW target \in Ids, Fork(id, target)
  PROVE  DInv'
<1>1. data[id] \in Texts /\ run = Idle /\ request = NoRequest
  BY FreeLock DEF DInv, TypeOK, StoreOK, Fork
<1>2. /\ StoreOK' /\ FilesOK' /\ Whole' /\ IntentOK'
      /\ DOMAIN data \subseteq DOMAIN data'
  BY <1>1, BeginStep DEF Fork
<1>3. /\ run' \in [pc : {"commit"}, text : Texts] /\ run' # Idle
      /\ lock' = "writer" /\ request' = NoRequest /\ retry' = retry
  BY <1>1 DEF Fork, Idle
<1>4. ThreadsOK'
  BY <1>2, <1>3 DEF DInv, TypeOK, ThreadsOK, candidates, NoRequest
<1> QED
  BY <1>2, <1>4 DEF DInv, TypeOK

(* The other steps on the store keep the checkpoints that are prepared.     *)
LEMMA StoreStep ==
  ASSUME DInv, StoreOK', UNCHANGED <<data, exported, candidates>>, ThreadsOK'
  PROVE  DInv'
<1>1. FilesOK'
  BY DEF DInv, TypeOK, FilesOK, candidates
<1>2. Whole'
  BY WholeKept
<1> QED
  BY <1>1, <1>2 DEF DInv, TypeOK

LEMMA SaveStep == ASSUME DInv, Save PROVE DInv'
<1>1. IntentOK /\ pending.step = "intent"
  BY DEF DInv, TypeOK, ThreadsOK, Save
<1>2. IntentOK'
  BY <1>1 DEF Save, IntentOK
<1>3. StoreOK'
  BY <1>1, <1>2 DEF Save, DInv, TypeOK, StoreOK, IntentOK, Ids
<1>4. ThreadsOK'
  BY <1>2 DEF Save, DInv, TypeOK, ThreadsOK, candidates, NoRequest
<1> QED
  BY <1>3, <1>4, StoreStep DEF Save

LEMMA SwapStep == ASSUME DInv, Swap PROVE DInv'
<1>1. IntentOK /\ pending.step = "saved"
  BY DEF DInv, TypeOK, ThreadsOK, Swap
<1>2. IntentOK'
  BY <1>1 DEF Swap, IntentOK
<1>3. StoreOK'
  BY <1>1, <1>2 DEF Swap, DInv, TypeOK, StoreOK, IntentOK, Ids, Manifests
<1>4. ThreadsOK'
  BY <1>2 DEF Swap, DInv, TypeOK, ThreadsOK, candidates, NoRequest
<1> QED
  BY <1>3, <1>4, StoreStep DEF Swap

LEMMA CommitStep == ASSUME DInv, Commit PROVE DInv'
<1>1. StoreOK'
  BY DEF Commit, DInv, TypeOK, StoreOK
<1>2. request = NoRequest
  BY WriterHolds DEF Commit, DInv, TypeOK
<1>3. ThreadsOK'
  BY <1>2 DEF Commit, DInv, TypeOK, ThreadsOK, Idle, candidates, NoRequest
<1> QED
  BY <1>1, <1>3, StoreStep DEF Commit

LEMMA RecoverStep == ASSUME DInv, Recover PROVE DInv'
<1>1. IntentOK /\ run.pc # "commit"
  BY FreeLock DEF Recover, DInv, TypeOK, StoreOK, Idle
<1>2. StoreOK'
  BY <1>1 DEF Recover, DInv, TypeOK, StoreOK, IntentOK, Manifests
<1>3. ThreadsOK'
  BY <1>1 DEF Recover, DInv, TypeOK, ThreadsOK, candidates, NoRequest
<1> QED
  BY <1>2, <1>3, StoreStep DEF Recover

LEMMA MoveStep ==
  ASSUME DInv, \/ \E b \in Branches : Rerun(b)
               \/ \E id \in index : Switch(id)
  PROVE  DInv'
<1>1. StoreOK'
  <2>1. ASSUME NEW b \in Branches, Rerun(b) PROVE StoreOK'
    BY <2>1 DEF Rerun, DInv, TypeOK, StoreOK, Unfinished, Manifests
  <2>2. ASSUME NEW id \in index, Switch(id) PROVE StoreOK'
    BY <2>2 DEF Switch, DInv, TypeOK, StoreOK, Manifests, Ids
  <2> QED
    BY <2>1, <2>2
<1>2. lock = None /\ UNCHANGED <<data, exported, candidates, lock, run, request, retry>>
  BY DEF Rerun, Switch
<1>3. run = Idle
  BY <1>2, FreeLock DEF DInv, TypeOK
<1>4. ThreadsOK'
  BY <1>2, <1>3 DEF DInv, TypeOK, ThreadsOK, Idle, candidates, NoRequest
<1> QED
  BY <1>1, <1>2, <1>4, StoreStep

----------------------------------------------------------------------------
(* The exports.                                                             *)

(* Steps that touch neither the store nor the candidates.                   *)
LEMMA ThreadStep ==
  ASSUME DInv, ThreadsOK', UNCHANGED <<store, candidates>>,
         exported' \in [note : Texts \cup {None}, envelope : Texts \cup {None}]
  PROVE  DInv'
<1>1. StoreOK'
  BY DEF store, DInv, TypeOK, StoreOK, IntentOK
<1>2. FilesOK'
  BY DEF store, candidates, DInv, TypeOK, FilesOK
<1>3. Whole'
  BY WholeKept DEF store
<1> QED
  BY <1>1, <1>2, <1>3 DEF DInv, TypeOK

LEMMA FinalStep ==
  ASSUME DInv, NEW asset \in Assets, NEW note \in {"written", "template"},
         Final(asset, note)
  PROVE  DInv'
<1>1. request = NoRequest
  BY FreeLock DEF Final, DInv, TypeOK
<1>2. /\ run' \in [pc : {"note"}, text : Texts] /\ run' # Idle
      /\ lock' = "writer" /\ request' = NoRequest /\ retry' = retry
  BY <1>1 DEF Final, Texts, Idle
<1>3. ThreadsOK'
  BY <1>2 DEF DInv, TypeOK, ThreadsOK, candidates, NoRequest
<1>4. exported' = exported /\ UNCHANGED <<store, candidates>>
  BY DEF Final
<1> QED
  BY <1>3, <1>4, ThreadStep DEF DInv, TypeOK, FilesOK

LEMMA ExportStep ==
  ASSUME DInv, ExportNote \/ ExportEnvelope
  PROVE  DInv'
<1>1. /\ run.pc \in {"note", "envelope"} /\ run # Idle /\ run.text \in Texts
      /\ request = NoRequest
  BY DEF ExportNote, ExportEnvelope, DInv, TypeOK, ThreadsOK, Idle
<1>2. PICK place \in {"envelope", "recover"} : run' = [run EXCEPT !.pc = place]
  BY DEF ExportNote, ExportEnvelope
<1>3. /\ run' \in [pc : {"envelope", "recover"}, text : Texts] /\ run' # Idle
      /\ run'.pc # "commit"
  BY <1>1, <1>2 DEF DInv, TypeOK, ThreadsOK, Idle
<1>4. UNCHANGED <<store, candidates, lock, request, retry>>
  BY DEF ExportNote, ExportEnvelope
<1>5. exported' \in [note : Texts \cup {None}, envelope : Texts \cup {None}]
  BY <1>1 DEF ExportNote, ExportEnvelope, DInv, TypeOK, FilesOK
<1>6. ThreadsOK'
  BY <1>1, <1>3, <1>4 DEF DInv, TypeOK, ThreadsOK, store, candidates, NoRequest
<1> QED
  BY <1>4, <1>5, <1>6, ThreadStep

LEMMA RetryStep == ASSUME DInv, Retry PROVE DInv'
<1>1. UNCHANGED <<store, candidates, lock, run, request>>
  BY DEF Retry, RetryNote, RewriteNote, RewriteEnvelope
<1>2. /\ retry' \in {Idle} \cup [pc : {"note", "envelope"}, text : Texts]
      /\ exported' \in [note : Texts \cup {None}, envelope : Texts \cup {None}]
  <2>1. CASE RetryNote
    <3>1. Committed.point \in DOMAIN data
      BY <2>1 DEF RetryNote, Committed, DInv, TypeOK, StoreOK, IntentOK
    <3> QED
      BY <2>1, <3>1 DEF RetryNote, Texts, DInv, TypeOK, StoreOK, FilesOK
  <2>2. CASE RewriteNote
    <3>1. retry \in [pc : {"note", "envelope"}, text : Texts]
      BY <2>2 DEF RewriteNote, DInv, TypeOK, ThreadsOK, Idle
    <3> QED
      BY <2>2, <3>1 DEF RewriteNote, DInv, TypeOK, FilesOK
  <2>3. CASE RewriteEnvelope
    <3>1. retry \in [pc : {"note", "envelope"}, text : Texts]
      BY <2>3 DEF RewriteEnvelope, DInv, TypeOK, ThreadsOK, Idle
    <3> QED
      BY <2>3, <3>1 DEF RewriteEnvelope, DInv, TypeOK, FilesOK
  <2> QED
    BY <2>1, <2>2, <2>3 DEF Retry
<1>3. ThreadsOK'
  BY <1>1, <1>2 DEF DInv, TypeOK, ThreadsOK, store, IntentOK, candidates, NoRequest
<1> QED
  BY <1>1, <1>2, <1>3, ThreadStep

----------------------------------------------------------------------------
(* The requests.                                                            *)

LEMMA AskStep == ASSUME DInv, FinalizeActive \/ FinalizeAll PROVE DInv'
<1>1. PICK all \in BOOLEAN, ids \in SUBSET DOMAIN data :
        Ask(all, ids) /\ (all \/ \A i, j \in ids : i = j)
  BY DEF FinalizeActive, FinalizeAll, DInv, TypeOK, StoreOK
<1>2. run = Idle
  BY <1>1, FreeLock DEF Ask, DInv, TypeOK
<1>3. /\ request' \in [pc : {"bundle"}, all : BOOLEAN, todo : SUBSET DOMAIN data]
      /\ request' # NoRequest
      /\ request'.all \/ \A i, j \in request'.todo : i = j
  BY <1>1 DEF Ask, NoRequest
<1>4. ThreadsOK'
  BY <1>1, <1>2, <1>3 DEF Ask, DInv, TypeOK, ThreadsOK, store, Idle, candidates, NoRequest
<1> QED
  BY <1>1, <1>4, ThreadStep DEF Ask, DInv, TypeOK, FilesOK

(* A request at work holds the lock, and its candidates are prepared.       *)
LEMMA AtWork ==
  ASSUME DInv, NEW pc \in {"bundle", "publish", "event"}, NEW id, At(pc, id)
  PROVE  /\ request \in [pc : {"bundle", "publish", "event"}, all : BOOLEAN,
                         todo : SUBSET DOMAIN data]
         /\ request # NoRequest /\ run = Idle /\ lock = "delivery"
         /\ id \in DOMAIN data /\ id \in Ids
  BY DEF At, DInv, TypeOK, StoreOK, ThreadsOK, NoRequest

LEMMA EndsOK ==
  ASSUME DInv, Ends, run = Idle, UNCHANGED <<data, run, retry>>
  PROVE  ThreadsOK'
  BY DEF Ends, DInv, TypeOK, ThreadsOK, Idle, candidates, NoRequest

(* Steps on the candidates leave the store alone.                           *)
LEMMA CandidateStep ==
  ASSUME DInv, UNCHANGED <<store, exported>>, FilesOK', ThreadsOK', Whole'
  PROVE  DInv'
<1>1. StoreOK'
  BY DEF store, DInv, TypeOK, StoreOK, IntentOK
<1> QED
  BY <1>1 DEF DInv, TypeOK

LEMMA WritePartStep ==
  ASSUME DInv, NEW id, NEW n \in DOMAIN Parts, WritePart(id, n)
  PROVE  DInv'
<1>1. /\ id \in DOMAIN data /\ id \in Ids
      /\ bundles' = Put(bundles, id, Put(Written(id), Parts[n], data[id]))
      /\ ~Has(id, "marker") /\ ~Has(id, Parts[n])
      /\ \A i \in DOMAIN Parts : i < n => Has(id, Parts[i])
      /\ UNCHANGED <<store, exported, announced, finalized, event, lock, run,
                    request, retry>>
  BY AtWork DEF WritePart, TextOf
<1>2. /\ DOMAIN bundles' = DOMAIN bundles \cup {id}
      /\ \A x \in DOMAIN bundles : x # id => bundles'[x] = bundles[x]
      /\ bundles'[id] = Put(Written(id), Parts[n], data[id])
  BY <1>1 DEF Put
<1>3. /\ DOMAIN bundles'[id] = DOMAIN Written(id) \cup {Parts[n]}
      /\ bundles'[id][Parts[n]] = data[id]
      /\ \A p \in DOMAIN Written(id) : p # Parts[n] => bundles'[id][p] = Written(id)[p]
  BY <1>2 DEF Put
<1>4. \A p \in DOMAIN Written(id) : Written(id)[p] = data[id]
  <2>1. DOMAIN <<>> = {}
    OBVIOUS
  <2> QED
    BY <2>1 DEF Written, DInv, Whole, PartsAreFrozen
<1>5. data' = data
  BY <1>1 DEF store
<1>6. PartsAreFrozen'
  BY <1>2, <1>3, <1>4, <1>5 DEF PartsAreFrozen, DInv, Whole
<1>7. CandidateIsWhole'
  <2> SUFFICES ASSUME NEW x \in Ids
               PROVE  /\ Has(x, "marker")' =>
                           \A i \in DOMAIN Parts : Has(x, Parts[i])' /\ Written(x)'[Parts[i]] = data'[x]
                      /\ announced'[x] <= 1
                      /\ announced'[x] = 1 => Has(x, "marker")'
    BY DEF CandidateIsWhole, Parts
  <2>1. CASE x # id
    <3>1. Written(x)' = Written(x)
      BY <2>1, <1>2 DEF Written
    <3>2. \A p : Has(x, p)' <=> Has(x, p)
      BY <3>1 DEF Has
    <3> QED
      BY <1>1, <1>5, <3>1, <3>2 DEF DInv, Whole, CandidateIsWhole
  <2>2. CASE x = id
    <3>1. Written(x)' = bundles'[id]
      BY <2>2, <1>2 DEF Written
    <3>2. \A p : Has(x, p)' <=> (p = Parts[n] \/ Has(x, p))
      BY <2>2, <3>1, <1>3 DEF Has
    <3>3. announced[x] # 1 /\ announced[x] <= 1 /\ announced'[x] = announced[x]
      BY <2>2, <1>1 DEF DInv, Whole, CandidateIsWhole
    <3>4. ASSUME Has(x, "marker")'
          PROVE  \A i \in DOMAIN Parts : Has(x, Parts[i])' /\ Written(x)'[Parts[i]] = data'[x]
      <4>1. n = 4
        BY <3>4, <3>2, <2>2, <1>1, PartsNamed
      <4>2. \A i \in DOMAIN Parts : Has(x, Parts[i])'
        BY <4>1, <3>2, <2>2, <1>1, PartsNamed
      <4>3. \A i \in DOMAIN Parts : Parts[i] \in DOMAIN bundles'[id]
        BY <4>2, <3>1, <2>2 DEF Has
      <4> QED
        BY <4>2, <4>3, <3>1, <1>6, <2>2, <1>2 DEF PartsAreFrozen
    <3> QED
      BY <3>3, <3>4
  <2> QED
    BY <2>1, <2>2
<1>8. FilesOK'
  BY <1>1, <1>2, <1>5 DEF DInv, TypeOK, FilesOK
<1>9. ThreadsOK'
  BY <1>1, <1>2 DEF DInv, TypeOK, ThreadsOK, store, IntentOK
<1> QED
  BY <1>1, <1>6, <1>7, <1>8, <1>9, CandidateStep DEF Whole

LEMMA AnnounceStep == ASSUME DInv, NEW id, Announce(id) PROVE DInv'
<1>1. /\ id \in DOMAIN data /\ id \in Ids /\ Has(id, "marker")
      /\ UNCHANGED <<store, exported, bundles, finalized, event, lock, run, retry>>
      /\ run = Idle /\ lock = "delivery"
  BY AtWork DEF Announce
<1>2. /\ announced' \in [Ids -> Nat]
      /\ \A x \in Ids : announced'[x] = IF x = id THEN 1 ELSE announced[x]
  BY <1>1 DEF Announce, DInv, TypeOK, FilesOK, Whole, CandidateIsWhole
<1>3. FilesOK'
  BY <1>1, <1>2 DEF DInv, TypeOK, FilesOK, store
<1>4. PartsAreFrozen'
  BY <1>1 DEF DInv, Whole, PartsAreFrozen, store
<1>5. CandidateIsWhole'
  <2>1. data' = data /\ bundles' = bundles
    BY <1>1 DEF store
  <2>2. \A x, p : (Has(x, p)' <=> Has(x, p)) /\ Written(x)' = Written(x)
    BY <2>1 DEF Has, Written
  <2> QED
    BY <1>1, <1>2, <2>1, <2>2 DEF DInv, Whole, CandidateIsWhole
<1>6. /\ request' \in [pc : {"bundle", "publish"}, all : BOOLEAN,
                    todo : SUBSET DOMAIN data]
      /\ request' # NoRequest
      /\ request'.pc = "publish" => request'.todo \subseteq DOMAIN bundles
      /\ request'.all \/ \A i, j \in request'.todo : i = j
  <2>1. /\ request \in [pc : {"bundle", "publish", "event"}, all : BOOLEAN,
                        todo : SUBSET DOMAIN data]
        /\ request.pc = "bundle" /\ id \in request.todo
        /\ request.all \/ \A i, j \in request.todo : i = j
    BY AtWork DEF Announce, At, DInv, TypeOK, ThreadsOK
  <2>2. id \in DOMAIN bundles
    BY <1>1, HasPart
  <2> QED
    BY <2>1, <2>2 DEF Announce, NoRequest
<1>7. ThreadsOK'
  BY <1>1, <1>6 DEF DInv, TypeOK, ThreadsOK, store, Idle, candidates, NoRequest
<1> QED
  BY <1>1, <1>3, <1>4, <1>5, <1>7, CandidateStep DEF Whole

(* finalized.json and its event change no candidate.                        *)
LEMMA WholeSame ==
  ASSUME DInv, UNCHANGED <<data, bundles, announced>>
  PROVE  Whole'
<1>1. \A x, p : (Has(x, p)' <=> Has(x, p)) /\ Written(x)' = Written(x)
  BY DEF Has, Written
<1> QED
  BY <1>1 DEF DInv, Whole, PartsAreFrozen, CandidateIsWhole

LEMMA PublishStep ==
  ASSUME DInv, NEW id, Publish(id) \/ AppendEvent(id)
  PROVE  DInv'
<1>1. /\ request \in [pc : {"bundle", "publish", "event"}, all : BOOLEAN,
                      todo : SUBSET DOMAIN data]
      /\ request.pc \in {"publish", "event"} /\ id \in request.todo
      /\ run = Idle /\ lock = "delivery" /\ request # NoRequest
  BY AtWork DEF Publish, AppendEvent, At
<1>2. id \in DOMAIN bundles
  BY <1>1 DEF DInv, TypeOK, ThreadsOK
<1>3. UNCHANGED <<store, exported, bundles, announced, run, retry>>
  BY DEF Publish, AppendEvent
<1>4. FilesOK'
  BY <1>2, <1>3 DEF Publish, AppendEvent, DInv, TypeOK, FilesOK, store
<1>5. Whole'
  BY <1>3, WholeSame DEF store
<1>6. ThreadsOK'
  <2>1. CASE Ends
    BY <2>1, <1>1, <1>3, EndsOK DEF store
  <2>2. CASE request' = [request EXCEPT !.pc = "event"] /\ UNCHANGED lock
    <3>1. /\ request' \in [pc : {"event"}, all : BOOLEAN, todo : SUBSET DOMAIN data]
          /\ request' # NoRequest /\ request'.todo = request.todo
      BY <2>2, <1>1 DEF NoRequest
    <3> QED
      BY <2>2, <3>1, <1>1, <1>3 DEF DInv, TypeOK, ThreadsOK, store, Idle
  <2> QED
    BY <2>1, <2>2 DEF Publish, AppendEvent
<1> QED
  BY <1>3, <1>4, <1>5, <1>6, CandidateStep

LEMMA EndStep ==
  ASSUME DInv, AnswerAll \/ (\E id \in request.todo : Fails(id))
  PROVE  DInv'
<1>1. Ends /\ request.pc = "bundle" /\ UNCHANGED <<store, exported, candidates, run, retry>>
  BY DEF AnswerAll, Fails, At
<1>2. run = Idle
  BY <1>1 DEF DInv, TypeOK, ThreadsOK, NoRequest
<1>3. ThreadsOK'
  BY <1>1, <1>2, EndsOK DEF store
<1> QED
  BY <1>1, <1>3, ThreadStep DEF DInv, TypeOK, FilesOK

LEMMA CrashStep == ASSUME DInv, Crash PROVE DInv'
<1>1. ThreadsOK'
  BY DEF Crash, DInv, TypeOK, ThreadsOK, Idle, NoRequest, candidates
<1> QED
  BY <1>1, ThreadStep DEF Crash, DInv, TypeOK, FilesOK

LEMMA StutterStep == ASSUME DInv, UNCHANGED vars PROVE DInv'
<1>1. ThreadsOK'
  BY DEF vars, store, candidates, DInv, TypeOK, ThreadsOK, IntentOK, NoRequest
<1> QED
  BY <1>1, ThreadStep DEF vars, DInv, TypeOK, FilesOK

THEOREM NextDInv == DInv /\ [Next]_vars => DInv'
<1> SUFFICES ASSUME DInv, [Next]_vars PROVE DInv'
  OBVIOUS
<1>1. CASE Transaction
  BY <1>1, CheckpointStep, SaveStep, SwapStep, CommitStep, RecoverStep DEF Transaction
<1>2. CASE \E a \in Assets, n \in {"written", "template"} : Final(a, n)
  BY <1>2, FinalStep
<1>3. CASE \E b \in Branches : Rerun(b)
  BY <1>3, MoveStep
<1>4. CASE \E id \in index : Switch(id) \/ \E target \in Ids : Fork(id, target)
  BY <1>4, MoveStep, ForkStep
<1>5. CASE Recover \/ Export \/ Retry
  BY <1>5, RecoverStep, ExportStep, RetryStep DEF Export
<1>6. CASE FinalizeActive \/ FinalizeAll
  BY <1>6, AskStep
<1>7. CASE Answer
  BY <1>7, WritePartStep, AnnounceStep, PublishStep, EndStep DEF Answer
<1>8. CASE Crash \/ UNCHANGED vars
  BY <1>8, CrashStep, StutterStep
<1> QED
  BY <1>1, <1>2, <1>3, <1>4, <1>5, <1>6, <1>7, <1>8 DEF Next

THEOREM AlwaysDInv == Spec => []DInv
  BY InitDInv, NextDInv, PTL DEF Spec

----------------------------------------------------------------------------

(* The files and requests have their forms, for any images, branches and    *)
(* attempts (storage/project_store.py, agent_core/delivery.py).             *)
THEOREM DeliveryTypeCorrect == Spec => []TypeOK
<1>1. DInv => TypeOK
  BY DEF DInv
<1> QED
  BY <1>1, AlwaysDInv, PTL

(* A consumer that finds the marker of a candidate finds the whole bundle,  *)
(* made from the frozen checkpoint, and hears of it once, whatever crashed  *)
(* between finalize_delivery_candidate's writes.                            *)
THEOREM CandidateAlwaysWhole == Spec => []CandidateIsWhole
<1>1. DInv => CandidateIsWhole
  BY DEF DInv, Whole
<1> QED
  BY <1>1, AlwaysDInv, PTL

(* _write_immutable never meets other bytes: an interrupted bundle can be   *)
(* completed at any later time.                                             *)
THEOREM BundleNeverInConflict == Spec => []BundleNeverConflicts
<1>1. DInv => BundleNeverConflicts
  <2> SUFFICES ASSUME DInv, NEW id \in request.todo, NEW i \in DOMAIN Parts,
                      Has(id, Parts[i])
               PROVE  Written(id)[Parts[i]] = TextOf(id)
    BY DEF BundleNeverConflicts, Conflicts
  <2>1. id \in DOMAIN bundles /\ Parts[i] \in DOMAIN bundles[id]
    BY HasPart
  <2> QED
    BY <2>1 DEF Written, TextOf, DInv, Whole, PartsAreFrozen
<1> QED
  BY <1>1, AlwaysDInv, PTL
=============================================================================
