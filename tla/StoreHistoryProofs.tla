--------------------------- MODULE StoreHistoryProofs ---------------------------
(***************************************************************************)
(* Theorems about the history that ProjectStore keeps, for every value of  *)
(* its constants: between transactions it is well formed, announced and    *)
(* led by its newest checkpoint, nothing committed is lost, and what       *)
(* readers see is a behaviour of ProjectHistory.                           *)
(*                                                                         *)
(* The invariant says of a state without an intent that the project is     *)
(* whole; of a state with one that the project saved in the intent is      *)
(* whole and that every document is either as it was saved or as the       *)
(* intent wants it, in the order of the writes.                            *)
(***************************************************************************)
EXTENDS ProjectStoreProofs

(* A history H under the branches L, the receipts A, the manifest m and    *)
(* the policy p.                                                           *)
Rooted(H, L) ==
  /\ \A c \in H :
       /\ L[c.branch] # None
       /\ \A d \in H : SamePlace(c, d) => c = d
       /\ c.seq > 1 => \E d \in H : d.branch = c.branch /\ d.seq = c.seq - 1
  /\ \A b \in Branches \ {Main} : L[b] # None =>
       /\ L[b].from \in H
       /\ [branch |-> b, seq |-> 1, state |-> L[b].from.state] \in H

Newest(m, H) ==
  /\ m.ptr = None => H = {}
  /\ m.ptr # None => /\ m.ptr \in H /\ m.ptr.branch = m.branch
                     /\ \A c \in H : c.branch = m.branch => c.seq <= m.ptr.seq

Unused(k, L, A) ==
  A[k] = None /\ \A b \in Branches : L[b] # None => L[b].key # k

Keyed(L, A) ==
  \A k \in Keys :
    /\ \A a, b \in Branches :
         /\ L[a] # None /\ L[a].key = k
         /\ L[b] # None /\ L[b].key = k
         => a = b
    /\ A[k] # None => \A b \in Branches : L[b] # None => L[b].key # k

Bound(p, L) == \E b \in Branches : L[b] # None /\ L[b].policy = p

Whole(m, H, L, A, p) ==
  /\ H \subseteq Ckpt
  /\ L[Main] # None /\ L[m.branch] # None
  /\ Rooted(H, L) /\ Newest(m, H) /\ Keyed(L, A) /\ Bound(p, L)

(* All of it is announced, and nothing else is.                            *)
Heard(H, A) ==
  /\ \A c \in H : IF c.seq = 1 /\ c.branch # Main
                  THEN forkEvents[c.branch] = 1 ELSE stepEvents[c] = 1
  /\ \A k \in Keys : A[k] # None => confEvents[A[k]] >= 1

Only(H, L) ==
  /\ \A c \in Ckpt : stepEvents[c] <= 1 /\ (stepEvents[c] = 1 => c \in H)
  /\ \A b \in Branches : forkEvents[b] <= 1 /\ (forkEvents[b] = 1 => L[b] # None)

-----------------------------------------------------------------------------
(* The intent, and the history without its target.                         *)

Target == IF pending.target = None THEN {} ELSE {pending.target}

Past == index \ Target

Entry(i) == [from |-> i.from, policy |-> i.policy, key |-> i.key]

(* The branches and the receipts that the intent wants.                    *)
NewBranches(i) ==
  CASE i.kind = "checkpoint" -> i.prevBranches
    [] i.kind = "branch"     -> [i.prevBranches EXCEPT ![i.branch] = Entry(i)]
    [] i.kind = "config"     -> [i.prevBranches EXCEPT ![i.branch].policy = i.policy]

NewApplied(i) ==
  IF i.kind = "config" THEN [i.prevApplied EXCEPT ![i.key] = i.policy]
  ELSE i.prevApplied

(* The intent fits the project it was written in.                          *)
Fits(i, H) ==
  LET m == i.prevManifest
      t == i.target
  IN  /\ i.kind = "checkpoint" =>
           /\ t \in Ckpt /\ t.branch = m.branch /\ i.branch = m.branch
           /\ IF m.ptr = None THEN t.seq = 1 /\ m.branch = Main
              ELSE t.seq = m.ptr.seq + 1
           /\ i.publish = "no"
      /\ i.kind = "branch" =>
           /\ i.from \in H /\ i.prevBranches[i.branch] = None
           /\ t = [branch |-> i.branch, seq |-> 1, state |-> i.from.state]
           /\ i.key # None => Unused(i.key, i.prevBranches, i.prevApplied)
      /\ i.kind = "config" =>
           /\ t = None /\ m.ptr = None /\ i.branch = m.branch
           /\ i.key \in Keys /\ Unused(i.key, i.prevBranches, i.prevApplied)
      /\ i.publish = "done" => i.policy \in published

(* A document is as it was saved or as the intent wants it.                *)
ManifestOld(i) == /\ manifest.branch = i.prevManifest.branch
                  /\ manifest.ptr = i.prevManifest.ptr

ManifestNew(i) == i.kind # "config" /\ manifest.branch = i.branch
                                    /\ manifest.ptr = i.target

BranchesOld(i) == branches = i.prevBranches /\ applied = i.prevApplied

BranchesNew(i) == branches = NewBranches(i) /\ applied = NewApplied(i)

PolicyOld(i) == policyFile = i.prevPolicy

PolicyNew(i) == i.kind # "checkpoint" /\ policyFile = i.policy

Documents(i) ==
  /\ files \ Target = index \ Target
  /\ ManifestOld(i) \/ ManifestNew(i)
  /\ BranchesOld(i) \/ BranchesNew(i)
  /\ PolicyOld(i) \/ PolicyNew(i)

Restored(i) ==
  /\ Target \cap files = {} /\ Target \cap index = {}
  /\ ManifestOld(i) /\ BranchesOld(i) /\ PolicyOld(i)

Said(i) == Complete(i) /\ Announced(i)

(* What the next write says of the earlier ones.                           *)
Place(i) ==
  /\ pc \in {"file", "index", "manifest"} => BranchesNew(i) /\ i.kind # "config"
  /\ pc \in {"index", "manifest"} => i.target \in files
  /\ pc = "manifest" => i.target \in index
  /\ pc = "policy" /\ i.kind = "branch" =>
       BranchesNew(i) /\ ManifestNew(i) /\ i.target \in Loadable
  /\ pc = "policy" => i.kind # "checkpoint"
  /\ pc = "branches" /\ i.kind = "config" => PolicyNew(i)
  /\ pc = "branches" => i.kind # "checkpoint"
  /\ pc = "verify" => i.kind # "checkpoint"
  /\ pc \in {"policy", "branches", "verify"} /\ i.kind = "config"
       => i.publish # "required"
  /\ pc \in {"publish", "published"} =>
       /\ i.kind = "branch" => Persisted(i)
       /\ i.kind # "checkpoint"
  /\ pc = "published" /\ i.publish = "required" => i.policy \in published
  /\ pc = "event" => Complete(i)
  /\ pc = "unlink" => Restored(i) \/ Said(i)
  /\ pc \in {"undo_index", "undo_branches", "undo_policy", "undo_manifest"}
       => Target \cap files = {}
  /\ pc \in {"undo_branches", "undo_policy", "undo_manifest"}
       => Target \cap index = {}
  /\ pc \in {"undo_policy", "undo_manifest"} => BranchesOld(i)
  /\ pc = "undo_manifest" => PolicyOld(i)
  /\ pc \in {"undo_branches", "undo_policy"} => i.kind # "checkpoint"

EventsOf(i) ==
  /\ Heard(Past, i.prevApplied)
  /\ \/ Only(Past, i.prevBranches)
     \/ pc \in {"idle", "unlink"} /\ Complete(i) /\ Only(index, branches)

Settled == /\ files = index
           /\ Whole(manifest, index, branches, applied, policyFile)
           /\ Heard(index, applied) /\ Only(index, branches)

WholeBefore(i) ==
  Whole(i.prevManifest, Past, i.prevBranches, i.prevApplied, i.prevPolicy)

HInv ==
  /\ pending = None => Settled
  /\ pending # None => /\ WholeBefore(pending) /\ Fits(pending, Past)
                       /\ Documents(pending) /\ Place(pending)
                       /\ EventsOf(pending)

-----------------------------------------------------------------------------
(* Facts about an intent.                                                  *)

LEMMA IntentTypes ==
  ASSUME NEW i \in Intent
  PROVE  /\ i # None /\ i.kind \in {"checkpoint", "branch", "config"}
         /\ i.branch \in Branches /\ i.policy \in Policies
         /\ i.target \in Ckpt \cup {None} /\ i.from \in Ckpt \cup {None}
         /\ i.key \in Keys \cup {None} /\ i.publish \in {"no", "required", "done"}
         /\ i.prevManifest.branch \in Branches
         /\ i.prevManifest.ptr \in Ckpt \cup {None}
         /\ i.prevPolicy \in Policies
         /\ i.prevBranches \in [Branches -> Details \cup {None}]
         /\ i.prevApplied \in [Keys -> Policies \cup {None}]
BY StoreAssumption DEF Intent, Manifest

LEMMA EntryType ==
  ASSUME NEW i \in Intent
  PROVE  Entry(i) \in Details /\ Entry(i) # None
BY IntentTypes, StoreAssumption DEF Entry, Details

(* The target's place is free: a rollback removes nothing else.            *)
LEMMA PlaceFree ==
  ASSUME NEW i \in Intent, NEW H, i.target # None,
         Whole(i.prevManifest, H, i.prevBranches, i.prevApplied, i.prevPolicy),
         Fits(i, H)
  PROVE  /\ i.target \in Ckpt /\ i.target.branch = i.branch
         /\ \A c \in H : ~ SamePlace(c, i.target)
<1>1. i.kind \in {"checkpoint", "branch", "config"} /\ H \subseteq Ckpt
  BY IntentTypes DEF Whole
<1>2. CASE i.kind = "checkpoint"
  <2>1. /\ i.target \in Ckpt /\ i.target.branch = i.prevManifest.branch
        /\ i.target.branch = i.branch
    BY <1>2 DEF Fits
  <2>2. CASE i.prevManifest.ptr = None
    BY <2>1, <2>2 DEF Whole, Newest
  <2>3. CASE i.prevManifest.ptr # None
    <3>1. i.target.seq = i.prevManifest.ptr.seq + 1
      BY <1>2, <2>3 DEF Fits
    <3>2. /\ i.prevManifest.ptr \in Ckpt
          /\ \A c \in H : c.branch = i.prevManifest.branch
                            => c.seq <= i.prevManifest.ptr.seq
      BY <1>1, <2>3 DEF Whole, Newest
    <3>3. \A c \in Ckpt : c.seq \in Nat
      BY StoreAssumption DEF Ckpt
    <3> QED
      BY <1>1, <2>1, <3>1, <3>2, <3>3 DEF SamePlace
  <2> QED
    BY <2>2, <2>3
<1>3. CASE i.kind = "branch"
  <2>1. /\ i.from \in Ckpt /\ i.prevBranches[i.branch] = None
        /\ i.target = [branch |-> i.branch, seq |-> 1, state |-> i.from.state]
    BY <1>1, <1>3 DEF Fits
  <2>2. i.target \in Ckpt /\ i.target.branch = i.branch
    BY <2>1, IntentTypes, StoreAssumption DEF Ckpt
  <2>3. \A c \in H : i.prevBranches[c.branch] # None
    BY DEF Whole, Rooted
  <2> QED
    BY <2>1, <2>2, <2>3 DEF SamePlace
<1>4. CASE i.kind = "config"
  BY <1>4 DEF Fits
<1> QED
  BY <1>1, <1>2, <1>3, <1>4

LEMMA UndoneIsTarget ==
  ASSUME IInv, HInv, pending # None
  PROVE  Undone \cap index \subseteq Target /\ Target \subseteq Undone
<1>1. CASE pending.target = None
  BY <1>1 DEF Undone, Target
<1>2. CASE pending.target # None
  <2>1. pending \in Intent
    BY DEF IInv, TypeOK
  <2>2. \A c \in Past : ~ SamePlace(c, pending.target)
    BY <1>2, <2>1, PlaceFree DEF HInv, WholeBefore
  <2> QED
    BY <1>2, <2>2 DEF Undone, Target, Past, SamePlace
<1> QED
  BY <1>1, <1>2

(* The branches an intent wants, one by one.                               *)
LEMMA NewBranchesAre ==
  ASSUME NEW i \in Intent, NEW H, Fits(i, H),
         i.prevBranches[i.prevManifest.branch] # None
  PROVE  /\ NewBranches(i) \in [Branches -> Details \cup {None}]
         /\ \A b \in Branches : i.prevBranches[b] # None =>
              /\ NewBranches(i)[b] # None
              /\ NewBranches(i)[b].from = i.prevBranches[b].from
              /\ NewBranches(i)[b].key = i.prevBranches[b].key
         /\ i.kind # "branch" =>
              \A b \in Branches : NewBranches(i)[b] # None
                                    => i.prevBranches[b] # None
         /\ i.kind = "branch" =>
              /\ NewBranches(i)[i.branch] = Entry(i)
              /\ \A b \in Branches : b # i.branch
                   => NewBranches(i)[b] = i.prevBranches[b]
         /\ i.kind = "config" =>
              /\ NewBranches(i)[i.branch] # None
              /\ NewBranches(i)[i.branch].policy = i.policy
<1>1. /\ i.kind \in {"checkpoint", "branch", "config"} /\ i.branch \in Branches
      /\ i.prevBranches \in [Branches -> Details \cup {None}]
      /\ i.policy \in Policies
  BY IntentTypes
<1>2. CASE i.kind = "checkpoint"
  BY <1>1, <1>2 DEF NewBranches
<1>3. CASE i.kind = "branch"
  <2>1. i.prevBranches[i.branch] = None
    BY <1>3 DEF Fits
  <2> QED
    BY <1>1, <1>3, <2>1, EntryType DEF NewBranches
<1>4. CASE i.kind = "config"
  <2> DEFINE d == i.prevBranches[i.branch]
             e == [d EXCEPT !.policy = i.policy]
  <2>1. d \in Details
    BY <1>1, <1>4 DEF Fits
  <2>2. /\ e \in Details /\ e # None
        /\ e.from = d.from /\ e.key = d.key /\ e.policy = i.policy
    BY <1>1, <2>1, StoreAssumption DEF Details
  <2>3. NewBranches(i) = [i.prevBranches EXCEPT ![i.branch] = e]
    BY <1>1, <1>4 DEF NewBranches
  <2> HIDE DEF e
  <2> QED
    BY <1>1, <1>4, <2>1, <2>2, <2>3, StoreAssumption
<1> QED
  BY <1>1, <1>2, <1>3, <1>4

(* A complete intent has moved every document.                             *)
LEMMA PersistedIsNew ==
  ASSUME NEW i \in Intent, NEW H, Fits(i, H), Documents(i), Persisted(i)
  PROVE  /\ BranchesNew(i)
         /\ i.kind = "checkpoint" => ManifestNew(i) /\ PolicyOld(i)
         /\ i.kind = "branch" => ManifestNew(i) /\ policyFile = i.policy
         /\ i.kind = "config" => ManifestOld(i) /\ policyFile = i.policy
         /\ i.kind # "config" => i.target \in Loadable
<1>1. i.kind \in {"checkpoint", "branch", "config"}
  BY IntentTypes
<1>2. CASE i.kind = "checkpoint"
  BY <1>2 DEF Persisted, Documents, BranchesOld, BranchesNew, NewBranches,
     NewApplied, ManifestNew, PolicyNew
<1>3. CASE i.kind = "branch"
  <2>1. branches[i.branch] = Entry(i) /\ i.prevBranches[i.branch] = None
    BY <1>3 DEF Persisted, Entry, Fits
  <2>2. ~ BranchesOld(i)
    BY <2>1, EntryType DEF BranchesOld
  <2> QED
    BY <1>3, <2>2 DEF Persisted, Documents, ManifestNew
<1>4. CASE i.kind = "config"
  <2>1. /\ applied[i.key] = i.policy /\ i.prevApplied[i.key] = None
        /\ i.policy # None
    BY <1>4, IntentTypes, StoreAssumption DEF Persisted, Fits, Unused
  <2>2. ~ BranchesOld(i)
    BY <2>1 DEF BranchesOld
  <2> QED
    BY <1>4, <2>2 DEF Persisted, Documents, ManifestNew
<1> QED
  BY <1>1, <1>2, <1>3, <1>4

-----------------------------------------------------------------------------
(* What a transaction comes to.                                            *)

(* The history with the target of a complete intent is whole.              *)
LEMMA CommittedRooted ==
  ASSUME NEW i \in Intent, NEW H, i.target # None,
         Whole(i.prevManifest, H, i.prevBranches, i.prevApplied, i.prevPolicy),
         Fits(i, H)
  PROVE  Rooted(H \cup {i.target}, NewBranches(i))
<1> DEFINE L == i.prevBranches
           N == NewBranches(i)
           t == i.target
           G == H \cup {t}
<1>1. /\ t \in Ckpt /\ t.branch = i.branch /\ H \subseteq Ckpt
      /\ \A c \in H : ~ SamePlace(c, t)
  BY PlaceFree DEF Whole
<1>2. /\ i.kind \in {"checkpoint", "branch"} /\ i.branch \in Branches
  BY IntentTypes DEF Fits
<1>3. Rooted(H, L) /\ L[i.prevManifest.branch] # None
  BY DEF Whole
<1>4. /\ \A b \in Branches : L[b] # None => N[b] # None /\ N[b].from = L[b].from
      /\ i.kind # "branch" => \A b \in Branches : N[b] # None => L[b] # None
      /\ i.kind = "branch" => /\ N[i.branch] = Entry(i)
                              /\ \A b \in Branches : b # i.branch => N[b] = L[b]
  BY <1>3, NewBranchesAre
<1>5. N[t.branch] # None
  <2>1. CASE i.kind = "branch"
    BY <1>1, <1>4, <2>1, EntryType
  <2>2. CASE i.kind = "checkpoint"
    <3>1. L[i.branch] # None
      BY <1>3, <2>2 DEF Fits
    <3> QED
      BY <1>1, <1>2, <1>4, <3>1
  <2> QED
    BY <1>2, <2>1, <2>2
<1>6. t.seq > 1 => \E d \in G : d.branch = t.branch /\ d.seq = t.seq - 1
  <2>1. CASE i.kind = "branch"
    BY <2>1 DEF Fits
  <2>2. CASE i.kind = "checkpoint" /\ i.prevManifest.ptr = None
    BY <2>2 DEF Fits
  <2>3. CASE i.kind = "checkpoint" /\ i.prevManifest.ptr # None
    <3>1. /\ t.seq = i.prevManifest.ptr.seq + 1
          /\ t.branch = i.prevManifest.branch
      BY <2>3 DEF Fits
    <3>2. i.prevManifest.ptr \in H /\ i.prevManifest.ptr.branch = t.branch
      BY <2>3, <3>1 DEF Whole, Newest
    <3>3. i.prevManifest.ptr.seq \in Nat
      BY <1>1, <3>2, StoreAssumption DEF Ckpt
    <3> QED
      BY <3>1, <3>2, <3>3
  <2> QED
    BY <1>2, <2>1, <2>2, <2>3
<1>7. ASSUME NEW c \in G
      PROVE  /\ N[c.branch] # None
             /\ \A d \in G : SamePlace(c, d) => c = d
             /\ c.seq > 1 => \E d \in G : d.branch = c.branch /\ d.seq = c.seq - 1
  <2>1. CASE c = t
    BY <1>1, <1>5, <1>6, <2>1 DEF SamePlace
  <2>2. CASE c \in H
    <3>1. c.branch \in Branches
      BY <1>1, <2>2 DEF Ckpt
    <3> QED
      BY <1>1, <1>3, <1>4, <2>2, <3>1 DEF Rooted
  <2> QED
    BY <2>1, <2>2
<1>8. ASSUME NEW b \in Branches \ {Main}, N[b] # None
      PROVE  /\ N[b].from \in G
             /\ [branch |-> b, seq |-> 1, state |-> N[b].from.state] \in G
  <2>1. CASE L[b] # None
    BY <1>3, <1>4, <2>1 DEF Rooted
  <2>2. CASE L[b] = None
    <3>1. i.kind = "branch" /\ b = i.branch
      BY <1>4, <1>8, <2>2
    <3>2. N[b].from = i.from
      BY <1>4, <3>1 DEF Entry
    <3> QED
      BY <3>1, <3>2 DEF Fits
  <2> QED
    BY <2>1, <2>2
<1> HIDE DEF N, G
<1> QED
  BY <1>7, <1>8 DEF Rooted, N, G, t

LEMMA CommittedKeyed ==
  ASSUME NEW i \in Intent, NEW H, Fits(i, H),
         Keyed(i.prevBranches, i.prevApplied),
         i.prevBranches[i.prevManifest.branch] # None
  PROVE  Keyed(NewBranches(i), NewApplied(i))
<1> DEFINE L == i.prevBranches
           N == NewBranches(i)
<1>1. /\ i.kind \in {"checkpoint", "branch", "config"} /\ i.branch \in Branches
      /\ i.prevApplied \in [Keys -> Policies \cup {None}] /\ None \notin Keys
  BY IntentTypes, StoreAssumption
<1>2. /\ \A b \in Branches : L[b] # None => N[b] # None /\ N[b].key = L[b].key
      /\ i.kind # "branch" => \A b \in Branches : N[b] # None => L[b] # None
      /\ i.kind = "branch" => /\ N[i.branch] = Entry(i)
                              /\ \A b \in Branches : b # i.branch => N[b] = L[b]
  BY NewBranchesAre
<1>3. CASE i.kind = "checkpoint"
  BY <1>3 DEF NewBranches, NewApplied
<1>4. CASE i.kind = "branch"
  <2>1. NewApplied(i) = i.prevApplied
    BY <1>4 DEF NewApplied
  <2>2. N[i.branch].key = i.key
    BY <1>2, <1>4 DEF Entry
  <2>3. i.key \in Keys => Unused(i.key, L, i.prevApplied)
    BY <1>1, <1>4 DEF Fits
  <2> HIDE DEF N
  <2>4. ASSUME NEW k \in Keys, NEW a \in Branches, NEW b \in Branches,
               N[a] # None, N[a].key = k, N[b] # None, N[b].key = k
        PROVE  a = b
    <3>1. \A e \in Branches : N[e] # None /\ e # i.branch => L[e] # None /\ L[e].key = N[e].key
      BY <1>2, <1>4
    <3>2. CASE a # i.branch /\ b # i.branch
      BY <2>4, <3>1, <3>2 DEF Keyed
    <3>3. CASE a = i.branch \/ b = i.branch
      BY <2>2, <2>3, <2>4, <3>1, <3>3 DEF Unused
    <3> QED
      BY <3>2, <3>3
  <2>5. ASSUME NEW k \in Keys, i.prevApplied[k] # None,
               NEW b \in Branches, N[b] # None
        PROVE  N[b].key # k
    <3>1. CASE b = i.branch
      BY <2>2, <2>3, <2>5, <3>1 DEF Unused
    <3>2. CASE b # i.branch
      BY <1>2, <1>4, <2>5, <3>2 DEF Keyed
    <3> QED
      BY <3>1, <3>2
  <2> QED
    BY <2>1, <2>4, <2>5 DEF Keyed, N
<1>5. CASE i.kind = "config"
  <2>1. \A b \in Branches : N[b] # None => L[b] # None /\ N[b].key = L[b].key
    BY <1>2, <1>5
  <2>2. i.key \in Keys /\ Unused(i.key, L, i.prevApplied)
    BY <1>5 DEF Fits
  <2>3. NewApplied(i) = [i.prevApplied EXCEPT ![i.key] = i.policy]
    BY <1>5 DEF NewApplied
  <2>4. \A k \in Keys : NewApplied(i)[k] # None
                          => k = i.key \/ i.prevApplied[k] # None
    BY <1>1, <2>2, <2>3
  <2> HIDE DEF N, L
  <2> QED
    BY <2>1, <2>2, <2>4 DEF Keyed, Unused, N, L
<1> QED
  BY <1>1, <1>3, <1>4, <1>5

(* A complete and announced intent may be dropped.                         *)
LEMMA SaidIsSettled ==
  ASSUME IInv, HInv, pending # None, Said(pending)
  PROVE  Settled
<1> DEFINE i == pending
           m == i.prevManifest
<1>1. /\ i \in Intent /\ Persisted(i) /\ Announced(i)
      /\ stepEvents \in [Ckpt -> Nat] /\ forkEvents \in [Branches -> Nat]
      /\ confEvents \in [Policies -> Nat]
  BY DEF IInv, TypeOK, Said, Complete
<1>2. /\ Whole(m, Past, i.prevBranches, i.prevApplied, i.prevPolicy)
      /\ Fits(i, Past) /\ Documents(i) /\ EventsOf(i)
  BY DEF HInv, WholeBefore
<1>3. /\ BranchesNew(i)
      /\ i.kind = "checkpoint" => ManifestNew(i) /\ PolicyOld(i)
      /\ i.kind = "branch" => ManifestNew(i) /\ policyFile = i.policy
      /\ i.kind = "config" => ManifestOld(i) /\ policyFile = i.policy
      /\ i.kind # "config" => i.target \in Loadable
  BY <1>1, <1>2, PersistedIsNew
<1>4. /\ i.kind \in {"checkpoint", "branch", "config"} /\ i.branch \in Branches
      /\ m.branch \in Branches /\ i.prevApplied \in [Keys -> Policies \cup {None}]
      /\ i.policy \in Policies /\ Main \in Branches /\ None \notin Ckpt
  BY <1>1, IntentTypes, StoreAssumption
<1>5. /\ Past \subseteq Ckpt /\ i.prevBranches[m.branch] # None
      /\ i.prevBranches[Main] # None /\ Newest(m, Past)
      /\ Rooted(Past, i.prevBranches) /\ Keyed(i.prevBranches, i.prevApplied)
      /\ Bound(i.prevPolicy, i.prevBranches)
  BY <1>2 DEF Whole
<1>6. /\ \A b \in Branches : i.prevBranches[b] # None => branches[b] # None
      /\ i.kind = "branch" => branches[i.branch] = Entry(i)
                              /\ i.prevBranches[i.branch] = None
      /\ i.kind = "config" => /\ branches[i.branch] # None
                              /\ branches[i.branch].policy = i.policy
                              /\ \A b \in Branches : branches[b] # None
                                    => i.prevBranches[b] # None
  BY <1>1, <1>2, <1>3, <1>5, NewBranchesAre DEF BranchesNew, Fits
<1>7. /\ i.kind = "config" => /\ i.target = None /\ Target = {} /\ Past = {}
                              /\ index = {} /\ m.ptr = None
      /\ i.kind # "config" => /\ i.target \in Ckpt /\ i.target # None
                              /\ i.target.branch = i.branch
                              /\ Target = {i.target} /\ index = Past \cup {i.target}
                              /\ \A c \in Past : ~ SamePlace(c, i.target)
  <2>1. CASE i.kind = "config"
    <3>1. i.target = None /\ m.ptr = None
      BY <1>2, <2>1 DEF Fits
    <3> QED
      BY <1>5, <2>1, <3>1 DEF Newest, Target, Past
  <2>2. CASE i.kind # "config"
    <3>1. i.target \in Loadable /\ i.target # None
      BY <1>1, <1>3, <1>4, <2>2 DEF Loadable, IInv, TypeOK
    <3> QED
      BY <1>1, <1>2, <2>2, <3>1, PlaceFree DEF Target, Past, Loadable
  <2> QED
    BY <2>1, <2>2
<1>8. files = index
  BY <1>2, <1>3, <1>7 DEF Documents, Loadable
<1>9. Rooted(index, branches)
  <2>1. CASE i.kind = "config"
    BY <1>5, <1>6, <1>7, <2>1 DEF Rooted
  <2>2. CASE i.kind # "config"
    BY <1>1, <1>2, <1>3, <1>7, <2>2, CommittedRooted DEF BranchesNew
  <2> QED
    BY <2>1, <2>2
<1>10. Newest(manifest, index)
  <2>1. CASE i.kind = "config"
    BY <1>3, <1>7, <2>1 DEF Newest, ManifestOld
  <2>2. CASE i.kind # "config"
    <3>1. manifest.ptr = i.target /\ manifest.branch = i.branch
      BY <1>3, <1>4, <2>2 DEF ManifestNew
    <3>2. ASSUME NEW c \in Past, c.branch = i.branch
          PROVE  c.seq <= i.target.seq
      <4>1. CASE i.kind = "branch"
        <5>1. i.prevBranches[c.branch] # None
          BY <1>5 DEF Rooted
        <5> QED
          BY <1>6, <3>2, <4>1, <5>1
      <4>2. CASE i.kind = "checkpoint"
        <5>1. m.ptr # None /\ m.ptr \in Past /\ c.seq <= m.ptr.seq
          BY <1>2, <1>5, <3>2, <4>2 DEF Newest, Fits
        <5>2. i.target.seq = m.ptr.seq + 1
          BY <1>2, <4>2, <5>1 DEF Fits
        <5>3. c.seq \in Nat /\ m.ptr.seq \in Nat
          BY <1>5, <5>1, StoreAssumption DEF Ckpt
        <5> QED
          BY <5>1, <5>2, <5>3
      <4> QED
        BY <1>4, <2>2, <4>1, <4>2
    <3>3. i.target.seq <= i.target.seq
      BY <1>7, <2>2, StoreAssumption DEF Ckpt
    <3> QED
      BY <1>7, <2>2, <3>1, <3>2, <3>3 DEF Newest
  <2> QED
    BY <2>1, <2>2
<1>11. Keyed(branches, applied)
  BY <1>1, <1>2, <1>3, <1>5, CommittedKeyed DEF BranchesNew
<1>12. Bound(policyFile, branches)
  <2>1. CASE i.kind = "checkpoint"
    BY <1>3, <1>5, <2>1 DEF BranchesNew, NewBranches, PolicyOld
  <2>2. CASE i.kind = "branch"
    BY <1>1, <1>3, <1>4, <1>6, <2>2, EntryType DEF Bound, Entry
  <2>3. CASE i.kind = "config"
    BY <1>3, <1>4, <1>6, <2>3 DEF Bound
  <2> QED
    BY <1>4, <2>1, <2>2, <2>3
<1>13. Whole(manifest, index, branches, applied, policyFile)
  <2>1. branches[manifest.branch] # None
    BY PersistedIsDurable, <1>1 DEF DurableHead
  <2> QED
    BY <1>4, <1>5, <1>6, <1>9, <1>10, <1>11, <1>12, <2>1
       DEF Whole, IInv, TypeOK
<1>14. Only(index, branches)
  BY <1>2, <1>6 DEF EventsOf, Only, Past
<1>15. Heard(index, applied)
  <2>1. ASSUME NEW c \in index
        PROVE  IF c.seq = 1 /\ c.branch # Main
               THEN forkEvents[c.branch] = 1 ELSE stepEvents[c] = 1
    <3>1. CASE c \in Past
      BY <1>2, <3>1 DEF EventsOf, Heard
    <3>2. CASE c \notin Past /\ i.kind = "checkpoint"
      <4>1. c = i.target /\ c \in Ckpt /\ stepEvents[c] > 0
        BY <1>1, <1>7, <3>2 DEF Announced
      <4>2. stepEvents[c] <= 1 /\ stepEvents[c] \in Nat
        BY <1>1, <1>14, <4>1 DEF Only
      <4>3. ~ (c.seq = 1 /\ c.branch # Main)
        <5>1. CASE m.ptr = None
          BY <1>2, <3>2, <4>1, <5>1 DEF Fits
        <5>2. CASE m.ptr # None
          <6>1. c.seq = m.ptr.seq + 1 /\ m.ptr \in Ckpt
            BY <1>2, <1>5, <3>2, <4>1, <5>2 DEF Fits, Newest
          <6>2. m.ptr.seq \in Nat \ {0}
            BY <6>1, StoreAssumption DEF Ckpt
          <6> QED
            BY <6>1, <6>2
        <5> QED
          BY <5>1, <5>2
      <4> QED
        BY <4>1, <4>2, <4>3
    <3>3. CASE c \notin Past /\ i.kind = "branch"
      <4>1. c = i.target /\ c.seq = 1 /\ c.branch = i.branch
        BY <1>2, <1>7, <3>3 DEF Fits
      <4>2. forkEvents[i.branch] > 0 /\ forkEvents[i.branch] <= 1
            /\ forkEvents[i.branch] \in Nat
        BY <1>1, <1>4, <1>14, <3>3 DEF Announced, Only
      <4>3. i.branch # Main
        BY <1>5, <1>6, <3>3
      <4> QED
        BY <4>1, <4>2, <4>3
    <3> QED
      BY <1>4, <1>7, <3>1, <3>2, <3>3
  <2>2. ASSUME NEW k \in Keys, applied[k] # None
        PROVE  confEvents[applied[k]] >= 1
    <3>1. CASE i.kind # "config"
      BY <1>2, <1>3, <2>2, <3>1 DEF EventsOf, Heard, BranchesNew, NewApplied
    <3>2. CASE i.kind = "config"
      <4>1. applied = [i.prevApplied EXCEPT ![i.key] = i.policy]
        BY <1>3, <3>2 DEF BranchesNew, NewApplied
      <4>2. CASE k = i.key
        <5>1. applied[k] = i.policy
          BY <1>4, <2>2, <4>1, <4>2
        <5>2. confEvents[i.policy] > 0 /\ confEvents[i.policy] \in Nat
          BY <1>1, <1>4, <3>2 DEF Announced
        <5> QED
          BY <5>1, <5>2
      <4>3. CASE k # i.key
        <5>1. applied[k] = i.prevApplied[k]
          BY <1>4, <4>1, <4>3
        <5> QED
          BY <1>2, <2>2, <5>1 DEF EventsOf, Heard
      <4> QED
        BY <4>2, <4>3
    <3> QED
      BY <3>1, <3>2
  <2> QED
    BY <2>1, <2>2 DEF Heard
<1> QED
  BY <1>8, <1>13, <1>14, <1>15 DEF Settled

(* So may an intent whose rollback has come to its end.                    *)
LEMMA RestoredIsSettled ==
  ASSUME IInv, HInv, pending # None, Restored(pending)
  PROVE  Settled
<1>1. Past = index /\ files = index
  BY DEF HInv, Documents, Restored, Past
<1>2. Whole(manifest, index, branches, applied, policyFile)
  BY <1>1 DEF HInv, WholeBefore, Restored, ManifestOld, BranchesOld, PolicyOld,
     Whole, Newest
<1>3. Heard(index, applied) /\ Only(index, branches)
  BY <1>1 DEF HInv, EventsOf, Restored, BranchesOld, Heard, Only
<1> QED
  BY <1>1, <1>2, <1>3 DEF Settled

-----------------------------------------------------------------------------
(* Beginnings.                                                             *)

LEMMA InitHInv == Init => HInv
<1> SUFFICES ASSUME Init PROVE HInv
  OBVIOUS
<1>1. /\ None \notin Policies /\ Main \in Branches /\ None \notin Keys
      /\ [from |-> None, policy |-> InitPolicy, key |-> None] # None
  BY StoreAssumption DEF Details
<1>2. Whole(manifest, index, branches, applied, policyFile)
  <2>1. \A b \in Branches : branches[b] # None => b = Main
    BY DEF Init
  <2>2. branches[Main] = [from |-> None, policy |-> InitPolicy, key |-> None]
    BY <1>1 DEF Init
  <2>3. Rooted(index, branches) /\ Newest(manifest, index)
    BY <2>1 DEF Init, Rooted, Newest
  <2>4. Keyed(branches, applied)
    BY <2>1 DEF Init, Keyed
  <2>5. Bound(policyFile, branches)
    BY <1>1, <2>2 DEF Init, Bound
  <2> QED
    BY <1>1, <2>2, <2>3, <2>4, <2>5 DEF Init, Whole
<1>3. Heard(index, applied) /\ Only(index, branches)
  BY DEF Init, Heard, Only
<1> QED
  BY <1>2, <1>3 DEF Init, HInv, Settled

(* A fresh intent saves a settled project, its target is not part of it.   *)
LEMMA FreshIntent ==
  ASSUME IInv, HInv, pending = None, UNCHANGED <<control, log, published>>,
         pending' \in Intent, pending'.prevManifest = manifest,
         pending'.prevBranches = branches, pending'.prevApplied = applied,
         pending'.prevPolicy = policyFile,
         Fits(pending', index), pending'.publish # "done",
         Place(pending)'
  PROVE  HInv' /\ Past' = index
<1> DEFINE i == pending'
<1>1. /\ Settled /\ Whole(manifest, index, branches, applied, policyFile)
      /\ i # None
  BY IntentTypes DEF HInv, Settled
<1>2. i.target \notin index /\ Past' = index
  <2>1. i.target # None => i.target \notin index
    BY <1>1, PlaceFree DEF SamePlace
  <2>2. i.target = None => i.target \notin index
    BY <1>1, StoreAssumption DEF Whole
  <2> QED
    BY <2>1, <2>2 DEF Past, Target, control
<1>3. WholeBefore(pending)'
  BY <1>1, <1>2 DEF WholeBefore, control
<1>4. Fits(pending, Past)'
  BY <1>2 DEF Fits
<1>5. Documents(pending)'
  BY <1>1 DEF Documents, Settled, ManifestOld, BranchesOld, PolicyOld, control
<1>6. EventsOf(pending)'
  BY <1>1, <1>2 DEF EventsOf, Settled, Heard, Only, control, log
<1> QED
  BY <1>1, <1>2, <1>3, <1>4, <1>5, <1>6 DEF HInv

LEMMA BeginCheckpointHistory ==
  ASSUME IInv, HInv, NEW s \in States, BeginCheckpoint(s)
  PROVE  HInv' /\ Past' = index
<1> DEFINE t == [branch |-> manifest.branch, seq |-> NextSeq, state |-> s]
<1>1. /\ pending = None /\ UNCHANGED <<control, log, published>> /\ pc' = "file"
      /\ pending' = NewIntent("checkpoint", manifest.branch, t, None, policyFile,
                              None, "no")
      /\ NextSeq <= MaxSeq
  BY DEF BeginCheckpoint, Quiet
<1>2. /\ TypeOK /\ manifest.branch \in Branches /\ policyFile \in Policies
      /\ manifest.ptr \in Ckpt \cup {None} /\ DurableHead(manifest)
  BY <1>1 DEF IInv, TypeOK, Manifest, ProgressOK
<1>3. /\ IF manifest.ptr = None THEN NextSeq = 1 ELSE NextSeq = manifest.ptr.seq + 1
      /\ NextSeq \in 1 .. MaxSeq
  BY <1>1, <1>2, StoreAssumption DEF NextSeq, DurableHead, Ckpt
<1>4. t \in Ckpt
  BY <1>2, <1>3 DEF Ckpt
<1>5. /\ pending' \in Intent /\ pending'.prevManifest = manifest
      /\ pending'.prevBranches = branches /\ pending'.prevApplied = applied
      /\ pending'.prevPolicy = policyFile /\ pending'.branch = manifest.branch
      /\ pending'.target = t /\ pending'.kind = "checkpoint"
      /\ pending'.publish = "no"
  <2> HIDE DEF t
  <2>1. pending' \in Intent
    BY <1>1, <1>2, <1>4, NewIntentType
  <2> QED
    BY <1>1, <2>1 DEF NewIntent
<1>6. manifest.ptr = None => manifest.branch = Main
  BY <1>1, <1>2 DEF HInv, Settled, Whole, Newest, Rooted, DurableHead
<1>7. Fits(pending', index)
  <2>1. t.branch = manifest.branch /\ t.seq = NextSeq
    OBVIOUS
  <2> HIDE DEF t
  <2> QED
    BY <1>3, <1>4, <1>5, <1>6, <2>1 DEF Fits
<1>8. Place(pending)'
  BY <1>1, <1>5 DEF Place, BranchesNew, NewBranches, NewApplied, control
<1> QED
  BY <1>1, <1>5, <1>7, <1>8, FreshIntent

LEMMA BeginBranchHistory ==
  ASSUME IInv, HInv, NEW c \in Ckpt, NEW b \in Branches, NEW p \in Policies,
         NEW k \in Keys \cup {None}, NEW publish \in {"no", "required"},
         BeginBranch(c, b, p, k, publish)
  PROVE  HInv' /\ Past' = index
<1> DEFINE t == [branch |-> b, seq |-> 1, state |-> c.state]
<1>1. /\ pending = None /\ UNCHANGED <<control, log, published>>
      /\ pc' = "branches" /\ pending' = NewIntent("branch", b, t, c, p, k, publish)
      /\ c \in index /\ branches[b] = None
      /\ k # None => ~ Applied(k)
  BY DEF BeginBranch, Quiet, Loadable
<1>2. t \in Ckpt /\ TypeOK
  BY StoreAssumption DEF Ckpt, IInv
<1>3. /\ pending' \in Intent /\ pending'.prevManifest = manifest
      /\ pending'.prevBranches = branches /\ pending'.prevApplied = applied
      /\ pending'.prevPolicy = policyFile /\ pending'.branch = b
      /\ pending'.target = t /\ pending'.kind = "branch" /\ pending'.from = c
      /\ pending'.key = k /\ pending'.publish = publish
  <2>1. /\ t \in Ckpt \cup {None} /\ c \in Ckpt \cup {None}
        /\ publish \in {"no", "required", "done"}
    BY <1>2
  <2> HIDE DEF t
  <2>2. pending' \in Intent
    BY <1>1, <1>2, <2>1, NewIntentType
  <2> QED
    BY <1>1, <2>2 DEF NewIntent
<1>4. Fits(pending', index)
  BY <1>1, <1>3 DEF Fits, Applied, Unused
<1>5. Place(pending)'
  BY <1>1, <1>3 DEF Place
<1> QED
  BY <1>1, <1>3, <1>4, <1>5, FreshIntent

LEMMA BeginConfigHistory ==
  ASSUME IInv, HInv, NEW p \in Policies, NEW k \in Keys,
         NEW publish \in {"no", "required"}, BeginConfig(p, k, publish)
  PROVE  HInv' /\ Past' = index
<1>1. /\ pending = None /\ UNCHANGED <<control, log, published>>
      /\ pending' = NewIntent("config", manifest.branch, None, None, p, k, publish)
      /\ manifest.ptr = None /\ ~ Applied(k)
      /\ pc' \in {"publish", "published"}
      /\ publish = "required" => pc' = "publish"
  BY DEF BeginConfig, Quiet
<1>2. manifest.branch \in Branches /\ TypeOK
  BY DEF IInv, TypeOK, Manifest
<1>3. /\ pending' \in Intent /\ pending'.prevManifest = manifest
      /\ pending'.prevBranches = branches /\ pending'.prevApplied = applied
      /\ pending'.prevPolicy = policyFile /\ pending'.branch = manifest.branch
      /\ pending'.target = None /\ pending'.kind = "config"
      /\ pending'.key = k /\ pending'.publish = publish
  <2>1. publish \in {"no", "required", "done"}
    OBVIOUS
  <2>2. pending' \in Intent
    BY <1>1, <1>2, <2>1, NewIntentType
  <2> QED
    BY <1>1, <2>2 DEF NewIntent
<1>4. Fits(pending', index)
  BY <1>1, <1>3 DEF Fits, Applied, Unused
<1>5. Place(pending)'
  BY <1>1, <1>3 DEF Place
<1> QED
  BY <1>1, <1>3, <1>4, <1>5, FreshIntent

(* Without an intent only the head and the policy may move.                *)
LEMMA SwitchBranchHistory ==
  ASSUME IInv, HInv, NEW c \in Ckpt, SwitchBranch(c)
  PROVE  HInv'
<1>1. /\ pending = None /\ pending' = None /\ Settled
      /\ c \in index /\ branches[c.branch] # None
      /\ \A d \in index : d.branch = c.branch => d.seq <= c.seq
      /\ manifest'.branch = c.branch /\ manifest'.ptr = c
      /\ UNCHANGED <<files, index, branches, applied, policyFile, log>>
  BY DEF SwitchBranch, Quiet, HInv, Loadable, IsHead
<1>2. c # None
  BY StoreAssumption
<1>3. Whole(manifest, index, branches, applied, policyFile)'
  BY <1>1, <1>2 DEF Settled, Whole, Newest
<1>4. Heard(index, applied)' /\ Only(index, branches)'
  BY <1>1 DEF Settled, Heard, Only, log
<1> QED
  BY <1>1, <1>3, <1>4 DEF HInv, Settled

LEMMA SwitchPolicyHistory == ASSUME IInv, HInv, SwitchPolicy PROVE HInv'
<1>1. /\ pending = None /\ pending' = None /\ Settled
      /\ policyFile' = branches[manifest.branch].policy
      /\ UNCHANGED <<manifest, files, index, branches, applied, log>>
  BY DEF SwitchPolicy, HInv, IInv, ProgressOK
<1>2. manifest.branch \in Branches /\ branches[manifest.branch] # None
  BY <1>1 DEF IInv, TypeOK, Manifest, Settled, Whole
<1>3. Bound(policyFile', branches)
  BY <1>1, <1>2 DEF Bound
<1>4. Whole(manifest, index, branches, applied, policyFile)'
  BY <1>1, <1>3 DEF Settled, Whole
<1>5. Heard(index, applied)' /\ Only(index, branches)'
  BY <1>1 DEF Settled, Heard, Only, log
<1> QED
  BY <1>1, <1>4, <1>5 DEF HInv, Settled

-----------------------------------------------------------------------------
(* Writes under an intent that stays.                                      *)

(* Before its own event, an intent has announced nothing.                  *)
LEMMA Unannounced ==
  ASSUME HInv, pending # None, pc \notin {"idle", "unlink"}
  PROVE  Only(Past, pending.prevBranches)
BY DEF HInv, EventsOf

LEMMA Onward ==
  ASSUME HInv, pending # None, pending' = pending,
         index' \ Target = index \ Target,
         UNCHANGED log, published \subseteq published',
         Documents(pending)', Place(pending)',
         Only(Past, pending.prevBranches)
  PROVE  HInv'
<1>1. Past' = Past /\ pending' # None
  BY DEF Past, Target
<1>2. WholeBefore(pending)'
  BY <1>1 DEF HInv, WholeBefore
<1>3. Fits(pending, Past)'
  BY <1>1 DEF HInv, Fits
<1>4. EventsOf(pending)'
  BY <1>1 DEF HInv, EventsOf, Heard, Only, log
<1> QED
  BY <1>1, <1>2, <1>3, <1>4 DEF HInv

(* The same when the step writes no document.                              *)
LEMMA OnwardQuiet ==
  ASSUME HInv, pending # None, pending' = pending, UNCHANGED <<control, log>>,
         published \subseteq published', Place(pending)',
         Only(Past, pending.prevBranches)
  PROVE  HInv'
<1>1. Documents(pending)'
  BY DEF HInv, Documents, control, Target, ManifestOld, ManifestNew,
     BranchesOld, BranchesNew, PolicyOld, PolicyNew
<1> QED
  BY <1>1, Onward DEF control

LEMMA WriteFileHistory == ASSUME IInv, HInv, WriteFile PROVE HInv'
<1>1. /\ pending # None /\ pending' = pending /\ pc = "file"
      /\ UNCHANGED <<manifest, index, branches, applied, policyFile, log, published>>
      /\ Target = {pending.target}
  BY DEF WriteFile, IInv, ProgressOK, Target
<1>2. /\ files' \ Target = files \ Target
      /\ pc' = "idle" \/ (pc' = "index" /\ pending.target \in files')
  BY <1>1 DEF WriteFile
<1>3. Documents(pending)'
  BY <1>1, <1>2 DEF HInv, Documents, Target, ManifestOld, ManifestNew,
     BranchesOld, BranchesNew, PolicyOld, PolicyNew
<1>4. Place(pending)'
  BY <1>1, <1>2 DEF HInv, Place, BranchesNew
<1> QED
  BY <1>1, <1>3, <1>4, Unannounced, Onward

LEMMA WriteIndexHistory == ASSUME IInv, HInv, WriteIndex PROVE HInv'
<1>1. /\ pending # None /\ pending' = pending /\ pc = "index"
      /\ UNCHANGED <<manifest, files, branches, applied, policyFile, log, published>>
      /\ Target = {pending.target}
      /\ index' = index \cup Target /\ pc' = "manifest"
  BY DEF WriteIndex, IInv, ProgressOK, Target
<1>2. Documents(pending)'
  BY <1>1 DEF HInv, Documents, Target, ManifestOld, ManifestNew,
     BranchesOld, BranchesNew, PolicyOld, PolicyNew
<1>3. Place(pending)'
  BY <1>1 DEF HInv, Place, BranchesNew
<1> QED
  BY <1>1, <1>2, <1>3, Unannounced, Onward

LEMMA WriteManifestHistory == ASSUME IInv, HInv, WriteManifest PROVE HInv'
<1> DEFINE i == pending
<1>1. /\ pending # None /\ pending' = pending /\ pc = "manifest"
      /\ i \in Intent /\ i.kind \in {"checkpoint", "branch", "config"}
      /\ UNCHANGED <<files, index, branches, applied, policyFile, log, published>>
      /\ manifest'.branch = i.branch /\ manifest'.ptr = i.target
      /\ pc' = IF i.kind = "branch" THEN "policy" ELSE "event"
  BY IntentTypes DEF WriteManifest, IInv, TypeOK, ProgressOK
<1>2. /\ BranchesNew(i) /\ i.kind # "config"
      /\ i.target \in Loadable /\ Documents(i) /\ Fits(i, Past)
  BY <1>1 DEF HInv, Place, Loadable
<1>3. Documents(pending)'
  BY <1>1, <1>2 DEF Documents, Target, ManifestNew,
     BranchesNew, PolicyOld, PolicyNew
<1>4. i.kind = "checkpoint" => Complete(pending)'
  BY <1>1, <1>2 DEF Complete, Persisted, Loadable, Fits
<1>5. Place(pending)'
  BY <1>1, <1>2, <1>4 DEF Place, BranchesNew, ManifestNew, Loadable
<1> QED
  BY <1>1, <1>3, <1>5, Unannounced, Onward

LEMMA WriteBranchesHistory == ASSUME IInv, HInv, WriteBranches PROVE HInv'
<1> DEFINE i == pending
<1>1. /\ pending # None /\ pending' = pending /\ pc = "branches"
      /\ i \in Intent /\ i.kind \in {"branch", "config"}
      /\ UNCHANGED <<manifest, files, index, policyFile, log, published>>
      /\ pc' = IF i.kind = "branch" THEN "file" ELSE "verify"
      /\ i.kind = "config" => i.publish # "required" /\ PolicyNew(i)
  <2>1. pending # None /\ pc = "branches"
    BY DEF WriteBranches, IInv, ProgressOK
  <2>2. Place(i)
    BY <2>1 DEF HInv
  <2>3. i \in Intent /\ i.kind \in {"checkpoint", "branch", "config"}
    BY <2>1, IntentTypes DEF IInv, TypeOK
  <2> QED
    BY <2>1, <2>2, <2>3 DEF WriteBranches, Place
<1>2. Documents(i) /\ Fits(i, Past)
  BY <1>1 DEF HInv
<1>3. BranchesNew(i)'
  <2>1. CASE i.kind = "branch"
    BY <1>1, <1>2, <2>1 DEF WriteBranches, Documents, BranchesOld, BranchesNew,
       NewBranches, NewApplied, Entry
  <2>2. CASE i.kind = "config" /\ BranchesOld(i)
    BY <1>1, <1>2, <2>2 DEF WriteBranches, BranchesOld, BranchesNew,
       NewBranches, NewApplied
  <2>3. CASE i.kind = "config" /\ BranchesNew(i)
    <3>1. /\ branches' = [branches EXCEPT ![i.branch].policy = i.policy]
          /\ applied' = [applied EXCEPT ![i.key] = i.policy]
          /\ branches = [i.prevBranches EXCEPT ![i.branch].policy = i.policy]
          /\ applied = [i.prevApplied EXCEPT ![i.key] = i.policy]
      BY <1>1, <2>3 DEF WriteBranches, BranchesNew, NewBranches, NewApplied
    <3>2. branches' = branches /\ applied' = applied
      BY <3>1
    <3> QED
      BY <1>1, <2>3, <3>2 DEF BranchesNew
  <2> QED
    BY <1>1, <1>2, <2>1, <2>2, <2>3 DEF Documents
<1>4. Documents(pending)'
  BY <1>1, <1>2, <1>3 DEF Documents, Target, ManifestOld, ManifestNew,
     PolicyOld, PolicyNew
<1>5. Place(pending)'
  BY <1>1, <1>3 DEF Place
<1> QED
  BY <1>1, <1>4, <1>5, Unannounced, Onward

LEMMA WritePolicyHistory == ASSUME IInv, HInv, WritePolicy PROVE HInv'
<1> DEFINE i == pending
<1>1. /\ pending # None /\ pending' = pending /\ pc = "policy"
      /\ UNCHANGED <<manifest, files, index, branches, applied, log, published>>
      /\ policyFile' = i.policy
      /\ pc' = IF i.kind = "branch" THEN "verify" ELSE "branches"
  BY DEF WritePolicy, IInv, ProgressOK
<1>2. /\ i.kind # "checkpoint" /\ Documents(i)
      /\ i.kind = "config" => i.publish # "required"
      /\ i.kind \in {"checkpoint", "branch", "config"}
  BY <1>1, IntentTypes DEF HInv, Place, IInv, TypeOK
<1>3. Documents(pending)'
  BY <1>1, <1>2 DEF Documents, Target, ManifestOld, ManifestNew,
     BranchesOld, BranchesNew, PolicyNew
<1>4. Place(pending)'
  BY <1>1, <1>2 DEF Place, PolicyNew
<1> QED
  BY <1>1, <1>3, <1>4, Unannounced, Onward

LEMMA VerifyHistory == ASSUME IInv, HInv, Verify PROVE HInv'
<1> DEFINE i == pending
<1>1. /\ pending # None /\ pending' = pending /\ pc = "verify"
      /\ UNCHANGED <<control, log, published>> /\ Persisted(i)
      /\ pc' = IF i.kind = "branch" /\ i.publish = "required"
               THEN "publish" ELSE "event"
      /\ i.kind \in {"checkpoint", "branch", "config"}
  BY IntentTypes DEF Verify, IInv, ProgressOK, TypeOK
<1>2. Place(i)
  BY <1>1 DEF HInv
<1>3. Persisted(pending)'
  BY <1>1 DEF Persisted, Loadable, control
<1>4. Place(pending)'
  BY <1>1, <1>2, <1>3 DEF Place, Complete
<1> QED
  BY <1>1, <1>4, Unannounced, OnwardQuiet

LEMMA PublishHistory == ASSUME IInv, HInv, Publish PROVE HInv'
<1> DEFINE i == pending
<1>1. /\ pending # None /\ pending' = pending /\ pc = "publish"
      /\ UNCHANGED <<control, log>> /\ published' = published \cup {i.policy}
      /\ pc' = "published"
  BY DEF Publish, IInv, ProgressOK
<1>2. Place(i)
  BY <1>1 DEF HInv
<1>3. Persisted(i) => Persisted(pending)'
  BY <1>1 DEF Persisted, Loadable, control
<1>4. Place(pending)'
  BY <1>1, <1>2, <1>3 DEF Place
<1> QED
  BY <1>1, <1>4, Unannounced, OnwardQuiet

(* Only the publish field of the intent changes.                           *)
LEMMA MarkPublishedHistory == ASSUME IInv, HInv, MarkPublished PROVE HInv'
<1> DEFINE i == pending
           j == pending'
<1>1. /\ i # None /\ pc = "published" /\ i \in Intent
      /\ UNCHANGED <<control, log, published>>
      /\ j = [i EXCEPT !.publish = IF @ = "required" THEN "done" ELSE @]
      /\ pc' = IF i.kind = "branch" THEN "event" ELSE "policy"
  BY DEF MarkPublished, IInv, ProgressOK, TypeOK
<1>2. /\ j.kind = i.kind /\ j.branch = i.branch /\ j.target = i.target
      /\ j.from = i.from /\ j.policy = i.policy /\ j.key = i.key
      /\ j.prevManifest = i.prevManifest /\ j.prevPolicy = i.prevPolicy
      /\ j.prevBranches = i.prevBranches /\ j.prevApplied = i.prevApplied
      /\ i.publish = "required" => j.publish = "done"
      /\ i.publish # "required" => j.publish = i.publish
      /\ j \in Intent /\ j # None
  BY <1>1, StoreAssumption DEF Intent
<1>3. /\ WholeBefore(i) /\ Fits(i, Past) /\ Documents(i) /\ Place(i)
      /\ Heard(Past, i.prevApplied) /\ Only(Past, i.prevBranches)
  BY <1>1 DEF HInv, EventsOf
<1>4. Past' = Past /\ Target' = Target
  BY <1>1, <1>2 DEF Past, Target, control
<1>5. WholeBefore(pending)'
  BY <1>2, <1>3, <1>4 DEF WholeBefore
<1>6. Fits(pending, Past)'
  BY <1>1, <1>2, <1>3, <1>4 DEF Fits, Place
<1>7. Documents(pending)'
  BY <1>1, <1>2, <1>3, <1>4 DEF Documents, ManifestOld, ManifestNew,
     BranchesOld, BranchesNew, NewBranches, NewApplied, Entry, PolicyOld,
     PolicyNew, control
<1>8. i.kind = "branch" => Complete(pending)'
  BY <1>1, <1>2, <1>3 DEF Place, Complete, Persisted, Loadable, control
<1>9. Place(pending)'
  BY <1>1, <1>2, <1>3, <1>8, IntentTypes DEF Place
<1>10. EventsOf(pending)'
  BY <1>1, <1>2, <1>3, <1>4 DEF EventsOf, Heard, Only, log
<1> QED
  BY <1>2, <1>5, <1>6, <1>7, <1>9, <1>10 DEF HInv

(* The announcement of a complete intent that has none yet.                *)
LEMMA AnnounceHistory ==
  ASSUME IInv, HInv, pending # None, pending' = pending,
         UNCHANGED <<control, published>>, Announce, Complete(pending),
         Only(Past, pending.prevBranches) \/ ~ Announced(pending),
         pc' \in {"idle", "unlink"}
  PROVE  HInv'
<1> DEFINE i == pending
<1>1. /\ i \in Intent /\ i.kind \in {"checkpoint", "branch", "config"}
      /\ i.target \in Ckpt \cup {None} /\ i.branch \in Branches
      /\ i.policy \in Policies /\ Persisted(i) /\ TypeOK
      /\ i.prevApplied \in [Keys -> Policies \cup {None}]
      /\ i.prevBranches[i.prevManifest.branch] # None
  BY IntentTypes DEF IInv, TypeOK, Complete, HInv, WholeBefore, Whole
<1>2. /\ stepEvents \in [Ckpt -> Nat] /\ forkEvents \in [Branches -> Nat]
      /\ confEvents \in [Policies -> Nat]
  BY <1>1 DEF TypeOK
<1>3. /\ Fits(i, Past) /\ Documents(i) /\ EventsOf(i)
      /\ Heard(Past, i.prevApplied) /\ WholeBefore(i) /\ Past \subseteq Ckpt
  BY DEF HInv, EventsOf, WholeBefore, Whole
<1>4. /\ Past' = Past /\ Target' = Target /\ Complete(pending)'
  BY DEF Past, Target, control, Complete, Persisted, Loadable
<1>5. /\ branches = NewBranches(i)
      /\ i.kind # "config" => i.target \in index /\ i.target \in Ckpt
                              /\ i.target # None /\ Target = {i.target}
  <2>1. /\ BranchesNew(i)
        /\ i.kind # "config" => i.target \in Loadable
    BY <1>1, <1>3, PersistedIsNew
  <2>2. Loadable \subseteq Ckpt /\ Loadable \subseteq index /\ None \notin Ckpt
    BY <1>1, StoreAssumption DEF Loadable, TypeOK
  <2> QED
    BY <2>1, <2>2 DEF BranchesNew, Target
<1>6. /\ \A b \in Branches : i.prevBranches[b] # None => branches[b] # None
      /\ i.kind = "branch" => branches[i.branch] # None
                              /\ i.prevBranches[i.branch] = None
  BY <1>1, <1>3, <1>5, NewBranchesAre, EntryType DEF Fits
<1>7. Only(index, branches)
  BY <1>3, <1>6 DEF EventsOf, Only, Past
<1>8. /\ i.kind = "checkpoint" => stepEvents[i.target] = 0
      /\ i.kind = "branch" => forkEvents[i.branch] = 0
  <2>1. CASE Only(Past, i.prevBranches)
    <3>1. i.kind = "checkpoint" => i.target \notin Past
      BY <1>5 DEF Past
    <3>2. /\ i.kind = "checkpoint" => stepEvents[i.target] <= 1 /\ stepEvents[i.target] # 1
          /\ i.kind = "branch" => forkEvents[i.branch] <= 1 /\ forkEvents[i.branch] # 1
      BY <1>1, <1>5, <1>6, <2>1, <3>1 DEF Only
    <3>3. /\ i.kind = "checkpoint" => stepEvents[i.target] \in Nat
          /\ i.kind = "branch" => forkEvents[i.branch] \in Nat
      BY <1>1, <1>2, <1>5
    <3> QED
      BY <3>2, <3>3
  <2>2. CASE ~ Announced(i)
    <3>1. /\ i.kind = "checkpoint" => ~ (stepEvents[i.target] > 0)
          /\ i.kind = "branch" => ~ (forkEvents[i.branch] > 0)
      <4>1. CASE i.kind = "checkpoint"
        BY <2>2, <4>1 DEF Announced
      <4>2. CASE i.kind = "branch"
        BY <2>2, <4>2 DEF Announced
      <4> QED
        BY <4>1, <4>2
    <3> QED
      BY <1>1, <1>2, <1>5, <3>1
  <2> QED
    BY <2>1, <2>2
<1>9. /\ \A c \in Ckpt : stepEvents'[c] = IF i.kind = "checkpoint" /\ c = i.target
                                          THEN stepEvents[c] + 1 ELSE stepEvents[c]
      /\ \A b \in Branches : forkEvents'[b] = IF i.kind = "branch" /\ b = i.branch
                                              THEN forkEvents[b] + 1 ELSE forkEvents[b]
      /\ \A p \in Policies : confEvents'[p] = IF i.kind = "config" /\ p = i.policy
                                              THEN confEvents[p] + 1 ELSE confEvents[p]
  BY <1>1, <1>2 DEF Announce
<1>10. Only(index, branches)'
  <2>1. \A c \in Ckpt : stepEvents'[c] <= 1 /\ (stepEvents'[c] = 1 => c \in index)
    BY <1>5, <1>7, <1>8, <1>9 DEF Only
  <2>2. \A b \in Branches : /\ forkEvents'[b] <= 1
                            /\ forkEvents'[b] = 1 => branches[b] # None
    BY <1>6, <1>7, <1>8, <1>9 DEF Only
  <2> QED
    BY <2>1, <2>2 DEF Only, control
<1>11. Heard(Past, i.prevApplied)'
  <2>1. \A c \in Past : c \in Ckpt /\ c.branch \in Branches
    BY <1>3 DEF Ckpt
  <2>2. \A c \in Past : ~ (i.kind = "checkpoint" /\ c = i.target)
    BY <1>5 DEF Past
  <2>3. \A c \in Past : ~ (i.kind = "branch" /\ c.branch = i.branch)
    BY <1>3, <1>6 DEF WholeBefore, Whole, Rooted
  <2>4. ASSUME NEW c \in Past
        PROVE  IF c.seq = 1 /\ c.branch # Main
               THEN forkEvents'[c.branch] = 1 ELSE stepEvents'[c] = 1
    <3>1. stepEvents'[c] = stepEvents[c] /\ forkEvents'[c.branch] = forkEvents[c.branch]
      BY <1>9, <2>1, <2>2, <2>3
    <3> QED
      BY <1>3, <3>1 DEF Heard
  <2>5. ASSUME NEW k \in Keys, i.prevApplied[k] # None
        PROVE  confEvents'[i.prevApplied[k]] >= 1
    <3>1. i.prevApplied[k] \in Policies /\ confEvents[i.prevApplied[k]] >= 1
      BY <1>1, <1>3, <2>5 DEF Heard
    <3> QED
      BY <1>2, <1>9, <3>1
  <2> QED
    BY <1>4, <2>4, <2>5 DEF Heard
<1>12. Announced(pending)'
  <2>1. i.kind = "config" => confEvents[i.policy] \in Nat
    BY <1>1, <1>2
  <2>2. /\ i.kind = "checkpoint" => stepEvents'[i.target] > 0
        /\ i.kind = "branch" => forkEvents'[i.branch] > 0
        /\ i.kind = "config" => confEvents'[i.policy] > 0
    BY <1>1, <1>5, <1>8, <1>9, <2>1
  <2>3. pending' = i
    OBVIOUS
  <2>4. CASE i.kind = "checkpoint"
    BY <2>2, <2>3, <2>4 DEF Announced
  <2>5. CASE i.kind = "branch"
    BY <2>2, <2>3, <2>5 DEF Announced
  <2>6. CASE i.kind = "config"
    BY <2>2, <2>3, <2>6 DEF Announced
  <2> QED
    BY <1>1, <2>4, <2>5, <2>6
<1>13. WholeBefore(pending)' /\ Fits(pending, Past)' /\ pending' # None
  BY <1>3, <1>4 DEF WholeBefore, Fits
<1>14. Documents(pending)'
  BY <1>3 DEF Documents, control, Target, ManifestOld, ManifestNew,
     BranchesOld, BranchesNew, PolicyOld, PolicyNew
<1>15. Place(pending)'
  BY <1>4, <1>12 DEF Place, Said
<1>16. EventsOf(pending)'
  BY <1>4, <1>10, <1>11 DEF EventsOf
<1> QED
  BY <1>13, <1>14, <1>15, <1>16 DEF HInv

LEMMA WriteEventHistory == ASSUME IInv, HInv, WriteEvent PROVE HInv'
<1>1. /\ pending # None /\ pending' = pending /\ pc = "event" /\ pc' = "unlink"
      /\ UNCHANGED <<control, published>> /\ Announce
  BY DEF WriteEvent, IInv, ProgressOK
<1>2. Complete(pending)
  BY <1>1 DEF HInv, Place
<1> QED
  BY <1>1, <1>2, Unannounced, AnnounceHistory

LEMMA RecoverEventHistory == ASSUME IInv, HInv, RecoverEvent PROVE HInv'
BY AnnounceHistory DEF RecoverEvent, Idle

(* The intent is dropped.                                                  *)
LEMMA Dropped ==
  ASSUME HInv, Settled, pending' = None, UNCHANGED <<control, log>>
  PROVE  HInv'
<1>1. Settled'
  BY DEF Settled, Whole, Heard, Only, control, log
<1> QED
  BY <1>1 DEF HInv

LEMMA UnlinkHistory == ASSUME IInv, HInv, Unlink PROVE HInv'
<1>1. pending # None /\ pc = "unlink"
  BY DEF Unlink, IInv, ProgressOK
<1>2. Restored(pending) \/ Said(pending)
  BY <1>1 DEF HInv, Place
<1>3. Settled
  BY <1>1, <1>2, SaidIsSettled, RestoredIsSettled
<1> QED
  BY <1>3, Dropped DEF Unlink

LEMMA RecoverUnlinkHistory == ASSUME IInv, HInv, RecoverUnlink PROVE HInv'
<1>1. Settled
  BY SaidIsSettled DEF RecoverUnlink, Said
<1> QED
  BY <1>1, Dropped DEF RecoverUnlink

-----------------------------------------------------------------------------
(* Steps that leave the documents alone, with or without an intent.        *)

LEMMA SettledQuiet ==
  ASSUME HInv, pending = None, pending' = None,
         UNCHANGED <<files, index, branches, applied, policyFile, log>>,
         manifest'.branch = manifest.branch, manifest'.ptr = manifest.ptr
  PROVE  HInv'
<1>1. Settled'
  BY DEF HInv, Settled, Whole, Newest, Heard, Only, log
<1> QED
  BY <1>1 DEF HInv

(* Between operations every place says nothing.                            *)
LEMMA RestingHistory ==
  ASSUME HInv, pending # None, pending' = pending, pc' = "idle",
         UNCHANGED <<files, index, branches, applied, policyFile, log, published>>,
         manifest'.branch = manifest.branch, manifest'.ptr = manifest.ptr
  PROVE  HInv'
<1>1. Past' = Past /\ Target' = Target /\ pending' # None
  BY DEF Past, Target
<1>2. Complete(pending)' <=> Complete(pending)
  BY DEF Complete, Persisted, Loadable
<1>3. WholeBefore(pending)' /\ Fits(pending, Past)'
  BY <1>1 DEF HInv, WholeBefore, Fits
<1>4. Documents(pending)'
  BY <1>1 DEF HInv, Documents, ManifestOld, ManifestNew,
     BranchesOld, BranchesNew, PolicyOld, PolicyNew
<1>5. Place(pending)'
  BY DEF Place
<1>6. EventsOf(pending)'
  BY <1>1, <1>2 DEF HInv, EventsOf, Heard, Only, log
<1> QED
  BY <1>1, <1>3, <1>4, <1>5, <1>6 DEF HInv

LEMMA CrashHistory == ASSUME IInv, HInv, Crash PROVE HInv'
<1>1. CASE pending = None
  BY <1>1, SettledQuiet DEF Crash, control
<1>2. CASE pending # None
  BY <1>2, RestingHistory DEF Crash, control
<1> QED
  BY <1>1, <1>2

LEMMA StartStepHistory == ASSUME IInv, HInv, StartStep PROVE HInv'
<1>1. CASE pending = None
  BY <1>1, SettledQuiet DEF StartStep, control
<1>2. CASE pending # None
  BY <1>2, RestingHistory DEF StartStep, Idle, control
<1> QED
  BY <1>1, <1>2

LEMMA FailStepHistory ==
  ASSUME IInv, HInv, NEW s \in States, FailStep(s)
  PROVE  HInv'
<1>1. manifest'.branch = manifest.branch /\ manifest'.ptr = manifest.ptr
  BY DEF FailStep, IInv, TypeOK, Manifest
<1>2. CASE pending = None
  BY <1>1, <1>2, SettledQuiet DEF FailStep
<1>3. CASE pending # None
  BY <1>1, <1>3, RestingHistory DEF FailStep, Idle
<1> QED
  BY <1>2, <1>3

(* A rollback starts with everything where it is.                          *)
LEMMA RollbackHistory ==
  ASSUME HInv, pending # None, pending' = pending, pc' = "undo_files",
         UNCHANGED <<control, log, published>>,
         Only(Past, pending.prevBranches)
  PROVE  HInv'
<1>1. Place(pending)'
  BY DEF Place
<1> QED
  BY <1>1, OnwardQuiet

LEMMA WriteFailsHistory == ASSUME IInv, HInv, WriteFails PROVE HInv'
<1>1. pending # None /\ pc \notin {"idle", "unlink"}
  BY DEF WriteFails, IInv, ProgressOK
<1> QED
  BY <1>1, Unannounced, RollbackHistory DEF WriteFails

LEMMA StartRollbackHistory == ASSUME IInv, HInv, StartRollback PROVE HInv'
<1>1. Only(Past, pending.prevBranches)
  BY DEF StartRollback, HInv, EventsOf
<1> QED
  BY <1>1, RollbackHistory DEF StartRollback

-----------------------------------------------------------------------------
(* The writes of a rollback.                                               *)

LEMMA UndoFilesHistory == ASSUME IInv, HInv, UndoFiles PROVE HInv'
<1>1. /\ pending # None /\ pending' = pending /\ pc = "undo_files"
      /\ UNCHANGED <<manifest, index, branches, applied, policyFile, log, published>>
      /\ files' = files \ Undone /\ pc' = "undo_index"
  BY DEF UndoFiles, IInv, ProgressOK
<1>2. /\ Undone \cap index \subseteq Target /\ Target \subseteq Undone
      /\ files \ Target = index \ Target
  BY <1>1, UndoneIsTarget DEF HInv, Documents
<1>3. files' \ Target = index \ Target /\ Target \cap files' = {}
  BY <1>1, <1>2
<1>4. Documents(pending)'
  BY <1>1, <1>3 DEF HInv, Documents, Target, ManifestOld, ManifestNew,
     BranchesOld, BranchesNew, PolicyOld, PolicyNew
<1>5. Place(pending)'
  BY <1>1, <1>3 DEF Place, Target
<1> QED
  BY <1>1, <1>4, <1>5, Unannounced, Onward

LEMMA UndoIndexHistory == ASSUME IInv, HInv, UndoIndex PROVE HInv'
<1> DEFINE i == pending
<1>1. /\ pending # None /\ pending' = pending /\ pc = "undo_index"
      /\ UNCHANGED <<manifest, files, branches, applied, policyFile, log, published>>
      /\ index' = index \ Undone
      /\ pc' = IF i.kind = "checkpoint" THEN "undo_manifest" ELSE "undo_branches"
  BY DEF UndoIndex, AfterUndoIndex, IInv, ProgressOK
<1>2. /\ Undone \cap index \subseteq Target /\ Target \subseteq Undone
      /\ Documents(i) /\ Target \cap files = {}
  BY <1>1, UndoneIsTarget DEF HInv, Place
<1>3. index' \ Target = index \ Target /\ Target \cap index' = {}
  BY <1>1, <1>2
<1>4. Documents(pending)'
  BY <1>1, <1>2, <1>3 DEF Documents, Target, ManifestOld, ManifestNew,
     BranchesOld, BranchesNew, PolicyOld, PolicyNew
<1>5. i.kind = "checkpoint" => BranchesOld(i) /\ PolicyOld(i)
  BY <1>2 DEF Documents, BranchesOld, BranchesNew, NewBranches, NewApplied,
     PolicyNew
<1>6. Place(pending)'
  BY <1>1, <1>2, <1>3, <1>5 DEF Place, Target, BranchesOld, PolicyOld
<1> QED
  BY <1>1, <1>3, <1>4, <1>6, Unannounced, Onward

LEMMA UndoBranchesHistory == ASSUME IInv, HInv, UndoBranches PROVE HInv'
<1> DEFINE i == pending
<1>1. /\ pending # None /\ pending' = pending /\ pc = "undo_branches"
      /\ UNCHANGED <<manifest, files, index, policyFile, log, published>>
      /\ pc' = "undo_policy" /\ i \in Intent
  BY DEF UndoBranches, IInv, TypeOK, ProgressOK
<1>2. /\ i.kind \in {"branch", "config"} /\ Documents(i) /\ Fits(i, Past)
      /\ Target \cap files = {} /\ Target \cap index = {}
      /\ i.branch \in Branches
      /\ i.prevBranches \in [Branches -> Details \cup {None}]
  BY <1>1, IntentTypes DEF HInv, Place
<1>3. BranchesOld(i)'
  <2>1. CASE i.kind = "branch"
    <3>1. /\ branches = i.prevBranches
             \/ branches = [i.prevBranches EXCEPT ![i.branch] = Entry(i)]
          /\ applied = i.prevApplied /\ i.prevBranches[i.branch] = None
      BY <1>2, <2>1 DEF Documents, BranchesOld, BranchesNew, NewBranches,
         NewApplied, Fits
    <3>2. /\ branches' = [branches EXCEPT ![i.branch] = None]
          /\ applied' = applied
      BY <2>1 DEF UndoBranches
    <3>3. branches' = i.prevBranches
      BY <1>2, <3>1, <3>2
    <3> QED
      BY <1>1, <3>1, <3>2, <3>3 DEF BranchesOld
  <2>2. CASE i.kind = "config"
    BY <1>1, <2>2 DEF UndoBranches, BranchesOld
  <2> QED
    BY <1>2, <2>1, <2>2
<1>4. Documents(pending)'
  BY <1>1, <1>2, <1>3 DEF Documents, Target, ManifestOld, ManifestNew,
     PolicyOld, PolicyNew
<1>5. Place(pending)'
  BY <1>1, <1>2, <1>3 DEF Place, Target
<1> QED
  BY <1>1, <1>4, <1>5, Unannounced, Onward

LEMMA UndoPolicyHistory == ASSUME IInv, HInv, UndoPolicy PROVE HInv'
<1>1. /\ pending # None /\ pending' = pending /\ pc = "undo_policy"
      /\ UNCHANGED <<manifest, files, index, branches, applied, log, published>>
      /\ policyFile' = pending.prevPolicy /\ pc' = "undo_manifest"
  BY DEF UndoPolicy, IInv, ProgressOK
<1>2. Documents(pending) /\ Place(pending)
  BY <1>1 DEF HInv
<1>3. Documents(pending)'
  BY <1>1, <1>2 DEF Documents, Target, ManifestOld, ManifestNew,
     BranchesOld, BranchesNew, PolicyOld
<1>4. Place(pending)'
  BY <1>1, <1>2 DEF Place, Target, BranchesOld, PolicyOld
<1> QED
  BY <1>1, <1>3, <1>4, Unannounced, Onward

LEMMA UndoManifestHistory == ASSUME IInv, HInv, UndoManifest PROVE HInv'
<1>1. /\ pending # None /\ pending' = pending /\ pc = "undo_manifest"
      /\ UNCHANGED <<files, index, branches, applied, policyFile, log, published>>
      /\ manifest' = pending.prevManifest /\ pc' = "unlink"
  BY DEF UndoManifest, IInv, ProgressOK
<1>2. Documents(pending) /\ Place(pending)
  BY <1>1 DEF HInv
<1>3. Documents(pending)'
  BY <1>1, <1>2 DEF Documents, Target, ManifestOld,
     BranchesOld, BranchesNew, PolicyOld, PolicyNew
<1>4. Restored(pending)'
  BY <1>1, <1>2 DEF Place, Target, Restored, ManifestOld, BranchesOld, PolicyOld
<1>5. Place(pending)'
  BY <1>1, <1>4 DEF Place
<1> QED
  BY <1>1, <1>3, <1>5, Unannounced, Onward

-----------------------------------------------------------------------------
(* The invariant is inductive.                                             *)

LEMMA StutterHistory == ASSUME IInv, HInv, UNCHANGED vars PROVE HInv'
<1>1. CASE pending = None
  BY <1>1, SettledQuiet DEF vars, control
<1>2. CASE pending # None
  <2>1. /\ pending' = pending /\ pending' # None /\ pc' = pc
        /\ UNCHANGED <<control, log, published>>
        /\ Past' = Past /\ Target' = Target
    BY <1>2 DEF vars, control, Past, Target
  <2>2. /\ Persisted(pending)' = Persisted(pending)
        /\ Announced(pending)' = Announced(pending)
    BY <2>1 DEF Persisted, Loadable, Announced, control, log
  <2>3. WholeBefore(pending)' /\ Fits(pending, Past)'
    BY <1>2, <2>1 DEF HInv, WholeBefore, Fits
  <2>4. Documents(pending)'
    BY <1>2, <2>1 DEF HInv, Documents, control, ManifestOld, ManifestNew,
       BranchesOld, BranchesNew, PolicyOld, PolicyNew
  <2>5. Place(pending)'
    <3>1. /\ Complete(pending)' = Complete(pending)
          /\ Said(pending)' = Said(pending)
      BY <2>1, <2>2 DEF Complete, Said
    <3> QED
      BY <1>2, <2>1, <2>2, <3>1 DEF HInv, Place, control, ManifestOld,
         ManifestNew, BranchesOld, BranchesNew, PolicyOld, PolicyNew, Restored,
         Loadable
  <2>6. EventsOf(pending)'
    BY <1>2, <2>1, <2>2 DEF HInv, EventsOf, Heard, Only, Complete, control, log
  <2> QED
    BY <2>1, <2>3, <2>4, <2>5, <2>6 DEF HInv
<1> QED
  BY <1>1, <1>2

LEMMA NextHInv == ASSUME RollbackMayFail = FALSE, IInv, HInv, Next PROVE HInv'
<1>1. CASE Begin
  BY <1>1, BeginCheckpointHistory, BeginBranchHistory, BeginConfigHistory,
     SwitchBranchHistory, StartStepHistory, FailStepHistory DEF Begin
<1>2. CASE Write
  BY <1>2, WriteFileHistory, WriteIndexHistory, WriteManifestHistory,
     WriteEventHistory, UnlinkHistory, WriteBranchesHistory, WritePolicyHistory,
     VerifyHistory, PublishHistory, MarkPublishedHistory, SwitchPolicyHistory
     DEF Write
<1>3. CASE Recover
  BY <1>3, RecoverEventHistory, RecoverUnlinkHistory, StartRollbackHistory
     DEF Recover
<1>4. CASE Undo
  BY <1>4, UndoFilesHistory, UndoIndexHistory, UndoBranchesHistory,
     UndoPolicyHistory, UndoManifestHistory DEF Undo
<1>5. CASE Fault
  BY <1>5, CrashHistory, WriteFailsHistory DEF Fault, RollbackFails
<1> QED
  BY <1>1, <1>2, <1>3, <1>4, <1>5 DEF Next

(* What the readers see: the project, or the one an intent saved.          *)
View ==
  /\ ReadManifest.branch = IF pending = None THEN manifest.branch
                           ELSE pending.prevManifest.branch
  /\ ReadManifest.ptr = IF pending = None THEN manifest.ptr
                        ELSE pending.prevManifest.ptr
  /\ ListedCheckpoints = IF pending = None THEN index ELSE Past
  /\ ListedCheckpoints \subseteq Loadable
  /\ ListedBranches = IF pending = None THEN branches ELSE pending.prevBranches
  /\ ListedApplied = IF pending = None THEN applied ELSE pending.prevApplied

LEMMA ReadersView == IInv /\ HInv => View
<1> SUFFICES ASSUME IInv, HInv PROVE View
  OBVIOUS
<1>1. CASE pending = None
  BY <1>1 DEF View, ReadManifest, ListedCheckpoints, ListedBranches,
     ListedApplied, HInv, Settled, Loadable
<1>2. CASE pending # None
  <2> DEFINE i == pending
  <2>1. /\ i \in Intent /\ i.kind \in {"checkpoint", "branch", "config"}
        /\ i.prevBranches \in [Branches -> Details \cup {None}]
        /\ i.branch \in Branches /\ Documents(i) /\ Fits(i, Past)
        /\ None \notin index /\ i.prevBranches[i.prevManifest.branch] # None
    BY <1>2, IntentTypes, StoreAssumption
       DEF IInv, TypeOK, HInv, WholeBefore, Whole
  <2>2. /\ ListedCheckpoints = Past /\ Past \subseteq Loadable
    BY <1>2, <2>1 DEF ListedCheckpoints, Past, Target, Documents, Loadable
  <2>3. ListedBranches = i.prevBranches
    <3>1. /\ i.kind = "branch" => i.prevBranches[i.branch] = None
          /\ \A b \in Branches : i.kind = "checkpoint" \/ b # i.branch
               => branches[b] = i.prevBranches[b]
      <4>1. CASE branches = i.prevBranches
        BY <2>1, <4>1 DEF Fits
      <4>2. CASE branches = NewBranches(i)
        BY <2>1, <4>2 DEF NewBranches, Fits
      <4> QED
        BY <2>1, <4>1, <4>2 DEF Documents, BranchesOld, BranchesNew
    <3>2. ASSUME NEW b \in Branches
          PROVE  (CASE pending.kind = "branch" /\ b = pending.branch -> None
                    [] pending.kind = "config" /\ b = pending.branch
                         -> pending.prevBranches[b]
                    [] OTHER -> branches[b]) = i.prevBranches[b]
      BY <2>1, <3>1
    <3>3. ListedBranches = [b \in Branches |-> i.prevBranches[b]]
      BY <1>2, <3>2 DEF ListedBranches
    <3> QED
      BY <2>1, <3>3
  <2>4. ListedApplied = i.prevApplied
    BY <1>2, <2>1 DEF ListedApplied, Documents, BranchesOld, BranchesNew, NewApplied
  <2> QED
    BY <1>2, <2>2, <2>3, <2>4 DEF View, ReadManifest
<1> QED
  BY <1>1, <1>2

(* The invariant, and what the readers see under it.                       *)
Known == IInv /\ HInv /\ View

(* Between transactions the project is whole; within one, every document   *)
(* is as the intent saved it or as the intent wants it.                    *)
THEOREM HistoryInvariance ==
  ASSUME RollbackMayFail = FALSE
  PROVE  Spec => []Known
<1>1. Init => IInv /\ HInv
  BY InitIInv, InitHInv
<1>2. IInv /\ HInv /\ [Next]_vars => IInv' /\ HInv'
  BY NextIInv, NextHInv, StutterStep, StutterHistory
<1>3. IInv /\ HInv => Known
  BY ReadersView DEF Known
<1> QED
  BY <1>1, <1>2, <1>3, PTL DEF Spec

-----------------------------------------------------------------------------
(* What holds in every state.                                              *)

LEMMA NowKeyed == IInv /\ HInv => Keyed(branches, applied)
<1> SUFFICES ASSUME IInv, HInv PROVE Keyed(branches, applied)
  OBVIOUS
<1>1. CASE pending = None
  BY <1>1 DEF HInv, Settled, Whole
<1>2. CASE pending # None
  <2>1. pending \in Intent
    BY <1>2 DEF IInv, TypeOK
  <2>2. /\ Documents(pending) /\ Fits(pending, Past)
        /\ Keyed(pending.prevBranches, pending.prevApplied)
        /\ pending.prevBranches[pending.prevManifest.branch] # None
    BY <1>2 DEF HInv, WholeBefore, Whole
  <2>3. Keyed(NewBranches(pending), NewApplied(pending))
    BY <2>1, <2>2, CommittedKeyed
  <2> QED
    BY <2>2, <2>3 DEF Documents, BranchesOld, BranchesNew
<1> QED
  BY <1>1, <1>2

LEMMA NowHeard == IInv /\ HInv => LogMatchesHistory
<1> SUFFICES ASSUME IInv, HInv PROVE LogMatchesHistory
  OBVIOUS
<1>1. CASE pending = None
  BY <1>1 DEF HInv, Settled, Heard, Only, LogMatchesHistory, Loadable
<1>2. CASE pending # None
  <2> DEFINE i == pending
  <2>1. /\ i \in Intent /\ Documents(i) /\ Fits(i, Past) /\ EventsOf(i)
        /\ i.prevBranches[i.prevManifest.branch] # None
    BY <1>2 DEF IInv, TypeOK, HInv, WholeBefore, Whole
  <2>2. Past \subseteq Loadable
    BY <2>1 DEF Documents, Past, Loadable
  <2>3. \A b \in Branches : i.prevBranches[b] # None => branches[b] # None
    BY <2>1, NewBranchesAre DEF Documents, BranchesOld, BranchesNew
  <2>4. CASE Only(Past, i.prevBranches)
    BY <1>2, <2>2, <2>3, <2>4 DEF Only, LogMatchesHistory
  <2>5. CASE Complete(i) /\ Only(index, branches)
    <3>1. i.kind # "config" => i.target \in Loadable
      BY <2>1, <2>5, PersistedIsNew DEF Complete
    <3>2. Target \subseteq Loadable
      BY <2>1, <3>1 DEF Target, Fits
    <3>3. index \subseteq Loadable
      BY <2>2, <3>2 DEF Past
    <3> QED
      BY <1>2, <2>5, <3>3 DEF Only, LogMatchesHistory
  <2> QED
    BY <2>1, <2>4, <2>5 DEF EventsOf
<1> QED
  BY <1>1, <1>2

(* An interrupted write or a rollback leaves no trace in the checkpoints   *)
(* and the branches, for any number of them.                               *)
THEOREM HistoryStaysWellFormed ==
  ASSUME RollbackMayFail = FALSE
  PROVE  Spec => []HistoryWellFormed
<1>1. Known => HistoryWellFormed
  BY DEF Known, HInv, Settled, Whole, Rooted, SamePlace, HistoryWellFormed
<1> QED
  BY <1>1, HistoryInvariance, PTL

(* Work never continues from the middle of a branch.                       *)
THEOREM HeadStaysNewest ==
  ASSUME RollbackMayFail = FALSE
  PROVE  Spec => []HeadIsNewest
<1>1. Known => HeadIsNewest
  BY DEF Known, HInv, Settled, Whole, Newest, HeadIsNewest
<1> QED
  BY <1>1, HistoryInvariance, PTL

(* Every commit is announced exactly once and nothing else is, through     *)
(* crashes in front of and behind the event and repeated recoveries.       *)
THEOREM LogTellsTheHistory ==
  ASSUME RollbackMayFail = FALSE
  PROVE  Spec => []LogMatchesHistory
<1>1. Known => LogMatchesHistory
  BY NowHeard DEF Known
<1> QED
  BY <1>1, HistoryInvariance, PTL

(* A key of an apply request takes effect at most once.                    *)
THEOREM KeysTakeEffectOnce ==
  ASSUME RollbackMayFail = FALSE
  PROVE  Spec => []KeyTakesEffectOnce
<1>1. Known => KeyTakesEffectOnce
  <2>1. Keyed(branches, applied) => KeyTakesEffectOnce
    BY DEF Keyed, KeyTakesEffectOnce
  <2> QED
    BY <2>1, NowKeyed DEF Known
<1> QED
  BY <1>1, HistoryInvariance, PTL

(* No policy of an apply that was rolled back stays behind.                *)
THEOREM PolicyFileIsBound ==
  ASSUME RollbackMayFail = FALSE
  PROVE  Spec => []PolicyFileOfSomeBranch
<1>1. Known => PolicyFileOfSomeBranch
  BY DEF Known, HInv, Settled, Whole, Bound, PolicyFileOfSomeBranch
<1> QED
  BY <1>1, HistoryInvariance, PTL

-----------------------------------------------------------------------------
(* What the steps do to the view of the readers.                           *)

(* A step leaves the view alone, moves the head, or ends a transaction.    *)
Calm == UNCHANGED <<ReadManifest.branch, ReadManifest.ptr, ListedCheckpoints,
                    ListedBranches, ListedApplied>>

Moved == /\ \E c \in Ckpt : SwitchBranch(c)
         /\ pending = None /\ pending' = None
         /\ UNCHANGED <<ListedCheckpoints, ListedBranches, ListedApplied>>

Ended == /\ pending # None /\ pending' = None /\ UNCHANGED control
         /\ Restored(pending) \/ Said(pending)

LEMMA CalmWithout ==
  ASSUME View, View', pending = None, pending' = None,
         UNCHANGED <<index, branches, applied>>,
         manifest'.branch = manifest.branch, manifest'.ptr = manifest.ptr
  PROVE  Calm
BY DEF View, Calm

LEMMA CalmWithin ==
  ASSUME View, View', pending # None, pending' # None, Past' = Past,
         pending'.prevManifest = pending.prevManifest,
         pending'.prevBranches = pending.prevBranches,
         pending'.prevApplied = pending.prevApplied
  PROVE  Calm
BY DEF View, Calm

LEMMA CalmBegin ==
  ASSUME View, View', pending = None, pending' # None, Past' = index,
         pending'.prevManifest = manifest,
         pending'.prevBranches = branches, pending'.prevApplied = applied
  PROVE  Calm
BY DEF View, Calm

LEMMA BeginCalm ==
  ASSUME Known, Known', Begin
  PROVE  Calm \/ Moved
<1>1. ASSUME NEW s \in States, BeginCheckpoint(s) PROVE Calm
  <2>1. pending = None /\ Past' = index
    BY <1>1, BeginCheckpointHistory DEF Known, BeginCheckpoint, Quiet
  <2>2. pending' # None
    BY <1>1, BeginCheckpointStep DEF Known, BeginCheckpoint, IInv, ProgressOK
  <2>3. /\ pending'.prevManifest = manifest /\ pending'.prevBranches = branches
        /\ pending'.prevApplied = applied
    BY <1>1 DEF BeginCheckpoint, NewIntent
  <2> QED
    BY <2>1, <2>2, <2>3, CalmBegin DEF Known
<1>2. ASSUME NEW c \in Ckpt, NEW b \in Branches, NEW p \in Policies,
             NEW k \in Keys \cup {None}, NEW publish \in {"no", "required"},
             BeginBranch(c, b, p, k, publish)
      PROVE  Calm
  <2>1. pending = None /\ Past' = index
    BY <1>2, BeginBranchHistory DEF Known, BeginBranch, Quiet
  <2>2. pending' # None
    BY <1>2, BeginBranchStep DEF Known, BeginBranch, IInv, ProgressOK
  <2>3. /\ pending'.prevManifest = manifest /\ pending'.prevBranches = branches
        /\ pending'.prevApplied = applied
    BY <1>2 DEF BeginBranch, NewIntent
  <2> QED
    BY <2>1, <2>2, <2>3, CalmBegin DEF Known
<1>3. ASSUME NEW p \in Policies, NEW k \in Keys, NEW publish \in {"no", "required"},
             BeginConfig(p, k, publish)
      PROVE  Calm
  <2>1. pending = None /\ Past' = index
    BY <1>3, BeginConfigHistory DEF Known, BeginConfig, Quiet
  <2>2. pending' # None
    BY <1>3, BeginConfigStep DEF Known, BeginConfig, IInv, ProgressOK
  <2>3. /\ pending'.prevManifest = manifest /\ pending'.prevBranches = branches
        /\ pending'.prevApplied = applied
    BY <1>3 DEF BeginConfig, NewIntent
  <2> QED
    BY <2>1, <2>2, <2>3, CalmBegin DEF Known
<1>4. ASSUME NEW c \in Ckpt, SwitchBranch(c) PROVE Moved
  BY <1>4 DEF SwitchBranch, Quiet, Moved, Known, View
<1>5. CASE StartStep
  BY <1>5, CalmWithout, CalmWithin DEF StartStep, Known, control, Past, Target
<1>6. ASSUME NEW s \in States, FailStep(s) PROVE Calm
  <2>1. manifest'.branch = manifest.branch /\ manifest'.ptr = manifest.ptr
    BY <1>6 DEF FailStep, Known, IInv, TypeOK, Manifest
  <2> QED
    BY <1>6, <2>1, CalmWithout, CalmWithin DEF FailStep, Known, Past, Target
<1> QED
  BY <1>1, <1>2, <1>3, <1>4, <1>5, <1>6 DEF Begin

LEMMA StepOfView ==
  ASSUME RollbackMayFail = FALSE, Known, Known', [Next]_vars
  PROVE  Calm \/ Moved \/ Ended
<1>1. CASE Begin
  BY <1>1, BeginCalm
<1>2. CASE Unlink \/ RecoverUnlink
  <2>1. pending # None /\ pending' = None /\ UNCHANGED control
    BY <1>2 DEF Unlink, RecoverUnlink, Known, IInv, ProgressOK
  <2>2. Restored(pending) \/ Said(pending)
    BY <1>2, <2>1 DEF Unlink, RecoverUnlink, Known, HInv, Place, Said
  <2> QED
    BY <2>1, <2>2 DEF Ended
<1>3. CASE SwitchPolicy \/ (pending = None /\ (Crash \/ UNCHANGED vars))
  <2>1. pending = None
    BY <1>3 DEF SwitchPolicy, Known, IInv, ProgressOK
  <2> QED
    BY <1>3, <2>1, CalmWithout DEF Crash, SwitchPolicy, vars, control, Known
<1>4. CASE \/ WriteFile \/ WriteManifest \/ WriteEvent \/ WriteBranches
           \/ WritePolicy \/ Verify \/ Publish \/ RecoverEvent \/ StartRollback
           \/ UndoFiles \/ UndoBranches \/ UndoPolicy \/ UndoManifest
           \/ WriteFails \/ (pending # None /\ (Crash \/ UNCHANGED vars))
  <2>1. pending' = pending /\ index' = index /\ pending # None
    BY <1>4 DEF WriteFile, WriteManifest, WriteEvent, WriteBranches, WritePolicy,
       Verify, Publish, RecoverEvent, StartRollback, UndoFiles, UndoBranches,
       UndoPolicy, UndoManifest, WriteFails, Crash, vars, control, Known, IInv,
       ProgressOK
  <2> QED
    BY <2>1, CalmWithin DEF Known, Past, Target
<1>5. CASE WriteIndex
  <2>1. pending # None /\ pending' = pending /\ index' = index \cup {pending.target}
        /\ pending.target # None
    BY <1>5 DEF WriteIndex, Known, IInv, ProgressOK
  <2> QED
    BY <2>1, CalmWithin DEF Known, Past, Target
<1>6. CASE UndoIndex
  <2>1. pending # None /\ pending' = pending /\ index' = index \ Undone
    BY <1>6 DEF UndoIndex, Known, IInv, ProgressOK
  <2>2. Past' = Past
    BY <2>1, UndoneIsTarget DEF Known, Past, Target
  <2> QED
    BY <2>1, <2>2, CalmWithin DEF Known
<1>7. CASE MarkPublished
  <2>1. /\ pending # None /\ pending \in Intent /\ index' = index
        /\ pending' = [pending EXCEPT !.publish = IF @ = "required" THEN "done"
                                                  ELSE @]
    BY <1>7 DEF MarkPublished, control, Known, IInv, TypeOK, ProgressOK
  <2>2. /\ pending' # None /\ pending'.target = pending.target
        /\ pending'.prevManifest = pending.prevManifest
        /\ pending'.prevBranches = pending.prevBranches
        /\ pending'.prevApplied = pending.prevApplied
    BY <2>1, StoreAssumption DEF Intent
  <2> QED
    BY <2>1, <2>2, CalmWithin DEF Known, Past, Target
<1> QED
  BY <1>1, <1>2, <1>3, <1>4, <1>5, <1>6, <1>7
     DEF Next, Write, Recover, Undo, Fault, RollbackFails

(* A complete and announced intent has become the project.                 *)
LEMMA SaidIs ==
  ASSUME IInv, HInv, pending # None, Said(pending)
  PROVE  /\ pending \in Intent /\ Fits(pending, Past)
         /\ branches = NewBranches(pending) /\ applied = NewApplied(pending)
         /\ pending.kind # "config" =>
              /\ manifest.branch = pending.branch /\ manifest.ptr = pending.target
              /\ index = Past \cup {pending.target} /\ pending.target \in Ckpt
              /\ pending.target \notin Past
         /\ pending.kind = "config" => ManifestOld(pending) /\ index = Past
<1>1. /\ pending \in Intent /\ Fits(pending, Past) /\ Documents(pending)
      /\ Persisted(pending) /\ TypeOK
  BY DEF IInv, TypeOK, HInv, Said, Complete
<1>2. /\ BranchesNew(pending)
      /\ pending.kind # "config" => pending.target \in Loadable
      /\ pending.kind = "config" => ManifestOld(pending)
  BY <1>1, PersistedIsNew
<1>3. pending.kind # "config" => manifest.ptr = pending.target
                                 /\ manifest.branch = pending.branch
  BY <1>1 DEF Persisted
<1>4. Loadable \subseteq Ckpt /\ Loadable \subseteq index /\ None \notin Ckpt
  BY <1>1, StoreAssumption DEF Loadable, TypeOK
<1>5. pending.kind # "config" => /\ index = Past \cup {pending.target}
                                 /\ pending.target \notin Past
  BY <1>2, <1>4 DEF Past, Target
<1>6. pending.kind = "config" => index = Past
  BY <1>1 DEF Past, Target, Fits
<1> QED
  BY <1>1, <1>2, <1>3, <1>4, <1>5, <1>6 DEF BranchesNew

(* The end of a transaction adds to the listing at most.                   *)
LEMMA EndKeeps ==
  ASSUME Known, Known', Ended
  PROVE  ListedCheckpoints \subseteq ListedCheckpoints'
<1>1. index' = index /\ ListedCheckpoints = Past /\ ListedCheckpoints' = index
  BY DEF Ended, control, Known, View
<1> QED
  BY <1>1 DEF Past

(* No rollback and no later step deletes a checkpoint that was committed.  *)
THEOREM CommittedStays ==
  ASSUME RollbackMayFail = FALSE
  PROVE  Spec => CommittedNeverLost
<1>1. Known /\ Known' /\ [Next]_vars
        => [\A c \in Ckpt : c \in Loadable \cap ListedCheckpoints
                              => c \in (Loadable \cap ListedCheckpoints)']_vars
  <2> SUFFICES ASSUME Known, Known', [Next]_vars
               PROVE  ListedCheckpoints \subseteq ListedCheckpoints'
                      /\ ListedCheckpoints' \subseteq Loadable'
    OBVIOUS
  <2>1. ListedCheckpoints \subseteq ListedCheckpoints'
    BY StepOfView, EndKeeps DEF Calm, Moved
  <2> QED
    BY <2>1 DEF Known, View
<1> QED
  BY <1>1, HistoryInvariance, PTL DEF Spec, CommittedNeverLost

(* A binding whose apply asked for a publication is published before the   *)
(* readers see it.                                                         *)
THEOREM PublishedFirst ==
  ASSUME RollbackMayFail = FALSE
  PROVE  Spec => PublishedBeforeVisible
<1>1. Known /\ Known' /\ [Next]_vars
        => [pending # None /\ pending.publish # "no"
              /\ ListedBranches' # ListedBranches
              => pending.policy \in published]_vars
  <2> SUFFICES ASSUME Known, Known', [Next]_vars, pending # None,
                      pending.publish # "no", ListedBranches' # ListedBranches
               PROVE  pending.policy \in published
    OBVIOUS
  <2>1. Ended
    BY StepOfView DEF Calm, Moved
  <2>2. branches' = branches /\ ListedBranches' = branches
        /\ ListedBranches = pending.prevBranches
    BY <2>1 DEF Ended, control, Known, View
  <2>3. Said(pending)
    BY <2>1, <2>2 DEF Ended, Restored, BranchesOld
  <2>4. pending.publish = "done"
    BY <2>3, IntentTypes DEF Said, Complete, Known, IInv, TypeOK
  <2> QED
    BY <2>4 DEF Known, HInv, Fits
<1> QED
  BY <1>1, HistoryInvariance, PTL DEF Spec, PublishedBeforeVisible

-----------------------------------------------------------------------------
(* The readers see a behaviour of ProjectHistory.                          *)

LEMMA EndIsAtomic ==
  ASSUME Known, Known', Ended
  PROVE  PH!Next \/ UNCHANGED PH!hvars
<1> DEFINE i == pending
           m == pending.prevManifest
<1>1. /\ ReadManifest.branch = m.branch /\ ReadManifest.ptr = m.ptr
      /\ ListedCheckpoints = Past /\ ListedBranches = i.prevBranches
      /\ ListedApplied = i.prevApplied
      /\ ReadManifest'.branch = manifest.branch
      /\ ReadManifest'.ptr = manifest.ptr
      /\ ListedCheckpoints' = index /\ ListedBranches' = branches
      /\ ListedApplied' = applied
  BY DEF Ended, control, Known, View
<1>2. CASE Restored(i)
  <2>1. Past = index
    BY <1>2 DEF Restored, Past
  <2> QED
    BY <1>1, <1>2, <2>1 DEF PH!hvars, Restored, ManifestOld, BranchesOld
<1>3. CASE Said(i)
  <2>1. /\ i \in Intent /\ Fits(i, Past)
        /\ branches = NewBranches(i) /\ applied = NewApplied(i)
        /\ i.kind # "config" =>
             /\ manifest.branch = i.branch /\ manifest.ptr = i.target
             /\ index = Past \cup {i.target} /\ i.target \in Ckpt
             /\ i.target \notin Past
        /\ i.kind = "config" => ManifestOld(i) /\ index = Past
    BY <1>3, SaidIs DEF Ended, Known
  <2>2. /\ i.kind \in {"checkpoint", "branch", "config"}
        /\ i.branch \in Branches /\ i.policy \in Policies
        /\ Entry(i) \in Details
    BY <2>1, IntentTypes, EntryType
  <2>3. CASE i.kind = "checkpoint"
    <3>1. PH!Commit(i.target)
      <4>1. /\ i.target.branch = m.branch /\ i.branch = m.branch
            /\ i.target.seq = IF m.ptr = None THEN 1 ELSE m.ptr.seq + 1
        BY <2>1, <2>3 DEF Fits
      <4>2. branches = i.prevBranches /\ applied = i.prevApplied
        BY <2>1, <2>3 DEF NewBranches, NewApplied
      <4> QED
        BY <1>1, <2>1, <2>3, <4>1, <4>2 DEF PH!Commit
    <3> QED
      BY <2>1, <2>3, <3>1 DEF PH!Next, PH!Ckpt, Ckpt
  <2>4. CASE i.kind = "branch"
    <3>1. PH!Fork(i.branch, Entry(i))
      <4>1. /\ i.from \in Past /\ i.prevBranches[i.branch] = None
            /\ i.target = [branch |-> i.branch, seq |-> 1, state |-> i.from.state]
        BY <2>1, <2>4 DEF Fits
      <4>2. /\ branches = [i.prevBranches EXCEPT ![i.branch] = Entry(i)]
            /\ applied = i.prevApplied
        BY <2>1, <2>4 DEF NewBranches, NewApplied
      <4>3. Entry(i).from = i.from
        BY DEF Entry
      <4> HIDE DEF i
      <4> QED
        BY <1>1, <2>1, <2>4, <4>1, <4>2, <4>3 DEF PH!Fork
    <3> QED
      BY <2>2, <3>1 DEF PH!Next, PH!Details, PH!Ckpt, Ckpt, Details
  <2>5. CASE i.kind = "config"
    <3>1. PH!Configure(i.key, i.policy)
      <4>1. /\ m.ptr = None /\ i.branch = m.branch /\ i.key \in Keys
            /\ i.prevApplied[i.key] = None
        BY <2>1, <2>5 DEF Fits, Unused
      <4>2. Past = {}
        BY <4>1 DEF Ended, Known, HInv, WholeBefore, Whole, Newest
      <4>3. /\ branches = [i.prevBranches EXCEPT ![i.branch].policy = i.policy]
            /\ applied = [i.prevApplied EXCEPT ![i.key] = i.policy]
        BY <2>1, <2>5 DEF NewBranches, NewApplied
      <4>4. manifest.branch = m.branch /\ manifest.ptr = m.ptr
        BY <2>1, <2>5 DEF ManifestOld
      <4> QED
        BY <1>1, <2>1, <2>5, <4>1, <4>2, <4>3, <4>4 DEF PH!Configure
    <3>2. i.key \in Keys
      BY <2>1, <2>5 DEF Fits
    <3> QED
      BY <2>2, <3>1, <3>2 DEF PH!Next
  <2> QED
    BY <2>2, <2>3, <2>4, <2>5
<1> QED
  BY <1>2, <1>3 DEF Ended

LEMMA MoveIsSwitch ==
  ASSUME Known, Known', Moved
  PROVE  PH!Next
<1> PICK c \in Ckpt : SwitchBranch(c)
  BY DEF Moved
<1>1. /\ c \in index /\ \A d \in index : d.branch = c.branch => d.seq <= c.seq
      /\ manifest'.branch = c.branch /\ manifest'.ptr = c
  BY DEF SwitchBranch, Loadable, IsHead
<1>2. /\ ListedCheckpoints = index
      /\ ReadManifest'.branch = c.branch /\ ReadManifest'.ptr = c
  BY <1>1 DEF Moved, Known, View
<1>3. PH!Switch(c)
  BY <1>1, <1>2 DEF Moved, PH!Switch
<1> QED
  BY <1>3 DEF PH!Next, PH!Ckpt, Ckpt

(* Every write, crash, recovery and rollback is one step of ProjectHistory *)
(* or none: for the readers, commits are atomic.                           *)
THEOREM CommitsAreAtomic ==
  ASSUME RollbackMayFail = FALSE
  PROVE  Spec => ReadersSeeAtomicCommits
<1>1. Init => PH!Init
  <2> SUFFICES ASSUME Init PROVE PH!Init
    OBVIOUS
  <2>1. /\ ReadManifest.branch = Main /\ ReadManifest.ptr = None
        /\ ListedCheckpoints = {} /\ ListedBranches = branches
        /\ ListedApplied = applied
    BY DEF Init, ReadManifest, ListedCheckpoints, ListedBranches, ListedApplied
  <2> QED
    BY <2>1 DEF Init, PH!Init, PH!InitDetails
<1>2. Known /\ Known' /\ [Next]_vars => [PH!Next]_(PH!hvars)
  <2> SUFFICES ASSUME Known, Known', [Next]_vars
               PROVE  PH!Next \/ UNCHANGED PH!hvars
    OBVIOUS
  <2>1. CASE Calm
    BY <2>1 DEF Calm, PH!hvars
  <2>2. CASE Moved
    BY <2>2, MoveIsSwitch
  <2>3. CASE Ended
    BY <2>3, EndIsAtomic
  <2> QED
    BY <2>1, <2>2, <2>3, StepOfView
<1> QED
  BY <1>1, <1>2, HistoryInvariance, PTL DEF Spec, ReadersSeeAtomicCommits, PH!Spec
=============================================================================
