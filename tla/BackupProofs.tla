----------------------------- MODULE BackupProofs -----------------------------
(***************************************************************************)
(* Proofs about FrameBackup: what losing a database and importing dumps    *)
(* can do to the replicated log, for any peers, scopes, membership and     *)
(* bounds.  FrameSyncProofs' invariant does not survive here: an author    *)
(* that lost its database may hold less of its log than others do.         *)
(***************************************************************************)
EXTENDS FrameBackup, FrameSyncProofs

-----------------------------------------------------------------------------
(* The inductive invariant.                                                *)

\* Every frame there is: stored, on its way, or in a dump.
Known ==
  {f \in Frame :
     \/ \E n \in Node : f \in Stored(n)
     \/ \E m \in pushes : f = m.frame
     \/ \E r \in replies : f \in r.todo
     \/ \E i \in imports : f \in i.todo
     \/ \E n \in Node : f \in dumps[n]}

ImportJob == [at : Node, todo : SUBSET Frame]

BackupTypeOK ==
  /\ TypeOK
  /\ dumps \in [Node -> SUBSET Frame]
  /\ imports \subseteq ImportJob
  /\ recovered \subseteq Node

\* A frame lies at the position of its number, in its own scope and author.
Placed ==
  \A n, a \in Node, s \in Scope : \A i \in 1..Len(store[n][s][a]) :
    store[n][s][a][i].seq = i /\ store[n][s][a][i].scope = s /\ store[n][s][a][i].author = a

\* Nothing is numbered beyond the frames committed so far, and a frame whose
\* author never lost its database is the one that author holds.
IsSound(f) ==
  /\ f.id <= minted /\ f.seq <= minted /\ f.prev <= minted /\ f.lamport <= minted
  /\ f.author \notin recovered => IsGenuine(f)

\* Frames form a forest: an id names one frame, a successor is stamped above.
Forest ==
  \A f, g \in Known : (f.id = g.id => f = g) /\ (f.prev = g.id => g.lamport < f.lamport)

BInv ==
  /\ BackupTypeOK
  /\ Placed
  /\ \A f \in Known : IsSound(f)
  /\ Forest
  /\ \A n \in Node : clock[n] <= minted
  /\ ChainLinked

-----------------------------------------------------------------------------
(* What the invariant says of the stores.                                  *)

LEMMA StoredAre ==
  ASSUME NEW n \in Node, store[n] \in [Scope -> [Node -> Seq(Frame)]]
  PROVE  /\ \A s \in Scope, a \in Node : \A i \in 1..Len(store[n][s][a]) :
              store[n][s][a][i] \in Stored(n)
         /\ \A f \in Stored(n) : \E s \in Scope, a \in Node :
              \E i \in 1..Len(store[n][s][a]) : f = store[n][s][a][i]
<1>1. ASSUME NEW s \in Scope, NEW a \in Node
      PROVE  ChainFrames(store[n][s][a]) = {store[n][s][a][i] : i \in 1..Len(store[n][s][a])}
  BY DEF ChainFrames
<1>2. ASSUME NEW s \in Scope, NEW a \in Node, NEW i \in 1..Len(store[n][s][a])
      PROVE  store[n][s][a][i] \in Stored(n)
  <2>1. store[n][s][a][i] \in ChainFrames(store[n][s][a])
    BY <1>1, ZenonT(30)
  <2> QED
    BY <2>1 DEF Stored
<1>3. ASSUME NEW f \in Stored(n)
      PROVE  \E s \in Scope, a \in Node : \E i \in 1..Len(store[n][s][a]) : f = store[n][s][a][i]
  <2>1. PICK s \in Scope, a \in Node : f \in ChainFrames(store[n][s][a])
    BY DEF Stored
  <2>2. PICK i \in DOMAIN store[n][s][a] : f = store[n][s][a][i]
    BY <2>1 DEF ChainFrames
  <2>3. DOMAIN store[n][s][a] = 1..Len(store[n][s][a])
    OBVIOUS
  <2> QED
    BY <2>2, <2>3
<1> QED
  BY <1>2, <1>3

\* Chains are as long as their last number, so no longer than the commits.
LEMMA Stores ==
  ASSUME BInv
  PROVE  /\ TypeOK /\ Counted
         /\ \A n, a \in Node, s \in Scope :
              /\ store[n][s][a] \in Seq(Frame)
              /\ NextSeq(store[n][s][a]) = Len(store[n][s][a]) + 1
              /\ \A i \in 1..Len(store[n][s][a]) : store[n][s][a][i] \in Known
<1>1. TypeOK /\ minted \in Nat
  BY BoundAssumption DEF BInv, BackupTypeOK, TypeOK
<1>2. ASSUME NEW n \in Node, NEW a \in Node, NEW s \in Scope
      PROVE  /\ store[n][s][a] \in Seq(Frame)
             /\ NextSeq(store[n][s][a]) = Len(store[n][s][a]) + 1
             /\ \A i \in 1..Len(store[n][s][a]) : store[n][s][a][i] \in Known
             /\ CountedChain(store[n][s][a], minted)
  <2>1. store[n] \in [Scope -> [Node -> Seq(Frame)]] /\ store[n][s][a] \in Seq(Frame)
    BY <1>1 DEF TypeOK
  <2>2. \A i \in 1..Len(store[n][s][a]) : store[n][s][a][i] \in Known
    <3>1. \A i \in 1..Len(store[n][s][a]) :
            store[n][s][a][i] \in Frame /\ store[n][s][a][i] \in Stored(n)
      BY <2>1, StoredAre
    <3> QED
      BY <3>1 DEF Known
  <2>3. NextSeq(store[n][s][a]) = Len(store[n][s][a]) + 1
    BY <1>1, ChainFacts DEF BInv
  <2>4. \A i \in 1..Len(store[n][s][a]) :
          /\ store[n][s][a][i].id <= minted /\ store[n][s][a][i].lamport <= minted
          /\ i <= minted
    BY <2>2 DEF BInv, IsSound, Placed
  <2>5. Len(store[n][s][a]) <= minted
    <3>1. Len(store[n][s][a]) \in Nat
      BY <2>1
    <3>2. Len(store[n][s][a]) # 0 => Len(store[n][s][a]) \in 1..Len(store[n][s][a])
      BY <3>1
    <3> QED
      BY <1>1, <2>4, <3>1, <3>2
  <2> QED
    BY <2>1, <2>2, <2>3, <2>4, <2>5 DEF CountedChain
<1>3. Counted
  BY <1>2 DEF Counted, BInv
<1> QED
  BY <1>1, <1>2, <1>3

-----------------------------------------------------------------------------
(* Steps.  All but a commit and a loss only move known frames about.       *)

\* A frame its author holds stays the author's while that chain only grows.
LEMMA GenuineOfAuthor ==
  ASSUME NEW f \in Frame, IsGenuine(f),
         PrefixOf(store[f.author][f.scope][f.author], store'[f.author][f.scope][f.author])
  PROVE  IsGenuine(f)'
<1> DEFINE own == store[f.author][f.scope][f.author]
           own2 == store'[f.author][f.scope][f.author]
<1>1. f.seq \in Nat \ {0} /\ f.seq <= Len(own) /\ own[f.seq] = f /\ PrefixOf(own, own2)
  BY FrameNumbers DEF IsGenuine
<1> HIDE DEF own, own2
<1>2. f.seq <= Len(own2) /\ own2[f.seq] = f
  BY <1>1 DEF PrefixOf
<1> QED
  BY <1>2 DEF IsGenuine, own2

\* What a step must do to the stores and the frames to keep the invariant.
LEMMA StepKeeps ==
  ASSUME BInv, BackupTypeOK', Placed',
         minted <= minted', recovered \subseteq recovered',
         \A n \in Node : clock'[n] <= minted',
         \A f \in Known' : f \in Known \/ (IsSound(f)' /\ f.id = minted + 1 /\ f.prev <= minted),
         \A f, g \in Known' : (f \notin Known /\ g \notin Known) => f = g,
         \A f, g \in Known' : (f \notin Known /\ g \in Known /\ f.prev = g.id) => g.lamport < f.lamport,
         \A a \in Node \ recovered', s \in Scope : PrefixOf(store[a][s][a], store'[a][s][a]),
         ChainLinked'
  PROVE  BInv'
<1>1. minted \in Nat /\ minted' \in Nat
  BY BoundAssumption DEF BInv, BackupTypeOK, TypeOK
<1>2. ASSUME NEW f \in Known' PROVE IsSound(f)'
  <2>1. CASE f \notin Known
    BY <2>1
  <2>2. CASE f \in Known
    <3>1. f \in Frame /\ IsSound(f)
      BY <2>2 DEF BInv, Known
    <3>2. f.id \in Nat /\ f.seq \in Nat /\ f.prev \in Nat /\ f.lamport \in Nat
          /\ f.author \in Node /\ f.scope \in Scope
      BY <3>1, FrameNumbers DEF Frame
    <3>3. f.author \notin recovered' => IsGenuine(f)'
      BY <3>1, <3>2, GenuineOfAuthor DEF IsSound
    <3> QED
      BY <1>1, <3>1, <3>2, <3>3 DEF IsSound
  <2> QED
    BY <2>1, <2>2
<1>3. Forest'
  <2> SUFFICES ASSUME NEW f \in Known', NEW g \in Known'
               PROVE  (f.id = g.id => f = g) /\ (f.prev = g.id => g.lamport < f.lamport)
    BY DEF Forest
  <2>1. /\ f.id \in Nat \ {0} /\ f.prev \in Nat
        /\ g.id \in Nat \ {0} /\ g.prev \in Nat
    BY BoundAssumption DEF Known, Frame
  <2>2. \A h \in Known : h.id <= minted /\ h.prev <= minted
    BY DEF BInv, IsSound
  <2>3. CASE f \in Known /\ g \in Known
    BY <2>3 DEF BInv, Forest
  <2>4. CASE f \notin Known /\ g \in Known
    BY <1>1, <2>1, <2>2, <2>4
  <2>5. CASE f \in Known /\ g \notin Known
    BY <1>1, <2>1, <2>2, <2>5
  <2>6. CASE f \notin Known /\ g \notin Known
    BY <1>1, <2>1, <2>6
  <2> QED
    BY <2>3, <2>4, <2>5, <2>6
<1> QED
  BY <1>2, <1>3 DEF BInv

\* A chain stays linked when its next frame is stamped above what it links to.
LEMMA LinkedOneLonger ==
  ASSUME NEW chain \in Seq(Frame), NEW f \in Frame, Linked(chain),
         f.seq = Len(chain) + 1, f.prev = HeadId(chain),
         \A i \in 1..Len(chain) : chain[i].id = f.prev => chain[i].lamport < f.lamport
  PROVE  Linked(Append(chain, f))
<1> DEFINE longer == Append(chain, f)
<1>1. /\ Len(longer) = Len(chain) + 1 /\ Len(chain) \in Nat
      /\ \A i \in 1..Len(chain) + 1 : longer[i] = IF i = Len(chain) + 1 THEN f ELSE chain[i]
  BY AppendIndex
<1> HIDE DEF longer
<1> SUFFICES ASSUME NEW i \in 1..Len(chain) + 1
             PROVE  /\ longer[i].seq = i
                    /\ longer[i].prev = IF i = 1 THEN NoId ELSE longer[i-1].id
                    /\ i > 1 => longer[i].lamport > longer[i-1].lamport
  BY <1>1 DEF Linked, longer
<1>2. i > 1 => longer[i-1] = chain[i-1] /\ i - 1 \in 1..Len(chain)
  BY <1>1
<1>3. CASE i \in 1..Len(chain)
  BY <1>1, <1>2, <1>3 DEF Linked
<1>4. CASE i = Len(chain) + 1
  <2>1. longer[i] = f
    BY <1>1, <1>4
  <2>2. f.prev = IF i = 1 THEN NoId ELSE chain[i-1].id
    BY <1>4 DEF HeadId
  <2>3. i > 1 => f.lamport > chain[i-1].lamport
    <3>1. i > 1 => chain[i-1] \in Frame /\ chain[i-1].lamport < f.lamport
      BY <1>2, <2>2, SMTT(30)
    <3> QED
      BY <3>1, FrameNumbers
  <2> QED
    BY <1>2, <1>4, <2>1, <2>2, <2>3
<1> QED
  BY <1>1, <1>3, <1>4

\* A frame stamped above the one it links to can be appended anywhere: chains
\* grow, stay placed and linked, and nothing but that frame is new in a store.
LEMMA AppendKeeps ==
  ASSUME BInv, NEW n \in Node, NEW f \in Frame, store' = AppendTo(n, f),
         \A g \in Stored(n) : g.id = f.prev => g.lamport < f.lamport
  PROVE  /\ store' \in [Node -> [Scope -> [Node -> Seq(Frame)]]]
         /\ Placed' /\ ChainLinked'
         /\ \A m, a \in Node, s \in Scope : PrefixOf(store[m][s][a], store'[m][s][a])
         /\ \A m \in Node : \A g \in Stored(m)' : g \in Stored(m) \/ g = f
<1> DEFINE sc == f.scope
           au == f.author
           chain == store[n][sc][au]
<1>1. sc \in Scope /\ au \in Node /\ TypeOK
  BY DEF Frame, BInv, BackupTypeOK
<1>2. /\ store \in [Node -> [Scope -> [Node -> Seq(Frame)]]]
      /\ \A m, a \in Node, s \in Scope : store[m][s][a] \in Seq(Frame)
  BY <1>1 DEF TypeOK
<1>3. NextSeq(chain) = Len(chain) + 1
  BY <1>1, Stores
<1>4. \A m, a \in Node, s \in Scope : PrefixOf(store[m][s][a], store[m][s][a])
  BY <1>2 DEF PrefixOf
<1>5. CASE store' = store
  <2>1. Placed' /\ ChainLinked'
    BY <1>5 DEF BInv, Placed, ChainLinked
  <2>2. \A m \in Node : Stored(m)' = Stored(m)
    BY <1>5 DEF Stored
  <2> QED
    BY <1>2, <1>4, <1>5, <2>1, <2>2
<1>6. CASE /\ ~Has(chain, f) /\ Extends(chain, f)
           /\ store' \in [Node -> [Scope -> [Node -> Seq(Frame)]]]
           /\ store'[n][sc][au] = Append(chain, f)
           /\ \A n2, a2 \in Node, s2 \in Scope :
                ~(n2 = n /\ s2 = sc /\ a2 = au) => store'[n2][s2][a2] = store[n2][s2][a2]
  <2>1. chain \in Seq(Frame) /\ f.seq = Len(chain) + 1 /\ f.prev = HeadId(chain)
    BY <1>1, <1>2, <1>3, <1>6 DEF Extends
  <2>2. \A i \in 1..Len(chain) : chain[i] \in Stored(n)
    BY <1>1, <1>2, StoredAre
  <2>3. /\ Linked(chain)
        /\ \A i \in 1..Len(chain) : chain[i].seq = i /\ chain[i].scope = sc /\ chain[i].author = au
    BY <1>1 DEF BInv, ChainLinked, Placed
  <2> HIDE DEF chain
  <2>4. /\ Len(Append(chain, f)) = Len(chain) + 1 /\ Len(chain) \in Nat
        /\ \A i \in 1..Len(chain) + 1 :
             Append(chain, f)[i] = IF i = Len(chain) + 1 THEN f ELSE chain[i]
    BY <2>1, AppendIndex
  <2>5. PrefixOf(chain, Append(chain, f))
    BY <2>4 DEF PrefixOf
  <2>6. Linked(Append(chain, f))
    BY <2>1, <2>2, <2>3, LinkedOneLonger
  <2>7. \A i \in 1..Len(Append(chain, f)) :
          LET g == Append(chain, f)[i] IN g.seq = i /\ g.scope = sc /\ g.author = au
    BY <2>1, <2>3, <2>4
  <2>8. \A i \in 1..Len(Append(chain, f)) :
          Append(chain, f)[i] \in Stored(n) \/ Append(chain, f)[i] = f
    BY <2>2, <2>4
  <2> DEFINE longer == Append(chain, f)
  <2> HIDE DEF longer, sc, au
  <2>9. ASSUME NEW m \in Node, NEW a \in Node, NEW s \in Scope
        PROVE  /\ PrefixOf(store[m][s][a], store'[m][s][a])
               /\ Linked(store'[m][s][a])
               /\ \A i \in 1..Len(store'[m][s][a]) :
                    LET g == store'[m][s][a][i] IN
                    /\ g.seq = i /\ g.scope = s /\ g.author = a
                    /\ g \in Stored(m) \/ g = f
    <3>1. CASE m = n /\ s = sc /\ a = au
      <4>1. store'[m][s][a] = longer /\ store[m][s][a] = chain
        BY <1>6, <3>1 DEF longer, chain
      <4>2. \A i \in 1..Len(longer) :
               /\ longer[i].seq = i /\ longer[i].scope = s /\ longer[i].author = a
               /\ longer[i] \in Stored(m) \/ longer[i] = f
        BY <2>7, <2>8, <3>1 DEF longer
      <4>3. Linked(longer) /\ PrefixOf(chain, longer)
        BY <2>5, <2>6 DEF longer
      <4> QED
        BY <4>1, <4>2, <4>3
    <3>2. CASE ~(m = n /\ s = sc /\ a = au)
      <4>1. store'[m][s][a] = store[m][s][a]
        BY <1>6, <3>2
      <4>2. \A i \in 1..Len(store[m][s][a]) : store[m][s][a][i] \in Stored(m)
        BY <1>2, StoredAre
      <4> QED
        BY <1>4, <4>1, <4>2 DEF BInv, ChainLinked, Placed
    <3> QED
      BY <3>1, <3>2
  <2>10. ASSUME NEW m \in Node, NEW g \in Stored(m)'
         PROVE  g \in Stored(m) \/ g = f
    <3>1. PICK s \in Scope, a \in Node : g \in ChainFrames(store'[m][s][a])
      BY DEF Stored
    <3>2. PICK i \in DOMAIN store'[m][s][a] : g = store'[m][s][a][i]
      BY <3>1 DEF ChainFrames
    <3>3. store'[m][s][a] \in Seq(Frame)
      BY <1>6
    <3>4. DOMAIN store'[m][s][a] = 1..Len(store'[m][s][a])
      BY <3>3
    <3> QED
      BY <2>9, <3>2, <3>4
  <2>11. Placed' /\ ChainLinked'
    BY <2>9 DEF Placed, ChainLinked
  <2> QED
    BY <1>6, <2>9, <2>10, <2>11
<1> QED
  BY <1>1, <1>5, <1>6, AppendAt

\* A step that commits nothing and loses nothing needs only to be about known
\* frames and to let chains grow.
LEMMA MoveKeeps ==
  ASSUME BInv, BackupTypeOK', Placed', ChainLinked',
         minted' = minted, recovered' = recovered,
         \A n \in Node : clock'[n] <= minted,
         Known' \subseteq Known,
         \A m, a \in Node, s \in Scope : PrefixOf(store[m][s][a], store'[m][s][a])
  PROVE  BInv'
<1>1. minted <= minted' /\ recovered \subseteq recovered'
  BY BoundAssumption DEF BInv, BackupTypeOK, TypeOK
<1>2. \A a \in Node \ recovered', s \in Scope : PrefixOf(store[a][s][a], store'[a][s][a])
  OBVIOUS
<1> QED
  BY <1>1, <1>2, StepKeeps

\* What is stored is known.
LEMMA StoredKnown ==
  ASSUME BInv, NEW n \in Node
  PROVE  Stored(n) \subseteq Known
<1> SUFFICES ASSUME NEW g \in Stored(n) PROVE g \in Known
  OBVIOUS
<1>1. store[n] \in [Scope -> [Node -> Seq(Frame)]]
  BY DEF BInv, BackupTypeOK, TypeOK
<1>2. PICK s \in Scope, a \in Node : \E i \in 1..Len(store[n][s][a]) : g = store[n][s][a][i]
  BY <1>1, StoredAre
<1> QED
  BY <1>2, Stores

\* Applying a known frame, wherever it comes from.
LEMMA ApplyKeeps ==
  ASSUME BInv, NEW n \in Node, NEW f \in Known, Apply(n, f), minted' = minted
  PROVE  /\ store' \in [Node -> [Scope -> [Node -> Seq(Frame)]]]
         /\ clock' \in [Node -> 0..MaxFrames]
         /\ \A m \in Node : clock'[m] <= minted
         /\ Placed' /\ ChainLinked'
         /\ \A m, a \in Node, s \in Scope : PrefixOf(store[m][s][a], store'[m][s][a])
         /\ \A m \in Node : \A g \in Stored(m)' : g \in Stored(m) \/ g = f
<1>1. f \in Frame /\ f.lamport <= minted /\ f.lamport \in 1..MaxFrames /\ minted \in Nat
  <2>1. f \in Frame /\ f.lamport <= minted
    BY DEF Known, BInv, IsSound
  <2>2. f.lamport \in 1..MaxFrames /\ minted \in Nat
    BY <2>1, BoundAssumption DEF Frame, BInv, BackupTypeOK, TypeOK
  <2> QED
    BY <2>1, <2>2
<1>2. \A g \in Stored(n) : g.id = f.prev => g.lamport < f.lamport
  <2>1. Stored(n) \subseteq Known
    BY StoredKnown
  <2> QED
    BY <2>1 DEF BInv, Forest
<1>3. store' = AppendTo(n, f) /\ clock' = [clock EXCEPT ![n] = Larger(@, f.lamport)]
  BY DEF Apply
<1>4. clock \in [Node -> 0..MaxFrames] /\ \A m \in Node : clock[m] <= minted
  BY DEF BInv, BackupTypeOK, TypeOK
<1>5. clock' \in [Node -> 0..MaxFrames] /\ \A m \in Node : clock'[m] <= minted
  <2>1. Larger(clock[n], f.lamport) \in 0..MaxFrames /\ Larger(clock[n], f.lamport) <= minted
    BY <1>1, <1>4, BoundAssumption DEF Larger
  <2> QED
    BY <1>3, <1>4, <2>1
<1> QED
  BY <1>1, <1>2, <1>3, <1>5, AppendKeeps

\* A step that leaves stores, clocks and commits alone.
LEMMA Untouched ==
  ASSUME BInv, UNCHANGED <<store, clock, minted>>
  PROVE  /\ store' \in [Node -> [Scope -> [Node -> Seq(Frame)]]]
         /\ clock' \in [Node -> 0..MaxFrames]
         /\ \A m \in Node : clock'[m] <= minted
         /\ Placed' /\ ChainLinked'
         /\ \A m, a \in Node, s \in Scope : PrefixOf(store[m][s][a], store'[m][s][a])
         /\ \A m \in Node : Stored(m)' = Stored(m)
<1>1. \A m, a \in Node, s \in Scope : store[m][s][a] \in Seq(Frame)
  BY DEF BInv, BackupTypeOK, TypeOK
<1>2. \A m, a \in Node, s \in Scope : PrefixOf(store[m][s][a], store[m][s][a])
  BY <1>1 DEF PrefixOf
<1> QED
  BY <1>2 DEF BInv, BackupTypeOK, TypeOK, Placed, ChainLinked, Stored

\* Vectors are read off chains that are no longer than the commits.
LEMMA VectorOf ==
  ASSUME BInv, NEW n \in Node, NEW s \in Scope
  PROVE  Vector(n, s) \in [Node -> 0..MaxFrames]
<1> SUFFICES ASSUME NEW a \in Node PROVE Vector(n, s)[a] \in 0..MaxFrames
  BY DEF Vector
<1>1. TypeOK /\ ChainLinked /\ Counted
  BY Stores DEF BInv
<1>2. store[n][s][a] \in Seq(Frame) /\ Vector(n, s)[a] = Len(store[n][s][a])
  BY <1>1, ChainFacts
<1>3. Len(store[n][s][a]) <= minted /\ minted \in 0..MaxFrames
  BY <1>1 DEF TypeOK, Counted, CountedChain
<1> QED
  BY <1>2, <1>3, BoundAssumption

-----------------------------------------------------------------------------
(* One lemma per action.                                                   *)

LEMMA BDeliverPush ==
  ASSUME BInv, NEW m \in pushes, DeliverPush(m), UNCHANGED <<dumps, imports, recovered>>
  PROVE  BInv'
<1>1. m.to \in Node /\ m.from \in Node /\ m.frame \in Frame /\ m.frame.scope \in Scope
  BY DEF BInv, BackupTypeOK, TypeOK, Push, Frame
<1>2. /\ m.frame \in Known /\ Apply(m.to, m.frame) /\ minted' = minted
      /\ pushes' = pushes \ {m}
      /\ UNCHANGED <<requests, replies, minted, faults>>
      /\ pending' \subseteq pending \cup {[at |-> m.to, peer |-> m.from, scope |-> m.frame.scope]}
  BY <1>1 DEF DeliverPush, Known
<1>3. /\ store' \in [Node -> [Scope -> [Node -> Seq(Frame)]]]
      /\ clock' \in [Node -> 0..MaxFrames]
      /\ \A n \in Node : clock'[n] <= minted
      /\ Placed' /\ ChainLinked'
      /\ \A n, a \in Node, s \in Scope : PrefixOf(store[n][s][a], store'[n][s][a])
      /\ \A n \in Node : \A g \in Stored(n)' : g \in Stored(n) \/ g = m.frame
  BY <1>1, <1>2, ApplyKeeps
<1>4. BackupTypeOK'
  <2>1. [at |-> m.to, peer |-> m.from, scope |-> m.frame.scope] \in Pending
    BY <1>1 DEF Pending
  <2> QED
    BY <1>2, <1>3, <2>1 DEF BInv, BackupTypeOK, TypeOK
<1>5. Known' \subseteq Known
  BY <1>2, <1>3 DEF Known
<1> QED
  BY <1>2, <1>3, <1>4, <1>5, MoveKeeps

LEMMA BApplyNext ==
  ASSUME BInv, NEW r \in replies, ApplyNext(r), UNCHANGED <<dumps, imports, recovered>>
  PROVE  BInv'
<1>1. PICK f \in r.todo :
        /\ Apply(r.at, f)
        /\ replies' = (replies \ {r}) \cup
             (IF Rest(r.at, f, r.todo) = {} THEN {}
              ELSE {[r EXCEPT !.todo = Rest(r.at, f, r.todo)]})
        /\ UNCHANGED <<pushes, pending, requests, minted, faults>>
  BY DEF ApplyNext
<1>2. r \in Reply /\ r.at \in Node /\ r.todo \subseteq Frame /\ f \in Known
  BY DEF BInv, BackupTypeOK, TypeOK, Reply, Known
<1> DEFINE rest == Rest(r.at, f, r.todo)
           left == [r EXCEPT !.todo = rest]
<1>3. rest \subseteq r.todo
  BY DEF Rest
<1> HIDE DEF rest
<1>4. left \in Reply /\ left.todo = rest
  BY <1>2, <1>3 DEF Reply
<1>5. replies' \subseteq replies \cup {left}
  BY <1>1 DEF rest
<1> HIDE DEF left
<1>6. /\ store' \in [Node -> [Scope -> [Node -> Seq(Frame)]]]
      /\ clock' \in [Node -> 0..MaxFrames]
      /\ \A n \in Node : clock'[n] <= minted
      /\ Placed' /\ ChainLinked'
      /\ \A n, a \in Node, s \in Scope : PrefixOf(store[n][s][a], store'[n][s][a])
      /\ \A n \in Node : \A g \in Stored(n)' : g \in Stored(n) \/ g = f
  BY <1>1, <1>2, ApplyKeeps
<1>7. BackupTypeOK'
  BY <1>1, <1>4, <1>5, <1>6 DEF BInv, BackupTypeOK, TypeOK
<1>8. Known' \subseteq Known
  <2>1. \A q \in replies' : \A g \in q.todo : \E p \in replies : g \in p.todo
    BY <1>3, <1>4, <1>5
  <2> QED
    BY <1>1, <1>2, <1>6, <2>1 DEF Known
<1> QED
  BY <1>1, <1>6, <1>7, <1>8, MoveKeeps

LEMMA BImportNext ==
  ASSUME BInv, NEW j \in imports, ImportNext(j)
  PROVE  BInv'
<1>1. PICK f \in j.todo :
        /\ Apply(j.at, f)
        /\ imports' = (imports \ {j}) \cup
             (IF RestOfImport(j.at, f, j.todo) = {} THEN {}
              ELSE {[j EXCEPT !.todo = RestOfImport(j.at, f, j.todo)]})
        /\ UNCHANGED <<pushes, pending, requests, replies, minted, faults, dumps, recovered>>
  BY DEF ImportNext
<1>2. j \in ImportJob /\ j.at \in Node /\ j.todo \subseteq Frame /\ f \in Known
  BY DEF BInv, BackupTypeOK, ImportJob, Known
<1> DEFINE rest == RestOfImport(j.at, f, j.todo)
           left == [j EXCEPT !.todo = rest]
<1>3. rest \subseteq j.todo
  BY DEF RestOfImport
<1> HIDE DEF rest
<1>4. left \in ImportJob /\ left.todo = rest
  BY <1>2, <1>3 DEF ImportJob
<1>5. imports' \subseteq imports \cup {left}
  BY <1>1 DEF rest
<1> HIDE DEF left
<1>6. /\ store' \in [Node -> [Scope -> [Node -> Seq(Frame)]]]
      /\ clock' \in [Node -> 0..MaxFrames]
      /\ \A n \in Node : clock'[n] <= minted
      /\ Placed' /\ ChainLinked'
      /\ \A n, a \in Node, s \in Scope : PrefixOf(store[n][s][a], store'[n][s][a])
      /\ \A n \in Node : \A g \in Stored(n)' : g \in Stored(n) \/ g = f
  BY <1>1, <1>2, ApplyKeeps
<1>7. BackupTypeOK'
  BY <1>1, <1>4, <1>5, <1>6 DEF BInv, BackupTypeOK, TypeOK
<1>8. Known' \subseteq Known
  <2>1. \A q \in imports' : \A g \in q.todo : \E p \in imports : g \in p.todo
    BY <1>3, <1>4, <1>5
  <2> QED
    BY <1>1, <1>2, <1>6, <2>1 DEF Known
<1> QED
  BY <1>1, <1>6, <1>7, <1>8, MoveKeeps

LEMMA BAsk ==
  ASSUME BInv, NEW n \in Node, NEW p \in Node, NEW s \in Scope, NEW why \in Reason,
         Ask(n, p, s, why), pending' \subseteq pending,
         UNCHANGED <<store, clock, pushes, replies, minted, faults, dumps, imports, recovered>>
  PROVE  BInv'
<1>1. [why |-> why, at |-> n, peer |-> p, scope |-> s, have |-> Vector(n, s)] \in Request
  BY VectorOf DEF Request
<1>2. requests' \subseteq Request
  BY <1>1 DEF Ask, BInv, BackupTypeOK, TypeOK
<1>3. BackupTypeOK'
  BY <1>2 DEF BInv, BackupTypeOK, TypeOK
<1>4. \A m \in Node : Stored(m)' = Stored(m)
  BY Untouched
<1>5. Known' \subseteq Known
  BY <1>4 DEF Known
<1> QED
  BY <1>3, <1>5, Untouched, MoveKeeps

LEMMA BAnswer ==
  ASSUME BInv, NEW q \in requests, Answer(q), UNCHANGED <<dumps, imports, recovered>>
  PROVE  BInv'
<1>1. q.why \in Reason /\ q.at \in Node /\ q.peer \in Node /\ q.scope \in Scope
  BY DEF BInv, BackupTypeOK, TypeOK, Request
<1> DEFINE todo == IF q.at \in Acl[q.scope] THEN Since(q.peer, q.scope, q.have) ELSE {}
           new == [why |-> q.why, at |-> q.at, todo |-> todo]
<1>2. todo \subseteq Stored(q.peer)
  BY <1>1 DEF Since, Stored
<1>3. todo \subseteq Frame
  BY <1>1, <1>2, StoredKnown DEF Known
<1>4. /\ replies' \subseteq replies \cup {new} /\ requests' \subseteq requests
      /\ UNCHANGED <<store, clock, pushes, pending, minted, faults>>
  BY DEF Answer
<1> HIDE DEF todo
<1>5. new \in Reply /\ new.todo = todo
  BY <1>1, <1>3 DEF Reply
<1>6. BackupTypeOK'
  BY <1>4, <1>5 DEF BInv, BackupTypeOK, TypeOK
<1>7. \A m \in Node : Stored(m)' = Stored(m)
  BY <1>4, Untouched
<1>8. Known' \subseteq Known
  BY <1>1, <1>2, <1>4, <1>5, <1>7 DEF Known
<1> QED
  BY <1>4, <1>6, <1>8, Untouched, MoveKeeps

\* A dump, and an import that begins, copy frames that are known.
LEMMA BCopy ==
  ASSUME BInv, \/ \E n \in Node : Dump(n)
               \/ \E n, m \in Node : Import(n, m)
  PROVE  BInv'
<1>1. UNCHANGED vars /\ recovered' = recovered
  BY DEF Dump, Import
<1>2. \A n \in Node : Stored(n) \subseteq Known /\ Known \subseteq Frame /\ dumps[n] \subseteq Frame
  BY StoredKnown DEF Known, BInv, BackupTypeOK
<1>3. CASE \E n \in Node : Dump(n)
  <2>1. PICK n \in Node : dumps' = [dumps EXCEPT ![n] = Stored(n)] /\ imports' = imports
    BY <1>3 DEF Dump
  <2>2. dumps' \in [Node -> SUBSET Frame]
    BY <1>2, <2>1 DEF BInv, BackupTypeOK
  <2>3. \A m \in Node : dumps'[m] = dumps[m] \/ dumps'[m] = Stored(n)
    BY <2>1 DEF BInv, BackupTypeOK
  <2>4. \A m \in Node : Stored(m)' = Stored(m)
    BY <1>1, Untouched DEF vars
  <2>5. Known' \subseteq Known
    BY <1>1, <2>1, <2>3, <2>4 DEF Known, vars
  <2>6. BackupTypeOK'
    BY <1>1, <2>1, <2>2 DEF BInv, BackupTypeOK, TypeOK, vars
  <2> QED
    BY <1>1, <2>5, <2>6, Untouched, MoveKeeps DEF vars
<1>4. CASE \E n, m \in Node : Import(n, m)
  <2>1. PICK n \in Node, m \in Node :
          imports' = imports \cup {[at |-> n, todo |-> dumps[m]]} /\ dumps' = dumps
    BY <1>4 DEF Import
  <2>2. [at |-> n, todo |-> dumps[m]] \in ImportJob
    BY <1>2 DEF ImportJob
  <2>3. \A k \in Node : Stored(k)' = Stored(k)
    BY <1>1, Untouched DEF vars
  <2>4. Known' \subseteq Known
    BY <1>1, <2>1, <2>3 DEF Known, vars
  <2>5. BackupTypeOK'
    BY <1>1, <2>1, <2>2 DEF BInv, BackupTypeOK, TypeOK, vars
  <2> QED
    BY <1>1, <2>4, <2>5, Untouched, MoveKeeps DEF vars
<1> QED
  BY <1>3, <1>4

LEMMA BFault ==
  ASSUME BInv, \/ \E q \in requests : Fail(q) /\ UNCHANGED <<dumps, imports, recovered>>
               \/ \E n \in Node : RestartWithImport(n)
  PROVE  BInv'
<1>1. /\ store' = store /\ minted' = minted /\ pushes' = pushes /\ faults' \in 0..MaxFaults
      /\ pending' \subseteq pending /\ requests' \subseteq requests /\ replies' \subseteq replies
      /\ imports' \subseteq imports /\ dumps' = dumps /\ recovered' = recovered
  BY BoundAssumption DEF Fail, RestartWithImport, Restart, BInv, BackupTypeOK, TypeOK
<1>2. /\ clock' \in [Node -> 0..MaxFrames]
      /\ \A n \in Node : clock'[n] <= minted
  <2>1. clock \in [Node -> 0..MaxFrames] /\ (\A n \in Node : clock[n] <= minted) /\ minted \in Nat
    BY BoundAssumption DEF BInv, BackupTypeOK, TypeOK
  <2>2. clock' = clock \/ \E n \in Node : clock' = [clock EXCEPT ![n] = 0]
    BY DEF Fail, RestartWithImport, Restart
  <2> QED
    BY <2>1, <2>2, BoundAssumption
<1>3. Placed' /\ ChainLinked'
  BY <1>1 DEF BInv, Placed, ChainLinked
<1>4. \A m, a \in Node, s \in Scope : PrefixOf(store[m][s][a], store'[m][s][a])
  <2>1. \A m, a \in Node, s \in Scope : store[m][s][a] \in Seq(Frame)
    BY DEF BInv, BackupTypeOK, TypeOK
  <2> QED
    BY <1>1, <2>1 DEF PrefixOf
<1>5. \A m \in Node : Stored(m)' = Stored(m)
  BY <1>1 DEF Stored
<1>6. Known' \subseteq Known
  BY <1>1, <1>5 DEF Known
<1>7. BackupTypeOK'
  BY <1>1, <1>2 DEF BInv, BackupTypeOK, TypeOK
<1> QED
  BY <1>1, <1>2, <1>3, <1>4, <1>6, <1>7, MoveKeeps

\* The one new frame of a commit: above all its author holds, and linked to
\* the one frame that has the id of the author's head.
LEMMA BCommit ==
  ASSUME BInv, NEW n \in Node, NEW s \in Scope, Commit(n, s),
         UNCHANGED <<dumps, imports, recovered>>
  PROVE  /\ BInv'
         /\ \A m, a \in Node, t \in Scope : PrefixOf(store[m][t][a], store'[m][t][a])
<1>0. PICK f : f = NewFrame(n, s)
  OBVIOUS
<1> DEFINE chain == store[n][s][n]
<1>1. /\ minted < MaxFrames /\ minted' = minted + 1 /\ minted \in Nat
      /\ clock' = [clock EXCEPT ![n] = f.lamport] /\ store' = AppendTo(n, f)
      /\ UNCHANGED <<pending, requests, replies, faults>>
  BY <1>0, BoundAssumption DEF Commit, BInv, BackupTypeOK, TypeOK
<1>2. PICK roster \in SUBSET (Node \ {n}) :
        pushes' = pushes \cup {[from |-> n, to |-> p, frame |-> f] : p \in roster \cap Acl[s]}
  BY <1>0 DEF Commit
<1>3. /\ f \in Frame /\ f.scope = s /\ f.author = n
      /\ f.id = minted + 1 /\ f.seq = Len(chain) + 1 /\ f.prev = HeadId(chain)
      /\ f.lamport <= minted + 1
      /\ \A g \in Stored(n) : g.lamport < f.lamport
      /\ ~Has(chain, f) /\ Extends(chain, f)
  BY <1>0, <1>1, Stores, NewFrameOf
<1>4. /\ store' \in [Node -> [Scope -> [Node -> Seq(Frame)]]]
      /\ Placed' /\ ChainLinked'
      /\ \A m, a \in Node, t \in Scope : PrefixOf(store[m][t][a], store'[m][t][a])
      /\ \A m \in Node : \A g \in Stored(m)' : g \in Stored(m) \/ g = f
  BY <1>1, <1>3, AppendKeeps
<1>5. chain \in Seq(Frame) /\ Len(chain) <= minted /\ \A i \in 1..Len(chain) : chain[i] \in Known
  BY Stores, SMTT(30) DEF Counted, CountedChain
<1>6. store'[n][s][n] = Append(chain, f)
  <2>1. store' = AppendTo(n, f) /\ TypeOK
    BY <1>1 DEF BInv, BackupTypeOK
  <2> QED
    BY <1>3, <2>1, AppendAt
<1>7. IsGenuine(f)'
  <2>1. /\ Len(Append(chain, f)) = Len(chain) + 1 /\ Len(chain) \in Nat
        /\ \A i \in 1..Len(chain) + 1 :
             Append(chain, f)[i] = IF i = Len(chain) + 1 THEN f ELSE chain[i]
    BY <1>3, <1>5, AppendIndex
  <2>2. f.seq <= Len(store'[n][s][n]) /\ store'[n][s][n][f.seq] = f
    <3> HIDE DEF chain
    <3>1. f.seq = Len(chain) + 1 /\ store'[n][s][n] = Append(chain, f)
      BY <1>3, <1>6 DEF chain
    <3> QED
      BY <2>1, <3>1
  <2> QED
    BY <1>3, <2>2 DEF IsGenuine
<1>8. \/ f.prev = 0
      \/ \E head \in Known : head \in Stored(n) /\ f.prev = head.id
  <2>1. CASE chain = <<>>
    BY <1>3, <2>1 DEF HeadId, NoId
  <2>2. CASE chain # <<>>
    <3> DEFINE head == chain[Len(chain)]
    <3>1. Len(chain) \in 1..Len(chain)
      BY <1>5, <2>2
    <3>2. store[n] \in [Scope -> [Node -> Seq(Frame)]]
      BY DEF BInv, BackupTypeOK, TypeOK
    <3>3. head \in Known /\ head \in Stored(n)
      BY <1>5, <3>1, <3>2, StoredAre
    <3>4. f.prev = head.id
      BY <1>3, <2>2 DEF HeadId
    <3> QED
      BY <3>3, <3>4
  <2> QED
    BY <2>1, <2>2
<1>9. IsSound(f)' /\ f.prev <= minted
  <2>1. \A h \in Known : h.id <= minted
    BY DEF BInv, IsSound
  <2>2. f.prev <= minted
    BY <1>1, <1>8, <2>1
  <2>3. f.prev \in Nat /\ Len(chain) \in Nat
    BY <1>3, <1>5, FrameNumbers
  <2> QED
    BY <1>1, <1>3, <1>5, <1>7, <2>2, <2>3 DEF IsSound
<1>10. \A g \in Known : f.prev = g.id => g.lamport < f.lamport
  <2> SUFFICES ASSUME NEW g \in Known, f.prev = g.id PROVE g.lamport < f.lamport
    OBVIOUS
  <2>1. g.id # 0
    BY BoundAssumption DEF Known, Frame
  <2>2. PICK head \in Known : head \in Stored(n) /\ f.prev = head.id
    BY <1>8, <2>1
  <2>3. g = head
    BY <2>2 DEF BInv, Forest
  <2> QED
    BY <1>3, <2>2, <2>3
<1>11. \A g \in Known' : g \in Known \/ g = f
  BY <1>1, <1>2, <1>4 DEF Known
<1>12. BackupTypeOK'
  <2>1. \A p \in roster \cap Acl[s] : [from |-> n, to |-> p, frame |-> f] \in Push
    BY <1>3 DEF Push
  <2>2. pushes' \subseteq Push
    BY <1>2, <2>1 DEF BInv, BackupTypeOK, TypeOK
  <2>3. clock' \in [Node -> 0..MaxFrames]
    BY <1>1, <1>3, BoundAssumption DEF Frame, BInv, BackupTypeOK, TypeOK
  <2>4. minted' \in 0..MaxFrames
    BY <1>1, BoundAssumption
  <2> QED
    BY <1>1, <1>4, <2>2, <2>3, <2>4 DEF BInv, BackupTypeOK, TypeOK
<1>13. \A m \in Node : clock'[m] <= minted'
  <2>1. clock \in [Node -> 0..MaxFrames] /\ \A m \in Node : clock[m] <= minted
    BY DEF BInv, BackupTypeOK, TypeOK
  <2> QED
    BY <1>1, <1>3, <2>1, BoundAssumption
<1>14. minted <= minted' /\ recovered' = recovered
  BY <1>1
<1> QED
  BY <1>3, <1>4, <1>9, <1>10, <1>11, <1>12, <1>13, <1>14, StepKeeps

\* A lost database: every other store is as it was, and the loser's author is
\* no longer among the healthy ones.
LEMMA BLose ==
  ASSUME BInv, NEW n \in Node, Lose(n)
  PROVE  /\ BInv' /\ IsLost(n)'
         /\ \A m \in Node \ {n} : store'[m] = store[m]
<1> DEFINE none == [s \in Scope |-> [a \in Node |-> <<>>]]
<1>1. /\ store' = [store EXCEPT ![n] = none] /\ clock' = [clock EXCEPT ![n] = 0]
      /\ minted' = minted /\ pushes' = pushes /\ faults' \in 0..MaxFaults
      /\ pending' \subseteq pending /\ requests' \subseteq requests /\ replies' \subseteq replies
      /\ imports' \subseteq imports /\ dumps' = dumps /\ recovered' = recovered \cup {n}
  BY BoundAssumption DEF Lose, BInv, BackupTypeOK, TypeOK
<1>2. none \in [Scope -> [Node -> Seq(Frame)]]
  OBVIOUS
<1>3. store \in [Node -> [Scope -> [Node -> Seq(Frame)]]]
  BY DEF BInv, BackupTypeOK, TypeOK
<1>4. \A s \in Scope, a \in Node : none[s][a] = <<>>
  OBVIOUS
<1> HIDE DEF none
<1>5. store' \in [Node -> [Scope -> [Node -> Seq(Frame)]]]
  BY <1>1, <1>2, <1>3
<1>6. store'[n] = none /\ \A m \in Node \ {n} : store'[m] = store[m]
  BY <1>1, <1>3
<1>7. \A s \in Scope, a \in Node : store'[n][s][a] = <<>> /\ Len(store'[n][s][a]) = 0
  BY <1>4, <1>6
<1>8. Placed'
  <2> SUFFICES ASSUME NEW m \in Node, NEW a \in Node, NEW s \in Scope,
                      NEW i \in 1..Len(store'[m][s][a])
               PROVE  LET g == store'[m][s][a][i] IN g.seq = i /\ g.scope = s /\ g.author = a
    BY DEF Placed
  <2>1. m # n
    BY <1>7
  <2> QED
    BY <1>6, <2>1 DEF BInv, Placed
<1>9. ChainLinked'
  <2> SUFFICES ASSUME NEW m \in Node, NEW a \in Node, NEW s \in Scope
               PROVE  Linked(store'[m][s][a])
    BY DEF ChainLinked
  <2>1. CASE m = n
    BY <1>7, <2>1 DEF Linked
  <2>2. CASE m # n
    BY <1>6, <2>2 DEF BInv, ChainLinked
  <2> QED
    BY <2>1, <2>2
<1>10. Stored(n)' = {}
  <2> SUFFICES ASSUME NEW g \in Stored(n)' PROVE FALSE
    OBVIOUS
  <2>1. PICK s \in Scope, a \in Node : g \in ChainFrames(store'[n][s][a])
    BY DEF Stored
  <2>2. store'[n][s][a] = <<>>
    BY <1>7
  <2> QED
    BY <2>1, <2>2 DEF ChainFrames
<1>11. \A m \in Node \ {n} : Stored(m)' = Stored(m)
  BY <1>6 DEF Stored
<1>12. Known' \subseteq Known
  <2>1. \A m \in Node : Stored(m)' \subseteq Stored(m)
    BY <1>10, <1>11
  <2> QED
    BY <1>1, <2>1 DEF Known
<1>13. /\ clock' \in [Node -> 0..MaxFrames]
       /\ \A m \in Node : clock'[m] <= minted'
  BY <1>1, BoundAssumption DEF BInv, BackupTypeOK, TypeOK
<1>14. BackupTypeOK'
  BY <1>1, <1>5, <1>13 DEF BInv, BackupTypeOK, TypeOK
<1>15. \A a \in Node \ recovered', s \in Scope : PrefixOf(store[a][s][a], store'[a][s][a])
  <2> SUFFICES ASSUME NEW a \in Node \ recovered', NEW s \in Scope
               PROVE  PrefixOf(store[a][s][a], store'[a][s][a])
    OBVIOUS
  <2>1. store'[a][s][a] = store[a][s][a] /\ store[a][s][a] \in Seq(Frame)
    BY <1>1, <1>3, <1>6
  <2> QED
    BY <2>1 DEF PrefixOf
<1>16. BInv'
  <2>1. minted <= minted' /\ recovered \subseteq recovered'
    BY <1>1, BoundAssumption DEF BInv, BackupTypeOK, TypeOK
  <2> QED
    BY <1>8, <1>9, <1>12, <1>13, <1>14, <1>15, <2>1, StepKeeps
<1> QED
  BY <1>1, <1>6, <1>10, <1>16 DEF IsLost

-----------------------------------------------------------------------------
(* The invariant is inductive; the theorems.                               *)

LEMMA InitBInv == BackupInit => BInv
<1> SUFFICES ASSUME BackupInit PROVE BInv
  OBVIOUS
<1>1. IInv /\ UNION {} = {}
  BY InitIInv DEF BackupInit
<1>2. \A n, a \in Node, s \in Scope : store[n][s][a] = <<>> /\ Len(store[n][s][a]) = 0
  BY DEF BackupInit, Init
<1>3. \A n \in Node : Stored(n) = {}
  <2> SUFFICES ASSUME NEW n \in Node, NEW g \in Stored(n) PROVE FALSE
    OBVIOUS
  <2>1. PICK s \in Scope, a \in Node : g \in ChainFrames(store[n][s][a])
    BY DEF Stored
  <2> QED
    BY <1>2, <2>1 DEF ChainFrames
<1>4. Known = {}
  BY <1>3 DEF Known, BackupInit, Init
<1>5. BackupTypeOK
  BY <1>1 DEF BackupInit, BackupTypeOK, IInv
<1>6. Placed
  BY <1>2 DEF Placed
<1> QED
  BY <1>1, <1>4, <1>5, <1>6 DEF BInv, Forest, IInv, Counted

LEMMA StepBInv == BInv /\ [BackupNext]_allVars => BInv'
<1> SUFFICES ASSUME BInv, [BackupNext]_allVars PROVE BInv'
  OBVIOUS
<1> DEFINE Kept == UNCHANGED <<dumps, imports, recovered>>
<1>1. ASSUME NEW n \in Node, NEW s \in Scope, Commit(n, s), Kept PROVE BInv'
  BY <1>1, BCommit
<1>2. ASSUME NEW m \in pushes, DeliverPush(m), Kept PROVE BInv'
  BY <1>2, BDeliverPush
<1>3. ASSUME NEW g \in pending, GapPull(g), Kept PROVE BInv'
  <2>1. g.at \in Node /\ g.peer \in Node /\ g.scope \in Scope
    BY DEF BInv, BackupTypeOK, TypeOK, Pending
  <2>2. /\ Ask(g.at, g.peer, g.scope, "gap") /\ "gap" \in Reason /\ pending' \subseteq pending
        /\ UNCHANGED <<store, clock, pushes, replies, minted, faults>>
    BY <1>3 DEF GapPull, Reason
  <2> QED
    BY <1>3, <2>1, <2>2, BAsk
<1>4. ASSUME NEW n \in Node, NEW p \in Node, NEW s \in Scope, TickPull(n, p, s), Kept PROVE BInv'
  <2>1. /\ Ask(n, p, s, "tick") /\ "tick" \in Reason /\ pending' \subseteq pending
        /\ UNCHANGED <<store, clock, pushes, replies, minted, faults>>
    BY <1>4 DEF TickPull, Reason
  <2> QED
    BY <1>4, <2>1, BAsk
<1>5. ASSUME NEW q \in requests, Answer(q), Kept PROVE BInv'
  BY <1>5, BAnswer
<1>6. ASSUME NEW r \in replies, ApplyNext(r), Kept PROVE BInv'
  BY <1>6, BApplyNext
<1>7. ASSUME \/ \E q \in requests : Fail(q) /\ Kept
             \/ \E n \in Node : RestartWithImport(n)
      PROVE  BInv'
  BY <1>7, BFault
<1>8. ASSUME NEW n \in Node, Lose(n) PROVE BInv'
  BY <1>8, BLose
<1>9. ASSUME \/ \E n \in Node : Dump(n)
             \/ \E n, m \in Node : Import(n, m)
      PROVE  BInv'
  BY <1>9, BCopy
<1>10. ASSUME NEW j \in imports, ImportNext(j) PROVE BInv'
  BY <1>10, BImportNext
<1>11. CASE UNCHANGED allVars
  <2>1. BackupTypeOK' /\ Known' \subseteq Known
    BY <1>11 DEF allVars, vars, BInv, BackupTypeOK, TypeOK, Known, Stored
  <2> QED
    BY <1>11, <2>1, Untouched, MoveKeeps DEF allVars, vars
<1> QED
  BY <1>1, <1>2, <1>3, <1>4, <1>5, <1>6, <1>7, <1>8, <1>9, <1>10, <1>11 DEF BackupNext

\* Whatever is appended, chains grow.
LEMMA AppendGrows ==
  ASSUME TypeOK, NEW n \in Node, NEW f \in Frame, store' = AppendTo(n, f),
         NEW m \in Node, NEW a \in Node, NEW s \in Scope
  PROVE  PrefixOf(store[m][s][a], store'[m][s][a])
<1>1. store[m][s][a] \in Seq(Frame)
  BY DEF TypeOK
<1>2. CASE store'[m][s][a] = store[m][s][a]
  BY <1>1, <1>2 DEF PrefixOf
<1>3. CASE store'[m][s][a] = Append(store[m][s][a], f)
  <2> DEFINE chain == store[m][s][a]
  <2>1. Len(Append(chain, f)) = Len(chain) + 1 /\ Len(chain) \in Nat
        /\ \A i \in 1..Len(chain) + 1 : Append(chain, f)[i] = IF i = Len(chain) + 1 THEN f ELSE chain[i]
    BY <1>1, AppendIndex, SMTT(30)
  <2> HIDE DEF chain
  <2>2. PrefixOf(chain, Append(chain, f))
    BY <2>1 DEF PrefixOf
  <2> QED
    BY <1>3, <2>2 DEF chain
<1>4. \/ store' = store
      \/ /\ store'[n][f.scope][f.author] = Append(store[n][f.scope][f.author], f)
         /\ \A n2, a2 \in Node, s2 \in Scope :
              ~(n2 = n /\ s2 = f.scope /\ a2 = f.author) => store'[n2][s2][a2] = store[n2][s2][a2]
  BY AppendAt, SMTT(30)
<1>5. CASE m = n /\ s = f.scope /\ a = f.author
  BY <1>2, <1>3, <1>4, <1>5, ZenonT(30)
<1>6. CASE ~(m = n /\ s = f.scope /\ a = f.author)
  BY <1>2, <1>4, <1>6, ZenonT(30)
<1> QED
  BY <1>5, <1>6

LEMMA StepGrows ==
  BInv /\ [BackupNext]_allVars =>
    \A n \in Node :
      \/ IsLost(n)'
      \/ \A s \in Scope, a \in Node : PrefixOf(store[n][s][a], store'[n][s][a])
<1> SUFFICES ASSUME BInv, [BackupNext]_allVars, NEW n \in Node, ~IsLost(n)',
                    NEW s \in Scope, NEW a \in Node
             PROVE  PrefixOf(store[n][s][a], store'[n][s][a])
  OBVIOUS
<1>1. TypeOK /\ store[n][s][a] \in Seq(Frame)
  BY DEF BInv, BackupTypeOK, TypeOK
<1>2. PrefixOf(store[n][s][a], store[n][s][a])
  BY <1>1 DEF PrefixOf
<1>3. CASE \E k \in Node, t \in Scope : Commit(k, t) /\ UNCHANGED <<dumps, imports, recovered>>
  BY <1>3, BCommit
<1>4. CASE \E m \in pushes : DeliverPush(m)
  <2>1. PICK m \in pushes : DeliverPush(m)
    BY <1>4
  <2>2. m.to \in Node /\ m.frame \in Frame
    BY <1>1 DEF TypeOK, Push
  <2>3. store' = AppendTo(m.to, m.frame)
    BY <2>1 DEF DeliverPush, Apply
  <2> QED
    BY <1>1, <2>2, <2>3, AppendGrows
<1>5. CASE \E r \in replies : ApplyNext(r)
  <2>0. PICK r \in replies : ApplyNext(r)
    BY <1>5
  <2>1. PICK f \in r.todo : store' = AppendTo(r.at, f)
    BY <2>0 DEF ApplyNext, Apply
  <2>2. r.at \in Node /\ f \in Frame
    BY <1>1 DEF TypeOK, Reply
  <2> QED
    BY <1>1, <2>1, <2>2, AppendGrows
<1>6. CASE \E j \in imports : ImportNext(j)
  <2>0. PICK j \in imports : ImportNext(j)
    BY <1>6
  <2>1. PICK f \in j.todo : store' = AppendTo(j.at, f)
    BY <2>0 DEF ImportNext, Apply
  <2>2. j.at \in Node /\ f \in Frame
    BY DEF BInv, BackupTypeOK, ImportJob
  <2> QED
    BY <1>1, <2>1, <2>2, AppendGrows
<1>7. CASE \E k \in Node : Lose(k)
  <2>1. PICK k \in Node : Lose(k)
    BY <1>7
  <2>2. IsLost(k)' /\ \A m \in Node \ {k} : store'[m] = store[m]
    BY <2>1, BLose
  <2>3. n # k
    BY <2>2
  <2> QED
    BY <1>2, <2>2, <2>3
<1>8. CASE store' = store
  BY <1>2, <1>8
<1>9. \/ \E k \in Node, t \in Scope : Commit(k, t) /\ UNCHANGED <<dumps, imports, recovered>>
      \/ \E m \in pushes : DeliverPush(m)
      \/ \E r \in replies : ApplyNext(r)
      \/ \E j \in imports : ImportNext(j)
      \/ \E k \in Node : Lose(k)
      \/ store' = store
  BY DEF BackupNext, allVars, vars, GapPull, TickPull, Answer, Fail, Dump,
         RestartWithImport, Restart, Import
<1> QED
  BY <1>3, <1>4, <1>5, <1>6, <1>7, <1>8, <1>9

LEMMA BackupInvariance == BackupSpec => []BInv
BY InitBInv, StepBInv, PTL DEF BackupSpec

\* A lost database forks no log but its owner's: what is stored, imported or
\* on its way of any other author is what that author holds.
THEOREM HealthyDoNotFork == BackupSpec => []HealthyAuthorsDoNotFork
<1>1. BInv => HealthyAuthorsDoNotFork
  <2> SUFFICES ASSUME BInv, NEW n \in Node, NEW a \in Node \ recovered, NEW s \in Scope
               PROVE  PrefixOf(store[n][s][a], store[a][s][a])
    BY DEF HealthyAuthorsDoNotFork
  <2> DEFINE mine == store[n][s][a]
             own == store[a][s][a]
  <2>1. mine \in Seq(Frame) /\ own \in Seq(Frame)
    BY Stores
  <2>2. ASSUME NEW i \in 1..Len(mine) PROVE i <= Len(own) /\ mine[i] = own[i]
    <3>1. mine[i] \in Known /\ mine[i].seq = i /\ mine[i].scope = s /\ mine[i].author = a
      BY Stores, SMTT(30) DEF BInv, Placed
    <3>2. IsGenuine(mine[i])
      BY <3>1 DEF BInv, IsSound
    <3> QED
      BY <3>1, <3>2 DEF IsGenuine
  <2> HIDE DEF mine, own
  <2>3. Len(mine) # 0 => Len(mine) \in 1..Len(mine)
    BY <2>1
  <2>4. Len(mine) <= Len(own)
    BY <2>1, <2>2, <2>3
  <2>5. PrefixOf(mine, own)
    BY <2>2, <2>4 DEF PrefixOf
  <2> QED
    BY <2>5 DEF mine, own
<1> QED
  BY BackupInvariance, <1>1, PTL

\* No import, pull or push replaces a stored frame: a chain grows, or its
\* database is lost as a whole.
THEOREM ChainsGrow == BackupSpec => ChainsOnlyGrow
<1> DEFINE Grows ==
      \A n \in Node :
        \/ IsLost(n)'
        \/ \A s \in Scope, a \in Node : PrefixOf(store[n][s][a], store'[n][s][a])
<1>1. BInv /\ [BackupNext]_allVars => [Grows]_allVars
  BY StepGrows
<1> QED
  BY <1>1, BackupInvariance, PTL DEF BackupSpec, ChainsOnlyGrow

\* Even where an author writes two branches after a loss, no store mixes them:
\* every chain stays numbered, linked and stamped in ascending order.
THEOREM BranchesNeverMix == BackupSpec => []ChainLinked
<1>1. BInv => ChainLinked
  BY DEF BInv
<1> QED
  BY BackupInvariance, <1>1, PTL

\* Numbers and stamps stay within the commits made, losses included.
THEOREM BackupTypeCorrect == BackupSpec => []TypeOK
<1>1. BInv => TypeOK
  BY DEF BInv, BackupTypeOK
<1> QED
  BY BackupInvariance, <1>1, PTL
=============================================================================
