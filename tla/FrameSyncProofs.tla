--------------------------- MODULE FrameSyncProofs ---------------------------
(***************************************************************************)
(* Proofs about FrameSync for any set of peers and scopes, any membership  *)
(* and any bounds: types, absence of forks, causal stamps, membership      *)
(* gating, and that it implements ReplicatedLog.                           *)
(***************************************************************************)
EXTENDS FrameSync, NatOrder, TLAPS

-----------------------------------------------------------------------------
(* The inductive invariant.                                                *)

\* A frame in flight is one that its author has stored at that position.
IsGenuine(f) ==
  LET chain == store[f.author][f.scope][f.author] IN
  f.seq <= Len(chain) /\ chain[f.seq] = f

GenuineInFlight ==
  /\ \A m \in pushes : IsGenuine(m.frame)
  /\ \A r \in replies : \A f \in r.todo : IsGenuine(f)

\* Nothing is numbered or stamped beyond the frames committed so far.
CountedChain(chain, total) ==
  /\ Len(chain) <= total
  /\ \A i \in 1..Len(chain) : chain[i].id <= total /\ chain[i].lamport <= total

Counted ==
  /\ \A n \in Node : clock[n] <= minted
  /\ \A n, a \in Node, s \in Scope : CountedChain(store[n][s][a], minted)

\* A frame is kept under its own scope and author.
HomedChain(chain, s, a) ==
  \A i \in 1..Len(chain) : chain[i].scope = s /\ chain[i].author = a

Homed == \A n, a \in Node, s \in Scope : HomedChain(store[n][s][a], s, a)

IInv == TypeOK /\ PrefixOfAuthor /\ ChainLinked /\ GenuineInFlight /\ Counted /\ Homed

-----------------------------------------------------------------------------
(* The operators the model is built from.                                  *)

\* The stamp of a fresh commit is a natural above everything stored.
LEMMA MaxLamportBounds ==
  ASSUME TypeOK, Counted, NEW n \in Node
  PROVE  /\ MaxLamport(n) \in 0..minted
         /\ \A f \in Stored(n) : f.lamport <= MaxLamport(n)
<1> DEFINE seen == {0} \cup {f.lamport : f \in Stored(n)}
<1>1. \A f \in Stored(n) : f \in Frame /\ f.lamport <= minted
  <2> SUFFICES ASSUME NEW s \in Scope, NEW a \in Node,
                      NEW i \in DOMAIN store[n][s][a]
               PROVE  store[n][s][a][i] \in Frame /\ store[n][s][a][i].lamport <= minted
    BY DEF Stored, ChainFrames
  <2>1. store[n][s][a] \in Seq(Frame)
    BY DEF TypeOK
  <2> QED
    BY <2>1 DEF Counted, CountedChain
<1>2. seen \in SUBSET Nat /\ minted \in Nat /\ \A l \in seen : l <= minted
  BY <1>1, BoundAssumption DEF Frame, TypeOK
<1>3. \E m \in seen : \A l \in seen : l <= m
  BY <1>2, GreatestOfBounded
<1>4. MaxLamport(n) \in seen /\ \A l \in seen : l <= MaxLamport(n)
  BY <1>3 DEF MaxLamport
<1> QED
  BY <1>2, <1>4

LEMMA FrameNumbers ==
  ASSUME NEW f \in Frame
  PROVE  f.id \in Nat /\ f.seq \in Nat \ {0} /\ f.prev \in Nat /\ f.lamport \in Nat
BY BoundAssumption DEF Frame

LEMMA AppendIndex ==
  ASSUME NEW S, NEW c \in Seq(S), NEW x \in S
  PROVE  /\ Len(Append(c, x)) = Len(c) + 1
         /\ \A i \in 1..Len(c) + 1 :
              Append(c, x)[i] = IF i = Len(c) + 1 THEN x ELSE c[i]
  OBVIOUS

\* Where a chain stands when the type and the numbering are right.
LEMMA ChainFacts ==
  ASSUME TypeOK, ChainLinked, NEW n \in Node, NEW s \in Scope, NEW a \in Node
  PROVE  LET chain == store[n][s][a] IN
         /\ chain \in Seq(Frame)
         /\ NextSeq(chain) = Len(chain) + 1
         /\ Vector(n, s)[a] = Len(chain)
         /\ \A i \in 1..Len(chain) : chain[i] \in Frame /\ chain[i].seq = i
<1> DEFINE chain == store[n][s][a]
<1>1. chain \in Seq(Frame)
  BY DEF TypeOK
<1>2. \A i \in 1..Len(chain) : chain[i] \in Frame /\ chain[i].seq = i
  BY <1>1 DEF ChainLinked, Linked
<1>3. chain = <<>> <=> Len(chain) = 0
  BY <1>1
<1>4. Len(chain) # 0 => chain[Len(chain)].seq = Len(chain)
  BY <1>1, <1>2, SMTT(30)
<1> QED
  BY <1>1, <1>2, <1>3, <1>4 DEF NextSeq, Vector

\* Append changes at most the one chain the frame belongs to.
LEMMA AppendAt ==
  ASSUME TypeOK, NEW n \in Node, NEW f \in Frame, store' = AppendTo(n, f)
  PROVE  LET chain == store[n][f.scope][f.author] IN
         \/ /\ Has(chain, f) \/ ~Extends(chain, f)
            /\ store' = store
         \/ /\ ~Has(chain, f) /\ Extends(chain, f)
            /\ store' \in [Node -> [Scope -> [Node -> Seq(Frame)]]]
            /\ store'[n][f.scope][f.author] = Append(chain, f)
            /\ \A n2, a2 \in Node, s2 \in Scope :
                 ~(n2 = n /\ s2 = f.scope /\ a2 = f.author)
                   => store'[n2][s2][a2] = store[n2][s2][a2]
<1> DEFINE chain == store[n][f.scope][f.author]
<1>1. f.scope \in Scope /\ f.author \in Node
  BY DEF Frame
<1>2. CASE ~(~Has(chain, f) /\ Extends(chain, f))
  BY <1>2, SMTT(30) DEF AppendTo
<1>3. CASE ~Has(chain, f) /\ Extends(chain, f)
  <2>1. store' = [store EXCEPT ![n][f.scope][f.author] = Append(chain, f)]
    BY <1>3 DEF AppendTo
  <2>2. Append(chain, f) \in Seq(Frame)
    BY <1>1 DEF TypeOK
  <2>3. store \in [Node -> [Scope -> [Node -> Seq(Frame)]]]
    BY DEF TypeOK
  <2> DEFINE s == f.scope
             a == f.author
             V == Seq(Frame)
             longer == Append(chain, f)
             inner == [store[n] EXCEPT ![s] = [store[n][s] EXCEPT ![a] = longer]]
  <2> HIDE DEF s, a, V, longer
  <2>4. longer \in V /\ store \in [Node -> [Scope -> [Node -> V]]]
        /\ s \in Scope /\ a \in Node
    BY <1>1, <2>2, <2>3 DEF longer, V, s, a
  <2>5. store' = [store EXCEPT ![n] = inner]
    BY <2>1, <2>4 DEF longer, s, a
  <2>6. inner \in [Scope -> [Node -> V]]
    BY <2>4
  <2>7. store' \in [Node -> [Scope -> [Node -> V]]]
    BY <2>4, <2>5, <2>6
  <2>8. store'[n][s][a] = longer
    BY <2>4, <2>5
  <2>9. ASSUME NEW n2 \in Node, NEW s2 \in Scope, NEW a2 \in Node,
               ~(n2 = n /\ s2 = s /\ a2 = a)
        PROVE  store'[n2][s2][a2] = store[n2][s2][a2]
    BY <2>4, <2>5, <2>9
  <2> QED
    BY <1>3, <2>7, <2>8, <2>9 DEF s, a, V, longer
<1> QED
  BY <1>2, <1>3
-----------------------------------------------------------------------------
(* Apply, the one way frames of others enter the store.                    *)

\* What holds of an author's chain holds of every prefix of it.
LEMMA PrefixInherits ==
  ASSUME NEW own \in Seq(Frame), NEW mine \in Seq(Frame), PrefixOf(mine, own),
         NEW s, NEW a, NEW total \in Nat,
         Linked(own), CountedChain(own, total), HomedChain(own, s, a)
  PROVE  Linked(mine) /\ CountedChain(mine, total) /\ HomedChain(mine, s, a)
<1>1. Len(mine) <= Len(own) /\ \A i \in 1..Len(mine) : i \in 1..Len(own) /\ mine[i] = own[i]
  BY DEF PrefixOf
<1>2. \A i \in 1..Len(mine) : i > 1 => i - 1 \in 1..Len(mine)
  OBVIOUS
<1>3. Linked(mine)
  <2> SUFFICES ASSUME NEW i \in 1..Len(mine)
               PROVE  /\ mine[i].seq = i
                      /\ mine[i].prev = IF i = 1 THEN NoId ELSE mine[i-1].id
                      /\ i > 1 => mine[i].lamport > mine[i-1].lamport
    BY DEF Linked
  <2>1. mine[i] = own[i] /\ i \in 1..Len(own) /\ (i > 1 => mine[i-1] = own[i-1])
    BY <1>1, <1>2
  <2>2. i # 1 => i > 1
    OBVIOUS
  <2> QED
    BY <2>1, <2>2 DEF Linked
<1>4. CountedChain(mine, total)
  BY <1>1, SMTT(30) DEF CountedChain
<1>5. HomedChain(mine, s, a)
  BY <1>1 DEF HomedChain
<1> QED
  BY <1>3, <1>4, <1>5

\* Applying a frame its author has keeps the replicas consistent, and leaves
\* the author's own chain alone.
LEMMA ApplyPreserves ==
  ASSUME IInv, NEW n \in Node, NEW f \in Frame, IsGenuine(f), Apply(n, f), minted' = minted
  PROVE  /\ store' \in [Node -> [Scope -> [Node -> Seq(Frame)]]]
         /\ clock' \in [Node -> 0..MaxFrames]
         /\ PrefixOfAuthor' /\ ChainLinked' /\ Counted' /\ Homed'
         /\ \A a \in Node, s \in Scope : store'[a][s][a] = store[a][s][a]
<1> DEFINE s == f.scope
           a == f.author
           chain == store[n][s][a]
           own == store[a][s][a]
<1>1. s \in Scope /\ a \in Node /\ f.seq \in Nat \ {0} /\ f.lamport \in 1..MaxFrames /\ f.id \in Nat
  BY BoundAssumption DEF Frame
<1>2. chain \in Seq(Frame) /\ own \in Seq(Frame) /\ NextSeq(chain) = Len(chain) + 1
  <2>1. chain \in Seq(Frame) /\ own \in Seq(Frame)
    <3>1. store \in [Node -> [Scope -> [Node -> Seq(Frame)]]]
      BY DEF IInv, TypeOK
    <3> QED
      BY <1>1, <3>1
  <2>2. NextSeq(chain) = Len(chain) + 1
    BY <1>1, ChainFacts, SMTT(30) DEF IInv
  <2> QED
    BY <2>1, <2>2
<1>3. f.seq \in 1..Len(own) /\ own[f.seq] = f
  BY <1>1, <1>2 DEF IsGenuine
<1>4. f.id <= minted /\ f.lamport <= minted /\ minted \in Nat
  <2>1. CountedChain(own, minted)
    BY <1>1 DEF IInv, Counted
  <2>2. minted \in Nat
    BY BoundAssumption DEF IInv, TypeOK
  <2>3. own[f.seq].id <= minted /\ own[f.seq].lamport <= minted
    BY <1>3, <2>1, SMTT(30) DEF CountedChain
  <2> QED
    BY <1>3, <2>2, <2>3
<1>5. /\ clock' \in [Node -> 0..MaxFrames]
      /\ \A m \in Node : clock'[m] <= minted
  <2>1. clock \in [Node -> 0..MaxFrames] /\ \A m \in Node : clock[m] <= minted
    BY DEF IInv, TypeOK, Counted
  <2>2. Larger(clock[n], f.lamport) \in 0..MaxFrames /\ Larger(clock[n], f.lamport) <= minted
    BY <1>1, <1>4, <2>1, BoundAssumption DEF Larger
  <2>3. clock' = [clock EXCEPT ![n] = Larger(clock[n], f.lamport)]
    BY DEF Apply
  <2> QED
    BY <2>1, <2>2, <2>3
<1>6. CASE store' = store
  <2>1. PrefixOfAuthor' /\ ChainLinked'
    BY <1>6 DEF IInv, PrefixOfAuthor, ChainLinked
  <2>2. Counted' /\ Homed'
    BY <1>5, <1>6 DEF IInv, Counted, Homed
  <2> QED
    BY <1>5, <1>6, <2>1, <2>2 DEF IInv, TypeOK
<1>7. CASE /\ ~Has(chain, f) /\ Extends(chain, f)
           /\ store' \in [Node -> [Scope -> [Node -> Seq(Frame)]]]
           /\ store'[n][s][a] = Append(chain, f)
           /\ \A n2, a2 \in Node, s2 \in Scope :
                ~(n2 = n /\ s2 = s /\ a2 = a) => store'[n2][s2][a2] = store[n2][s2][a2]
  <2>1. f.seq = Len(chain) + 1
    BY <1>2, <1>7 DEF Extends
  <2>2. a # n
    BY <1>2, <1>3, <2>1
  <2>3. ASSUME NEW b \in Node, NEW t \in Scope PROVE store'[b][t][b] = store[b][t][b]
    <3>1. ~(b = n /\ t = s /\ b = a)
      BY <2>2
    <3> QED
      BY <3>1, <1>7
  <2>4. PrefixOfAuthor'
    <3> SUFFICES ASSUME NEW m \in Node, NEW b \in Node, NEW t \in Scope
                 PROVE  PrefixOf(store'[m][t][b], store'[b][t][b])
      BY DEF PrefixOfAuthor
    <3>1. CASE m = n /\ t = s /\ b = a
      <4>1. Len(chain) <= Len(own) /\ \A i \in 1..Len(chain) : chain[i] = own[i]
        BY <1>1 DEF IInv, PrefixOfAuthor, PrefixOf
      <4>2. store'[m][t][b] = Append(chain, f) /\ store'[b][t][b] = own
        BY <1>1, <1>7, <2>3, <3>1
      <4> HIDE DEF chain, own
      <4>3. /\ Len(Append(chain, f)) = Len(chain) + 1
            /\ \A i \in 1..Len(chain) + 1 :
                 Append(chain, f)[i] = IF i = Len(chain) + 1 THEN f ELSE chain[i]
        BY <1>2, AppendIndex
      <4>4. Len(chain) \in Nat /\ Len(own) \in Nat /\ Len(chain) + 1 <= Len(own)
        BY <1>2, <1>3, <2>1
      <4>5. \A i \in 1..Len(chain) + 1 : Append(chain, f)[i] = own[i]
        BY <1>3, <2>1, <4>1, <4>3, <4>4
      <4> QED
        BY <4>2, <4>3, <4>4, <4>5 DEF PrefixOf
    <3>2. CASE ~(m = n /\ t = s /\ b = a)
      <4>1. store'[m][t][b] = store[m][t][b] /\ store'[b][t][b] = store[b][t][b]
        BY <1>7, <2>3, <3>2
      <4> QED
        BY <4>1 DEF IInv, PrefixOfAuthor
    <3> QED
      BY <3>1, <3>2
  <2>5. ASSUME NEW m \in Node, NEW b \in Node, NEW t \in Scope
        PROVE  /\ Linked(store'[m][t][b])
               /\ CountedChain(store'[m][t][b], minted)
               /\ HomedChain(store'[m][t][b], t, b)
    <3>1. PrefixOf(store'[m][t][b], store[b][t][b])
      BY <2>3, <2>4 DEF PrefixOfAuthor
    <3>2. store[b][t][b] \in Seq(Frame) /\ store'[m][t][b] \in Seq(Frame)
      <4>1. store \in [Node -> [Scope -> [Node -> Seq(Frame)]]]
        BY SMTT(30) DEF IInv, TypeOK
      <4>2. store' \in [Node -> [Scope -> [Node -> Seq(Frame)]]]
        BY <1>7
      <4> QED
        BY <4>1, <4>2
    <3>3. /\ Linked(store[b][t][b])
          /\ CountedChain(store[b][t][b], minted)
          /\ HomedChain(store[b][t][b], t, b)
      BY DEF IInv, ChainLinked, Counted, Homed
    <3> QED
      BY <1>4, <3>1, <3>2, <3>3, PrefixInherits
  <2> QED
    BY <1>5, <1>7, <2>3, <2>4, <2>5, SMTT(30) DEF ChainLinked, Counted, Homed
<1>8. store' = AppendTo(n, f)
  BY DEF Apply
<1> QED
  BY <1>6, <1>7, <1>8, AppendAt DEF IInv

-----------------------------------------------------------------------------
(* Commit, the one way a chain grows.                                      *)

\* Of the store it asks no more than that it is numbered.
LEMMA NewFrameOf ==
  ASSUME TypeOK, Counted, NEW n \in Node, NEW s \in Scope, minted < MaxFrames,
         NextSeq(store[n][s][n]) = Len(store[n][s][n]) + 1
  PROVE  LET f == NewFrame(n, s)
             chain == store[n][s][n] IN
         /\ f \in Frame /\ f.scope = s /\ f.author = n
         /\ f.id = minted + 1 /\ f.seq = Len(chain) + 1 /\ f.prev = HeadId(chain)
         /\ f.lamport <= minted + 1
         /\ \A g \in Stored(n) : g.lamport < f.lamport
         /\ ~Has(chain, f) /\ Extends(chain, f)
<1> DEFINE f == NewFrame(n, s)
           chain == store[n][s][n]
<1>1. minted \in Nat /\ minted + 1 \in 1..MaxFrames /\ clock[n] \in 0..minted
  BY BoundAssumption DEF TypeOK, Counted
<1>2. chain \in Seq(Frame) /\ NextSeq(chain) = Len(chain) + 1
  BY DEF TypeOK
<1>3. \A i \in 1..Len(chain) : chain[i].id \in 1..minted
  <2>1. \A i \in 1..Len(chain) : chain[i] \in Frame /\ chain[i].id <= minted
    BY <1>2 DEF Counted, CountedChain
  <2> QED
    BY <1>1, <2>1, BoundAssumption DEF Frame
<1>4. Len(chain) \in 0..minted
  BY <1>1, <1>2 DEF Counted, CountedChain
<1>5. HeadId(chain) \in 0..minted
  <2>1. CASE chain = <<>>
    BY <1>1, <2>1 DEF HeadId, NoId
  <2>2. CASE chain # <<>>
    <3>1. Len(chain) \in 1..Len(chain)
      BY <1>2, <2>2
    <3> QED
      BY <1>1, <1>3, <2>2, <3>1, SMTT(30) DEF HeadId
  <2> QED
    BY <2>1, <2>2
<1>6. MaxLamport(n) \in 0..minted /\ \A g \in Stored(n) : g.lamport <= MaxLamport(n)
  BY MaxLamportBounds
<1> HIDE DEF chain
<1>7. f = [id |-> minted + 1, scope |-> s, author |-> n,
           seq |-> NextSeq(chain), prev |-> HeadId(chain),
           lamport |-> Larger(clock[n], MaxLamport(n)) + 1]
  BY DEF NewFrame, chain
<1>8. f.lamport \in 1..minted + 1 /\ f.lamport > MaxLamport(n)
  BY <1>1, <1>6, <1>7 DEF Larger
<1>9. f \in Frame
  BY <1>1, <1>2, <1>4, <1>5, <1>7, <1>8, BoundAssumption DEF Frame
<1>10. \A g \in Stored(n) : g.lamport < f.lamport
  <2> SUFFICES ASSUME NEW g \in Stored(n) PROVE g.lamport < f.lamport
    OBVIOUS
  <2>1. g \in Frame
    BY DEF Stored, ChainFrames, TypeOK
  <2> QED
    BY <1>1, <1>6, <1>8, <2>1, BoundAssumption DEF Frame
<1>11. ~Has(chain, f)
  BY <1>1, <1>2, <1>3, <1>7 DEF Has
<1>12. Extends(chain, f)
  BY <1>7 DEF Extends
<1> QED
  BY <1>1, <1>2, <1>7, <1>8, <1>9, <1>10, <1>11, <1>12 DEF chain

LEMMA NewFrameFacts ==
  ASSUME IInv, NEW n \in Node, NEW s \in Scope, minted < MaxFrames
  PROVE  LET f == NewFrame(n, s)
             chain == store[n][s][n] IN
         /\ f \in Frame /\ f.scope = s /\ f.author = n
         /\ f.id = minted + 1 /\ f.seq = Len(chain) + 1 /\ f.prev = HeadId(chain)
         /\ f.lamport <= minted + 1
         /\ \A g \in Stored(n) : g.lamport < f.lamport
         /\ ~Has(chain, f) /\ Extends(chain, f)
<1>1. TypeOK /\ Counted /\ NextSeq(store[n][s][n]) = Len(store[n][s][n]) + 1
  BY ChainFacts DEF IInv
<1> QED
  BY <1>1, NewFrameOf

\* The fresh frame is a right successor of its author's chain.
LEMMA SuccessorKeepsChain ==
  ASSUME NEW chain \in Seq(Frame), NEW f \in Frame, NEW s, NEW a, NEW total \in Nat,
         Linked(chain), CountedChain(chain, total), HomedChain(chain, s, a),
         f.seq = Len(chain) + 1, f.prev = HeadId(chain), f.scope = s, f.author = a,
         f.id <= total + 1, f.lamport <= total + 1,
         \A i \in 1..Len(chain) : chain[i].lamport < f.lamport
  PROVE  LET longer == Append(chain, f) IN
         Linked(longer) /\ CountedChain(longer, total + 1) /\ HomedChain(longer, s, a)
<1> DEFINE longer == Append(chain, f)
<1>1. /\ Len(longer) = Len(chain) + 1
      /\ \A i \in 1..Len(chain) + 1 : longer[i] = IF i = Len(chain) + 1 THEN f ELSE chain[i]
  BY AppendIndex
<1>2. Len(chain) \in Nat
  OBVIOUS
<1> HIDE DEF longer
<1>3. Linked(longer)
  <2> SUFFICES ASSUME NEW i \in 1..Len(chain) + 1
               PROVE  /\ longer[i].seq = i
                      /\ longer[i].prev = IF i = 1 THEN NoId ELSE longer[i-1].id
                      /\ i > 1 => longer[i].lamport > longer[i-1].lamport
    BY <1>1 DEF Linked
  <2>1. i > 1 => longer[i-1] = chain[i-1] /\ i - 1 \in 1..Len(chain)
    BY <1>1, <1>2
  <2>2. CASE i \in 1..Len(chain)
    BY <1>1, <1>2, <2>1, <2>2 DEF Linked
  <2>3. CASE i = Len(chain) + 1
    <3>1. longer[i] = f
      BY <1>1, <2>3
    <3>2. f.prev = IF i = 1 THEN NoId ELSE chain[i-1].id
      BY <2>3 DEF HeadId
    <3>3. i > 1 => f.lamport > chain[i-1].lamport
      <4>1. i > 1 => chain[i-1] \in Frame /\ chain[i-1].lamport < f.lamport
        BY <2>1
      <4> QED
        BY <4>1, BoundAssumption DEF Frame
    <3> QED
      BY <2>1, <2>3, <3>1, <3>2, <3>3
  <2> QED
    BY <1>2, <2>2, <2>3
<1>4. CountedChain(longer, total + 1)
  <2>1. \A i \in 1..Len(chain) : chain[i].id \in Nat /\ chain[i].lamport \in Nat
    <3>1. \A i \in 1..Len(chain) : chain[i] \in Frame
      OBVIOUS
    <3> QED
      BY <3>1, FrameNumbers
  <2> QED
    BY <1>1, <1>2, <2>1 DEF CountedChain
<1>5. HomedChain(longer, s, a)
  BY <1>1, <1>2 DEF HomedChain
<1> QED
  BY <1>3, <1>4, <1>5 DEF longer

LEMMA CommitPreserves ==
  ASSUME IInv, NEW n \in Node, NEW s \in Scope, Commit(n, s)
  PROVE  /\ store' \in [Node -> [Scope -> [Node -> Seq(Frame)]]]
         /\ clock' \in [Node -> 0..MaxFrames] /\ minted' \in 0..MaxFrames
         /\ store'[n][s][n] = Append(store[n][s][n], NewFrame(n, s))
         /\ \A n2, a2 \in Node, s2 \in Scope :
              ~(n2 = n /\ s2 = s /\ a2 = n) => store'[n2][s2][a2] = store[n2][s2][a2]
         /\ PrefixOfAuthor' /\ ChainLinked' /\ Counted' /\ Homed'
<1> DEFINE f == NewFrame(n, s)
           chain == store[n][s][n]
<1>1. minted < MaxFrames /\ minted \in Nat /\ minted' = minted + 1 /\ minted' \in 0..MaxFrames
  BY BoundAssumption DEF Commit, IInv, TypeOK
<1>2. /\ f \in Frame /\ f.scope = s /\ f.author = n
      /\ f.id = minted + 1 /\ f.seq = Len(chain) + 1 /\ f.prev = HeadId(chain)
      /\ f.lamport <= minted + 1
      /\ \A g \in Stored(n) : g.lamport < f.lamport
      /\ ~Has(chain, f) /\ Extends(chain, f)
  BY <1>1, NewFrameFacts
<1> HIDE DEF f
<1>3. store' = AppendTo(n, f) /\ clock' = [clock EXCEPT ![n] = f.lamport]
  BY DEF Commit, f
<1>4. /\ store' \in [Node -> [Scope -> [Node -> Seq(Frame)]]]
      /\ store'[n][s][n] = Append(chain, f)
      /\ \A n2, a2 \in Node, s2 \in Scope :
           ~(n2 = n /\ s2 = s /\ a2 = n) => store'[n2][s2][a2] = store[n2][s2][a2]
  <2>1. TypeOK
    BY SMTT(30) DEF IInv
  <2>2. LET c == store[n][f.scope][f.author] IN
        /\ store' \in [Node -> [Scope -> [Node -> Seq(Frame)]]]
        /\ store'[n][f.scope][f.author] = Append(c, f)
        /\ \A n2, a2 \in Node, s2 \in Scope :
             ~(n2 = n /\ s2 = f.scope /\ a2 = f.author) => store'[n2][s2][a2] = store[n2][s2][a2]
    BY <1>2, <1>3, <2>1, AppendAt
  <2> QED
    BY <1>2, <2>2
<1>5. clock' \in [Node -> 0..MaxFrames] /\ \A m \in Node : clock'[m] <= minted'
  <2>1. clock \in [Node -> 0..MaxFrames] /\ \A m \in Node : clock[m] <= minted
    BY DEF IInv, TypeOK, Counted
  <2>2. f.lamport \in 0..MaxFrames
    BY <1>2, BoundAssumption DEF Frame
  <2> QED
    BY <1>1, <1>2, <1>3, <2>1, <2>2, BoundAssumption
<1>6. chain \in Seq(Frame) /\ Linked(chain) /\ CountedChain(chain, minted) /\ HomedChain(chain, s, n)
  BY DEF IInv, TypeOK, ChainLinked, Counted, Homed
<1>7. /\ Len(Append(chain, f)) = Len(chain) + 1
      /\ \A i \in 1..Len(chain) + 1 :
           Append(chain, f)[i] = IF i = Len(chain) + 1 THEN f ELSE chain[i]
  BY <1>2, <1>6, AppendIndex
<1>8. PrefixOfAuthor'
  <2> SUFFICES ASSUME NEW m \in Node, NEW b \in Node, NEW t \in Scope
               PROVE  PrefixOf(store'[m][t][b], store'[b][t][b])
    BY DEF PrefixOfAuthor
  <2>1. PrefixOf(store[m][t][b], store[b][t][b])
    BY DEF IInv, PrefixOfAuthor
  <2>2. CASE m = b
    BY <1>4, <2>2 DEF PrefixOf
  <2>3. CASE m # b /\ b = n /\ t = s
    <3>1. store'[m][t][b] = store[m][s][n] /\ store'[b][t][b] = Append(chain, f)
      BY <1>4, <2>3
    <3>2. store[m][s][n] \in Seq(Frame)
      BY DEF IInv, TypeOK
    <3>3. PrefixOf(store[m][s][n], chain)
      BY <2>1, <2>3
    <3> HIDE DEF chain
    <3> QED
      BY <1>6, <1>7, <3>1, <3>2, <3>3 DEF PrefixOf
  <2>4. CASE m # b /\ ~(b = n /\ t = s)
    BY <1>4, <2>1, <2>4
  <2> QED
    BY <2>2, <2>3, <2>4
<1>9. ASSUME NEW m \in Node, NEW b \in Node, NEW t \in Scope
      PROVE  /\ Linked(store'[m][t][b])
             /\ CountedChain(store'[m][t][b], minted')
             /\ HomedChain(store'[m][t][b], t, b)
  <2>1. CASE ~(m = n /\ b = n /\ t = s)
    <3>1. store'[m][t][b] = store[m][t][b] /\ store[m][t][b] \in Seq(Frame)
      BY <1>4, <2>1 DEF IInv, TypeOK
    <3>2. CountedChain(store[m][t][b], minted) => CountedChain(store[m][t][b], minted + 1)
      <4>1. \A i \in 1..Len(store[m][t][b]) :
              store[m][t][b][i].id \in Nat /\ store[m][t][b][i].lamport \in Nat
        BY <3>1, FrameNumbers
      <4> QED
        BY <1>1, <3>1, <4>1 DEF CountedChain
    <3> QED
      BY <1>1, <3>1, <3>2 DEF IInv, ChainLinked, Counted, Homed
  <2>2. CASE m = n /\ b = n /\ t = s
    <3>1. \A i \in 1..Len(chain) : chain[i].lamport < f.lamport
      <4>1. \A i \in 1..Len(chain) : i \in DOMAIN chain
        BY <1>6
      <4>2. \A i \in DOMAIN chain : chain[i] \in Stored(n)
        <5>1. ChainFrames(chain) \subseteq Stored(n)
          BY DEF Stored
        <5> QED
          BY <5>1 DEF ChainFrames
      <4> QED
        BY <1>2, <4>1, <4>2
    <3>2. LET longer == Append(chain, f) IN
          Linked(longer) /\ CountedChain(longer, minted + 1) /\ HomedChain(longer, s, n)
      <4> HIDE DEF chain
      <4>1. f.id <= minted + 1
        BY <1>1, <1>2
      <4> QED
        BY <1>1, <1>2, <1>6, <3>1, <4>1, SuccessorKeepsChain
    <3> QED
      BY <1>1, <1>4, <2>2, <3>2
  <2> QED
    BY <2>1, <2>2
<1>10. ChainLinked' /\ Counted' /\ Homed'
  BY <1>5, <1>9 DEF ChainLinked, Counted, Homed
<1> QED
  BY <1>1, <1>4, <1>5, <1>8, <1>10 DEF f
-----------------------------------------------------------------------------
(* Messages.                                                               *)

\* A genuine frame stays genuine while its author's chain only grows.
LEMMA GenuineStays ==
  ASSUME NEW f \in Frame, IsGenuine(f),
         \A a \in Node, s \in Scope : PrefixOf(store[a][s][a], store'[a][s][a])
  PROVE  IsGenuine(f)'
<1> DEFINE own == store[f.author][f.scope][f.author]
           own2 == store'[f.author][f.scope][f.author]
<1>1. f.author \in Node /\ f.scope \in Scope /\ f.seq \in Nat \ {0}
  BY FrameNumbers DEF Frame
<1>2. PrefixOf(own, own2)
  BY <1>1
<1>3. f.seq <= Len(own) /\ own[f.seq] = f
  BY DEF IsGenuine
<1> HIDE DEF own, own2
<1>4. f.seq <= Len(own2) /\ own2[f.seq] = f
  BY <1>1, <1>2, <1>3 DEF PrefixOf
<1> QED
  BY <1>4 DEF IsGenuine, own2

\* What a peer serves of a scope are frames of that scope its authors have.
LEMMA SinceServes ==
  ASSUME IInv, NEW n \in Node, NEW s \in Scope, NEW have, NEW f \in Since(n, s, have)
  PROVE  f \in Frame /\ f.scope = s /\ IsGenuine(f)
<1>1. PICK a \in Node : f \in ChainFrames(store[n][s][a])
  BY DEF Since
<1> DEFINE mine == store[n][s][a]
           own == store[a][s][a]
<1>2. mine \in Seq(Frame) /\ own \in Seq(Frame)
  BY DEF IInv, TypeOK
<1>3. PICK i \in 1..Len(mine) : f = mine[i]
  BY <1>1, <1>2 DEF ChainFrames
<1>4. f \in Frame /\ f.seq = i /\ f.scope = s /\ f.author = a
  BY <1>2, <1>3 DEF IInv, ChainLinked, Linked, Homed, HomedChain
<1>5. i <= Len(own) /\ own[i] = f
  BY <1>2, <1>3 DEF IInv, PrefixOfAuthor, PrefixOf
<1> QED
  BY <1>4, <1>5 DEF IsGenuine

LEMMA VectorType ==
  ASSUME IInv, NEW n \in Node, NEW s \in Scope
  PROVE  Vector(n, s) \in [Node -> 0..MaxFrames]
<1> SUFFICES ASSUME NEW a \in Node PROVE Vector(n, s)[a] \in 0..MaxFrames
  BY DEF Vector
<1>1. store[n][s][a] \in Seq(Frame) /\ Vector(n, s)[a] = Len(store[n][s][a])
  BY ChainFacts DEF IInv
<1>2. Len(store[n][s][a]) <= minted /\ minted \in 0..MaxFrames
  BY DEF IInv, TypeOK, Counted, CountedChain
<1> QED
  BY <1>1, <1>2, BoundAssumption

-----------------------------------------------------------------------------
(* The invariant is inductive.                                             *)

LEMMA InitIInv == Init => IInv
<1> SUFFICES ASSUME Init PROVE IInv
  OBVIOUS
<1>1. \A n, a \in Node, s \in Scope : store[n][s][a] = <<>>
  BY DEF Init
<1>2. <<>> \in Seq(Frame) /\ Len(<<>>) = 0
  OBVIOUS
<1>3. TypeOK
  BY <1>2, BoundAssumption DEF Init, TypeOK
<1>4. PrefixOfAuthor /\ ChainLinked /\ Homed
  BY <1>1, <1>2 DEF PrefixOfAuthor, PrefixOf, ChainLinked, Linked, Homed, HomedChain
<1>5. GenuineInFlight
  BY DEF Init, GenuineInFlight
<1>6. Counted
  BY <1>1, <1>2 DEF Init, Counted, CountedChain
<1> QED
  BY <1>3, <1>4, <1>5, <1>6 DEF IInv

\* A step that leaves the stores alone leaves their invariants alone.
LEMMA StoreUntouched ==
  ASSUME IInv, UNCHANGED <<store, clock, minted>>
  PROVE  /\ store' \in [Node -> [Scope -> [Node -> Seq(Frame)]]]
         /\ clock' \in [Node -> 0..MaxFrames] /\ minted' \in 0..MaxFrames
         /\ PrefixOfAuthor' /\ ChainLinked' /\ Counted' /\ Homed'
         /\ \A f : IsGenuine(f) => IsGenuine(f)'
BY DEF IInv, TypeOK, PrefixOfAuthor, ChainLinked, Counted, Homed, IsGenuine

LEMMA OwnChainsKept ==
  ASSUME \A a \in Node, s \in Scope : store'[a][s][a] = store[a][s][a]
  PROVE  \A f \in Frame : IsGenuine(f) => IsGenuine(f)'
BY DEF IsGenuine, Frame

LEMMA CommitStep ==
  ASSUME IInv, NEW n \in Node, NEW s \in Scope, Commit(n, s)
  PROVE  IInv'
<1>0. PICK f : f = NewFrame(n, s)
  OBVIOUS
<1> DEFINE chain == store[n][s][n]
<1>1. /\ store' \in [Node -> [Scope -> [Node -> Seq(Frame)]]]
      /\ clock' \in [Node -> 0..MaxFrames] /\ minted' \in 0..MaxFrames
      /\ store'[n][s][n] = Append(chain, f)
      /\ \A n2, a2 \in Node, s2 \in Scope :
           ~(n2 = n /\ s2 = s /\ a2 = n) => store'[n2][s2][a2] = store[n2][s2][a2]
      /\ PrefixOfAuthor' /\ ChainLinked' /\ Counted' /\ Homed'
  BY <1>0, CommitPreserves
<1>2. f \in Frame /\ f.scope = s /\ f.author = n /\ f.seq = Len(chain) + 1
  <2>1. minted < MaxFrames
    BY DEF Commit
  <2> QED
    BY <1>0, <2>1, NewFrameFacts
<1>3. PICK roster \in SUBSET (Node \ {n}) :
        pushes' = pushes \cup {[from |-> n, to |-> p, frame |-> f] : p \in roster \cap Acl[s]}
  BY <1>0 DEF Commit
<1>4. chain \in Seq(Frame)
  BY DEF IInv, TypeOK
<1>5. /\ Len(Append(chain, f)) = Len(chain) + 1
      /\ \A i \in 1..Len(chain) + 1 :
           Append(chain, f)[i] = IF i = Len(chain) + 1 THEN f ELSE chain[i]
  BY <1>2, <1>4, AppendIndex
<1>6. \A a \in Node, t \in Scope : PrefixOf(store[a][t][a], store'[a][t][a])
  <2> SUFFICES ASSUME NEW a \in Node, NEW t \in Scope
               PROVE  PrefixOf(store[a][t][a], store'[a][t][a])
    OBVIOUS
  <2>1. CASE a = n /\ t = s
    <3> HIDE DEF chain
    <3>1. Len(chain) \in Nat
      BY <1>4
    <3>2. PrefixOf(chain, Append(chain, f))
      BY <1>5, <3>1 DEF PrefixOf
    <3> QED
      BY <1>1, <2>1, <3>2 DEF chain
  <2>2. CASE ~(a = n /\ t = s)
    <3>1. store[a][t][a] \in Seq(Frame)
      BY DEF IInv, TypeOK
    <3>2. store'[a][t][a] = store[a][t][a]
      BY <1>1, <2>2
    <3>3. PrefixOf(store[a][t][a], store[a][t][a])
      BY <3>1 DEF PrefixOf
    <3> QED
      BY <3>2, <3>3
  <2> QED
    BY <2>1, <2>2
<1>7. IsGenuine(f)'
  <2>1. f.seq <= Len(store'[n][s][n]) /\ store'[n][s][n][f.seq] = f
    <3>1. store'[n][s][n] = Append(chain, f) /\ f.seq = Len(chain) + 1
      BY <1>1, <1>2
    <3>2. Len(chain) \in Nat /\ Len(chain) + 1 \in 1..Len(chain) + 1
      BY <1>4
    <3> HIDE DEF chain
    <3> QED
      BY <3>1, <3>2, <1>5
  <2> QED
    BY <1>2, <2>1 DEF IsGenuine
<1>8. TypeOK'
  <2>1. pushes' \subseteq Push
    BY <1>2, <1>3 DEF IInv, TypeOK, Push
  <2> QED
    BY <1>1, <2>1 DEF Commit, IInv, TypeOK
<1>9. GenuineInFlight'
  <2>1. ASSUME NEW m \in pushes' PROVE IsGenuine(m.frame)'
    <3>1. CASE m \in pushes
      <4>1. m.frame \in Frame /\ IsGenuine(m.frame)
        BY <3>1 DEF IInv, TypeOK, Push, GenuineInFlight
      <4> QED
        BY <1>6, <4>1, GenuineStays
    <3>2. CASE m.frame = f
      BY <1>7, <3>2
    <3> QED
      BY <1>3, <3>1, <3>2
  <2>2. ASSUME NEW r \in replies', NEW g \in r.todo PROVE IsGenuine(g)'
    <3>1. r \in replies
      BY DEF Commit
    <3>2. g \in Frame /\ IsGenuine(g)
      BY <3>1 DEF IInv, TypeOK, Reply, GenuineInFlight
    <3> QED
      BY <1>6, <3>2, GenuineStays
  <2> QED
    BY <2>1, <2>2 DEF GenuineInFlight
<1> QED
  BY <1>1, <1>8, <1>9 DEF IInv

LEMMA DeliverPushStep ==
  ASSUME IInv, NEW m \in pushes, DeliverPush(m)
  PROVE  IInv'
<1>1. m.to \in Node /\ m.from \in Node /\ m.frame \in Frame /\ m.frame.scope \in Scope
  BY DEF IInv, TypeOK, Push, Frame
<1>2. IsGenuine(m.frame) /\ Apply(m.to, m.frame) /\ minted' = minted
  BY DEF IInv, GenuineInFlight, DeliverPush
<1>3. /\ store' \in [Node -> [Scope -> [Node -> Seq(Frame)]]]
      /\ clock' \in [Node -> 0..MaxFrames]
      /\ PrefixOfAuthor' /\ ChainLinked' /\ Counted' /\ Homed'
      /\ \A a \in Node, s \in Scope : store'[a][s][a] = store[a][s][a]
  BY <1>1, <1>2, ApplyPreserves
<1>4. TypeOK'
  <2>1. pending' \subseteq Pending
    BY <1>1 DEF DeliverPush, IInv, TypeOK, Pending
  <2> QED
    BY <1>3, <2>1 DEF DeliverPush, IInv, TypeOK
<1>5. GenuineInFlight'
  <2>1. pushes' \subseteq pushes /\ replies' = replies
    BY DEF DeliverPush
  <2>2. \A f \in Frame : IsGenuine(f) => IsGenuine(f)'
    BY <1>3, OwnChainsKept
  <2> QED
    BY <2>1, <2>2 DEF IInv, TypeOK, Push, Reply, GenuineInFlight
<1> QED
  BY <1>3, <1>4, <1>5 DEF IInv

LEMMA ApplyNextStep ==
  ASSUME IInv, NEW r \in replies, ApplyNext(r)
  PROVE  IInv'
<1>1. PICK f \in r.todo :
        /\ Apply(r.at, f)
        /\ replies' = (replies \ {r}) \cup
             (IF Rest(r.at, f, r.todo) = {} THEN {}
              ELSE {[r EXCEPT !.todo = Rest(r.at, f, r.todo)]})
        /\ UNCHANGED <<pushes, pending, requests, minted, faults>>
  BY DEF ApplyNext
<1>2. r \in Reply /\ r.at \in Node /\ r.todo \subseteq Frame /\ f \in Frame /\ IsGenuine(f)
  BY DEF IInv, TypeOK, Reply, GenuineInFlight
<1>3. /\ store' \in [Node -> [Scope -> [Node -> Seq(Frame)]]]
      /\ clock' \in [Node -> 0..MaxFrames]
      /\ PrefixOfAuthor' /\ ChainLinked' /\ Counted' /\ Homed'
      /\ \A a \in Node, s \in Scope : store'[a][s][a] = store[a][s][a]
  BY <1>1, <1>2, ApplyPreserves
<1> DEFINE rest == Rest(r.at, f, r.todo)
           left == [r EXCEPT !.todo = rest]
<1>4. rest \subseteq r.todo
  BY DEF Rest
<1> HIDE DEF rest
<1>5. left \in Reply /\ left.todo = rest
  BY <1>2, <1>4 DEF Reply
<1>6. replies' \subseteq replies \cup {left}
  BY <1>1 DEF rest
<1> HIDE DEF left
<1>7. TypeOK'
  BY <1>1, <1>3, <1>5, <1>6 DEF IInv, TypeOK
<1>8. GenuineInFlight'
  <2>1. \A g \in Frame : IsGenuine(g) => IsGenuine(g)'
    BY <1>3, OwnChainsKept
  <2>2. \A m \in pushes' : IsGenuine(m.frame)'
    BY <1>1, <2>1 DEF IInv, TypeOK, Push, GenuineInFlight
  <2>3. ASSUME NEW q \in replies', NEW g \in q.todo PROVE IsGenuine(g)'
    <3>1. PICK q0 \in replies : g \in q0.todo
      BY <1>4, <1>5, <1>6
    <3> QED
      BY <2>1, <3>1 DEF IInv, TypeOK, Reply, GenuineInFlight
  <2> QED
    BY <2>2, <2>3 DEF GenuineInFlight
<1> QED
  BY <1>3, <1>7, <1>8 DEF IInv

\* Asking, answering, failing and restarting touch no store.
LEMMA AnswerStep ==
  ASSUME IInv, NEW q \in requests, Answer(q)
  PROVE  IInv'
<1>1. q.why \in Reason /\ q.at \in Node /\ q.peer \in Node /\ q.scope \in Scope
  BY DEF IInv, TypeOK, Request
<1> DEFINE todo == IF q.at \in Acl[q.scope] THEN Since(q.peer, q.scope, q.have) ELSE {}
           new == [why |-> q.why, at |-> q.at, todo |-> todo]
<1>2. \A f \in todo : f \in Frame /\ IsGenuine(f)
  BY <1>1, SinceServes
<1>3. replies' \subseteq replies \cup {new} /\ UNCHANGED <<store, clock, pushes, pending, minted, faults>>
  BY DEF Answer
<1>4. requests' \subseteq requests
  BY DEF Answer
<1> HIDE DEF todo
<1>5. new \in Reply
  BY <1>1, <1>2 DEF Reply
<1>6. /\ store' \in [Node -> [Scope -> [Node -> Seq(Frame)]]]
      /\ clock' \in [Node -> 0..MaxFrames] /\ minted' \in 0..MaxFrames
      /\ PrefixOfAuthor' /\ ChainLinked' /\ Counted' /\ Homed'
      /\ \A f : IsGenuine(f) => IsGenuine(f)'
  BY <1>3, StoreUntouched
<1>7. TypeOK'
  BY <1>3, <1>4, <1>5, <1>6 DEF IInv, TypeOK
<1>8. GenuineInFlight'
  BY <1>2, <1>3, <1>6 DEF IInv, GenuineInFlight
<1> QED
  BY <1>6, <1>7, <1>8 DEF IInv

LEMMA AskStep ==
  ASSUME IInv, NEW n \in Node, NEW p \in Node, NEW s \in Scope, NEW why \in Reason,
         Ask(n, p, s, why), pending' \subseteq pending,
         UNCHANGED <<store, clock, pushes, replies, minted, faults>>
  PROVE  IInv'
<1>1. [why |-> why, at |-> n, peer |-> p, scope |-> s, have |-> Vector(n, s)] \in Request
  BY VectorType DEF Request
<1>2. requests' \subseteq Request
  BY <1>1 DEF Ask, IInv, TypeOK
<1>3. /\ store' \in [Node -> [Scope -> [Node -> Seq(Frame)]]]
      /\ clock' \in [Node -> 0..MaxFrames] /\ minted' \in 0..MaxFrames
      /\ PrefixOfAuthor' /\ ChainLinked' /\ Counted' /\ Homed'
      /\ \A f : IsGenuine(f) => IsGenuine(f)'
  BY StoreUntouched
<1>4. TypeOK'
  BY <1>2, <1>3 DEF IInv, TypeOK
<1>5. GenuineInFlight'
  BY <1>3 DEF IInv, GenuineInFlight
<1> QED
  BY <1>3, <1>4, <1>5 DEF IInv

LEMMA FaultStep ==
  ASSUME IInv,
         \/ \E q \in requests : Fail(q)
         \/ \E n \in Node : Restart(n)
  PROVE  IInv'
<1>1. /\ store' = store /\ minted' = minted /\ pushes' = pushes
      /\ pending' \subseteq pending /\ requests' \subseteq requests /\ replies' \subseteq replies
      /\ faults' \in 0..MaxFaults
  BY BoundAssumption DEF Fail, Restart, IInv, TypeOK
<1>2. /\ clock' \in [Node -> 0..MaxFrames]
      /\ \A n \in Node : clock'[n] <= minted
  <2>1. clock \in [Node -> 0..MaxFrames] /\ (\A n \in Node : clock[n] <= minted) /\ minted \in Nat
    BY BoundAssumption DEF IInv, TypeOK, Counted
  <2>2. clock' = clock \/ \E n \in Node : clock' = [clock EXCEPT ![n] = 0]
    BY DEF Fail, Restart
  <2> QED
    BY <2>1, <2>2, BoundAssumption
<1>3. PrefixOfAuthor' /\ ChainLinked' /\ Homed'
  BY <1>1 DEF IInv, PrefixOfAuthor, ChainLinked, Homed
<1>4. Counted'
  BY <1>1, <1>2 DEF IInv, Counted
<1>5. TypeOK'
  BY <1>1, <1>2 DEF IInv, TypeOK
<1>6. GenuineInFlight'
  BY <1>1 DEF IInv, GenuineInFlight, IsGenuine
<1> QED
  BY <1>3, <1>4, <1>5, <1>6 DEF IInv

LEMMA StepIInv == IInv /\ [Next]_vars => IInv'
<1> SUFFICES ASSUME IInv, [Next]_vars PROVE IInv'
  OBVIOUS
<1>1. ASSUME NEW n \in Node, NEW s \in Scope, Commit(n, s) PROVE IInv'
  BY <1>1, CommitStep
<1>2. ASSUME NEW m \in pushes, DeliverPush(m) PROVE IInv'
  BY <1>2, DeliverPushStep
<1>3. ASSUME NEW g \in pending, GapPull(g) PROVE IInv'
  <2>1. g.at \in Node /\ g.peer \in Node /\ g.scope \in Scope
    BY DEF IInv, TypeOK, Pending
  <2>2. /\ Ask(g.at, g.peer, g.scope, "gap") /\ "gap" \in Reason /\ pending' \subseteq pending
        /\ UNCHANGED <<store, clock, pushes, replies, minted, faults>>
    BY <1>3 DEF GapPull, Reason
  <2> QED
    BY <2>1, <2>2, AskStep
<1>4. ASSUME NEW n \in Node, NEW p \in Node, NEW s \in Scope, TickPull(n, p, s) PROVE IInv'
  <2>1. /\ Ask(n, p, s, "tick") /\ "tick" \in Reason /\ pending' \subseteq pending
        /\ UNCHANGED <<store, clock, pushes, replies, minted, faults>>
    BY <1>4 DEF TickPull, Reason
  <2> QED
    BY <2>1, AskStep
<1>5. ASSUME NEW q \in requests, Answer(q) PROVE IInv'
  BY <1>5, AnswerStep
<1>6. ASSUME NEW r \in replies, ApplyNext(r) PROVE IInv'
  BY <1>6, ApplyNextStep
<1>7. ASSUME \/ \E q \in requests : Fail(q)
             \/ \E n \in Node : Restart(n)
      PROVE  IInv'
  BY <1>7, FaultStep
<1>8. CASE UNCHANGED vars
  <2>1. PrefixOfAuthor' /\ ChainLinked' /\ Homed' /\ Counted'
    BY <1>8 DEF vars, IInv, PrefixOfAuthor, ChainLinked, Homed, Counted
  <2>2. TypeOK' /\ GenuineInFlight'
    BY <1>8 DEF vars, IInv, TypeOK, GenuineInFlight, IsGenuine
  <2> QED
    BY <2>1, <2>2 DEF IInv
<1> QED
  BY <1>1, <1>2, <1>3, <1>4, <1>5, <1>6, <1>7, <1>8 DEF Next

LEMMA Invariance == Spec => []IInv
BY InitIInv, StepIInv, PTL DEF Spec

\* Every variable keeps its type, and no stamp or sequence number outruns the
\* number of frames committed, for any number of peers, scopes and frames.
THEOREM TypeCorrect == Spec => []TypeOK
<1>1. IInv => TypeOK
  BY DEF IInv
<1> QED
  BY Invariance, <1>1, PTL

\* Replicas never fork: each holds a prefix of what the author holds.
THEOREM NoFork == Spec => []PrefixOfAuthor
<1>1. IInv => PrefixOfAuthor
  BY DEF IInv
<1> QED
  BY Invariance, <1>1, PTL

\* Every stored chain is numbered, linked and stamped in ascending order.
THEOREM ChainsAreLinked == Spec => []ChainLinked
<1>1. IInv => ChainLinked
  BY DEF IInv
<1> QED
  BY Invariance, <1>1, PTL
-----------------------------------------------------------------------------
(* Membership gating, causal stamps, and the abstract log.                 *)

\* Apply stores at most in the scope and under the author of its frame.
LEMMA ApplyElsewhere ==
  ASSUME IInv, NEW n \in Node, NEW f \in Frame, Apply(n, f),
         NEW m \in Node, NEW s \in Scope, NEW a \in Node,
         ~(m = n /\ s = f.scope /\ a = f.author)
  PROVE  store'[m][s][a] = store[m][s][a]
<1>1. store' = AppendTo(n, f) /\ TypeOK
  BY DEF Apply, IInv
<1>2. CASE store' = store
  BY <1>2
<1>3. CASE store' # store
  <2>1. \A n2, a2 \in Node, s2 \in Scope :
          ~(n2 = n /\ s2 = f.scope /\ a2 = f.author)
            => store'[n2][s2][a2] = store[n2][s2][a2]
    BY <1>1, <1>3, AppendAt
  <2> QED
    BY <2>1
<1> QED
  BY <1>2, <1>3

LEMMA MembersStep ==
  IInv /\ ServedToMembersOnly /\ [Next]_vars => ServedToMembersOnly'
<1> SUFFICES ASSUME IInv, ServedToMembersOnly, [Next]_vars PROVE ServedToMembersOnly'
  OBVIOUS
<1> DEFINE Strangers ==
             \A n \in Node, s \in Scope :
               n \notin Acl[s] => \A a \in Node \ {n} : store[n][s][a] = <<>>
           Pushed == \A m \in pushes : m.to \in Acl[m.frame.scope]
           Replied == \A r \in replies : \A f \in r.todo : r.at \in Acl[f.scope]
<1>1. Strangers /\ Pushed /\ Replied
  BY DEF ServedToMembersOnly
<1>2. ASSUME NEW n \in Node, NEW s \in Scope, Commit(n, s) PROVE ServedToMembersOnly'
  <2>1. Strangers'
    <3>1. \A n2, a2 \in Node, s2 \in Scope :
            ~(n2 = n /\ s2 = s /\ a2 = n) => store'[n2][s2][a2] = store[n2][s2][a2]
      BY <1>2, CommitPreserves
    <3> QED
      BY <1>1, <3>1
  <2>2. PICK f : f = NewFrame(n, s) /\ f.scope = s
    <3>1. NewFrame(n, s).scope = s
      BY DEF NewFrame
    <3> QED
      BY <3>1
  <2>3. Pushed'
    BY <1>1, <1>2, <2>2 DEF Commit
  <2>4. Replied'
    BY <1>1, <1>2 DEF Commit
  <2> QED
    BY <2>1, <2>3, <2>4 DEF ServedToMembersOnly
<1>3. ASSUME NEW m \in pushes, DeliverPush(m) PROVE ServedToMembersOnly'
  <2>1. m.to \in Node /\ m.frame \in Frame /\ Apply(m.to, m.frame) /\ m.to \in Acl[m.frame.scope]
    BY <1>1, <1>3 DEF DeliverPush, IInv, TypeOK, Push
  <2>2. Strangers'
    BY <1>1, <2>1, ApplyElsewhere
  <2>3. Pushed' /\ Replied'
    BY <1>1, <1>3 DEF DeliverPush
  <2> QED
    BY <2>2, <2>3 DEF ServedToMembersOnly
<1>4. ASSUME NEW r \in replies, ApplyNext(r) PROVE ServedToMembersOnly'
  <2>1. PICK f \in r.todo :
          /\ Apply(r.at, f)
          /\ replies' = (replies \ {r}) \cup
               (IF Rest(r.at, f, r.todo) = {} THEN {}
                ELSE {[r EXCEPT !.todo = Rest(r.at, f, r.todo)]})
          /\ pushes' = pushes
    BY <1>4 DEF ApplyNext
  <2>2. r \in Reply /\ r.at \in Node /\ f \in Frame /\ r.at \in Acl[f.scope]
    BY <1>1 DEF IInv, TypeOK, Reply
  <2>3. Strangers'
    BY <1>1, <2>1, <2>2, ApplyElsewhere
  <2>4. Replied'
    <3> SUFFICES ASSUME NEW q \in replies', NEW g \in q.todo PROVE q.at \in Acl[g.scope]
      OBVIOUS
    <3> DEFINE rest == Rest(r.at, f, r.todo)
               left == [r EXCEPT !.todo = rest]
    <3>1. rest \subseteq r.todo
      BY DEF Rest
    <3> HIDE DEF rest
    <3>2. left.at = r.at /\ left.todo = rest
      BY <2>2 DEF Reply
    <3>3. q \in replies \/ q = left
      BY <2>1 DEF rest
    <3> QED
      BY <1>1, <3>1, <3>2, <3>3
  <2>5. Pushed'
    BY <1>1, <2>1
  <2> QED
    BY <2>3, <2>4, <2>5 DEF ServedToMembersOnly
<1>5. ASSUME NEW q \in requests, Answer(q) PROVE ServedToMembersOnly'
  <2> DEFINE todo == IF q.at \in Acl[q.scope] THEN Since(q.peer, q.scope, q.have) ELSE {}
             new == [why |-> q.why, at |-> q.at, todo |-> todo]
  <2>1. \A f \in todo : q.at \in Acl[f.scope]
    BY SinceServes DEF IInv, TypeOK, Request
  <2>2. replies' \subseteq replies \cup {new} /\ pushes' = pushes /\ store' = store
    BY <1>5 DEF Answer
  <2> HIDE DEF todo
  <2> QED
    BY <1>1, <2>1, <2>2 DEF ServedToMembersOnly
<1>6. CASE \/ \E g \in pending : GapPull(g)
           \/ \E n, p \in Node, s \in Scope : TickPull(n, p, s)
           \/ \E q \in requests : Fail(q)
           \/ \E n \in Node : Restart(n)
           \/ UNCHANGED vars
  <2>1. store' = store /\ pushes' = pushes /\ replies' \subseteq replies
    BY <1>6 DEF GapPull, TickPull, Fail, Restart, vars
  <2> QED
    BY <1>1, <2>1 DEF ServedToMembersOnly
<1> QED
  BY <1>2, <1>3, <1>4, <1>5, <1>6 DEF Next

\* A peer outside a scope never obtains a frame of it from another peer.
THEOREM MembersOnly == Spec => []ServedToMembersOnly
<1>1. Init => ServedToMembersOnly
  BY DEF Init, ServedToMembersOnly
<1> QED
  BY <1>1, MembersStep, Invariance, PTL DEF Spec

\* An author's chain grows in no step but the author's own commit.
LEMMA OnlyCommitExtends ==
  ASSUME IInv, [Next]_vars, ~(\E n \in Node, s \in Scope : Commit(n, s))
  PROVE  \A a \in Node, s \in Scope : store'[a][s][a] = store[a][s][a]
<1>1. ASSUME NEW m \in pushes, DeliverPush(m)
      PROVE  \A a \in Node, s \in Scope : store'[a][s][a] = store[a][s][a]
  <2>1. /\ m.to \in Node /\ m.frame \in Frame /\ IsGenuine(m.frame)
        /\ Apply(m.to, m.frame) /\ minted' = minted
    BY <1>1 DEF DeliverPush, IInv, TypeOK, Push, GenuineInFlight
  <2> QED
    BY <2>1, ApplyPreserves
<1>2. ASSUME NEW r \in replies, ApplyNext(r)
      PROVE  \A a \in Node, s \in Scope : store'[a][s][a] = store[a][s][a]
  <2>1. PICK f \in r.todo : Apply(r.at, f) /\ minted' = minted
    BY <1>2 DEF ApplyNext
  <2>2. r.at \in Node /\ f \in Frame /\ IsGenuine(f)
    BY DEF IInv, TypeOK, Reply, GenuineInFlight
  <2> QED
    BY <2>1, <2>2, ApplyPreserves
<1>3. CASE \/ \E g \in pending : GapPull(g)
           \/ \E n, p \in Node, s \in Scope : TickPull(n, p, s)
           \/ \E q \in requests : Answer(q) \/ Fail(q)
           \/ \E n \in Node : Restart(n)
           \/ UNCHANGED vars
  BY <1>3 DEF GapPull, TickPull, Answer, Fail, Restart, vars
<1> QED
  BY <1>1, <1>2, <1>3 DEF Next

\* A commit is stamped above everything its author has stored.
THEOREM StampsAbove == Spec => CommitStampsAbove
<1> DEFINE Stamped ==
      \A n \in Node, s \in Scope :
        minted' > minted /\ Len(store'[n][s][n]) > Len(store[n][s][n]) =>
          LET new == store'[n][s][n][Len(store'[n][s][n])] IN
          \A f \in Stored(n) : f.lamport < new.lamport
<1>1. IInv /\ [Next]_vars => Stamped
  <2> SUFFICES ASSUME IInv, [Next]_vars, NEW n \in Node, NEW s \in Scope,
                      Len(store'[n][s][n]) > Len(store[n][s][n]), NEW g \in Stored(n)
               PROVE  g.lamport < store'[n][s][n][Len(store'[n][s][n])].lamport
    OBVIOUS
  <2>1. Len(store[n][s][n]) \in Nat /\ store[n][s][n] \in Seq(Frame)
    BY DEF IInv, TypeOK
  <2>2. PICK n2 \in Node, s2 \in Scope : Commit(n2, s2)
    <3>1. store'[n][s][n] # store[n][s][n]
      BY <2>1
    <3> QED
      BY <3>1, OnlyCommitExtends
  <2>3. n2 = n /\ s2 = s
    <3>1. store'[n][s][n] # store[n][s][n]
      BY <2>1
    <3> QED
      BY <2>2, <3>1, CommitPreserves
  <2>4. PICK f : f = NewFrame(n, s)
    OBVIOUS
  <2>5. /\ store'[n][s][n] = Append(store[n][s][n], f)
        /\ f \in Frame /\ g.lamport < f.lamport
    <3>1. minted < MaxFrames
      BY <2>2 DEF Commit
    <3> QED
      BY <2>2, <2>3, <2>4, <3>1, CommitPreserves, NewFrameFacts
  <2>6. store'[n][s][n][Len(store'[n][s][n])] = f
    BY <2>1, <2>5
  <2> QED
    BY <2>5, <2>6
<1>2. IInv /\ [Next]_vars => [Stamped]_vars
  BY <1>1
<1> QED
  BY <1>2, Invariance, PTL DEF Spec, CommitStampsAbove
-----------------------------------------------------------------------------
(* Refinement.                                                             *)

\* Applying a genuine frame is a Learn step of the abstract log, or no step.
LEMMA ApplyRefines ==
  ASSUME IInv, NEW n \in Node, NEW f \in Frame, IsGenuine(f), Apply(n, f), minted' = minted
  PROVE  \/ Abstract!Learn(n, f.scope, f.author)
         \/ UNCHANGED <<OwnLog, store>>
<1> DEFINE chain == store[n][f.scope][f.author]
           own == store[f.author][f.scope][f.author]
<1>1. f.scope \in Scope /\ f.author \in Node /\ f.seq \in Nat
  BY FrameNumbers DEF Frame
<1>2. \A a \in Node, s \in Scope : store'[a][s][a] = store[a][s][a]
  BY ApplyPreserves
<1>3. OwnLog' = OwnLog
  BY <1>2 DEF OwnLog
<1>4. CASE store' = store
  BY <1>3, <1>4, SMTT(30)
<1>5. CASE ~Has(chain, f) /\ Extends(chain, f)
  <2>1. chain \in Seq(Frame) /\ f.seq = Len(chain) + 1
    BY <1>1, <1>5, ChainFacts DEF IInv, Extends
  <2>2. f.seq <= Len(own) /\ own[f.seq] = f
    BY DEF IsGenuine
  <2>3. store' = [store EXCEPT ![n][f.scope][f.author] = Append(@, f)]
    BY <1>5 DEF Apply, AppendTo
  <2>4. OwnLog[f.scope][f.author] = own
    BY <1>1 DEF OwnLog
  <2>5. Len(chain) + 1 <= Len(OwnLog[f.scope][f.author])
    BY <2>1, <2>2, <2>4
  <2>6. f = OwnLog[f.scope][f.author][Len(chain) + 1]
    BY <2>1, <2>2, <2>4, SMTT(30)
  <2>7. store' = [store EXCEPT ![n][f.scope][f.author] =
                    Append(@, OwnLog[f.scope][f.author][Len(chain) + 1])]
    BY <2>3, <2>6
  <2> QED
    BY <1>3, <2>5, <2>7 DEF Abstract!Learn
<1>6. store' = AppendTo(n, f) /\ TypeOK
  BY DEF Apply, IInv
<1> QED
  BY <1>4, <1>5, <1>6, AppendAt

LEMMA CommitRefines ==
  ASSUME IInv, NEW n \in Node, NEW s \in Scope, Commit(n, s)
  PROVE  Abstract!Write(n, s)
<1>1. PICK f : f = NewFrame(n, s)
  OBVIOUS
<1>2. f \in Frame /\ f.scope = s /\ f.author = n
      /\ ~Has(store[n][s][n], f) /\ Extends(store[n][s][n], f)
  <2>1. minted < MaxFrames
    BY DEF Commit
  <2> QED
    BY <1>1, <2>1, NewFrameFacts
<1>3. store' = [store EXCEPT ![n][s][n] = Append(@, f)]
  <2>1. store' = AppendTo(n, f)
    BY <1>1 DEF Commit
  <2> QED
    BY <1>2, <2>1 DEF AppendTo
<1>4. /\ store'[n][s][n] = Append(store[n][s][n], f)
      /\ \A n2, a2 \in Node, s2 \in Scope :
           ~(n2 = n /\ s2 = s /\ a2 = n) => store'[n2][s2][a2] = store[n2][s2][a2]
  BY <1>1, CommitPreserves
<1>5. \A t \in Scope, a \in Node :
        OwnLog'[t][a] = IF t = s /\ a = n THEN Append(OwnLog[s][n], f) ELSE OwnLog[t][a]
  BY <1>4 DEF OwnLog
<1>6. OwnLog' = [OwnLog EXCEPT ![s][n] = Append(@, f)]
  <2> DEFINE up == [OwnLog EXCEPT ![s][n] = Append(@, f)]
  <2>1. \A t \in Scope : OwnLog'[t] = up[t]
    <3> SUFFICES ASSUME NEW t \in Scope PROVE OwnLog'[t] = up[t]
      OBVIOUS
    <3>1. OwnLog'[t] = [a \in Node |-> OwnLog'[t][a]]
      BY DEF OwnLog
    <3>2. up[t] = [a \in Node |-> IF t = s /\ a = n THEN Append(OwnLog[s][n], f) ELSE OwnLog[t][a]]
      BY DEF OwnLog
    <3> QED
      BY <1>5, <3>1, <3>2
  <2>2. OwnLog' = [t \in Scope |-> OwnLog'[t]] /\ up = [t \in Scope |-> up[t]]
    BY DEF OwnLog
  <2> QED
    BY <2>1, <2>2
<1>7. store' = [store EXCEPT ![n][s][n] = OwnLog'[s][n]]
  BY <1>3, <1>4, <1>5 DEF OwnLog
<1> QED
  BY <1>2, <1>6, <1>7 DEF Abstract!Write

LEMMA StepRefines ==
  IInv /\ [Next]_vars => [Abstract!Next]_<<OwnLog, store>>
<1> SUFFICES ASSUME IInv, [Next]_vars PROVE Abstract!Next \/ UNCHANGED <<OwnLog, store>>
  OBVIOUS
<1>1. ASSUME NEW n \in Node, NEW s \in Scope, Commit(n, s) PROVE Abstract!Next
  BY <1>1, CommitRefines DEF Abstract!Next
<1>2. ASSUME NEW m \in pushes, DeliverPush(m)
      PROVE  Abstract!Next \/ UNCHANGED <<OwnLog, store>>
  <2>1. /\ m.to \in Node /\ m.frame \in Frame /\ IsGenuine(m.frame)
        /\ m.frame.scope \in Scope /\ m.frame.author \in Node
        /\ Apply(m.to, m.frame) /\ minted' = minted
    BY <1>2 DEF DeliverPush, IInv, TypeOK, Push, GenuineInFlight, Frame
  <2> QED
    BY <2>1, ApplyRefines DEF Abstract!Next
<1>3. ASSUME NEW r \in replies, ApplyNext(r)
      PROVE  Abstract!Next \/ UNCHANGED <<OwnLog, store>>
  <2>1. PICK f \in r.todo : Apply(r.at, f) /\ minted' = minted
    BY <1>3 DEF ApplyNext
  <2>2. /\ r.at \in Node /\ f \in Frame /\ IsGenuine(f)
        /\ f.scope \in Scope /\ f.author \in Node
    BY DEF IInv, TypeOK, Reply, GenuineInFlight, Frame
  <2> QED
    BY <2>1, <2>2, ApplyRefines DEF Abstract!Next
<1>4. CASE \/ \E g \in pending : GapPull(g)
           \/ \E n, p \in Node, s \in Scope : TickPull(n, p, s)
           \/ \E q \in requests : Answer(q) \/ Fail(q)
           \/ \E n \in Node : Restart(n)
           \/ UNCHANGED vars
  <2>1. store' = store
    BY <1>4 DEF GapPull, TickPull, Answer, Fail, Restart, vars
  <2> QED
    BY <2>1 DEF OwnLog
<1> QED
  BY <1>1, <1>2, <1>3, <1>4 DEF Next

\* The replicated log of the code implements the abstract one: append-only
\* author logs, of which every replica learns one entry after the other.
THEOREM Implements == Spec => ImplementsReplicatedLog
<1>1. Init => Abstract!Init
  BY DEF Init, Abstract!Init, OwnLog
<1> QED
  BY <1>1, StepRefines, Invariance, PTL
     DEF Spec, ImplementsReplicatedLog, Abstract!Spec, Abstract!vars
=============================================================================
