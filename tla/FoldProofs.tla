------------------------------ MODULE FoldProofs ------------------------------
(***************************************************************************)
(* BlockFold: for any peers, blocks, owners and bounds, the cache of a     *)
(* peer is the fold of its log, and only its owner deletes a block.        *)
(***************************************************************************)
EXTENDS BlockFold, NatOrder, FiniteSetTheorems, SequenceTheorems

-----------------------------------------------------------------------------
(* The order of frames.                                                    *)

\* What is written has one frame of each ID, and of each stamp of an author.
Distinct(W) ==
  /\ W \subseteq Frame
  /\ \A f, g \in W : f.id = g.id => f = g
  /\ \A f, g \in W : f.author = g.author /\ f.lamport = g.lamport => f = g

LEMMA BelowIsTotal ==
  ASSUME NEW W, Distinct(W)
  PROVE  /\ \A f, g \in W : f = g \/ Below(f, g) \/ Below(g, f)
         /\ \A f, g, h \in W : Below(f, g) /\ Below(g, h) => Below(f, h)
         /\ \A f, g \in W : ~(Below(f, g) /\ Below(g, f))
<1>1. ASSUME NEW f \in W
      PROVE  f.lamport \in Nat /\ f.author \in Node /\ Rank[f.author] \in Nat
  <2>1. f \in Frame
    BY DEF Distinct
  <2>2. f.lamport \in 1..MaxStamp /\ f.author \in Node
    BY <2>1 DEF Frame
  <2> QED
    BY <2>2, RankAssumption, BoundAssumption
<1>2. ASSUME NEW f \in W, NEW g \in W, f # g PROVE Below(f, g) \/ Below(g, f)
  <2>1. f.lamport = g.lamport => Rank[f.author] # Rank[g.author]
    BY <1>1, <1>2, RankAssumption DEF Distinct
  <2> QED
    BY <1>1, <2>1 DEF Below
<1>3. ASSUME NEW f \in W, NEW g \in W, NEW h \in W, Below(f, g), Below(g, h) PROVE Below(f, h)
  BY <1>1, <1>3 DEF Below
<1>4. ASSUME NEW f \in W, NEW g \in W PROVE ~(Below(f, g) /\ Below(g, f))
  BY <1>1 DEF Below
<1> QED
  BY <1>2, <1>3, <1>4

\* Latest is the last of any frames written: by induction on the largest ID.
LEMMA LatestIsLast ==
  ASSUME NEW W, Distinct(W), NEW S \in SUBSET W, S # {}
  PROVE  Latest(S) \in S /\ \A g \in S \ {Latest(S)} : Below(g, Latest(S))
<1> DEFINE HasLast(T) == \E f \in T : \A g \in T \ {f} : Below(g, f)
           Bad == {k \in Nat : \E T \in SUBSET W : /\ T # {} /\ ~HasLast(T)
                                                   /\ \A f \in T : f.id <= k}
<1>1. \A f \in W : f.id \in Nat /\ f.id >= 1 /\ f.id <= MaxFrames
  BY BoundAssumption DEF Distinct, Frame, Ids
<1>2. Bad = {}
  <2> SUFFICES ASSUME Bad # {} PROVE FALSE
    OBVIOUS
  <2>1. PICK k \in Bad : \A l \in Bad : k <= l
    BY LeastOfNats
  <2>2. PICK T \in SUBSET W : T # {} /\ ~HasLast(T) /\ \A f \in T : f.id <= k
    OBVIOUS
  <2>3. k \in Nat /\ k >= 1
    BY <1>1, <2>2
  <2>4. k - 1 \notin Bad /\ k - 1 \in Nat
    BY <2>1, <2>3
  <2>5. PICK f \in T : f.id = k
    <3> SUFFICES ASSUME \A f \in T : f.id # k PROVE FALSE
      OBVIOUS
    <3>1. \A f \in T : f.id <= k - 1
      BY <1>1, <2>2, <2>3
    <3> QED
      BY <2>2, <2>4, <3>1
  <2>6. \A g \in T \ {f} : g.id <= k - 1
    BY <1>1, <2>2, <2>3, <2>5 DEF Distinct
  <2>7. CASE T \ {f} = {}
    BY <2>2, <2>7
  <2>8. CASE T \ {f} # {}
    <3>1. HasLast(T \ {f})
      BY <2>4, <2>6, <2>8
    <3>2. PICK m \in T \ {f} : \A g \in (T \ {f}) \ {m} : Below(g, m)
      BY <3>1
    <3>3. CASE Below(m, f)
      <4>1. \A g \in T \ {f} : Below(g, f)
        BY <3>2, <3>3, BelowIsTotal
      <4> QED
        BY <2>2, <4>1
    <3>4. CASE Below(f, m)
      <4>1. \A g \in T \ {m} : Below(g, m)
        BY <3>2, <3>4
      <4> QED
        BY <2>2, <3>2, <4>1
    <3> QED
      BY <3>2, <3>3, <3>4, BelowIsTotal
  <2> QED
    BY <2>7, <2>8
<1>3. HasLast(S)
  <2>1. MaxFrames \in Nat /\ MaxFrames \notin Bad
    BY <1>2, BoundAssumption
  <2> QED
    BY <1>1, <2>1
<1> QED
  BY <1>3 DEF Latest

-----------------------------------------------------------------------------
(* The fold.                                                               *)

FoldStep(f, by) == IF Counts(f) THEN [by EXCEPT ![f.bid] = Accumulate(@, f)] ELSE by

FoldOf(by, S) == MapThenFoldSet(FoldStep, by, LAMBDA f : f, Latest, S)

LEMMA FoldIntoIs ==
  ASSUME NEW cf, NEW frames
  PROVE  FoldInto(cf, frames) = [vec |-> cf.vec,
                                 seen |-> cf.seen \cup {f.id : f \in Unseen(cf, frames)},
                                 by |-> FoldOf(cf.by, Unseen(cf, frames))]
BY DEF FoldInto, FoldOf, FoldStep, MapThenFoldSet

\* The recursion of the fold is one on the size of the set: it defines a function.
Folds(iter, by, S) ==
  iter = [s \in SUBSET S |-> IF s = {} THEN by
                             ELSE FoldStep(Latest(s), iter[s \ {Latest(s)}])]

LEMMA FoldIsDefined ==
  ASSUME NEW by, NEW W, Distinct(W), NEW S \in SUBSET W, IsFiniteSet(S)
  PROVE  \E iter : Folds(iter, by, S) /\ FoldOf(by, S) = iter[S]
<1> DEFINE Upto(k) == {s \in SUBSET S : Cardinality(s) <= k}
           Rec(k, g) == g = [s \in Upto(k) |->
                              IF s = {} THEN by ELSE FoldStep(Latest(s), g[s \ {Latest(s)}])]
           Bad == {k \in Nat : ~\E g : Rec(k, g)}
<1>1. \A s \in SUBSET S : /\ IsFiniteSet(s) /\ Cardinality(s) \in Nat
                          /\ Cardinality(s) <= Cardinality(S)
  BY FS_Subset, FS_CardinalityType
<1>2. \A s \in SUBSET S : s # {} =>
        /\ Latest(s) \in s /\ s \ {Latest(s)} \in SUBSET S
        /\ Cardinality(s \ {Latest(s)}) = Cardinality(s) - 1 /\ Cardinality(s) # 0
  BY <1>1, LatestIsLast, FS_RemoveElement, FS_EmptySet
<1>3. Bad = {}
  <2> SUFFICES ASSUME Bad # {} PROVE FALSE
    OBVIOUS
  <2>1. PICK k \in Bad : \A l \in Bad : k <= l
    BY LeastOfNats
  <2>2. CASE k = 0
    <3> DEFINE g == [s \in Upto(k) |-> by]
    <3>1. \A s \in Upto(k) : s = {}
      BY <1>1, <2>2, FS_EmptySet
    <3>2. Rec(k, g)
      BY <3>1
    <3> QED
      BY <2>1, <3>2
  <2>3. CASE k # 0
    <3>1. k \in Nat /\ k - 1 \in Nat /\ k - 1 \notin Bad
      <4>1. k \in Nat
        OBVIOUS
      <4> HIDE DEF Bad
      <4> QED
        BY <2>1, <2>3, <4>1
    <3>2. PICK h : Rec(k - 1, h)
      BY <3>1
    <3> DEFINE g == [s \in Upto(k) |-> IF s = {} THEN by
                                       ELSE FoldStep(Latest(s), h[s \ {Latest(s)}])]
    <3>3. \A s \in Upto(k) : s # {} => s \ {Latest(s)} \in Upto(k - 1)
      BY <1>1, <1>2, <3>1
    <3>4. \A s \in Upto(k - 1) : s \in Upto(k) /\ g[s] = h[s]
      <4>1. \A s \in Upto(k - 1) : s \in Upto(k)
        BY <1>1, <3>1
      <4>2. \A s \in Upto(k - 1) :
              h[s] = IF s = {} THEN by ELSE FoldStep(Latest(s), h[s \ {Latest(s)}])
        BY <3>2
      <4> QED
        BY <4>1, <4>2
    <3>5. Rec(k, g)
      <4>1. \A s \in Upto(k) : s # {} => g[s \ {Latest(s)}] = h[s \ {Latest(s)}]
        BY <3>3, <3>4
      <4> QED
        BY <4>1
    <3> QED
      BY <2>1, <3>5
  <2> QED
    BY <2>2, <2>3
<1>4. \E g : Folds(g, by, S)
  <2>1. Cardinality(S) \in Nat /\ Cardinality(S) \notin Bad
    BY <1>1, <1>3
  <2>2. PICK g : Rec(Cardinality(S), g)
    BY <2>1
  <2>3. Upto(Cardinality(S)) = SUBSET S
    BY <1>1
  <2> QED
    BY <2>2, <2>3 DEF Folds
<1> DEFINE chosen == CHOOSE g : Folds(g, by, S)
<1>5. Folds(chosen, by, S)
  BY <1>4
<1>6. FoldOf(by, S) = chosen[S]
  BY DEF FoldOf, MapThenFoldSet, Folds
<1> QED
  BY <1>5, <1>6

-----------------------------------------------------------------------------
(* What a block has accumulated.                                           *)

\* Whatever order they came in, acc is what the versions V fold to.
Placed(acc, V) ==
  IF \A f \in V : f.pos = NoPos THEN acc.pos = NoPos /\ acc.posLamport = 0
  ELSE \E f \in V : /\ f.pos # NoPos /\ f.pos = acc.pos /\ f.lamport = acc.posLamport
                    /\ \A g \in V : g.pos # NoPos => g.lamport <= f.lamport

Holds(acc, V) ==
  /\ acc \in Acc /\ V \subseteq Frame /\ IsFiniteSet(V)
  /\ Versions(acc) = V /\ Len(acc.versions) = Cardinality(V)
  /\ \A p \in Ids : p \in acc.parents <=> \E f \in V : p \in f.parents
  /\ IF V = {} THEN acc = NoBlock ELSE acc.type \in BlockType
  /\ Placed(acc, V)

LEMMA NothingHolds == Holds(NoBlock, {})
<1>1. NoBlock \in Acc
  BY BoundAssumption DEF NoBlock, Acc, NoPos
<1>2. Versions(NoBlock) = {} /\ Len(NoBlock.versions) = 0 /\ NoBlock.parents = {}
  BY DEF NoBlock, Versions
<1>3. Placed(NoBlock, {})
  BY DEF Placed, NoBlock
<1> QED
  BY <1>1, <1>2, <1>3, FS_EmptySet DEF Holds

\* One more version.
LEMMA AccumulateHolds ==
  ASSUME NEW V, NEW acc, NEW f \in Frame, Holds(acc, V), f \notin V
  PROVE  Holds(Accumulate(acc, f), V \cup {f})
<1> DEFINE new == Accumulate(acc, f)
<1>1. /\ f.id \in Ids /\ f.lamport \in 1..MaxStamp /\ f.pos \in Pos \cup {NoPos}
      /\ f.type \in BlockType /\ f.parents \in SUBSET Ids
  BY DEF Frame
<1>2. /\ acc.versions \in Seq(Frame) /\ acc.parents \in SUBSET Ids /\ acc.pos \in Pos \cup {NoPos}
      /\ acc.posLamport \in 0..MaxStamp
  BY DEF Holds, Acc
<1>3. /\ new.type = f.type /\ new.versions = Append(acc.versions, f)
      /\ new.parents = acc.parents \cup f.parents
      /\ new.pos = IF TakesPos(acc, f) THEN f.pos ELSE acc.pos
      /\ new.posLamport = IF TakesPos(acc, f) THEN f.lamport ELSE acc.posLamport
  BY DEF Accumulate
<1>4. new \in Acc
  <2>1. new.posLamport \in 0..MaxStamp /\ new.pos \in Pos \cup {NoPos}
    BY <1>1, <1>2, <1>3
  <2>2. new = [type |-> new.type, versions |-> new.versions, parents |-> new.parents,
               pos |-> new.pos, posLamport |-> new.posLamport]
    BY DEF Accumulate
  <2> HIDE DEF new
  <2>3. new.parents \in SUBSET Ids /\ new.type \in BlockType \cup {""}
    BY <1>1, <1>2, <1>3
  <2>4. new.versions \in Seq(Frame)
    BY <1>2, <1>3
  <2> QED
    BY <2>1, <2>2, <2>3, <2>4 DEF Acc
<1>5. Versions(new) = V \cup {f} /\ Len(new.versions) = Len(acc.versions) + 1
  <2>1. /\ Len(new.versions) = Len(acc.versions) + 1
        /\ DOMAIN new.versions = 1..Len(acc.versions) + 1 /\ DOMAIN acc.versions = 1..Len(acc.versions)
        /\ \A i \in 1..Len(acc.versions) : new.versions[i] = acc.versions[i]
        /\ new.versions[Len(acc.versions) + 1] = f /\ Len(acc.versions) \in Nat
    BY <1>2, <1>3
  <2>2. Versions(acc) = V
    BY DEF Holds
  <2> HIDE DEF new
  <2>3. ASSUME NEW v \in Versions(new) PROVE v \in V \cup {f}
    <3>1. PICK i \in 1..Len(acc.versions) + 1 : v = new.versions[i]
      BY <2>1 DEF Versions
    <3>2. CASE i = Len(acc.versions) + 1
      BY <2>1, <3>1, <3>2
    <3>3. CASE i \in 1..Len(acc.versions)
      BY <2>1, <2>2, <3>1, <3>3 DEF Versions
    <3> QED
      BY <2>1, <3>2, <3>3
  <2>4. ASSUME NEW v \in V PROVE v \in Versions(new)
    <3>1. PICK i \in 1..Len(acc.versions) : v = acc.versions[i]
      BY <2>1, <2>2 DEF Versions
    <3>2. i \in 1..Len(acc.versions) + 1 /\ v = new.versions[i]
      BY <2>1, <3>1
    <3> QED
      BY <2>1, <3>2 DEF Versions
  <2>5. f \in Versions(new)
    BY <2>1 DEF Versions
  <2> QED
    BY <2>1, <2>3, <2>4, <2>5
<1>6. IsFiniteSet(V \cup {f}) /\ Cardinality(V \cup {f}) = Cardinality(V) + 1
  BY FS_AddElement DEF Holds
<1>7. Placed(new, V \cup {f})
  <2>1. V \subseteq Frame /\ \A g \in V : g.lamport \in 1..MaxStamp
    BY DEF Holds, Frame
  <2>2. 1..MaxStamp \subseteq Nat /\ 0..MaxStamp \subseteq Nat /\ Placed(acc, V)
    BY BoundAssumption DEF Holds
  <2> HIDE DEF new
  <2>3. CASE \A g \in V : g.pos = NoPos
    <3>1. acc.pos = NoPos /\ acc.posLamport = 0
      BY <2>2, <2>3 DEF Placed
    <3>2. CASE f.pos = NoPos
      BY <1>3, <2>3, <3>1, <3>2 DEF Placed, TakesPos
    <3>3. CASE f.pos # NoPos
      <4>1. TakesPos(acc, f)
        BY <1>1, <2>2, <3>1, <3>3 DEF TakesPos
      <4>2. f.lamport <= f.lamport
        BY <1>1, <2>2
      <4> QED
        BY <1>3, <2>3, <3>3, <4>1, <4>2 DEF Placed
    <3> QED
      BY <3>2, <3>3
  <2>4. CASE \E g \in V : g.pos # NoPos
    <3>1. PICK h \in V : /\ h.pos # NoPos /\ h.pos = acc.pos /\ h.lamport = acc.posLamport
                         /\ \A g \in V : g.pos # NoPos => g.lamport <= h.lamport
      BY <2>2, <2>4 DEF Placed
    <3>2. CASE TakesPos(acc, f)
      <4>1. f.pos # NoPos /\ f.lamport >= h.lamport
        BY <3>1, <3>2 DEF TakesPos
      <4>2. \A g \in V \cup {f} : g.pos # NoPos => g.lamport <= f.lamport
        BY <1>1, <2>1, <2>2, <3>1, <4>1
      <4> QED
        BY <1>3, <3>2, <4>1, <4>2 DEF Placed
    <3>3. CASE ~TakesPos(acc, f)
      <4>1. f.pos # NoPos => f.lamport <= h.lamport
        BY <1>1, <2>1, <2>2, <3>1, <3>3 DEF TakesPos
      <4>2. \A g \in V \cup {f} : g.pos # NoPos => g.lamport <= h.lamport
        BY <3>1, <4>1
      <4> QED
        BY <1>3, <3>1, <3>3, <4>2 DEF Placed
    <3> QED
      BY <3>2, <3>3
  <2> QED
    BY <2>3, <2>4
<1>8. \A p \in Ids : p \in new.parents <=> \E g \in V \cup {f} : p \in g.parents
  BY <1>3 DEF Holds
<1> HIDE DEF new
<1>9. new.type \in BlockType /\ V \cup {f} # {} /\ V \cup {f} \subseteq Frame
  BY <1>1, <1>3 DEF Holds
<1>10. Len(new.versions) = Cardinality(V \cup {f})
  BY <1>5, <1>6 DEF Holds
<1>11. Holds(new, V \cup {f})
  BY <1>4, <1>5, <1>6, <1>7, <1>8, <1>9, <1>10 DEF Holds
<1> QED
  BY <1>11 DEF new

\* The versions of block b among the frames S.
Of(S, b) == {f \in S : f.bid = b /\ Counts(f)}

\* Folding the frames S on what the frames T have folded to.
LEMMA FoldHolds ==
  ASSUME NEW W, Distinct(W), NEW S \in SUBSET W, IsFiniteSet(S), NEW T \in SUBSET W,
         S \cap T = {}, NEW by \in [Bid -> Acc], \A b \in Bid : Holds(by[b], Of(T, b))
  PROVE  /\ FoldOf(by, S) \in [Bid -> Acc]
         /\ \A b \in Bid : Holds(FoldOf(by, S)[b], Of(T \cup S, b))
<1>1. PICK iter : Folds(iter, by, S) /\ FoldOf(by, S) = iter[S]
  BY FoldIsDefined
<1> DEFINE Good(s) == /\ iter[s] \in [Bid -> Acc]
                      /\ \A b \in Bid : Holds(iter[s][b], Of(T \cup s, b))
           Bad == {k \in Nat : \E s \in SUBSET S : Cardinality(s) = k /\ ~Good(s)}
<1>2. \A s \in SUBSET S : IsFiniteSet(s) /\ Cardinality(s) \in Nat
  BY FS_Subset, FS_CardinalityType
<1>3. Bad = {}
  <2> SUFFICES ASSUME Bad # {} PROVE FALSE
    OBVIOUS
  <2>1. PICK k \in Bad : \A l \in Bad : k <= l
    BY LeastOfNats
  <2>2. PICK s \in SUBSET S : Cardinality(s) = k /\ ~Good(s)
    OBVIOUS
  <2>3. CASE s = {}
    <3>1. iter[s] = by /\ T \cup s = T
      BY <1>1, <2>3 DEF Folds
    <3> QED
      BY <2>2, <3>1
  <2>4. CASE s # {}
    <3> DEFINE f == Latest(s)
               t == s \ {f}
    <3>1. f \in s /\ t \in SUBSET S /\ Cardinality(t) = Cardinality(s) - 1
      BY <1>2, <2>4, LatestIsLast, FS_RemoveElement
    <3>2. iter[s] = FoldStep(f, iter[t])
      BY <1>1, <2>4 DEF Folds
    <3>3. f \in Frame /\ f.bid \in Bid /\ f \notin T /\ f \notin t
      BY <3>1 DEF Distinct, Frame
    <3>4. Good(t)
      <4>1. Cardinality(t) \in Nat /\ Cardinality(t) < k
        BY <1>2, <2>2, <3>1
      <4>2. Cardinality(t) \notin Bad
        <5>1. k \in Nat
          OBVIOUS
        <5> HIDE DEF Bad
        <5> QED
          BY <2>1, <4>1, <5>1
      <4> QED
        BY <3>1, <4>1, <4>2
    <3> HIDE DEF f, t
    <3>5. T \cup s = (T \cup t) \cup {f} /\ f \notin T \cup t
      BY <3>1, <3>3 DEF t
    <3>6. CASE Counts(f)
      <4>1. iter[s] = [iter[t] EXCEPT ![f.bid] = Accumulate(iter[t][f.bid], f)]
        BY <3>2, <3>6 DEF FoldStep
      <4>2. Of(T \cup s, f.bid) = Of(T \cup t, f.bid) \cup {f} /\ f \notin Of(T \cup t, f.bid)
        BY <3>5, <3>6 DEF Of
      <4>3. \A b \in Bid : b # f.bid => Of(T \cup s, b) = Of(T \cup t, b)
        BY <3>5 DEF Of
      <4>4. Holds(Accumulate(iter[t][f.bid], f), Of(T \cup s, f.bid))
        <5>1. Holds(iter[t][f.bid], Of(T \cup t, f.bid))
          BY <3>3, <3>4
        <5>2. Holds(Accumulate(iter[t][f.bid], f), Of(T \cup t, f.bid) \cup {f})
          BY <3>3, <4>2, <5>1, AccumulateHolds
        <5> QED
          BY <4>2, <5>2
      <4>5. Accumulate(iter[t][f.bid], f) \in Acc
        BY <4>4 DEF Holds
      <4>6. /\ iter[s] \in [Bid -> Acc] /\ iter[s][f.bid] = Accumulate(iter[t][f.bid], f)
            /\ \A b \in Bid : b # f.bid => iter[s][b] = iter[t][b]
        BY <3>3, <3>4, <4>1, <4>5
      <4> QED
        BY <2>2, <3>4, <4>3, <4>4, <4>6
    <3>7. CASE ~Counts(f)
      <4>1. iter[s] = iter[t]
        BY <3>2, <3>7 DEF FoldStep
      <4>2. \A b \in Bid : Of(T \cup s, b) = Of(T \cup t, b)
        BY <3>5, <3>7 DEF Of
      <4> QED
        BY <2>2, <3>4, <4>1, <4>2
    <3> QED
      BY <3>6, <3>7
  <2> QED
    BY <2>3, <2>4
<1>4. Good(S)
  BY <1>2, <1>3
<1> QED
  BY <1>1, <1>4

-----------------------------------------------------------------------------
(* The invariant.                                                          *)

\* The log: one frame of each ID and stamp, numbered in the order of writing;
\* what a frame names as its parents has an earlier stamp.
LogHolds ==
  /\ owner \in [Bid -> Node \cup {NoOwner}] /\ log \in [Node -> Seq(Frame)]
  /\ Distinct(Written) /\ IsFiniteSet(Written) /\ Cardinality(Written) <= MaxFrames
  /\ \A a \in Node : Len(log[a]) <= Cardinality(Written)
  /\ \A a \in Node : \A i \in 1..Len(log[a]) : log[a][i].author = a
  /\ \A f \in Written : f.id <= Cardinality(Written)
  /\ \A f \in Written : \A p \in f.parents : \E g \in Written : g.id = p /\ g.lamport < f.lamport

\* Peers have prefixes of it, an author all of its own.
KnownHolds ==
  /\ known \in [Node -> [Node -> Nat]]
  /\ \A n, a \in Node : known[n][a] <= Len(log[a])
  /\ \A n \in Node : known[n][n] = Len(log[n])

\* A read has taken a vector that has been reached since; an edit names versions
\* its peer has.
PendingHold ==
  /\ reading \in [Node -> Vec \cup {NoRead}]
  /\ \A n \in Node : reading[n] # NoRead => \A a \in Node : reading[n][a] <= known[n][a]
  /\ edits \subseteq Edits
  /\ \A e \in edits : \A p \in e.parents : \E f \in Frames(e.at) : f.id = p

CacheSet == [vec : Vec, seen : SUBSET Ids, by : [Bid -> Acc]]

\* A cache has folded all of its vector, and maybe more of what its peer has;
\* each block has accumulated its versions among that.
Folded(cf) == {f \in Written : f.id \in cf.seen}

CacheHolds(n) ==
  /\ cache[n] \in CacheSet
  /\ \A a \in Node : cache[n].vec[a] <= known[n][a]
  /\ \A a \in Node : \A i \in 1..cache[n].vec[a] : log[a][i].id \in cache[n].seen
  /\ \A p \in cache[n].seen : \E f \in Frames(n) : f.id = p
  /\ \A b \in Bid : Holds(cache[n].by[b], Of(Folded(cache[n]), b))

CachesHold ==
  DOMAIN cache = Node /\ \A n \in Node : cache[n] = NoFold \/ CacheHolds(n)

FoldInv == LogHolds /\ KnownHolds /\ PendingHold /\ CachesHold

-----------------------------------------------------------------------------
LEMMA WrittenIs ==
  ASSUME log \in [Node -> Seq(Frame)]
  PROVE  /\ \A f : f \in Written <=> \E a \in Node : \E i \in 1..Len(log[a]) : f = log[a][i]
         /\ \A a \in Node : DOMAIN log[a] = 1..Len(log[a]) /\ Len(log[a]) \in Nat
         /\ \A a \in Node : \A i \in 1..Len(log[a]) : log[a][i] \in Frame
<1>1. \A a \in Node : log[a] \in Seq(Frame)
  OBVIOUS
<1>2. \A a \in Node : DOMAIN log[a] = 1..Len(log[a]) /\ Len(log[a]) \in Nat
  BY <1>1
<1>3. \A a \in Node : \A i \in 1..Len(log[a]) : log[a][i] \in Frame
  BY <1>1
<1> QED
  BY <1>2, <1>3 DEF Written

LEMMA FramesAre ==
  ASSUME NEW n \in Node
  PROVE  \A f : f \in Frames(n) <=> \E a \in Node : \E i \in 1..known[n][a] : f = log[a][i]
BY DEF Frames, Since, Vector

LEMMA FramesAreWritten ==
  ASSUME LogHolds, KnownHolds, NEW n \in Node
  PROVE  Frames(n) \subseteq Written
<1> SUFFICES ASSUME NEW f \in Frames(n) PROVE f \in Written
  OBVIOUS
<1>1. PICK a \in Node : \E i \in 1..known[n][a] : f = log[a][i]
  BY FramesAre
<1>2. PICK i \in 1..known[n][a] : f = log[a][i]
  BY <1>1
<1>3. known[n][a] \in Nat /\ known[n][a] <= Len(log[a]) /\ Len(log[a]) \in Nat
  BY WrittenIs DEF LogHolds, KnownHolds
<1>4. i \in 1..Len(log[a])
  BY <1>3
<1> QED
  BY <1>2, <1>4, WrittenIs DEF LogHolds

\* Nothing that is written or learned later disturbs a cache.
LEMMA CacheStays ==
  ASSUME LogHolds, KnownHolds, NEW n \in Node, cache[n] = NoFold \/ CacheHolds(n),
         cache'[n] = cache[n], owner' = owner,
         \A a \in Node : \A i \in 1..known[n][a] : log'[a][i] = log[a][i],
         \A a \in Node : known'[n][a] \in Nat /\ known[n][a] <= known'[n][a],
         Written \subseteq Written',
         \A f \in Written' \ Written : f.id > Cardinality(Written)
  PROVE  (cache[n] = NoFold \/ CacheHolds(n))'
<1>1. CASE cache[n] = NoFold
  BY <1>1
<1>2. CASE CacheHolds(n)
  <2>1. /\ cache[n] \in CacheSet /\ cache[n].vec \in Vec /\ cache[n].seen \subseteq Ids
        /\ \A a \in Node : cache[n].vec[a] \in Nat /\ known[n][a] \in Nat
        /\ \A a \in Node : cache[n].vec[a] <= known[n][a]
    BY <1>2 DEF CacheHolds, CacheSet, Vec, KnownHolds
  <2>2. \A a \in Node : cache[n].vec[a] <= known'[n][a]
    BY <2>1
  <2>3. \A a \in Node : \A i \in 1..cache[n].vec[a] : log'[a][i].id \in cache[n].seen
    BY <1>2, <2>1 DEF CacheHolds
  <2>4. \A f \in Frames(n) : f \in Frames(n)'
    <3> SUFFICES ASSUME NEW f \in Frames(n) PROVE f \in Frames(n)'
      OBVIOUS
    <3>1. PICK a \in Node : \E i \in 1..known[n][a] : f = log[a][i]
      BY FramesAre
    <3> PICK i \in 1..known[n][a] : f = log[a][i]
      BY <3>1
    <3>2. i \in 1..known'[n][a] /\ f = log'[a][i]
      <4>1. known[n][a] \in Nat /\ known'[n][a] \in Nat /\ known[n][a] <= known'[n][a]
        BY <2>1
      <4>2. log'[a][i] = log[a][i]
        OBVIOUS
      <4> QED
        BY <4>1, <4>2
    <3> QED
      BY <3>2 DEF Frames, Since, Vector
  <2>5. \A p \in cache[n].seen : \E f \in Frames(n)' : f.id = p
    BY <1>2, <2>4 DEF CacheHolds
  <2>6. \A f \in Written' \ Written : f.id \notin cache[n].seen
    <3> SUFFICES ASSUME NEW f \in Written' \ Written, f.id \in cache[n].seen PROVE FALSE
      OBVIOUS
    <3>1. PICK g \in Frames(n) : g.id = f.id
      BY <1>2 DEF CacheHolds
    <3>2. g \in Written /\ g.id <= Cardinality(Written)
      BY FramesAreWritten DEF LogHolds
    <3>3. f.id \in Nat /\ Cardinality(Written) \in Nat
      BY <2>1, FS_CardinalityType DEF LogHolds, Ids
    <3> QED
      BY <3>1, <3>2, <3>3
  <2>7. \A b \in Bid : Of(Folded(cache[n]), b)' = Of(Folded(cache[n]), b)
    BY <2>6 DEF Of, Folded, Counts
  <2>8. \A b \in Bid : (Holds(cache[n].by[b], Of(Folded(cache[n]), b)))'
    BY <1>2, <2>7 DEF CacheHolds
  <2> QED
    BY <2>1, <2>2, <2>3, <2>5, <2>8 DEF CacheHolds
<1> QED
  BY <1>1, <1>2

\* What an edit was resolved on, its peer has still.
LEMMA PendingStay ==
  ASSUME PendingHold, KnownHolds, edits' \subseteq edits,
         \A n \in Node : reading'[n] \in {reading[n], NoRead}, reading' = [n \in Node |-> reading'[n]],
         \A n, a \in Node : \A i \in 1..known[n][a] : log'[a][i] = log[a][i],
         \A n, a \in Node : known'[n][a] \in Nat /\ known[n][a] <= known'[n][a]
  PROVE  PendingHold'
<1>1. \A n, a \in Node : known[n][a] \in Nat
  BY DEF KnownHolds
<1>2. reading' \in [Node -> Vec \cup {NoRead}]
  BY DEF PendingHold
<1>3. ASSUME NEW n \in Node, reading'[n] # NoRead, NEW a \in Node
      PROVE  reading'[n][a] <= known'[n][a]
  <2>1. reading'[n] = reading[n] /\ reading[n] # NoRead /\ reading[n] \in Vec
    BY <1>3 DEF PendingHold
  <2>2. reading[n][a] \in Nat /\ reading[n][a] <= known[n][a]
    BY <2>1 DEF PendingHold, Vec
  <2>3. known[n][a] \in Nat /\ known'[n][a] \in Nat /\ known[n][a] <= known'[n][a]
    BY <1>1
  <2> QED
    BY <2>1, <2>2, <2>3
<1>4. \A n \in Node : Frames(n) \subseteq Frames(n)'
  <2> SUFFICES ASSUME NEW n \in Node, NEW f \in Frames(n) PROVE f \in Frames(n)'
    OBVIOUS
  <2>1. PICK a \in Node : \E i \in 1..known[n][a] : f = log[a][i]
    BY FramesAre
  <2> PICK i \in 1..known[n][a] : f = log[a][i]
    BY <2>1
  <2>2. known[n][a] \in Nat /\ known'[n][a] \in Nat /\ known[n][a] <= known'[n][a]
    BY <1>1
  <2>3. log'[a][i] = log[a][i] /\ i \in 1..known'[n][a]
    BY <2>2
  <2> QED
    BY <2>3 DEF Frames, Since, Vector
<1>5. ASSUME NEW e \in edits', NEW p \in e.parents PROVE \E f \in Frames(e.at)' : f.id = p
  <2>1. e \in edits /\ e.at \in Node
    BY <1>5 DEF PendingHold, Edits
  <2>2. \E f \in Frames(e.at) : f.id = p
    BY <1>5, <2>1 DEF PendingHold
  <2> QED
    BY <1>4, <2>1, <2>2
<1>6. edits' \subseteq Edits
  BY DEF PendingHold
<1>7. \A e \in edits' : \A p \in e.parents : \E f \in (Frames(e.at))' : f.id = p
  BY <1>5
<1> QED
  BY <1>2, <1>3, <1>6, <1>7 DEF PendingHold

-----------------------------------------------------------------------------
(* The steps.                                                              *)

\* A commit: its ID and its stamp are above all that its author has.
LEMMA CommitHolds ==
  ASSUME FoldInv, NEW n \in Node, NEW b \in Bid, NEW tomb \in BOOLEAN, NEW t \in BlockType,
         NEW p \in Pos \cup {NoPos}, NEW ps \in SUBSET Ids,
         \A q \in ps : \E g \in Frames(n) : g.id = q,
         Commit(n, b, tomb, t, p, ps), edits' \subseteq edits
  PROVE  FoldInv'
<1> DEFINE W == Written
           c == Cardinality(Written)
<1>1. PICK l \in Stamps(n) :
        log' = [log EXCEPT ![n] = Append(log[n],
                  [id |-> c + 1, author |-> n, lamport |-> l, bid |-> b, tomb |-> tomb,
                   type |-> t, pos |-> p, parents |-> ps])]
  BY DEF Commit
<1> DEFINE f == [id |-> c + 1, author |-> n, lamport |-> l, bid |-> b, tomb |-> tomb,
                 type |-> t, pos |-> p, parents |-> ps]
<1>2. /\ c < MaxFrames /\ known' = [known EXCEPT ![n][n] = known[n][n] + 1]
      /\ UNCHANGED <<owner, cache, reading>>
  BY DEF Commit
<1>3. l \in 1..MaxStamp /\ \A g \in Frames(n) : g.lamport < l
  BY DEF Stamps
<1>4. c \in Nat /\ IsFiniteSet(W) /\ Distinct(W)
  BY FS_CardinalityType DEF FoldInv, LogHolds
<1>5. /\ f.id = c + 1 /\ f.author = n /\ f.lamport = l /\ f.parents = ps /\ f \in Frame
  BY <1>2, <1>3, <1>4, BoundAssumption DEF Frame, Ids
<1>6. /\ log \in [Node -> Seq(Frame)] /\ log' = [log EXCEPT ![n] = Append(log[n], f)]
      /\ \A a \in Node : Len(log[a]) \in Nat /\ Len(log[a]) <= c
      /\ \A a \in Node : \A i \in 1..Len(log[a]) : log[a][i] \in W /\ log[a][i].author = a
  BY <1>1, WrittenIs DEF FoldInv, LogHolds
<1> HIDE DEF f, c, W
<1>7. /\ log' \in [Node -> Seq(Frame)]
      /\ \A a \in Node : a # n => log'[a] = log[a]
      /\ Len(log'[n]) = Len(log[n]) + 1 /\ log'[n][Len(log[n]) + 1] = f
      /\ \A i \in 1..Len(log[n]) : log'[n][i] = log[n][i]
  <2>1. log[n] \in Seq(Frame) /\ log'[n] = Append(log[n], f)
    BY <1>6
  <2>2. log' \in [Node -> Seq(Frame)] /\ \A a \in Node : a # n => log'[a] = log[a]
    BY <1>5, <1>6
  <2>3. /\ Len(log'[n]) = Len(log[n]) + 1 /\ log'[n][Len(log[n]) + 1] = f
        /\ \A i \in 1..Len(log[n]) : log'[n][i] = log[n][i]
    BY <1>5, <2>1
  <2> QED
    BY <2>2, <2>3
<1>8. \A a \in Node : \A i \in 1..Len(log[a]) : log'[a][i] = log[a][i]
  BY <1>7
<1>9. Written' = W \cup {f}
  <2>1. ASSUME NEW g \in Written' PROVE g \in W \cup {f}
    <3>1. PICK a \in Node : \E i \in DOMAIN log'[a] : g = log'[a][i]
      BY DEF Written
    <3> PICK i \in DOMAIN log'[a] : g = log'[a][i]
      BY <3>1
    <3>2. log'[a] \in Seq(Frame)
      BY <1>7
    <3>3. i \in 1..Len(log'[a])
      BY <3>2
    <3>4. CASE a # n
      BY <1>6, <1>7, <3>3, <3>4
    <3>5. CASE a = n /\ i = Len(log[n]) + 1
      BY <1>7, <3>5
    <3>6. CASE a = n /\ i # Len(log[n]) + 1
      <4>1. i \in 1..Len(log[n])
        BY <1>6, <1>7, <3>3, <3>6
      <4> QED
        BY <1>6, <1>8, <3>6, <4>1
    <3> QED
      BY <3>4, <3>5, <3>6
  <2>2. ASSUME NEW a \in Node, NEW i \in 1..Len(log'[a]) PROVE log'[a][i] \in Written'
    <3>1. i \in DOMAIN log'[a]
      <4>1. log'[a] \in Seq(Frame)
        BY <1>7
      <4> QED
        BY <4>1
    <3> QED
      BY <3>1 DEF Written
  <2>3. f \in Written'
    <3>1. Len(log[n]) + 1 \in 1..Len(log'[n])
      BY <1>6, <1>7
    <3> QED
      BY <1>7, <2>2, <3>1
  <2>4. ASSUME NEW g \in W PROVE g \in Written'
    <3>1. PICK a \in Node : \E i \in 1..Len(log[a]) : g = log[a][i]
      BY <1>6, WrittenIs DEF W
    <3> PICK i \in 1..Len(log[a]) : g = log[a][i]
      BY <3>1
    <3>2. i \in 1..Len(log'[a]) /\ log'[a][i] = g
      BY <1>6, <1>7
    <3> QED
      BY <2>2, <3>2
  <2> QED
    BY <2>1, <2>3, <2>4
<1>10. /\ known \in [Node -> [Node -> Nat]] /\ known[n][n] = Len(log[n])
       /\ \A m, a \in Node : known[m][a] \in Nat /\ known[m][a] <= Len(log[a])
       /\ \A m \in Node : known[m][m] = Len(log[m])
  BY DEF FoldInv, KnownHolds
<1>11. \A m, a \in Node : known'[m][a] = IF m = n /\ a = n THEN known[n][n] + 1 ELSE known[m][a]
  BY <1>2, <1>10
<1>12. \A m, a \in Node : known'[m][a] \in Nat /\ known[m][a] <= known'[m][a]
  BY <1>10, <1>11
<1>13. \A g \in W : g.id \in Nat /\ g.id <= c /\ g \in Frame
  BY <1>4 DEF FoldInv, LogHolds, W, c, Distinct, Frame, Ids
<1>14. \A g \in W : g.author = n => g.lamport < l
  <2> SUFFICES ASSUME NEW g \in W, g.author = n PROVE g.lamport < l
    OBVIOUS
  <2>1. PICK a \in Node : \E i \in 1..Len(log[a]) : g = log[a][i]
    BY <1>6, WrittenIs DEF W
  <2> PICK i \in 1..Len(log[a]) : g = log[a][i]
    BY <2>1
  <2>2. a = n
    BY <1>6
  <2>3. g \in Frames(n)
    BY <1>10, <2>2, FramesAre
  <2> QED
    BY <1>3, <2>3
<1>15. Distinct(Written')
  <2>1. \A g \in W : g.id # f.id
    BY <1>4, <1>5, <1>13
  <2>2. \A g \in W : g.author = n => g.lamport # l
    BY <1>3, <1>13, <1>14, BoundAssumption DEF Frame
  <2> QED
    BY <1>4, <1>5, <1>9, <2>1, <2>2 DEF Distinct
<1>16. IsFiniteSet(Written') /\ Cardinality(Written') = c + 1 /\ f \notin W
  <2>1. f \notin W
    BY <1>4, <1>5, <1>13
  <2> QED
    BY <1>4, <1>9, <2>1, FS_AddElement DEF W, c
<1>17. LogHolds'
  <2>1. owner' \in [Bid -> Node \cup {NoOwner}]
    BY <1>2 DEF FoldInv, LogHolds
  <2>2. Cardinality(Written') <= MaxFrames
    BY <1>2, <1>4, <1>16, BoundAssumption
  <2>3. \A a \in Node : Len(log'[a]) <= Cardinality(Written')
    BY <1>4, <1>6, <1>7, <1>16
  <2>4. ASSUME NEW a \in Node, NEW i \in 1..Len(log'[a]) PROVE log'[a][i].author = a
    <3>1. CASE a = n /\ i = Len(log[n]) + 1
      BY <1>5, <1>7, <3>1
    <3>2. CASE ~(a = n /\ i = Len(log[n]) + 1)
      <4>1. i \in 1..Len(log[a])
        BY <1>6, <1>7, <3>2
      <4> QED
        BY <1>6, <1>8, <4>1
    <3> QED
      BY <3>1, <3>2
  <2>5. \A g \in Written' : g.id <= Cardinality(Written')
    BY <1>4, <1>5, <1>9, <1>13, <1>16
  <2>6. ASSUME NEW g \in Written', NEW q \in g.parents
        PROVE  \E h \in Written' : h.id = q /\ h.lamport < g.lamport
    <3>1. CASE g \in W
      BY <1>9, <2>6, <3>1 DEF FoldInv, LogHolds, W
    <3>2. CASE g = f
      <4>1. PICK h \in Frames(n) : h.id = q
        BY <1>5, <2>6, <3>2
      <4>2. h \in W
        BY FramesAreWritten DEF FoldInv, W
      <4> QED
        BY <1>3, <1>5, <1>9, <3>2, <4>1, <4>2
    <3> QED
      BY <1>9, <3>1, <3>2
  <2> QED
    BY <1>7, <1>15, <1>16, <2>1, <2>2, <2>3, <2>4, <2>5, <2>6 DEF LogHolds
<1>18. KnownHolds'
  <2>1. known' \in [Node -> [Node -> Nat]]
    BY <1>2, <1>10
  <2>2. \A m, a \in Node : known'[m][a] <= Len(log'[a])
    <3> SUFFICES ASSUME NEW m \in Node, NEW a \in Node PROVE known'[m][a] <= Len(log'[a])
      OBVIOUS
    <3>1. CASE a = n
      <4>1. /\ known'[m][n] = IF m = n THEN known[n][n] + 1 ELSE known[m][n]
            /\ Len(log'[n]) = Len(log[n]) + 1 /\ known[n][n] = Len(log[n])
            /\ Len(log[n]) \in Nat /\ known[m][n] \in Nat /\ known[m][n] <= Len(log[n])
        BY <1>6, <1>7, <1>10, <1>11
      <4> QED
        BY <3>1, <4>1
    <3>2. CASE a # n
      BY <1>7, <1>10, <1>11, <3>2
    <3> QED
      BY <3>1, <3>2
  <2>3. \A m \in Node : known'[m][m] = Len(log'[m])
    BY <1>7, <1>10, <1>11
  <2> QED
    BY <2>1, <2>2, <2>3 DEF KnownHolds
<1>19. \A m, a \in Node : \A i \in 1..known[m][a] : log'[a][i] = log[a][i]
  <2> SUFFICES ASSUME NEW m \in Node, NEW a \in Node, NEW i \in 1..known[m][a]
               PROVE  log'[a][i] = log[a][i]
    OBVIOUS
  <2>1. i \in 1..Len(log[a])
    BY <1>6, <1>10, SMTT(30)
  <2> QED
    BY <1>8, <2>1
<1>20. PendingHold'
  <2>1. \A m \in Node : reading'[m] \in {reading[m], NoRead}
    BY <1>2
  <2>2. reading' = [m \in Node |-> reading'[m]]
    BY <1>2 DEF FoldInv, PendingHold
  <2> QED
    BY <1>12, <1>19, <2>1, <2>2, PendingStay DEF FoldInv
<1>21. CachesHold'
  <2> SUFFICES ASSUME NEW m \in Node PROVE (cache[m] = NoFold \/ CacheHolds(m))'
    BY <1>2 DEF FoldInv, CachesHold
  <2>1. cache[m] = NoFold \/ CacheHolds(m)
    BY DEF FoldInv, CachesHold
  <2>2. \A g \in Written' \ Written : g.id > Cardinality(Written)
    BY <1>4, <1>5, <1>9 DEF W, c
  <2>3. Written \subseteq Written'
    BY <1>9 DEF W
  <2>4. LogHolds /\ KnownHolds
    BY DEF FoldInv
  <2>5. cache'[m] = cache[m] /\ owner' = owner
    BY <1>2
  <2> QED
    BY <1>12, <1>19, <2>1, <2>2, <2>3, <2>4, <2>5, CacheStays
<1> QED
  BY <1>17, <1>18, <1>20, <1>21 DEF FoldInv

\* The second half of a read folds all its peer has into the cache, or into an
\* empty one.
LEMMA FoldDeltaHolds == ASSUME FoldInv, NEW n \in Node, FoldDelta(n) PROVE FoldInv'
<1> DEFINE cur == reading[n]
           cf == IF cache[n] = NoFold \/ Regressed(cur, cache[n].vec) THEN EmptyFold ELSE cache[n]
           S == Unseen(cf, Since(n, cf.vec))
           T == Folded(cf)
           W == Written
           new == [vec |-> cur, seen |-> cf.seen \cup {f.id : f \in S}, by |-> FoldOf(cf.by, S)]
<1>1. cur # NoRead /\ UNCHANGED <<owner, log, known, edits>>
  BY DEF FoldDelta
<1>2. cache' = [cache EXCEPT ![n] = new] /\ reading' = [reading EXCEPT ![n] = NoRead]
  <2>1. cache' = [cache EXCEPT ![n] = [FoldInto(cf, Since(n, cf.vec)) EXCEPT !.vec = cur]]
    BY DEF FoldDelta
  <2>2. FoldInto(cf, Since(n, cf.vec)) =
          [vec |-> cf.vec, seen |-> cf.seen \cup {f.id : f \in S}, by |-> FoldOf(cf.by, S)]
    BY FoldIntoIs
  <2>3. reading' = [reading EXCEPT ![n] = NoRead]
    BY DEF FoldDelta
  <2> HIDE DEF cf, cur, S
  <2>4. [FoldInto(cf, Since(n, cf.vec)) EXCEPT !.vec = cur] = new
    BY <2>2
  <2> QED
    BY <2>1, <2>3, <2>4
<1>3. /\ Distinct(W) /\ IsFiniteSet(W) /\ log \in [Node -> Seq(Frame)] /\ Frames(n) \subseteq W
      /\ \A a \in Node : known[n][a] \in Nat /\ known[n][a] <= Len(log[a])
  BY FramesAreWritten DEF FoldInv, LogHolds, KnownHolds
<1>4. cur \in Vec /\ \A a \in Node : cur[a] \in Nat /\ cur[a] <= known[n][a]
  BY <1>1 DEF FoldInv, PendingHold, Vec
<1>5. /\ cf \in CacheSet
      /\ \A a \in Node : \A i \in 1..cf.vec[a] : log[a][i].id \in cf.seen
      /\ \A p \in cf.seen : \E f \in Frames(n) : f.id = p
      /\ \A b \in Bid : Holds(cf.by[b], Of(T, b))
  <2>1. CASE cf = cache[n] /\ cache[n] # NoFold
    BY <2>1 DEF FoldInv, CachesHold, CacheHolds
  <2>2. CASE cf = EmptyFold
    <3>1. EmptyFold.vec = [a \in Node |-> 0] /\ EmptyFold.seen = {} /\ EmptyFold.by = [b \in Bid |-> NoBlock]
      BY DEF EmptyFold
    <3>2. NoBlock \in Acc
      BY NothingHolds DEF Holds
    <3>3. EmptyFold \in CacheSet
      BY <3>1, <3>2, BoundAssumption DEF EmptyFold, CacheSet, Vec
    <3>4. \A b \in Bid : Of(Folded(EmptyFold), b) = {} /\ EmptyFold.by[b] = NoBlock
      BY <3>1 DEF Of, Folded
    <3> HIDE DEF cf
    <3> QED
      BY <2>2, <3>1, <3>3, <3>4, NothingHolds
  <2> QED
    BY <2>1, <2>2
<1> HIDE DEF cf, cur
<1>6. /\ cf.vec \in Vec /\ cf.seen \subseteq Ids /\ cf.by \in [Bid -> Acc]
      /\ \A a \in Node : cf.vec[a] \in Nat
  BY <1>5 DEF CacheSet, Vec
<1>7. /\ S \subseteq Frames(n) /\ \A f \in S : f.id \notin cf.seen
      /\ \A f \in Frames(n) : f \in S \/ f.id \in cf.seen
  <2>1. ASSUME NEW f \in Since(n, cf.vec) PROVE f \in Frames(n)
    <3>1. PICK a \in Node : \E i \in cf.vec[a] + 1..known[n][a] : f = log[a][i]
      BY DEF Since, Vector
    <3> PICK i \in cf.vec[a] + 1..known[n][a] : f = log[a][i]
      BY <3>1
    <3>2. i \in 1..known[n][a]
      BY <1>3, <1>6
    <3> QED
      BY <3>2, FramesAre
  <2>2. ASSUME NEW f \in Frames(n), f \notin Since(n, cf.vec) PROVE f.id \in cf.seen
    <3>1. PICK a \in Node : \E i \in 1..known[n][a] : f = log[a][i]
      BY FramesAre
    <3> PICK i \in 1..known[n][a] : f = log[a][i]
      BY <3>1
    <3>2. i \notin cf.vec[a] + 1..known[n][a]
      BY <2>2 DEF Since, Vector
    <3>3. i \in 1..cf.vec[a]
      BY <1>3, <1>6, <3>2
    <3> QED
      BY <1>5, <3>3
  <2> QED
    BY <2>1, <2>2 DEF Unseen
<1>8. IsFiniteSet(S) /\ S \in SUBSET W /\ T \in SUBSET W /\ S \cap T = {}
  <2>1. S \in SUBSET W /\ T \in SUBSET W /\ S \cap T = {}
    BY <1>3, <1>7 DEF Folded
  <2> QED
    BY <1>3, <2>1, FS_Subset
<1> HIDE DEF S, T, W
<1>9. /\ FoldOf(cf.by, S) \in [Bid -> Acc]
      /\ \A b \in Bid : Holds(FoldOf(cf.by, S)[b], Of(T \cup S, b))
  BY <1>3, <1>5, <1>6, <1>8, FoldHolds
<1>10. \A f \in S : f.id \in Ids
  BY <1>3, <1>8 DEF Distinct, Frame
<1>11. Written' = Written /\ Frames(n)' = Frames(n)
  BY <1>1 DEF Written, Frames, Since, Vector
<1>12. /\ new.vec = cur /\ new.seen = cf.seen \cup {f.id : f \in S} /\ new.by = FoldOf(cf.by, S)
       /\ new \in CacheSet
  BY <1>4, <1>6, <1>9, <1>10 DEF CacheSet
<1>13. {f \in Written : f.id \in new.seen} = T \cup S
  <2>1. \A f \in W : f.id \in {g.id : g \in S} => f \in S
    BY <1>3, <1>8 DEF Distinct
  <2> QED
    BY <1>8, <1>12, <2>1 DEF T, W, Folded
<1>14. \A a \in Node : \A i \in 1..cur[a] : log[a][i].id \in new.seen
  <2> SUFFICES ASSUME NEW a \in Node, NEW i \in 1..cur[a] PROVE log[a][i].id \in new.seen
    OBVIOUS
  <2>1. i \in 1..known[n][a]
    BY <1>3, <1>4
  <2>2. log[a][i] \in Frames(n)
    BY <2>1, FramesAre
  <2> QED
    BY <1>7, <1>12, <2>2
<1>15. \A p \in new.seen : \E f \in Frames(n) : f.id = p
  BY <1>5, <1>7, <1>12
<1> HIDE DEF new
<1>16. CacheHolds(n)' \/ cache'[n] # new
  <2> SUFFICES ASSUME cache'[n] = new PROVE CacheHolds(n)'
    OBVIOUS
  <2>1. \A b \in Bid : Of(Folded(cache[n]), b)' = Of(T \cup S, b)
    BY <1>1, <1>11, <1>13 DEF Of, Folded, Counts
  <2>2. \A b \in Bid : (Holds(cache[n].by[b], Of(Folded(cache[n]), b)))'
    BY <1>9, <1>12, <2>1
  <2>3. \A p \in cache'[n].seen : \E f \in Frames(n)' : f.id = p
    BY <1>11, <1>15
  <2> QED
    BY <1>1, <1>4, <1>12, <1>14, <2>2, <2>3 DEF CacheHolds
<1>17. CachesHold'
  <2> SUFFICES ASSUME NEW m \in Node PROVE (cache[m] = NoFold \/ CacheHolds(m))'
    BY <1>2 DEF FoldInv, CachesHold
  <2>1. CASE m # n
    <3>1. cache'[m] = cache[m] /\ (cache[m] = NoFold \/ CacheHolds(m)) /\ LogHolds /\ KnownHolds
      BY <1>2, <2>1 DEF FoldInv, CachesHold
    <3>2. \A a \in Node : known'[m][a] \in Nat /\ known[m][a] <= known'[m][a]
      BY <1>1, <3>1 DEF KnownHolds
    <3>3. \A a \in Node : \A i \in 1..known[m][a] : log'[a][i] = log[a][i]
      BY <1>1
    <3>4. Written \subseteq Written' /\ \A f \in Written' \ Written : f.id > Cardinality(Written)
      BY <1>11
    <3> QED
      BY <1>1, <3>1, <3>2, <3>3, <3>4, CacheStays
  <2>2. CASE m = n
    <3>1. cache'[n] = new
      BY <1>2 DEF FoldInv, CachesHold
    <3> QED
      BY <1>16, <2>2, <3>1
  <2> QED
    BY <2>1, <2>2
<1>18. PendingHold'
  <2>1. \A m \in Node : reading'[m] \in {reading[m], NoRead}
    BY <1>2
  <2>2. reading' = [m \in Node |-> reading'[m]] /\ PendingHold /\ KnownHolds
    BY <1>2 DEF FoldInv, PendingHold
  <2>3. \A m, a \in Node : known'[m][a] \in Nat /\ known[m][a] <= known'[m][a]
    BY <1>1, <2>2 DEF KnownHolds
  <2>4. edits' \subseteq edits /\ \A m, a \in Node : \A i \in 1..known[m][a] : log'[a][i] = log[a][i]
    BY <1>1
  <2> QED
    BY <2>1, <2>2, <2>3, <2>4, PendingStay
<1>19. LogHolds' /\ KnownHolds'
  BY <1>1, <1>11 DEF FoldInv, LogHolds, KnownHolds
<1> QED
  BY <1>17, <1>18, <1>19 DEF FoldInv

LEMMA FoldInitInv == Init => FoldInv
<1> SUFFICES ASSUME Init PROVE FoldInv
  OBVIOUS
<1>1. log = [a \in Node |-> <<>>] /\ known = [n \in Node |-> [a \in Node |-> 0]]
  BY DEF Init
<1>2. \A a \in Node : log[a] = <<>> /\ Len(log[a]) = 0 /\ log[a] \in Seq(Frame) /\ DOMAIN log[a] = {}
  BY <1>1
<1>3. Written = {}
  BY <1>2 DEF Written
<1>4. LogHolds
  BY <1>1, <1>2, <1>3, FS_EmptySet, BoundAssumption DEF Init, LogHolds, Distinct
<1>5. KnownHolds
  BY <1>1, <1>2 DEF KnownHolds
<1>6. PendingHold /\ CachesHold
  BY DEF Init, PendingHold, CachesHold
<1> QED
  BY <1>4, <1>5, <1>6 DEF FoldInv

\* Steps that only learn, forget, or take up something.
LEMMA LogStays ==
  ASSUME FoldInv, UNCHANGED <<owner, log>>, known' \in [Node -> [Node -> Nat]],
         \A n, a \in Node : known[n][a] <= known'[n][a] /\ known'[n][a] <= Len(log[a])
  PROVE  /\ LogHolds' /\ KnownHolds'
         /\ Written' = Written
         /\ \A n, a \in Node : known[n][a] \in Nat /\ known'[n][a] \in Nat
         /\ \A n \in Node : cache'[n] = cache[n] => (cache[n] = NoFold \/ CacheHolds(n))'
<1>1. Written' = Written
  BY DEF Written
<1>2. LogHolds'
  BY <1>1 DEF FoldInv, LogHolds
<1>3. \A n, a \in Node : known[n][a] \in Nat /\ known'[n][a] \in Nat
  BY DEF FoldInv, KnownHolds
<1>4. \A a \in Node : Len(log[a]) \in Nat
  BY WrittenIs DEF FoldInv, LogHolds
<1>5. KnownHolds'
  <2>1. \A n \in Node : known'[n][n] = Len(log[n])
    BY <1>3, <1>4 DEF FoldInv, KnownHolds
  <2> QED
    BY <2>1 DEF KnownHolds
<1>6. ASSUME NEW n \in Node, cache'[n] = cache[n] PROVE (cache[n] = NoFold \/ CacheHolds(n))'
  <2>1. LogHolds /\ KnownHolds /\ (cache[n] = NoFold \/ CacheHolds(n))
    BY DEF FoldInv, CachesHold
  <2>2. Written \subseteq Written' /\ \A f \in Written' \ Written : f.id > Cardinality(Written)
    BY <1>1
  <2>3. \A a \in Node : \A i \in 1..known[n][a] : log'[a][i] = log[a][i]
    OBVIOUS
  <2> QED
    BY <1>3, <1>6, <2>1, <2>2, <2>3, CacheStays
<1> QED
  BY <1>1, <1>2, <1>3, <1>5, <1>6

LEMMA LearnHolds == ASSUME FoldInv, NEW n \in Node, NEW a \in Node, Learn(n, a) PROVE FoldInv'
<1>1. /\ known[n][a] < Len(log[a]) /\ known' = [known EXCEPT ![n][a] = known[n][a] + 1]
      /\ UNCHANGED <<owner, log, cache, reading, edits>>
  BY DEF Learn
<1>2. /\ known \in [Node -> [Node -> Nat]] /\ \A m, b \in Node : known[m][b] \in Nat
      /\ \A m, b \in Node : known[m][b] <= Len(log[b]) /\ Len(log[b]) \in Nat
  BY WrittenIs DEF FoldInv, KnownHolds, LogHolds
<1>3. \A m, b \in Node : known'[m][b] = IF m = n /\ b = a THEN known[n][a] + 1 ELSE known[m][b]
  BY <1>1, <1>2
<1>4. known' \in [Node -> [Node -> Nat]]
  BY <1>1, <1>2
<1>5. \A m, b \in Node : known[m][b] <= known'[m][b] /\ known'[m][b] <= Len(log[b])
  BY <1>1, <1>2, <1>3, SMTT(30)
<1>6. /\ LogHolds' /\ KnownHolds'
      /\ \A m, b \in Node : known[m][b] \in Nat /\ known'[m][b] \in Nat
      /\ \A m \in Node : (cache[m] = NoFold \/ CacheHolds(m))'
  BY <1>1, <1>4, <1>5, LogStays
<1>7. CachesHold'
  BY <1>1, <1>6 DEF FoldInv, CachesHold
<1>8. PendingHold'
  <2>1. /\ \A m \in Node : reading'[m] \in {reading[m], NoRead}
        /\ reading' = [m \in Node |-> reading'[m]] /\ PendingHold /\ KnownHolds
    BY <1>1 DEF FoldInv, PendingHold
  <2> QED
    BY <1>1, <1>5, <1>6, <2>1, PendingStay
<1> QED
  BY <1>6, <1>7, <1>8 DEF FoldInv

\* Steps of a peer that write nothing.
LEMMA RestartHolds == ASSUME FoldInv, NEW n \in Node, Restart(n) PROVE FoldInv'
<1>1. /\ cache' = [cache EXCEPT ![n] = NoFold] /\ reading' = [reading EXCEPT ![n] = NoRead]
      /\ edits' \subseteq edits /\ UNCHANGED <<owner, log, known>>
  BY DEF Restart
<1>2. /\ known' \in [Node -> [Node -> Nat]]
      /\ \A m, a \in Node : known[m][a] <= known'[m][a] /\ known'[m][a] <= Len(log[a])
  BY <1>1 DEF FoldInv, KnownHolds
<1>3. /\ LogHolds' /\ KnownHolds'
      /\ \A m, b \in Node : known[m][b] \in Nat /\ known'[m][b] \in Nat
      /\ \A m \in Node : cache'[m] = cache[m] => (cache[m] = NoFold \/ CacheHolds(m))'
  BY <1>1, <1>2, LogStays
<1>4. CachesHold'
  <2>1. \A m \in Node : m # n => cache'[m] = cache[m]
    BY <1>1
  <2>2. cache'[n] = NoFold /\ DOMAIN cache' = Node
    BY <1>1 DEF FoldInv, CachesHold
  <2> QED
    BY <1>3, <2>1, <2>2 DEF CachesHold
<1>5. PendingHold'
  <2>1. /\ \A m \in Node : reading'[m] \in {reading[m], NoRead}
        /\ reading' = [m \in Node |-> reading'[m]] /\ PendingHold /\ KnownHolds
    BY <1>1 DEF FoldInv, PendingHold
  <2> QED
    BY <1>1, <1>2, <1>3, <2>1, PendingStay
<1> QED
  BY <1>3, <1>4, <1>5 DEF FoldInv

LEMMA BeginReadHolds == ASSUME FoldInv, NEW n \in Node, BeginRead(n) PROVE FoldInv'
<1>1. reading' = [reading EXCEPT ![n] = known[n]] /\ UNCHANGED <<owner, log, known, cache, edits>>
  BY DEF BeginRead, Vector
<1>2. /\ known' \in [Node -> [Node -> Nat]]
      /\ \A m, a \in Node : known[m][a] <= known'[m][a] /\ known'[m][a] <= Len(log[a])
  BY <1>1 DEF FoldInv, KnownHolds
<1>3. /\ LogHolds' /\ KnownHolds'
      /\ \A m, b \in Node : known[m][b] \in Nat
      /\ \A m \in Node : (cache[m] = NoFold \/ CacheHolds(m))'
  BY <1>1, <1>2, LogStays
<1>4. CachesHold'
  BY <1>1, <1>3 DEF FoldInv, CachesHold
<1>5. known[n] \in Vec
  <2>1. known[n] \in [Node -> Nat]
    BY <1>2 DEF FoldInv, KnownHolds
  <2>2. ASSUME NEW a \in Node PROVE known[n][a] \in 0..MaxFrames
    <3>1. /\ known[n][a] <= Len(log[a]) /\ Len(log[a]) <= Cardinality(Written)
          /\ Cardinality(Written) <= MaxFrames /\ Cardinality(Written) \in Nat /\ Len(log[a]) \in Nat
      BY WrittenIs, FS_CardinalityType DEF FoldInv, KnownHolds, LogHolds
    <3> QED
      BY <1>3, <3>1, BoundAssumption
  <2> QED
    BY <2>1, <2>2 DEF Vec
<1>6. PendingHold'
  <2>1. reading' \in [Node -> Vec \cup {NoRead}]
    BY <1>1, <1>5 DEF FoldInv, PendingHold
  <2>2. ASSUME NEW m \in Node, reading'[m] # NoRead, NEW a \in Node
        PROVE  reading'[m][a] <= known'[m][a]
    <3>1. CASE m = n
      <4>1. reading'[n] = known[n]
        BY <1>1 DEF FoldInv, PendingHold
      <4> QED
        BY <1>1, <1>3, <3>1, <4>1
    <3>2. CASE m # n
      BY <1>1, <2>2, <3>2 DEF FoldInv, PendingHold
    <3> QED
      BY <3>1, <3>2
  <2>3. \A m : Frames(m)' = Frames(m)
    BY <1>1 DEF Frames, Since, Vector
  <2>4. \A e \in edits' : \A p \in e.parents : \E f \in (Frames(e.at))' : f.id = p
    BY <1>1, <2>3 DEF FoldInv, PendingHold
  <2> QED
    BY <1>1, <2>1, <2>2, <2>4 DEF FoldInv, PendingHold
<1> QED
  BY <1>3, <1>4, <1>6 DEF FoldInv

\* The heads that an edit names are versions its peer has.
LEMMA ResolveHolds ==
  ASSUME FoldInv, NEW n \in Node, NEW b \in Bid,
         Resolve(n, b) \/ \E t \in BlockType : ResolveAbsent(n, b, t)
  PROVE  FoldInv'
<1>1. PICK e : /\ edits' = edits \cup {e} /\ UNCHANGED <<owner, log, known, cache, reading>>
               /\ e \in Edits /\ \A p \in e.parents : \E f \in Frames(e.at) : f.id = p
  <2>1. CASE Resolve(n, b)
    <3> DEFINE acc == cache[n].by[b]
               e == [at |-> n, bid |-> b, new |-> FALSE, type |-> acc.type,
                     parents |-> {v.id : v \in Heads(acc)}]
    <3>1. /\ cache[n] # NoFold /\ acc # NoBlock /\ edits' = edits \cup {e}
          /\ UNCHANGED <<owner, log, known, cache, reading>>
      BY <2>1 DEF Resolve
    <3>2. CacheHolds(n)
      BY <3>1 DEF FoldInv, CachesHold
    <3>3. Holds(acc, Of(Folded(cache[n]), b))
      BY <3>2 DEF CacheHolds
    <3>4. acc.type \in BlockType
      BY <3>1, <3>3 DEF Holds
    <3>5. ASSUME NEW v \in Heads(acc) PROVE v.id \in Ids /\ \E f \in Frames(n) : f.id = v.id
      <4>1. v \in Of(Folded(cache[n]), b) /\ v \in Frame
        BY <3>3 DEF Heads, Holds
      <4>2. v.id \in cache[n].seen
        BY <4>1 DEF Of, Folded
      <4> QED
        BY <3>2, <4>1, <4>2 DEF CacheHolds, Frame
    <3>6. e.at = n /\ e.parents = {v.id : v \in Heads(acc)}
      OBVIOUS
    <3> HIDE DEF acc
    <3>7. e \in Edits
      BY <3>4, <3>5 DEF Edits
    <3>8. \A p \in e.parents : \E f \in Frames(e.at) : f.id = p
      BY <3>5, <3>6
    <3> QED
      BY <3>1, <3>7, <3>8
  <2>2. CASE \E t \in BlockType : ResolveAbsent(n, b, t)
    <3>1. PICK t \in BlockType : ResolveAbsent(n, b, t)
      BY <2>2
    <3> DEFINE e == [at |-> n, bid |-> b, new |-> TRUE, type |-> t, parents |-> {}]
    <3>2. edits' = edits \cup {e} /\ UNCHANGED <<owner, log, known, cache, reading>>
      BY <3>1 DEF ResolveAbsent
    <3>3. e \in Edits /\ e.parents = {}
      BY DEF Edits
    <3> QED
      BY <3>2, <3>3
  <2> QED
    BY <2>1, <2>2
<1>2. /\ known' \in [Node -> [Node -> Nat]]
      /\ \A m, a \in Node : known[m][a] <= known'[m][a] /\ known'[m][a] <= Len(log[a])
  BY <1>1 DEF FoldInv, KnownHolds
<1>3. LogHolds' /\ KnownHolds' /\ \A m \in Node : (cache[m] = NoFold \/ CacheHolds(m))'
  BY <1>1, <1>2, LogStays
<1>4. CachesHold'
  BY <1>1, <1>3 DEF FoldInv, CachesHold
<1>5. \A m : Frames(m)' = Frames(m)
  BY <1>1 DEF Frames, Since, Vector
<1>6. \A d \in edits' : \A p \in d.parents : \E f \in (Frames(d.at))' : f.id = p
  BY <1>1, <1>5 DEF FoldInv, PendingHold
<1>7. PendingHold'
  BY <1>1, <1>6 DEF FoldInv, PendingHold
<1> QED
  BY <1>3, <1>4, <1>7 DEF FoldInv

LEMMA FoldStepInv == FoldInv /\ [Next]_vars => FoldInv'
<1> SUFFICES ASSUME FoldInv, [Next]_vars PROVE FoldInv'
  OBVIOUS
<1>1. ASSUME NEW n \in Node, NEW b \in Bid, NEW t \in BlockType, NEW p \in Pos \cup {NoPos},
             Create(n, b, t, p)
      PROVE  FoldInv'
  <2>1. Commit(n, b, FALSE, t, p, {}) /\ edits' \subseteq edits
    BY <1>1 DEF Create
  <2>2. PICK tomb \in BOOLEAN, ps \in SUBSET Ids : tomb = FALSE /\ ps = {}
    OBVIOUS
  <2>3. Commit(n, b, tomb, t, p, ps) /\ \A q \in ps : \E g \in Frames(n) : g.id = q
    BY <2>1, <2>2
  <2> QED
    BY <2>1, <2>3, CommitHolds
<1>2. ASSUME NEW e \in edits, Edit(e) PROVE FoldInv'
  <2>1. /\ e.at \in Node /\ e.bid \in Bid /\ e.type \in BlockType /\ e.parents \in SUBSET Ids
        /\ \A q \in e.parents : \E g \in Frames(e.at) : g.id = q
    BY DEF FoldInv, PendingHold, Edits
  <2>2. PICK tomb \in BOOLEAN, t \in BlockType, p \in Pos \cup {NoPos} : CommitEdit(e, tomb, t, p)
    BY <1>2, <2>1 DEF Edit, UpsertAbsent, Update, Delete, Merge, UpdateType, Move
  <2>3. PICK n \in Node, b \in Bid, ps \in SUBSET Ids : n = e.at /\ b = e.bid /\ ps = e.parents
    BY <2>1
  <2>4. Commit(n, b, tomb, t, p, ps) /\ edits' \subseteq edits
    BY <2>2, <2>3 DEF CommitEdit
  <2>5. \A q \in ps : \E g \in Frames(n) : g.id = q
    BY <2>1, <2>3
  <2> QED
    BY <2>4, <2>5, CommitHolds
<1>3. CASE UNCHANGED vars
  <2>1. /\ Written' = Written /\ \A m : Frames(m)' = Frames(m)
        /\ known' \in [Node -> [Node -> Nat]]
        /\ \A m, a \in Node : known[m][a] <= known'[m][a] /\ known'[m][a] <= Len(log[a])
    BY <1>3 DEF vars, Written, Frames, Since, Vector, FoldInv, KnownHolds
  <2>2. LogHolds' /\ KnownHolds' /\ \A m \in Node : (cache[m] = NoFold \/ CacheHolds(m))'
    BY <1>3, <2>1, LogStays DEF vars
  <2>3. CachesHold'
    BY <1>3, <2>2 DEF vars, FoldInv, CachesHold
  <2>4. \A d \in edits' : \A p \in d.parents : \E f \in (Frames(d.at))' : f.id = p
    BY <1>3, <2>1 DEF vars, FoldInv, PendingHold
  <2>5. PendingHold'
    BY <1>3, <2>4 DEF vars, FoldInv, PendingHold
  <2> QED
    BY <2>2, <2>3, <2>5 DEF FoldInv
<1> QED
  BY <1>1, <1>2, <1>3, FoldDeltaHolds, LearnHolds, RestartHolds, BeginReadHolds, ResolveHolds DEF Next

-----------------------------------------------------------------------------
(* The theorems.                                                           *)

\* A cache that is up to date has folded what its peer has, no more and no less.
LEMMA CurrentHasAll ==
  ASSUME FoldInv, NEW n \in Node, Current(n), NEW b \in Bid
  PROVE  Holds(cache[n].by[b], RefVersions(n, b))
<1>1. CacheHolds(n) /\ cache[n].vec = known[n]
  BY DEF Current, Vector, FoldInv, CachesHold
<1>2. Frames(n) \subseteq Written /\ Distinct(Written)
  BY FramesAreWritten DEF FoldInv, LogHolds
<1>3. \A f \in Frames(n) : f.id \in cache[n].seen
  <2> SUFFICES ASSUME NEW f \in Frames(n) PROVE f.id \in cache[n].seen
    OBVIOUS
  <2>1. PICK a \in Node : \E i \in 1..known[n][a] : f = log[a][i]
    BY FramesAre
  <2> QED
    BY <1>1, <2>1 DEF CacheHolds
<1>4. \A f \in Written : f.id \in cache[n].seen => f \in Frames(n)
  BY <1>1, <1>2 DEF CacheHolds, Distinct
<1>5. Of(Folded(cache[n]), b) = RefVersions(n, b)
  BY <1>2, <1>3, <1>4 DEF Of, Folded, RefVersions
<1> QED
  BY <1>1, <1>5 DEF CacheHolds

\* Among the versions of a block, the latest is a head: an edit is stamped above
\* what it was based on.
LEMMA LatestHolds ==
  ASSUME FoldInv, NEW n \in Node, cache[n] # NoFold, NEW b \in Bid
  PROVE  LET acc == cache[n].by[b] IN
         /\ Versions(acc) \subseteq Written
         /\ \A v \in Versions(acc) : v.bid = b /\ Counts(v)
         /\ acc.versions # <<>> => Latest(Versions(acc)) \in Heads(acc)
<1> DEFINE acc == cache[n].by[b]
           V == Versions(acc)
<1>1. Holds(acc, Of(Folded(cache[n]), b))
  BY DEF FoldInv, CachesHold, CacheHolds
<1>2. V = Of(Folded(cache[n]), b) /\ acc \in Acc
  BY <1>1 DEF Holds
<1>3. V \subseteq Written /\ \A v \in V : v.bid = b /\ Counts(v)
  BY <1>2 DEF Of, Folded
<1>4. Distinct(Written)
  BY DEF FoldInv, LogHolds
<1>5. ASSUME acc.versions # <<>> PROVE Latest(V) \in Heads(acc)
  <2>1. V # {}
    <3>1. acc.versions \in Seq(Frame)
      BY <1>2 DEF Acc
    <3>2. 1 \in DOMAIN acc.versions
      BY <1>5, <3>1
    <3> QED
      BY <3>2 DEF Versions
  <2>2. Latest(V) \in V /\ \A g \in V \ {Latest(V)} : Below(g, Latest(V))
    BY <1>3, <1>4, <2>1, LatestIsLast
  <2>3. ASSUME Latest(V).id \in acc.parents PROVE FALSE
    <3>1. Latest(V) \in Written /\ Latest(V).id \in Ids
      BY <1>3, <1>4, <2>2 DEF Distinct, Frame
    <3>2. PICK g \in V : Latest(V).id \in g.parents
      BY <1>1, <1>2, <2>3, <3>1 DEF Holds
    <3>3. g \in Written
      BY <1>3
    <3>4. PICK h \in Written : h.id = Latest(V).id /\ h.lamport < g.lamport
      BY <3>2, <3>3 DEF FoldInv, LogHolds
    <3>5. Latest(V).lamport < g.lamport
      BY <1>4, <3>1, <3>4 DEF Distinct
    <3>6. Below(Latest(V), g)
      BY <3>5 DEF Below
    <3>7. g.lamport \in Nat /\ Latest(V).lamport \in Nat
      BY <1>4, <3>1, <3>3, BoundAssumption DEF Distinct, Frame
    <3>8. g # Latest(V)
      BY <3>5, <3>7
    <3> QED
      BY <1>4, <2>2, <3>1, <3>3, <3>6, <3>8, BelowIsTotal
  <2> QED
    BY <2>2, <2>3 DEF Heads
<1> QED
  BY <1>3, <1>5

\* The cache of a peer is the fold of its log (blocks.go:260), whatever came
\* between the vector a read took and the delta it folded.
THEOREM CacheFollowsLog == Spec => []CacheIsFold
<1>1. FoldInv => CacheIsFold
  <2> SUFFICES ASSUME FoldInv PROVE CacheIsFold
    OBVIOUS
  <2>1. ASSUME NEW n \in Node, NEW b \in Bid, Current(n)
        PROVE  LET acc == cache[n].by[b] IN
               /\ Versions(acc) = RefVersions(n, b)
               /\ Len(acc.versions) = Cardinality(RefVersions(n, b))
               /\ Heads(acc) = RefHeads(n, b)
    <3> DEFINE acc == cache[n].by[b]
    <3>1. Holds(acc, RefVersions(n, b))
      BY <2>1, CurrentHasAll
    <3>2. \A f \in RefVersions(n, b) : f.id \in Ids
      BY <3>1 DEF Holds, Frame
    <3> HIDE DEF acc
    <3>3. Heads(acc) = RefHeads(n, b)
      BY <3>1, <3>2 DEF Holds, Heads, RefHeads
    <3>4. Versions(acc) = RefVersions(n, b) /\ Len(acc.versions) = Cardinality(RefVersions(n, b))
      BY <3>1 DEF Holds
    <3> QED
      BY <3>3, <3>4 DEF acc
  <2>2. ASSUME NEW n \in Node, NEW b \in Bid, Current(n)
        PROVE  LET placed == {f \in RefVersions(n, b) : f.pos # NoPos} IN
               IF placed = {} THEN cache[n].by[b].pos = NoPos
               ELSE \E f \in placed : /\ f.pos = cache[n].by[b].pos
                                      /\ f.lamport = cache[n].by[b].posLamport
                                      /\ \A g \in placed : g.lamport <= f.lamport
    <3>1. Placed(cache[n].by[b], RefVersions(n, b))
      BY <2>2, CurrentHasAll DEF Holds
    <3> QED
      BY <3>1 DEF Placed
  <2>3. ASSUME NEW n \in Node, NEW b \in Bid
        PROVE  LET acc == IF cache[n] = NoFold THEN NoBlock ELSE cache[n].by[b]
               IN  acc.versions # <<>> => Latest(Versions(acc)) \in Heads(acc)
    <3>1. CASE cache[n] = NoFold
      BY <3>1 DEF NoBlock
    <3>2. CASE cache[n] # NoFold
      BY <3>2, LatestHolds
    <3> QED
      BY <3>1, <3>2
  <2> QED
    BY <2>1, <2>2, <2>3 DEF CacheIsFold, FoldMatchesLog, PosIsLatest, LatestIsHead
<1> QED
  BY FoldInitInv, FoldStepInv, <1>1, PTL DEF Spec

\* No peer can hide another's block (the gate of the fold, blocks.go).
THEOREM OwnersDelete == Spec => []OnlyOwnerDeletes
<1>1. FoldInv => OnlyOwnerDeletes
  <2> SUFFICES ASSUME FoldInv, NEW n \in Node, NEW b \in Bid, cache[n] # NoFold,
                      owner[b] # NoOwner, Deleted(cache[n].by[b])
               PROVE  \E i \in DOMAIN log[owner[b]] :
                        log[owner[b]][i].bid = b /\ log[owner[b]][i].tomb
    BY DEF OnlyOwnerDeletes
  <2> DEFINE acc == cache[n].by[b]
             v == Latest(Heads(acc))
  <2>1. Heads(acc) \subseteq Versions(acc) /\ Heads(acc) # {} /\ v.tomb
    BY DEF Deleted, Heads
  <2>2. Heads(acc) \subseteq Written /\ \A w \in Heads(acc) : w.bid = b /\ Counts(w)
    BY <2>1, LatestHolds
  <2>3. Distinct(Written) /\ log \in [Node -> Seq(Frame)]
    BY DEF FoldInv, LogHolds
  <2>4. v \in Heads(acc)
    BY <2>1, <2>2, <2>3, LatestIsLast
  <2>5. v \in Written /\ v.bid = b /\ Counts(v)
    BY <2>2, <2>4
  <2> HIDE DEF v
  <2>6. v.author = owner[b]
    BY <2>1, <2>5 DEF Counts
  <2>7. PICK a \in Node : \E i \in 1..Len(log[a]) : v = log[a][i]
    BY <2>3, <2>5, WrittenIs
  <2>8. PICK i \in 1..Len(log[a]) : v = log[a][i]
    BY <2>7
  <2>9. a = owner[b] /\ i \in DOMAIN log[a]
    BY <2>3, <2>6, <2>8, WrittenIs DEF FoldInv, LogHolds
  <2> QED
    BY <2>1, <2>5, <2>8, <2>9
<1> QED
  BY FoldInitInv, FoldStepInv, <1>1, PTL DEF Spec

\* Types of blocks.Manager's caches, reads and edits, and of the log they fold.
THEOREM FoldTypeCorrect == Spec => []TypeOK
<1>1. FoldInv => TypeOK
  <2> SUFFICES ASSUME FoldInv PROVE TypeOK
    OBVIOUS
  <2>1. ASSUME NEW n \in Node PROVE known[n] \in Vec
    <3>1. known[n] \in [Node -> Nat]
      BY DEF FoldInv, KnownHolds
    <3>2. ASSUME NEW a \in Node PROVE known[n][a] \in 0..MaxFrames
      <4>1. /\ known[n][a] \in Nat /\ known[n][a] <= Len(log[a]) /\ Len(log[a]) <= Cardinality(Written)
            /\ Cardinality(Written) <= MaxFrames /\ Cardinality(Written) \in Nat /\ Len(log[a]) \in Nat
        BY <3>1, WrittenIs, FS_CardinalityType DEF FoldInv, KnownHolds, LogHolds
      <4> QED
        BY <4>1, BoundAssumption
    <3> QED
      BY <3>1, <3>2 DEF Vec
  <2>2. known \in [Node -> Vec]
    BY <2>1 DEF FoldInv, KnownHolds
  <2>3. owner \in [Bid -> Node \cup {NoOwner}] /\ log \in [Node -> Seq(Frame)]
    BY DEF FoldInv, LogHolds
  <2>4. reading \in [Node -> Vec \cup {NoRead}] /\ edits \subseteq Edits
    BY DEF FoldInv, PendingHold
  <2>5. \A n \in Node : cache[n] = NoFold \/ cache[n] \in CacheSet
    BY DEF FoldInv, CachesHold, CacheHolds
  <2> QED
    BY <2>2, <2>3, <2>4, <2>5 DEF TypeOK, CacheSet
<1> QED
  BY FoldInitInv, FoldStepInv, <1>1, PTL DEF Spec

=============================================================================
