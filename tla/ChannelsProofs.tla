---------------------------- MODULE ChannelsProofs ---------------------------
(***************************************************************************)
(* Proofs about Channels for any number of peers and any bounds: who can   *)
(* come to hold a channel, who passes for its owner, and that serial       *)
(* changes are not lost.                                                   *)
(***************************************************************************)
EXTENDS Channels, NatOrder, TLAPS

-----------------------------------------------------------------------------
(* The order of versions.                                                  *)

\* No two versions share stamp and author.
Keyed(S) == \A v, w \in S : v.stamp = w.stamp /\ v.author = w.author => v = w
Bounded(S) == \E b \in Nat : \A v \in S : v.stamp <= b

LEMMA VersionParts ==
  ASSUME NEW v \in Version
  PROVE  v.author \in Peers /\ v.author \in Nat /\ v.author <= PeerCount
         /\ v.stamp \in Nat /\ v.members \subseteq Peers
BY PeerAssumption DEF Version, Peers

LEMMA BeforeIsTransitive ==
  ASSUME NEW u \in Version, NEW v \in Version, NEW w \in Version,
         Before(u, v), Before(v, w)
  PROVE  Before(u, w)
BY VersionParts DEF Before

LEMMA BeforeIsIrreflexive ==
  ASSUME NEW v \in Version
  PROVE  ~Before(v, v)
BY VersionParts DEF Before

\* A bounded set of versions has a latest one, so Latest chooses it.
LEMMA LatestIsLast ==
  ASSUME NEW S \in SUBSET Version, S # {}, Keyed(S), Bounded(S)
  PROVE  Latest(S) \in S /\ \A w \in S \ {Latest(S)} : Before(w, Latest(S))
<1> DEFINE T == {v.stamp : v \in S}
<1>1. T \in SUBSET Nat /\ T # {}
  BY VersionParts
<1>2. PICK b \in Nat : \A t \in T : t <= b
  BY DEF Bounded
<1>3. PICK t \in T : \A x \in T : x <= t
  BY <1>1, <1>2, GreatestOfBounded
<1> DEFINE A == {a \in Peers : \E v \in S : v.stamp = t /\ v.author = a}
<1>4. A \in SUBSET Nat /\ A # {}
  BY VersionParts, PeerAssumption DEF Peers
<1>5. PeerCount \in Nat /\ \A a \in A : a <= PeerCount
  BY PeerAssumption DEF Peers
<1>6. PICK a \in A : \A x \in A : x <= a
  BY <1>4, <1>5, GreatestOfBounded
<1>7. PICK v \in S : v.stamp = t /\ v.author = a
  BY <1>6
<1>8. ASSUME NEW w \in S \ {v} PROVE Before(w, v)
  <2>1. w.stamp <= t /\ w.stamp \in Nat /\ t \in Nat
    BY <1>1, <1>3, VersionParts
  <2>2. CASE w.stamp = t
    <3>1. w.author \in A /\ w.author # v.author
      BY <1>7, <2>2, VersionParts DEF Keyed
    <3>2. w.author \in Nat /\ v.author \in Nat
      BY VersionParts
    <3>. QED
      BY <1>6, <1>7, <2>2, <3>1, <3>2 DEF Before
  <2>. QED
    BY <1>7, <2>1, <2>2 DEF Before
<1>. QED
  BY <1>8 DEF Latest

\* Any set of versions has an earliest one.
LEMMA EarliestIsFirst ==
  ASSUME NEW S \in SUBSET Version, S # {}, Keyed(S)
  PROVE  Earliest(S) \in S /\ \A w \in S \ {Earliest(S)} : Before(Earliest(S), w)
<1> DEFINE T == {v.stamp : v \in S}
<1>1. T \in SUBSET Nat /\ T # {}
  BY VersionParts
<1>3. PICK t \in T : \A x \in T : t <= x
  BY <1>1, LeastOfNats
<1> DEFINE A == {a \in Peers : \E v \in S : v.stamp = t /\ v.author = a}
<1>4. A \in SUBSET Nat /\ A # {}
  BY VersionParts, PeerAssumption DEF Peers
<1>6. PICK a \in A : \A x \in A : a <= x
  BY <1>4, LeastOfNats
<1>7. PICK v \in S : v.stamp = t /\ v.author = a
  BY <1>6
<1>8. ASSUME NEW w \in S \ {v} PROVE Before(v, w)
  <2>1. t <= w.stamp /\ w.stamp \in Nat /\ t \in Nat
    BY <1>1, <1>3, VersionParts
  <2>2. CASE w.stamp = t
    <3>1. w.author \in A /\ w.author # v.author
      BY <1>7, <2>2, VersionParts DEF Keyed
    <3>2. w.author \in Nat /\ v.author \in Nat
      BY VersionParts
    <3>. QED
      BY <1>6, <1>7, <2>2, <3>1, <3>2 DEF Before
  <2>. QED
    BY <1>7, <2>1, <2>2 DEF Before
<1>. QED
  BY <1>8 DEF Earliest

-----------------------------------------------------------------------------
(* What the actions do to the sets of versions.                            *)

\* The replicas alone, of TypeOK.
Stored ==
  /\ chain \in [Peers -> Seq(Version)]
  /\ known \in [Peers -> [Peers -> Nat]]
  /\ \A n, a \in Peers : known[n][a] <= known[a][a]
  /\ \A a \in Peers : known[a][a] = Len(chain[a])

Ordered == Keyed(Written) /\ Bounded(Written)

LEMMA HeldIsWritten ==
  ASSUME Stored, NEW n \in Peers
  PROVE  Seen(n) \subseteq Written /\ Written \in SUBSET Version
<1>1. \A a \in Peers : chain[a] \in Seq(Version) /\ known[n][a] <= Len(chain[a])
                       /\ known[n][a] \in Nat
  BY DEF Stored
<1>2. Written \in SUBSET Version
  BY <1>1 DEF Written
<1>3. ASSUME NEW a \in Peers, NEW i \in 1..known[n][a]
      PROVE  i \in 1..Len(chain[a])
  BY <1>1
<1>4. Seen(n) \subseteq Written
  BY <1>3 DEF Seen, Written
<1>. QED
  BY <1>2, <1>4

\* What a peer has is ordered as all there is.
LEMMA SeenIsOrdered ==
  ASSUME Stored, Ordered, NEW n \in Peers, Seen(n) # {}
  PROVE  /\ Seen(n) \in SUBSET Version
         /\ Latest(Seen(n)) \in Seen(n)
         /\ \A w \in Seen(n) \ {Latest(Seen(n))} : Before(w, Latest(Seen(n)))
         /\ Earliest(Seen(n)) \in Seen(n)
         /\ \A w \in Seen(n) \ {Earliest(Seen(n))} : Before(Earliest(Seen(n)), w)
<1>1. Seen(n) \subseteq Written /\ Seen(n) \in SUBSET Version
  BY HeldIsWritten
<1>2. Keyed(Seen(n)) /\ Bounded(Seen(n))
  BY <1>1 DEF Ordered, Keyed, Bounded
<1>. QED
  BY <1>1, <1>2, LatestIsLast, EarliestIsFirst

\* A fresh stamp is above all its writer has.
LEMMA StampsAreAbove ==
  ASSUME Stored, Ordered, NEW n \in Peers, NEW t \in Stamps(n)
  PROVE  t \in Nat /\ \A w \in Seen(n) : w.stamp < t
<1>1. CASE Seen(n) = {}
  BY <1>1, BoundAssumption DEF Stamps
<1>2. CASE Seen(n) # {}
  <2> DEFINE top == Latest(Seen(n))
  <2>1. top \in Version /\ \A w \in Seen(n) : w = top \/ Before(w, top)
    BY <1>2, SeenIsOrdered
  <2>2. top.stamp \in Nat
    BY <2>1, VersionParts
  <2>3. t \in (top.stamp + 1)..(top.stamp + 1 + MaxSkew)
    BY <1>2 DEF Stamps
  <2>4. t \in Nat /\ top.stamp < t
    BY <2>2, <2>3, BoundAssumption
  <2>5. ASSUME NEW w \in Seen(n) PROVE w.stamp < t
    <3>1. w \in Version /\ w.stamp \in Nat
      BY <1>2, SeenIsOrdered, VersionParts
    <3>2. w.stamp <= top.stamp
      BY <2>1, <2>2, <3>1 DEF Before
    <3>. QED
      BY <2>2, <2>4, <3>1, <3>2
  <2>. QED
    BY <2>4, <2>5
<1>. QED
  BY <1>1, <1>2

NewVersion(n, t, op, members) ==
  [author |-> n, stamp |-> t, op |-> op, members |-> members]

\* A commit adds one version to what there is and to what its author has.
LEMMA CommitAdds ==
  ASSUME Stored, Ordered, NEW n \in Peers, NEW op \in {"create", "update", "delete"},
         NEW members \in SUBSET Peers, Commit(n, op, members)
  PROVE  /\ Stored'
         /\ \E t \in Stamps(n) :
              LET v == NewVersion(n, t, op, members) IN
              /\ v \in Version
              /\ chain' = [chain EXCEPT ![n] = Append(@, v)]
              /\ Written' = Written \cup {v}
              /\ Seen(n)' = Seen(n) \cup {v}
              /\ \A m \in Peers \ {n} : Seen(m)' = Seen(m)
<1>1. PICK t \in Stamps(n) :
        chain' = [chain EXCEPT ![n] = Append(@, NewVersion(n, t, op, members))]
  BY DEF Commit, NewVersion
<1> DEFINE v == NewVersion(n, t, op, members)
<1>2. v \in Version
  BY StampsAreAbove DEF NewVersion, Version
<1> HIDE DEF v
<1>3. known' = [known EXCEPT ![n][n] = @ + 1]
  BY DEF Commit
<1>4. /\ chain'[n] = Append(chain[n], v)
      /\ \A a \in Peers \ {n} : chain'[a] = chain[a]
      /\ chain[n] \in Seq(Version)
  BY <1>1 DEF Stored, v
<1>5. /\ Len(chain'[n]) = Len(chain[n]) + 1
      /\ \A i \in 1..Len(chain[n]) : chain'[n][i] = chain[n][i]
      /\ chain'[n][Len(chain[n]) + 1] = v
      /\ Len(chain[n]) \in Nat
  BY <1>2, <1>4
<1>6. /\ known'[n][n] = Len(chain[n]) + 1
      /\ \A m, a \in Peers : (m # n \/ a # n) => known'[m][a] = known[m][a]
  BY <1>3 DEF Stored
<1>7. Stored'
  <2>1. chain' \in [Peers -> Seq(Version)]
    BY <1>1, <1>2, <1>4 DEF Stored, v
  <2>2. known' \in [Peers -> [Peers -> Nat]]
    BY <1>3 DEF Stored
  <2>3. \A a \in Peers : known'[a][a] = Len(chain'[a])
    BY <1>4, <1>5, <1>6 DEF Stored
  <2>4. ASSUME NEW m \in Peers, NEW a \in Peers PROVE known'[m][a] <= known'[a][a]
    <3>1. known[m][a] <= known[a][a] /\ known[m][a] \in Nat /\ known[a][a] \in Nat
          /\ known[n][n] = Len(chain[n])
      BY DEF Stored
    <3>. QED
      BY <3>1, <1>6
  <2>. QED
    BY <2>1, <2>2, <2>3, <2>4 DEF Stored
<1>8. Written' = Written \cup {v}
  <2>1. ASSUME NEW x \in Written' PROVE x \in Written \cup {v}
    <3>1. PICK a \in Peers : \E i \in 1..Len(chain'[a]) : x = chain'[a][i]
      BY DEF Written
    <3>2. PICK i \in 1..Len(chain'[a]) : x = chain'[a][i]
      BY <3>1
    <3>3. CASE a # n
      <4>1. i \in 1..Len(chain[a]) /\ x = chain[a][i]
        BY <3>2, <3>3, <1>4
      <4>. QED
        BY <4>1 DEF Written
    <3>4. CASE a = n /\ i = Len(chain[n]) + 1
      BY <3>2, <3>4, <1>5
    <3>5. CASE a = n /\ i # Len(chain[n]) + 1
      <4>1. i \in 1..Len(chain[n])
        BY <3>2, <3>5, <1>5
      <4>2. x = chain[n][i]
        BY <4>1, <3>2, <3>5, <1>5
      <4>. QED
        BY <4>1, <4>2 DEF Written
    <3>. QED
      BY <3>3, <3>4, <3>5
  <2>2. ASSUME NEW x \in Written PROVE x \in Written'
    <3>1. PICK a \in Peers : \E i \in 1..Len(chain[a]) : x = chain[a][i]
      BY DEF Written
    <3>2. PICK i \in 1..Len(chain[a]) : x = chain[a][i]
      BY <3>1
    <3>3. i \in 1..Len(chain'[a]) /\ x = chain'[a][i]
      BY <3>2, <1>4, <1>5
    <3>. QED
      BY <3>3 DEF Written
  <2>3. v \in Written'
    <3>1. Len(chain[n]) + 1 \in 1..Len(chain'[n])
      BY <1>5
    <3>. QED
      BY <3>1, <1>5 DEF Written
  <2>. QED
    BY <2>1, <2>2, <2>3
<1>9. Seen(n)' = Seen(n) \cup {v}
  <2>1. \A a \in Peers \ {n} : known'[n][a] = known[n][a] /\ chain'[a] = chain[a]
    BY <1>4, <1>6
  <2>2. known[n][n] = Len(chain[n])
    BY DEF Stored
  <2>3. ASSUME NEW x \in Seen(n)' PROVE x \in Seen(n) \cup {v}
    <3>1. PICK a \in Peers : \E i \in 1..known'[n][a] : x = chain'[a][i]
      BY DEF Seen
    <3>2. PICK i \in 1..known'[n][a] : x = chain'[a][i]
      BY <3>1
    <3>3. CASE a # n
      <4>1. i \in 1..known[n][a] /\ x = chain[a][i]
        BY <3>2, <3>3, <2>1
      <4>. QED
        BY <4>1 DEF Seen
    <3>4. CASE a = n /\ i = Len(chain[n]) + 1
      BY <3>2, <3>4, <1>5
    <3>5. CASE a = n /\ i # Len(chain[n]) + 1
      <4>1. i \in 1..Len(chain[n])
        BY <3>2, <3>5, <1>5, <1>6
      <4>2. i \in 1..known[n][n] /\ x = chain[n][i]
        BY <4>1, <2>2, <3>2, <3>5, <1>5
      <4>. QED
        BY <4>2 DEF Seen
    <3>. QED
      BY <3>3, <3>4, <3>5
  <2>4. ASSUME NEW x \in Seen(n) PROVE x \in Seen(n)'
    <3>1. PICK a \in Peers : \E i \in 1..known[n][a] : x = chain[a][i]
      BY DEF Seen
    <3>2. PICK i \in 1..known[n][a] : x = chain[a][i]
      BY <3>1
    <3>3. i \in 1..known'[n][a] /\ x = chain'[a][i]
      BY <3>2, <2>1, <2>2, <1>5, <1>6
    <3>. QED
      BY <3>3 DEF Seen
  <2>5. v \in Seen(n)'
    <3>1. Len(chain[n]) + 1 \in 1..known'[n][n]
      BY <1>5, <1>6
    <3>. QED
      BY <3>1, <1>5 DEF Seen
  <2>. QED
    BY <2>3, <2>4, <2>5
<1>10. ASSUME NEW m \in Peers \ {n} PROVE Seen(m)' = Seen(m)
  <2>1. ASSUME NEW a \in Peers, NEW i \in 1..known[m][a] PROVE chain'[a][i] = chain[a][i]
    <3>1. known[m][a] \in Nat /\ known[m][a] <= known[a][a] /\ known[a][a] = Len(chain[a])
      BY DEF Stored
    <3>2. Len(chain[a]) \in Nat
      BY <1>4, <1>5 DEF Stored
    <3>3. i \in 1..Len(chain[a])
      BY <3>1, <3>2
    <3>4. CASE a = n
      BY <3>3, <3>4, <1>5
    <3>5. CASE a # n
      BY <3>5, <1>4
    <3>. QED
      BY <3>4, <3>5
  <2>2. \A a \in Peers : known'[m][a] = known[m][a]
    BY <1>6
  <2>. QED
    BY <2>1, <2>2 DEF Seen
<1>. QED
  BY <1>1, <1>2, <1>7, <1>8, <1>9, <1>10 DEF v

\* A serve adds to what one member has, from what there is.
LEMMA ServeAdds ==
  ASSUME Stored, NEW n \in Peers, NEW m \in Peers, Serve(n, m)
  PROVE  /\ Stored' /\ chain' = chain /\ Written' = Written
         /\ \A p \in Peers \ {m} : Seen(p)' = Seen(p)
         /\ Seen(m) \subseteq Seen(m)'
<1>1. PICK a \in Peers : \E k \in (known[m][a] + 1)..known[n][a] :
        known' = [known EXCEPT ![m][a] = k]
  BY DEF Serve
<1>2. PICK k \in (known[m][a] + 1)..known[n][a] : known' = [known EXCEPT ![m][a] = k]
  BY <1>1
<1>3. /\ chain' = chain
      /\ known[m][a] < k /\ k <= known[n][a] /\ known[n][a] <= known[a][a]
      /\ known[m][a] \in Nat /\ k \in Nat /\ known[n][a] \in Nat /\ known[a][a] \in Nat
  <2>1. chain' = chain
    BY DEF Serve
  <2>2. known[m][a] \in Nat /\ known[n][a] \in Nat /\ known[a][a] \in Nat
    BY DEF Stored
  <2>3. known[n][a] <= known[a][a]
    BY DEF Stored
  <2>. QED
    BY <2>1, <2>2, <2>3
<1>4. /\ known' \in [Peers -> [Peers -> Nat]]
      /\ known'[m][a] = k
      /\ \A p, q \in Peers : (p # m \/ q # a) => known'[p][q] = known[p][q]
  BY <1>2, <1>3 DEF Stored
<1>5. m # a
  BY <1>3
<1>6. Stored'
  <2>1. \A q \in Peers : known'[q][q] = known[q][q]
    BY <1>4, <1>5
  <2>2. ASSUME NEW p \in Peers, NEW q \in Peers PROVE known'[p][q] <= known'[q][q]
    <3>1. CASE p = m /\ q = a
      <4>1. known'[p][q] = k /\ known'[q][q] = known[a][a]
        BY <3>1, <1>4, <2>1
      <4>. QED
        BY <4>1, <1>3
    <3>2. CASE p # m \/ q # a
      <4>1. known'[p][q] = known[p][q] /\ known'[q][q] = known[q][q]
        BY <3>2, <1>4, <2>1
      <4>. QED
        BY <4>1 DEF Stored
    <3>. QED
      BY <3>1, <3>2
  <2>. QED
    BY <1>3, <1>4, <2>1, <2>2 DEF Stored
<1>7. ASSUME NEW p \in Peers \ {m} PROVE Seen(p)' = Seen(p)
  <2>1. \A q \in Peers : known'[p][q] = known[p][q]
    BY <1>4
  <2>. QED
    BY <2>1, <1>3 DEF Seen
<1>8. ASSUME NEW x \in Seen(m) PROVE x \in Seen(m)'
  <2>1. PICK q \in Peers : \E i \in 1..known[m][q] : x = chain[q][i]
    BY DEF Seen
  <2>2. PICK i \in 1..known[m][q] : x = chain[q][i]
    BY <2>1
  <2>3. known[m][q] \in Nat /\ known'[m][q] \in Nat /\ known[m][q] <= known'[m][q]
    <3>1. known[m][q] \in Nat /\ known'[m][q] \in Nat
      BY <1>4 DEF Stored
    <3>2. q = a \/ known'[m][q] = known[m][q]
      BY <1>4
    <3>. QED
      BY <3>1, <3>2, <1>3, <1>4
  <2>4. i \in 1..known'[m][q] /\ x = chain'[q][i]
    BY <2>2, <2>3, <1>3
  <2>. QED
    BY <2>4 DEF Seen
<1>. QED
  BY <1>3, <1>6, <1>7, <1>8 DEF Written

-----------------------------------------------------------------------------
(* The inductive invariant.                                                *)

\* Authors keep their versions.
Kept == \A v \in Written : v \in Seen(v.author)

\* The creator's first version is below all others.
CreatedFirst ==
  Written # {} =>
    /\ Len(chain[Creator]) > 0
    /\ chain[Creator][1].author = Creator
    /\ \A v \in Written \ {chain[Creator][1]} : chain[Creator][1].stamp < v.stamp

\* Whoever is not the creator had an earlier version when writing one.
BuiltUpon ==
  \A v \in Written : v.author # Creator => \E w \in Seen(v.author) : Before(w, v)

Replicas ==
  Stored /\ Ordered /\ Kept /\ CreatedFirst /\ BuiltUpon /\ OnlyEverMembersHold

\* Requests have read a channel that exists, and none comes before it does.
Reads ==
  /\ \A r \in requests : r.read.op # "delete"
  /\ Written = {} => wanted = {}

IInv == TypeOK /\ Replicas /\ Reads /\ NoConflictWhenSerial

LEMMA TypeOKParts == TypeOK => Stored
BY DEF TypeOK, Stored

-----------------------------------------------------------------------------
(* The invariant of the replicas.                                          *)

\* Who holds the channel may write to it, the creator before anyone else does;
\* nothing the replicas promise is lost by it.
LEMMA CommitKeepsReplicas ==
  ASSUME Replicas, NEW n \in Peers, NEW op \in {"create", "update", "delete"},
         NEW members \in SUBSET Peers, Commit(n, op, members),
         Seen(n) # {} \/ (n = Creator /\ Written = {})
  PROVE  Replicas'
<1>1. Stored /\ Ordered /\ Kept /\ CreatedFirst /\ BuiltUpon /\ OnlyEverMembersHold
  BY DEF Replicas
<1>2. Stored'
  BY <1>1, CommitAdds
<1>3. PICK t \in Stamps(n) :
        LET v == NewVersion(n, t, op, members) IN
        /\ v \in Version
        /\ chain' = [chain EXCEPT ![n] = Append(@, v)]
        /\ Written' = Written \cup {v}
        /\ Seen(n)' = Seen(n) \cup {v}
        /\ \A m \in Peers \ {n} : Seen(m)' = Seen(m)
  BY <1>1, CommitAdds
<1> DEFINE v == NewVersion(n, t, op, members)
<1>4. /\ v \in Version /\ v.author = n /\ v.stamp = t
      /\ chain' = [chain EXCEPT ![n] = Append(@, v)]
      /\ Written' = Written \cup {v}
      /\ Seen(n)' = Seen(n) \cup {v}
      /\ \A m \in Peers \ {n} : Seen(m)' = Seen(m)
  BY <1>3 DEF NewVersion
<1>5. t \in Nat /\ \A w \in Seen(n) : w.stamp < t
  BY <1>1, StampsAreAbove
<1>6. Written \in SUBSET Version /\ \A m \in Peers : Seen(m) \subseteq Written
  BY <1>1, HeldIsWritten, PeerAssumption
<1> HIDE DEF v
<1>7. Ordered'
  <2>1. ASSUME NEW w \in Written, w.author = n PROVE w.stamp # t
    <3>1. w \in Seen(n)
      BY <1>1, <2>1 DEF Kept
    <3>. QED
      BY <3>1, <1>5, <1>6, VersionParts
  <2>2. Keyed(Written')
    BY <1>1, <1>4, <2>1 DEF Ordered, Keyed
  <2>3. Bounded(Written')
    <3>1. PICK b \in Nat : \A w \in Written : w.stamp <= b
      BY <1>1 DEF Ordered, Bounded
    <3>2. b + t \in Nat /\ t <= b + t /\ b <= b + t
      BY <1>5
    <3>3. ASSUME NEW w \in Written' PROVE w.stamp <= b + t
      <4>1. CASE w = v
        BY <4>1, <1>4, <3>2
      <4>2. CASE w \in Written
        <5>1. w.stamp \in Nat /\ w.stamp <= b
          BY <4>2, <3>1, <1>6, VersionParts
        <5>. QED
          BY <5>1, <3>2
      <4>. QED
        BY <4>1, <4>2, <1>4
    <3>. QED
      BY <3>2, <3>3 DEF Bounded
  <2>. QED
    BY <2>2, <2>3 DEF Ordered
<1>8. Kept'
  <2>1. ASSUME NEW w \in Written' PROVE w \in Seen(w.author)'
    <3>1. CASE w = v
      BY <3>1, <1>4
    <3>2. CASE w \in Written
      <4>1. w \in Seen(w.author) /\ w.author \in Peers
        BY <3>2, <1>1, <1>6, VersionParts DEF Kept
      <4>. QED
        BY <4>1, <1>4
    <3>. QED
      BY <3>1, <3>2, <1>4
  <2>. QED
    BY <2>1 DEF Kept
<1>9. CreatedFirst'
  <2>1. chain[Creator] \in Seq(Version) /\ chain[n] \in Seq(Version)
    BY <1>1, PeerAssumption DEF Stored
  <2>2. CASE Written = {}
    <3>1. n = Creator /\ Len(chain[n]) = 0
      <4>1. Seen(n) = {}
        BY <2>2, <1>6
      <4>2. \A i \in 1..Len(chain[n]) : chain[n][i] \in Written
        BY DEF Written
      <4>3. Len(chain[n]) \in Nat /\ (Len(chain[n]) > 0 => 1 \in 1..Len(chain[n]))
        BY <2>1
      <4>. QED
        BY <4>1, <4>2, <4>3, <2>2
    <3>2. chain'[Creator] = Append(chain[n], v) /\ chain[n] = <<>>
      BY <3>1, <1>4, <2>1 DEF Stored, Replicas
    <3>3. Len(chain'[Creator]) > 0 /\ chain'[Creator][1] = v
      BY <3>2, <1>4
    <3>. QED
      BY <3>1, <3>3, <1>4, <2>2 DEF CreatedFirst
  <2>3. CASE Written # {}
    <3> DEFINE first == chain[Creator][1]
    <3>1. /\ Len(chain[Creator]) > 0 /\ first.author = Creator
          /\ \A w \in Written \ {first} : first.stamp < w.stamp
      BY <1>1, <2>3 DEF CreatedFirst
    <3>2. Len(chain'[Creator]) > 0 /\ chain'[Creator][1] = first
      <4>1. CASE n = Creator
        <5>1. chain'[Creator] = Append(chain[Creator], v)
          BY <4>1, <1>1, <1>4 DEF Stored
        <5>. QED
          BY <5>1, <3>1, <2>1, <1>4
      <4>2. CASE n # Creator
        BY <4>2, <3>1, <1>1, <1>4 DEF Stored
      <4>. QED
        BY <4>1, <4>2
    <3>3. first.stamp < v.stamp
      <4>1. PICK w \in Seen(n) : TRUE
        BY <2>3
      <4>2. first \in Version
        BY <2>1, <3>1
      <4>3. first.stamp <= w.stamp /\ first.stamp \in Nat /\ w.stamp \in Nat
        BY <4>1, <4>2, <3>1, <1>6, VersionParts
      <4>. QED
        BY <4>1, <4>3, <1>4, <1>5
    <3>. QED
      BY <3>1, <3>2, <3>3, <1>4 DEF CreatedFirst
  <2>. QED
    BY <2>2, <2>3
<1>10. BuiltUpon'
  <2>1. ASSUME NEW w \in Written', w.author # Creator
        PROVE  \E x \in Seen(w.author)' : Before(x, w)
    <3>1. CASE w = v
      <4>1. PICK x \in Seen(n) : TRUE
        BY <3>1, <2>1, <1>4
      <4>2. Before(x, w)
        BY <4>1, <3>1, <1>4, <1>5 DEF Before
      <4>. QED
        BY <4>1, <4>2, <3>1, <1>4
    <3>2. CASE w \in Written
      <4>1. PICK x \in Seen(w.author) : Before(x, w)
        BY <3>2, <2>1, <1>1 DEF BuiltUpon
      <4>2. w.author \in Peers
        BY <3>2, <1>6, VersionParts
      <4>3. x \in Seen(w.author)'
        BY <4>1, <4>2, <1>4
      <4>. QED
        BY <4>1, <4>3
    <3>. QED
      BY <3>1, <3>2, <1>4
  <2>. QED
    BY <2>1 DEF BuiltUpon, Before
<1>11. OnlyEverMembersHold'
  <2>1. ASSUME NEW m \in Peers, Seen(m)' # {}
        PROVE  m = Creator \/ \E w \in Written' : m \in w.members
    <3>1. m = Creator \/ Seen(m) # {}
      BY <2>1, <1>4
    <3>. QED
      BY <3>1, <1>1, <1>4 DEF OnlyEverMembersHold
  <2>. QED
    BY <2>1 DEF OnlyEverMembersHold
<1>. QED
  BY <1>2, <1>7, <1>8, <1>9, <1>10, <1>11 DEF Replicas

\* A member in the eyes of a peer that has the channel has held or was listed
\* in some version there is: the owner because he wrote one.
LEMMA ServeKeepsReplicas ==
  ASSUME Replicas, NEW n \in Peers, NEW m \in Peers, Serve(n, m)
  PROVE  Replicas'
<1>1. Stored /\ Ordered /\ Kept /\ CreatedFirst /\ BuiltUpon /\ OnlyEverMembersHold
  BY DEF Replicas
<1>2. /\ Stored' /\ chain' = chain /\ Written' = Written
      /\ \A p \in Peers : Seen(p) \subseteq Seen(p)'
      /\ \A p \in Peers \ {m} : Seen(p)' = Seen(p)
  BY <1>1, ServeAdds
<1>3. Written \in SUBSET Version /\ \A p \in Peers : Seen(p) \subseteq Written
  BY <1>1, HeldIsWritten, PeerAssumption
<1>4. Ordered'
  BY <1>1, <1>2 DEF Ordered, Keyed, Bounded
<1>5. Kept'
  <2>1. ASSUME NEW w \in Written PROVE w \in Seen(w.author)'
    BY <1>1, <1>2, <1>3, VersionParts DEF Kept
  <2>. QED
    BY <2>1, <1>2 DEF Kept
<1>6. CreatedFirst'
  BY <1>1, <1>2 DEF CreatedFirst
<1>7. BuiltUpon'
  <2>1. ASSUME NEW w \in Written, w.author # Creator
        PROVE  \E x \in Seen(w.author)' : Before(x, w)
    <3>1. PICK x \in Seen(w.author) : Before(x, w)
      BY <1>1, <2>1 DEF BuiltUpon
    <3>. QED
      BY <3>1, <1>2, <1>3, VersionParts
  <2>. QED
    BY <2>1, <1>2 DEF BuiltUpon, Before
<1>8. OnlyEverMembersHold'
  <2>1. m = Creator \/ \E w \in Written : m \in w.members
    <3>1. Seen(n) # {} /\ (m = Owner(n) \/ m \in Members(n))
      BY DEF Serve, IsMember, Exists
    <3>2. Latest(Seen(n)) \in Written /\ Earliest(Seen(n)) \in Written
      BY <3>1, <1>1, <1>3, SeenIsOrdered
    <3>3. CASE m = Owner(n)
      <4>1. Earliest(Seen(n)) \in Seen(m)
        BY <3>2, <3>3, <1>1 DEF Owner, Kept
      <4>. QED
        BY <4>1, <1>1 DEF OnlyEverMembersHold
    <3>4. CASE m \in Members(n)
      BY <3>2, <3>4 DEF Members
    <3>. QED
      BY <3>1, <3>3, <3>4
  <2>2. ASSUME NEW p \in Peers, Seen(p)' # {}
        PROVE  p = Creator \/ \E w \in Written : p \in w.members
    <3>1. CASE p = m
      BY <3>1, <2>1
    <3>2. CASE p # m
      BY <3>2, <2>2, <1>1, <1>2 DEF OnlyEverMembersHold
    <3>. QED
      BY <3>1, <3>2
  <2>. QED
    BY <2>2, <1>2 DEF OnlyEverMembersHold
<1>. QED
  BY <1>2, <1>4, <1>5, <1>6, <1>7, <1>8 DEF Replicas

\* Steps that write nothing and serve nothing.
LEMMA StillReplicas ==
  ASSUME Replicas, UNCHANGED <<chain, known>>
  PROVE  Replicas' /\ Written' = Written /\ \A n \in Peers : Seen(n)' = Seen(n)
<1>1. Written' = Written
  BY DEF Written
<1>2. ASSUME NEW n \in Peers PROVE Seen(n)' = Seen(n)
  BY DEF Seen
<1>3. Stored' /\ Ordered' /\ CreatedFirst'
  BY <1>1 DEF Replicas, Stored, Ordered, Keyed, Bounded, CreatedFirst
<1>4. \A w \in Written : w.author \in Peers
  BY HeldIsWritten, VersionParts, PeerAssumption DEF Replicas
<1>5. Kept' /\ BuiltUpon'
  <2>1. Kept /\ BuiltUpon
    BY DEF Replicas
  <2>2. Kept'
    BY <2>1, <1>1, <1>2, <1>4 DEF Kept
  <2>3. BuiltUpon'
    BY <2>1, <1>1, <1>2, <1>4 DEF BuiltUpon, Before
  <2>. QED
    BY <2>2, <2>3
<1>6. OnlyEverMembersHold'
  BY <1>1, <1>2 DEF Replicas, OnlyEverMembersHold
<1>. QED
  BY <1>1, <1>2, <1>3, <1>5, <1>6 DEF Replicas

-----------------------------------------------------------------------------
(* The latest version of all.                                              *)

\* A commit gives the latest version or leaves it; it does give it if its
\* author had the latest one.
LEMMA CommitAndLatest ==
  ASSUME Replicas, NEW n \in Peers, NEW op \in {"create", "update", "delete"},
         NEW members \in SUBSET Peers, Commit(n, op, members),
         Seen(n) # {} \/ (n = Creator /\ Written = {})
  PROVE  /\ \A m \in Peers : Seen(m) \subseteq Seen(m)'
         /\ Written' # {}
         /\ \E v \in Version :
              /\ v.op = op /\ v.members = members
              /\ Latest(Written)' = v
                   \/ (Written # {} /\ Latest(Written)' = Latest(Written))
              /\ Written = {} \/ Latest(Written) \in Seen(n) => Latest(Written)' = v
<1>1. Stored /\ Ordered /\ Stored' /\ Ordered'
  BY CommitKeepsReplicas DEF Replicas
<1>2. PICK t \in Stamps(n) :
        LET v == NewVersion(n, t, op, members) IN
        /\ v \in Version
        /\ Written' = Written \cup {v}
        /\ Seen(n)' = Seen(n) \cup {v}
        /\ \A m \in Peers \ {n} : Seen(m)' = Seen(m)
  BY <1>1, CommitAdds
<1> DEFINE v == NewVersion(n, t, op, members)
<1>3. /\ v \in Version /\ v.stamp = t /\ v.op = op /\ v.members = members
      /\ Written' = Written \cup {v}
      /\ \A m \in Peers : Seen(m) \subseteq Seen(m)'
  BY <1>2 DEF NewVersion
<1> HIDE DEF v
<1>4. Written \in SUBSET Version /\ Seen(n) \subseteq Written
  BY <1>1, HeldIsWritten
<1>5. Written' \in SUBSET Version /\ Written' # {}
  BY <1>3, <1>4
<1> DEFINE now == Latest(Written)
           next == Latest(Written')
<1>6. next \in Written' /\ \A w \in Written' \ {next} : Before(w, next)
  BY <1>1, <1>5, LatestIsLast DEF Ordered
<1>7. Written # {} => now \in Written /\ \A w \in Written \ {now} : Before(w, now)
  BY <1>1, <1>4, LatestIsLast DEF Ordered
<1> HIDE DEF now, next
<1>8. ASSUME next # v PROVE Written # {} /\ next = now
  <2>1. next \in Written
    BY <1>3, <1>6, <1>8
  <2>2. CASE next # now
    <3>1. Before(next, now) /\ Before(now, next) /\ now \in Version /\ next \in Version
      BY <2>1, <2>2, <1>3, <1>4, <1>6, <1>7
    <3>. QED
      BY <3>1, BeforeIsTransitive, BeforeIsIrreflexive
  <2>. QED
    BY <2>1, <2>2
<1>9. ASSUME Written = {} \/ now \in Seen(n) PROVE next = v
  <2>1. CASE next # v
    <3>1. next = now /\ now \in Seen(n) /\ now \in Version
      BY <2>1, <1>4, <1>7, <1>8, <1>9
    <3>2. now.stamp < t /\ t \in Nat /\ now.stamp \in Nat
      BY <3>1, <1>1, StampsAreAbove, VersionParts
    <3>3. Before(now, v)
      BY <3>2, <1>3 DEF Before
    <3>4. Before(v, now)
      BY <3>1, <2>1, <1>3, <1>6
    <3>. QED
      BY <3>1, <3>3, <3>4, <1>3, BeforeIsTransitive, BeforeIsIrreflexive
  <2>. QED
    BY <2>1
<1>. QED
  BY <1>3, <1>5, <1>8, <1>9 DEF now, next

-----------------------------------------------------------------------------
(* Every action keeps the invariant.                                       *)

LEMMA InitIInv == Init => IInv
<1> SUFFICES ASSUME Init PROVE IInv
  OBVIOUS
<1>1. \A a \in Peers : chain[a] = <<>> /\ Len(chain[a]) = 0
  BY DEF Init
<1>2. Written = {}
  BY <1>1 DEF Written
<1>3. \A n \in Peers : Seen(n) = {}
  BY DEF Init, Seen
<1>4. Stored
  BY <1>1 DEF Init, Stored
<1>5. TypeOK
  BY <1>4 DEF Init, Stored, TypeOK
<1>6. Ordered
  BY <1>2 DEF Ordered, Keyed, Bounded
<1>. QED
  BY <1>2, <1>3, <1>4, <1>5, <1>6
     DEF Init, IInv, Replicas, Kept, CreatedFirst, BuiltUpon, OnlyEverMembersHold,
         Reads, NoConflictWhenSerial

LEMMA CreateKeeps ==
  ASSUME IInv, NEW n \in Peers, Create(n)
  PROVE  IInv'
<1>1. /\ Replicas /\ Commit(n, "create", {}) /\ n = Creator /\ Written = {}
      /\ UNCHANGED <<requests, wanted, overlapped>>
  BY DEF IInv, Create
<1>2. Replicas'
  BY <1>1, CommitKeepsReplicas
<1>3. PICK v \in Version :
        /\ \A m \in Peers : Seen(m) \subseteq Seen(m)'
        /\ Written' # {} /\ v.members = {} /\ Latest(Written)' = v
  BY <1>1, CommitAndLatest
<1>4. TypeOK'
  BY <1>1, <1>2, <1>3 DEF IInv, TypeOK, Replicas, Stored
<1>5. Reads' /\ NoConflictWhenSerial'
  BY <1>1, <1>3 DEF IInv, Reads, NoConflictWhenSerial
<1>. QED
  BY <1>2, <1>4, <1>5 DEF IInv

LEMMA BeginKeeps ==
  ASSUME IInv, NEW n \in Peers, Begin(n)
  PROVE  IInv'
<1>1. Replicas' /\ Written' = Written /\ \A m \in Peers : Seen(m)' = Seen(m)
  BY StillReplicas DEF IInv, Begin
<1>2. PICK change \in {"add", "remove"}, p \in Peers :
        requests' = requests \cup
          {[at |-> n, change |-> change, who |-> p, read |-> Latest(Seen(n))]}
  BY DEF Begin
<1>3. /\ Seen(n) # {} /\ Latest(Seen(n)).op # "delete"
      /\ UNCHANGED <<chain, known, wanted, overlapped>>
  BY DEF Begin, Exists
<1>4. Latest(Seen(n)) \in Seen(n)
  BY <1>3, SeenIsOrdered DEF IInv, Replicas
<1>5. \A r \in requests' : /\ r.at \in Peers /\ r.who \in Peers
                           /\ r.read \in Seen(r.at)' /\ r.read.op # "delete"
  BY <1>1, <1>2, <1>3, <1>4 DEF IInv, TypeOK, Reads
<1>6. TypeOK'
  BY <1>1, <1>3, <1>5 DEF IInv, TypeOK, Replicas, Stored
<1>7. Reads' /\ NoConflictWhenSerial'
  BY <1>1, <1>3, <1>5 DEF IInv, Reads, NoConflictWhenSerial
<1>. QED
  BY <1>1, <1>6, <1>7 DEF IInv

LEMMA WriteKeeps ==
  ASSUME IInv, NEW r \in requests, Write(r)
  PROVE  IInv'
<1> DEFINE members == Changed(r.read.members, r)
<1>1. /\ Replicas /\ Commit(r.at, "update", members) /\ requests' = requests \ {r}
      /\ wanted' = Changed(wanted, r)
      /\ overlapped' = (overlapped \/ r.read # Latest(Written))
  BY DEF IInv, Write
<1>2. r.at \in Peers /\ r.who \in Peers /\ r.read \in Seen(r.at) /\ wanted \subseteq Peers
      /\ overlapped \in BOOLEAN
  BY DEF IInv, TypeOK
<1>3. r.read \in Version /\ r.read \in Written
  BY <1>1, <1>2, HeldIsWritten DEF Replicas
<1>4. members \in SUBSET Peers /\ wanted' \subseteq Peers
  BY <1>1, <1>2, <1>3, VersionParts DEF Changed
<1> HIDE DEF members
<1>5. Replicas'
  BY <1>1, <1>2, <1>4, CommitKeepsReplicas
<1>6. PICK v \in Version :
        /\ \A m \in Peers : Seen(m) \subseteq Seen(m)'
        /\ Written' # {} /\ v.members = members
        /\ Latest(Written) \in Seen(r.at) => Latest(Written)' = v
  BY <1>1, <1>2, <1>4, CommitAndLatest
<1>7. TypeOK'
  BY <1>1, <1>2, <1>4, <1>5, <1>6 DEF IInv, TypeOK, Replicas, Stored
<1>8. Reads'
  BY <1>1, <1>6 DEF IInv, Reads
<1>9. NoConflictWhenSerial'
  <2>1. SUFFICES ASSUME ~overlapped' PROVE Latest(Written)'.members = wanted'
    BY DEF NoConflictWhenSerial
  <2>2. ~overlapped /\ r.read = Latest(Written)
    BY <2>1, <1>1
  <2>3. Latest(Written)' = v
    BY <2>2, <1>2, <1>6
  <2>4. r.read.members = wanted
    BY <2>2, <1>3 DEF IInv, Reads, NoConflictWhenSerial
  <2>. QED
    BY <2>3, <2>4, <1>1, <1>6 DEF members
<1>. QED
  BY <1>5, <1>7, <1>8, <1>9 DEF IInv

LEMMA DeleteKeeps ==
  ASSUME IInv, NEW n \in Peers, Delete(n)
  PROVE  IInv'
<1>1. /\ Replicas /\ Commit(n, "delete", {}) /\ Seen(n) # {}
      /\ UNCHANGED <<requests, wanted, overlapped>>
  BY DEF IInv, Delete
<1>2. Replicas'
  BY <1>1, CommitKeepsReplicas
<1>3. PICK v \in Version :
        /\ \A m \in Peers : Seen(m) \subseteq Seen(m)'
        /\ Written' # {} /\ v.op = "delete"
        /\ Latest(Written)' = v
             \/ (Written # {} /\ Latest(Written)' = Latest(Written))
  BY <1>1, CommitAndLatest
<1>4. TypeOK'
  BY <1>1, <1>2, <1>3 DEF IInv, TypeOK, Replicas, Stored
<1>5. Reads' /\ NoConflictWhenSerial'
  BY <1>1, <1>3 DEF IInv, Reads, NoConflictWhenSerial
<1>. QED
  BY <1>2, <1>4, <1>5 DEF IInv

LEMMA ServeKeeps ==
  ASSUME IInv, NEW n \in Peers, NEW m \in Peers, Serve(n, m)
  PROVE  IInv'
<1>1. Replicas'
  BY ServeKeepsReplicas DEF IInv
<1>2. /\ Written' = Written
      /\ \A p \in Peers : Seen(p) \subseteq Seen(p)'
      /\ UNCHANGED <<chain, requests, wanted, overlapped>>
  BY ServeAdds DEF IInv, Replicas, Serve
<1>3. TypeOK'
  BY <1>1, <1>2 DEF IInv, TypeOK, Replicas, Stored
<1>4. Reads' /\ NoConflictWhenSerial'
  BY <1>2 DEF IInv, Reads, NoConflictWhenSerial
<1>. QED
  BY <1>1, <1>3, <1>4 DEF IInv

LEMMA NextIInv == IInv /\ [Next]_vars => IInv'
<1> SUFFICES ASSUME IInv, [Next]_vars PROVE IInv'
  OBVIOUS
<1>1. ASSUME NEW n \in Peers, Create(n) \/ Begin(n) \/ Delete(n) PROVE IInv'
  BY <1>1, CreateKeeps, BeginKeeps, DeleteKeeps
<1>2. ASSUME NEW r \in requests, Write(r) PROVE IInv'
  BY <1>2, WriteKeeps
<1>3. ASSUME NEW n \in Peers, NEW m \in Peers, Serve(n, m) PROVE IInv'
  BY <1>3, ServeKeeps
<1>4. CASE UNCHANGED vars
  <2>1. Replicas' /\ Written' = Written /\ \A n \in Peers : Seen(n)' = Seen(n)
    BY <1>4, StillReplicas DEF IInv, vars
  <2>2. UNCHANGED <<requests, wanted, overlapped>>
    BY <1>4 DEF vars
  <2>3. TypeOK'
    BY <2>1, <2>2 DEF IInv, TypeOK, Replicas, Stored
  <2>4. Reads' /\ NoConflictWhenSerial'
    BY <2>1, <2>2 DEF IInv, Reads, NoConflictWhenSerial
  <2>. QED
    BY <2>1, <2>3, <2>4 DEF IInv
<1>. QED
  BY <1>1, <1>2, <1>3, <1>4 DEF Next

LEMMA IInvHolds == Spec => []IInv
BY InitIInv, NextIInv, PTL DEF Spec

-----------------------------------------------------------------------------
(* The theorems.                                                           *)

\* Types, and that a peer holds only what has been written.
THEOREM TypeCorrect == Spec => []TypeOK
<1>1. IInv => TypeOK
  BY DEF IInv
<1>. QED
  BY IInvHolds, <1>1, PTL

\* The gate holds although the membership it checks is replicated with what it
\* guards: only the creator and who was ever listed come to hold a version.
THEOREM HeldByMembersOnly == Spec => []OnlyEverMembersHold
<1>1. IInv => OnlyEverMembersHold
  BY DEF IInv, Replicas
<1>. QED
  BY IInvHolds, <1>1, PTL

\* Whoever has the creating version takes the creator for the owner.
THEOREM CreatorOwns == Spec => []OwnerSettles
<1>1. ASSUME IInv, NEW n \in Peers, known[n][Creator] > 0 PROVE Owner(n) = Creator
  <2> DEFINE first == chain[Creator][1]
  <2>1. Stored /\ Ordered /\ CreatedFirst
    BY <1>1 DEF IInv, Replicas
  <2>2. first \in Seen(n)
    <3>1. known[n][Creator] \in Nat /\ 1 \in 1..known[n][Creator]
      BY <1>1, <2>1, PeerAssumption DEF Stored
    <3>. QED
      BY <3>1, PeerAssumption DEF Seen
  <2>3. Seen(n) \subseteq Written /\ Written \in SUBSET Version
    BY <2>1, HeldIsWritten
  <2>4. first.author = Creator /\ \A v \in Written \ {first} : first.stamp < v.stamp
    BY <2>1, <2>2, <2>3 DEF CreatedFirst
  <2> DEFINE e == Earliest(Seen(n))
  <2>5. e \in Seen(n) /\ \A w \in Seen(n) \ {e} : Before(e, w)
    BY <2>1, <2>2, SeenIsOrdered
  <2> HIDE DEF first, e
  <2>6. CASE e # first
    <3>1. first.stamp < e.stamp /\ Before(e, first)
      BY <2>2, <2>3, <2>4, <2>5, <2>6
    <3>2. first \in Version /\ e \in Version
      BY <2>2, <2>3, <2>5
    <3>. QED
      BY <3>1, <3>2, VersionParts DEF Before
  <2>. QED
    BY <2>4, <2>6 DEF Owner, e
<1>2. IInv => OwnerSettles
  BY <1>1 DEF OwnerSettles
<1>. QED
  BY IInvHolds, <1>2, PTL

\* Who passes for the owner has an earlier version than those he passes for.
THEOREM OwnersDescend == Spec => []OwnersLeadToCreator
<1>1. ASSUME IInv, NEW n \in Peers, Seen(n) # {}, Owner(n) # Creator
      PROVE  Before(Earliest(Seen(Owner(n))), Earliest(Seen(n)))
  <2> DEFINE e == Earliest(Seen(n))
             o == Owner(n)
             f == Earliest(Seen(o))
  <2>1. Stored /\ Ordered /\ BuiltUpon
    BY <1>1 DEF IInv, Replicas
  <2>2. e \in Written /\ Written \in SUBSET Version
    BY <2>1, <1>1, SeenIsOrdered, HeldIsWritten
  <2>3. o = e.author /\ o \in Peers
    BY <2>2, VersionParts DEF Owner
  <2>4. PICK w \in Seen(o) : Before(w, e)
    BY <2>1, <2>2, <2>3, <1>1 DEF BuiltUpon
  <2>5. f \in Version /\ w \in Version /\ (f = w \/ Before(f, w))
    BY <2>1, <2>3, <2>4, SeenIsOrdered
  <2> HIDE DEF e, f, o
  <2>6. Before(f, e)
    BY <2>2, <2>4, <2>5, BeforeIsTransitive
  <2>. QED
    BY <2>6 DEF e, f, o
<1>2. IInv => OwnersLeadToCreator
  BY <1>1 DEF OwnersLeadToCreator
<1>. QED
  BY IInvHolds, <1>2, PTL

\* Peers know what there is of a chain and all of their own, and requests have
\* read what is at their peer still.
THEOREM ChannelsTypeCorrect == Spec => []TypeOK
<1>1. IInv => TypeOK
  BY DEF IInv
<1> QED
  BY IInvHolds, <1>1, PTL

\* Changes that are each based on the latest version are all in the latest.
THEOREM SerialChangesStay == Spec => []NoConflictWhenSerial
<1>1. IInv => NoConflictWhenSerial
  BY DEF IInv
<1>. QED
  BY IInvHolds, <1>1, PTL
=============================================================================
