------------------------------ MODULE BlockFold ------------------------------
(***************************************************************************)
(* The block engine, source/helper/db/blocks/blocks.go, over one scope.    *)
(* Each peer folds the frames it has into blocks, incrementally: a read    *)
(* takes the version vector, then folds what lies beyond the last one.     *)
(*                                                                         *)
(* The log below it is the one ReplicatedLog promises and FrameSync        *)
(* implements: a peer has a prefix of every author's frames.  From there   *)
(* too come the stamps: a frame's is above all its author had stored       *)
(* (CommitStampsAbove), by how much depends on the other scopes.           *)
(***************************************************************************)
EXTENDS Naturals, Sequences, FiniteSets, Folds

CONSTANTS
  Node,         \* the peers
  Bid,          \* the blocks
  NoOwner,      \* what a well-known block ID has for a creator
  Rank,         \* the order of the hashes of frames with one stamp, by author
  BlockType,    \* what the cleartext type of a frame says after "block."
  Pos,          \* positions within the container
  MaxFrames,    \* bound: frames written in a behaviour
  MaxStamp,     \* bound: the largest Lamport stamp
  MaxEdits      \* bound: edits resolved and not yet committed, at all peers

ASSUME OwnerAssumption == NoOwner \notin Node
ASSUME RankAssumption == Rank \in [Node -> Nat] /\ \A n, m \in Node : Rank[n] = Rank[m] => n = m
ASSUME PosAssumption == Pos \subseteq Nat \ {0}
ASSUME BoundAssumption == {MaxFrames, MaxStamp, MaxEdits} \subseteq Nat

VARIABLES
  owner,     \* owner[b]: the creator whose key prefixes the ID of b (never changes)
  log,       \* log[a]: the frames author a has written to the scope
  known,     \* known[n][a]: how many of them peer n has
  cache,     \* cache[n]: the scopeFold of peer n, or NoFold
  reading,   \* reading[n]: the vector a read has taken, before it folds
  edits      \* edits that have resolved their block, before they commit

vars == <<owner, log, known, cache, reading, edits>>

NoFold == [vec |-> <<>>]
NoRead == <<>>
NoPos == 0

Ids == 1..MaxFrames

\* A version.  Of its op the fold asks only whether it is a delete (tomb).
Frame == [id : Ids, author : Node, lamport : 1..MaxStamp, bid : Bid, tomb : BOOLEAN,
          type : BlockType, pos : Pos \cup {NoPos}, parents : SUBSET Ids]

Written == UNION {{log[a][i] : i \in DOMAIN log[a]} : a \in Node}

-----------------------------------------------------------------------------
(* What the store answers.                                                 *)

Vector(n) == known[n]

Since(n, have) ==
  UNION {{log[a][i] : i \in have[a]+1 .. Vector(n)[a]} : a \in Node}

Frames(n) == Since(n, [a \in Node |-> 0])

\* The canonical order of Frames and Since: by Lamport stamp, then by ID.  An
\* author never stamps two frames alike, so a tie is between two authors.
Below(f, g) ==
  \/ f.lamport < g.lamport
  \/ f.lamport = g.lamport /\ Rank[f.author] < Rank[g.author]

Latest(frames) == CHOOSE f \in frames : \A g \in frames \ {f} : Below(g, f)

-----------------------------------------------------------------------------
(* The fold.                                                               *)

\* acc: what one block has accumulated.
NoBlock == [type |-> "", versions |-> <<>>, parents |-> {}, pos |-> NoPos, posLamport |-> 0]

EmptyFold == [vec |-> [a \in Node |-> 0], seen |-> {}, by |-> [b \in Bid |-> NoBlock]]

\* Faulty variant: no gate.
CountsAlways(f) == TRUE

\* The ownership gate: a tombstone counts only from the block's creator.
Counts(f) == f.tomb => owner[f.bid] \in {NoOwner, f.author}

\* The latest position wins, here the one folded last among equal stamps.
TakesPos(acc, f) == f.pos # NoPos /\ f.lamport >= acc.posLamport

Accumulate(acc, f) ==
  LET moved == TakesPos(acc, f) IN
  [type |-> f.type,
   versions |-> Append(acc.versions, f),
   parents |-> acc.parents \cup f.parents,
   pos |-> IF moved THEN f.pos ELSE acc.pos,
   posLamport |-> IF moved THEN f.lamport ELSE acc.posLamport]

\* Faulty variant: the vector alone is trusted to tell what is new.
UnseenByVector(cf, frames) == frames

\* foldInto's first test: a frame folded before is skipped.
Unseen(cf, frames) == {f \in frames : f.id \notin cf.seen}

FoldInto(cf, frames) ==
  LET fresh == Unseen(cf, frames)
      fold(f, by) == IF Counts(f) THEN [by EXCEPT ![f.bid] = Accumulate(@, f)] ELSE by
  IN [vec |-> cf.vec,
      seen |-> cf.seen \cup {f.id : f \in fresh},
      by |-> MapThenFoldSet(fold, cf.by, LAMBDA f : f, Latest, fresh)]

\* buildBlocks: a head is a version no other version names as a parent.
Versions(acc) == {acc.versions[i] : i \in DOMAIN acc.versions}

Heads(acc) == {v \in Versions(acc) : v.id \notin acc.parents}

Deleted(acc) == Heads(acc) # {} /\ Latest(Heads(acc)).tomb

\* The log lost ground since the last fold: the cache is another log's.
Regressed(now, old) == \E a \in Node : now[a] < old[a]

-----------------------------------------------------------------------------
Init ==
  /\ owner \in [Bid -> Node \cup {NoOwner}]
  /\ log = [a \in Node |-> <<>>]
  /\ known = [n \in Node |-> [a \in Node |-> 0]]
  /\ cache = [n \in Node |-> NoFold]
  /\ reading = [n \in Node |-> NoRead]
  /\ edits = {}

\* Blocks, first half: take the vector.  An unchanged scope needs no more.
BeginRead(n) ==
  /\ reading[n] = NoRead
  /\ cache[n].vec # Vector(n)
  /\ reading' = [reading EXCEPT ![n] = Vector(n)]
  /\ UNCHANGED <<owner, log, known, cache, edits>>

\* Blocks, second half: fold what the store has by now beyond the cached
\* vector, or everything when the log regressed, and remember the vector taken.
FoldDelta(n) ==
  LET cur == reading[n]
      cf == IF cache[n] = NoFold \/ Regressed(cur, cache[n].vec)
            THEN EmptyFold ELSE cache[n]
  IN
  /\ cur # NoRead
  /\ cache' = [cache EXCEPT ![n] = [FoldInto(cf, Since(n, cf.vec)) EXCEPT !.vec = cur]]
  /\ reading' = [reading EXCEPT ![n] = NoRead]
  /\ UNCHANGED <<owner, log, known, edits>>

\* A stamp Service.Commit may give a new frame.
Stamps(n) ==
  {l \in 1..MaxStamp : \A f \in Frames(n) : f.lamport < l}

Commit(n, b, tomb, t, p, ps) ==
  /\ Cardinality(Written) < MaxFrames
  /\ \E l \in Stamps(n) :
       log' = [log EXCEPT ![n] = Append(@,
                 [id |-> Cardinality(Written) + 1, author |-> n, lamport |-> l, bid |-> b, tomb |-> tomb,
                  type |-> t, pos |-> p, parents |-> ps])]
  /\ known' = [known EXCEPT ![n][n] = @ + 1]
  /\ UNCHANGED <<owner, cache, reading>>

\* Create: the block ID is new, so nothing is folded first.
Create(n, b, t, p) ==
  /\ owner[b] = n
  /\ \A f \in Written : f.bid # b
  /\ Commit(n, b, FALSE, t, p, {})
  /\ UNCHANGED edits

\* Faulty variant: an unknown block is no error.
ResolveUnknown(n, b) ==
  LET acc == cache[n].by[b] IN
  /\ cache[n] # NoFold
  /\ Cardinality(edits) < MaxEdits
  /\ edits' = edits \cup {[at |-> n, bid |-> b, new |-> FALSE, type |-> acc.type,
                           parents |-> {v.id : v \in Heads(acc)}]}
  /\ UNCHANGED <<owner, log, known, cache, reading>>

\* resolve, after a read: the cached type, and the heads as the parents of
\* what comes.  The lock of the cache is free again before the commit.
Resolve(n, b) ==
  LET acc == cache[n].by[b] IN
  /\ cache[n] # NoFold
  /\ acc # NoBlock
  /\ Cardinality(edits) < MaxEdits
  /\ edits' = edits \cup {[at |-> n, bid |-> b, new |-> FALSE, type |-> acc.type,
                           parents |-> {v.id : v \in Heads(acc)}]}
  /\ UNCHANGED <<owner, log, known, cache, reading>>

\* Upsert of a well-known block that this peer has not seen yet.
ResolveAbsent(n, b, t) ==
  /\ owner[b] = NoOwner
  /\ cache[n] # NoFold
  /\ cache[n].by[b] = NoBlock
  /\ Cardinality(edits) < MaxEdits
  /\ edits' = edits \cup {[at |-> n, bid |-> b, new |-> TRUE, type |-> t, parents |-> {}]}
  /\ UNCHANGED <<owner, log, known, cache, reading>>

CommitEdit(e, tomb, t, p) ==
  /\ Commit(e.at, e.bid, tomb, t, p, e.parents)
  /\ edits' = edits \ {e}

UpsertAbsent(e) == e.new /\ CommitEdit(e, FALSE, e.type, NoPos)

\* Update, and Upsert of a block that exists.
Update(e) == ~e.new /\ CommitEdit(e, FALSE, e.type, NoPos)

UpdateType(e, t) == ~e.new /\ CommitEdit(e, FALSE, t, NoPos)

\* Delete asks nothing about the owner: the gate is in the fold.
Delete(e) == ~e.new /\ CommitEdit(e, TRUE, e.type, NoPos)

Move(e, p) == ~e.new /\ CommitEdit(e, FALSE, e.type, p)

Merge(e) == ~e.new /\ CommitEdit(e, FALSE, e.type, NoPos)

\* Replication: the next frame of author a reaches peer n.
Learn(n, a) ==
  /\ known[n][a] < Len(log[a])
  /\ known' = [known EXCEPT ![n][a] = @ + 1]
  /\ UNCHANGED <<owner, log, cache, reading, edits>>

\* A restart loses the cache, and what was under way.
Restart(n) ==
  /\ cache' = [cache EXCEPT ![n] = NoFold]
  /\ reading' = [reading EXCEPT ![n] = NoRead]
  /\ edits' = {e \in edits : e.at # n}
  /\ UNCHANGED <<owner, log, known>>

Edit(e) ==
  \/ UpsertAbsent(e) \/ Update(e) \/ Delete(e) \/ Merge(e)
  \/ \E t \in BlockType : UpdateType(e, t)
  \/ \E p \in Pos : Move(e, p)

Next ==
  \/ \E n \in Node : BeginRead(n) \/ FoldDelta(n) \/ Restart(n)
  \/ \E n \in Node, b \in Bid :
       \/ \E t \in BlockType, p \in Pos \cup {NoPos} : Create(n, b, t, p)
       \/ Resolve(n, b)
       \/ \E t \in BlockType : ResolveAbsent(n, b, t)
  \/ \E e \in edits : Edit(e)
  \/ \E n, a \in Node : Learn(n, a)

Spec == Init /\ [][Next]_vars

-----------------------------------------------------------------------------
(* Properties.                                                             *)

Vec == [Node -> 0..MaxFrames]

Acc == [type : BlockType \cup {""}, versions : Seq(Frame), parents : SUBSET Ids,
        pos : Pos \cup {NoPos}, posLamport : 0..MaxStamp]

Edits == [at : Node, bid : Bid, new : BOOLEAN, type : BlockType, parents : SUBSET Ids]

\* Every variable holds what its Go counterpart can hold.
TypeOK ==
  /\ owner \in [Bid -> Node \cup {NoOwner}]
  /\ log \in [Node -> Seq(Frame)]
  /\ known \in [Node -> Vec]
  /\ \A n \in Node :
       cache[n] = NoFold \/ cache[n] \in [vec : Vec, seen : SUBSET Ids, by : [Bid -> Acc]]
  /\ reading \in [Node -> Vec \cup {NoRead}]
  /\ edits \subseteq Edits

\* The cache of peer n is up to date: a read would return it untouched.
Current(n) == cache[n] # NoFold /\ reading[n] = NoRead /\ cache[n].vec = Vector(n)

\* The reference: the versions of a block are all the frames that count, its
\* heads those that no other one supersedes.
RefVersions(n, b) == {f \in Frames(n) : f.bid = b /\ Counts(f)}

RefHeads(n, b) ==
  {f \in RefVersions(n, b) : \A g \in RefVersions(n, b) : f.id \notin g.parents}

\* "Blocks folds every block in channel from the log" (blocks.go:260): an
\* up-to-date cache has each version once, whatever order the frames came in
\* and whatever came between a vector and the delta read after it, and the
\* heads that folding from scratch gives.
FoldMatchesLog ==
  \A n \in Node, b \in Bid : Current(n) =>
    LET acc == cache[n].by[b] IN
    /\ Versions(acc) = RefVersions(n, b)
    /\ Len(acc.versions) = Cardinality(RefVersions(n, b))
    /\ Heads(acc) = RefHeads(n, b)

\* "latest op carrying a pos" (blocks.go:96): the position and the stamp kept for
\* it come from a frame no other positioned version is stamped above.
PosIsLatest ==
  \A n \in Node, b \in Bid : Current(n) =>
    LET placed == {f \in RefVersions(n, b) : f.pos # NoPos} IN
    IF placed = {} THEN cache[n].by[b].pos = NoPos
    ELSE \E f \in placed :
           /\ f.pos = cache[n].by[b].pos
           /\ f.lamport = cache[n].by[b].posLamport
           /\ \A g \in placed : g.lamport <= f.lamport

\* A block that exists shows something: its latest version is a head, even
\* when the versions it was built on have not arrived (readers index the last
\* head: channels.go:226, message.go:135).
LatestIsHead ==
  \A n \in Node, b \in Bid :
    LET acc == IF cache[n] = NoFold THEN NoBlock ELSE cache[n].by[b] IN
    acc.versions # <<>> => Latest(Versions(acc)) \in Heads(acc)

\* The cache of a peer is the fold of its log: versions and heads, the position
\* they are shown at, and something to show of whatever exists.
CacheIsFold == FoldMatchesLog /\ PosIsLatest /\ LatestIsHead

\* No peer can hide another's block: where a block with a creator shows as
\* deleted, the creator itself has deleted it.
OnlyOwnerDeletes ==
  \A n \in Node, b \in Bid :
    (cache[n] # NoFold /\ owner[b] # NoOwner /\ Deleted(cache[n].by[b])) =>
      \E i \in DOMAIN log[owner[b]] :
        log[owner[b]][i].bid = b /\ log[owner[b]][i].tomb

\* "State is a deterministic fold over a scope's entries" (frame.go:34): two
\* peers that have the same frames show a block of the same type in the same
\* place.
DeterministicFold ==
  \A n, m \in Node, b \in Bid :
    (Current(n) /\ Current(m) /\ Vector(n) = Vector(m)) =>
      /\ cache[n].by[b].type = cache[m].by[b].type
      /\ cache[n].by[b].pos = cache[m].by[b].pos
=============================================================================
