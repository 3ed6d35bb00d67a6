------------------------------ MODULE FrameSync ------------------------------
(***************************************************************************)
(* The replicated frame log: source/helper/db (store.go, sqlitestore.go,   *)
(* service.go, sync.go), with the periodic pull that main.go runs.         *)
(*                                                                         *)
(* A frame is identified by the hash of its content; a commit mints the    *)
(* next number instead.  Signatures always verify here: every frame is     *)
(* made by Commit.  NoId stands for the empty prev of a first frame.       *)
(***************************************************************************)
EXTENDS Naturals, Sequences

CONSTANTS
  Node,        \* the peers, numbered in the order of their public keys
  Scope,       \* the scopes of one camp
  Acl,         \* Acl[s]: the peers the membership check lets into scope s
  MaxFrames,   \* bound: frames committed in a behaviour
  MaxFaults    \* bound: restarts and failed requests in a behaviour

ASSUME NodeAssumption == Node \subseteq Nat
ASSUME AclAssumption == Acl \in [Scope -> SUBSET Node]
ASSUME BoundAssumption == MaxFrames \in Nat /\ MaxFaults \in Nat

VARIABLES
  store,     \* store[n][s][a]: the frames of author a in scope s, at peer n
  clock,     \* clock[n]: the in-memory Lamport clock of Service
  pushes,    \* db.push notifications not yet handled
  pending,   \* the PullScope goroutines onPush has spawned and not yet run
  requests,  \* db.pull requests on their way to the peer asked
  replies,   \* replies being applied by the peer that asked, frame by frame
  minted,    \* frames committed so far, anywhere
  faults     \* faults so far

vars == <<store, clock, pushes, pending, requests, replies, minted, faults>>

NoId == 0

Frame == [id : 1..MaxFrames, scope : Scope, author : Node, seq : 1..MaxFrames,
          prev : 0..MaxFrames, lamport : 1..MaxFrames]

\* Two reasons to pull a scope: the ticker of main.go, a gap found by onPush.
Reason == {"tick", "gap"}

Larger(x, y) == IF x > y THEN x ELSE y

-----------------------------------------------------------------------------
(* The store: one chain of frames per (scope, author).                     *)

HeadId(chain) == IF chain = <<>> THEN NoId ELSE chain[Len(chain)].id

\* Faulty variant: the increment is missing.
NextSeqRepeated(chain) == IF chain = <<>> THEN 1 ELSE chain[Len(chain)].seq

NextSeq(chain) == IF chain = <<>> THEN 1 ELSE chain[Len(chain)].seq + 1

Has(chain, f) == \E i \in DOMAIN chain : chain[i].id = f.id

\* Faulty variants: a gap is accepted; the link to the head is not compared.
ExtendsOverGap(chain, f) == f.seq >= NextSeq(chain)
ExtendsAnyBranch(chain, f) == f.seq = NextSeq(chain)

\* Append takes a frame only as the direct successor of the chain's head.
Extends(chain, f) == f.seq = NextSeq(chain) /\ f.prev = HeadId(chain)

\* Append's verdict: a duplicate is no error, a gap or a broken link is one.
Accepts(n, f) ==
  LET chain == store[n][f.scope][f.author] IN Has(chain, f) \/ Extends(chain, f)

\* Faulty variants: no test at all; an INSERT OR REPLACE on (scope, author, seq).
AppendUnchecked(n, f) == [store EXCEPT ![n][f.scope][f.author] = Append(@, f)]
AppendOrReplace(n, f) ==
  LET chain == store[n][f.scope][f.author] IN
  IF Extends(chain, f)
  THEN [store EXCEPT ![n][f.scope][f.author] = Append(@, f)]
  ELSE IF f.seq <= Len(chain)
  THEN [store EXCEPT ![n][f.scope][f.author][f.seq] = f]
  ELSE store

AppendTo(n, f) ==
  LET chain == store[n][f.scope][f.author] IN
  IF ~Has(chain, f) /\ Extends(chain, f)
  THEN [store EXCEPT ![n][f.scope][f.author] = Append(@, f)]
  ELSE store

\* The version vector of a scope; an absent author counts as 0.
Vector(n, s) ==
  [a \in Node |-> IF store[n][s][a] = <<>> THEN 0
                  ELSE store[n][s][a][Len(store[n][s][a])].seq]

ChainFrames(chain) == {chain[i] : i \in DOMAIN chain}

Since(n, s, have) ==
  UNION {{f \in ChainFrames(store[n][s][a]) : f.seq > have[a]} : a \in Node}

Stored(n) == UNION {UNION {ChainFrames(store[n][s][a]) : a \in Node} : s \in Scope}

MaxLamport(n) ==
  LET seen == {0} \cup {f.lamport : f \in Stored(n)} IN
  CHOOSE m \in seen : \A l \in seen : l <= m

Scopes(n) == {s \in Scope : \E a \in Node : store[n][s][a] # <<>>}

-----------------------------------------------------------------------------
Init ==
  /\ store = [n \in Node |-> [s \in Scope |-> [a \in Node |-> <<>>]]]
  /\ clock = [n \in Node |-> 0]
  /\ pushes = {}
  /\ pending = {}
  /\ requests = {}
  /\ replies = {}
  /\ minted = 0
  /\ faults = 0

\* Faulty variant: the clock is not reseeded from the store.
NewFrameUnseeded(n, s) ==
  LET chain == store[n][s][n] IN
  [id |-> minted + 1, scope |-> s, author |-> n,
   seq |-> NextSeq(chain), prev |-> HeadId(chain), lamport |-> clock[n] + 1]

\* The frame Commit makes: the next of its chain, stamped above the clock and
\* above everything the store has kept from before a restart.
NewFrame(n, s) ==
  LET chain == store[n][s][n] IN
  [id |-> minted + 1, scope |-> s, author |-> n,
   seq |-> NextSeq(chain), prev |-> HeadId(chain),
   lamport |-> Larger(clock[n], MaxLamport(n)) + 1]

\* Service.Commit with its onCommit hook, Sync.Push: the frame is stored and a
\* notification leaves for each member in the roster at that moment.  A peer
\* missing from the roster gets none; a notification may also never arrive.
Commit(n, s) ==
  LET f == NewFrame(n, s) IN
  /\ minted < MaxFrames
  /\ minted' = minted + 1
  /\ clock' = [clock EXCEPT ![n] = f.lamport]
  /\ store' = AppendTo(n, f)
  /\ \E roster \in SUBSET (Node \ {n}) :
       pushes' = pushes \cup {[from |-> n, to |-> p, frame |-> f] : p \in roster \cap Acl[s]}
  /\ UNCHANGED <<pending, requests, replies, faults>>

\* Faulty variant: a received frame ticks the clock, too.
ApplyTicking(n, f) ==
  /\ clock' = [clock EXCEPT ![n] = Larger(@, f.lamport) + 1]
  /\ store' = AppendTo(n, f)

\* Service.Apply: the clock follows the frame even when the store refuses it.
Apply(n, f) ==
  /\ clock' = [clock EXCEPT ![n] = Larger(@, f.lamport)]
  /\ store' = AppendTo(n, f)

\* Sync.onPush: a frame the store refuses starts a pull from its sender.
DeliverPush(m) ==
  /\ Apply(m.to, m.frame)
  /\ pushes' = pushes \ {m}
  /\ pending' = IF Accepts(m.to, m.frame) THEN pending
                ELSE pending \cup {[at |-> m.to, peer |-> m.from, scope |-> m.frame.scope]}
  /\ UNCHANGED <<requests, replies, minted, faults>>

\* The first half of Sync.PullScope: read the vector and ask.
Ask(n, p, s, why) ==
  requests' = requests \cup
    {[why |-> why, at |-> n, peer |-> p, scope |-> s, have |-> Vector(n, s)]}

GapPull(g) ==
  /\ Ask(g.at, g.peer, g.scope, "gap")
  /\ pending' = pending \ {g}
  /\ UNCHANGED <<store, clock, pushes, replies, minted, faults>>

\* PullAll is one goroutine: it pulls one scope from one peer at a time.
Ticking(n) == \E q \in requests \cup replies : q.why = "tick" /\ q.at = n

\* Faulty variant: scopes only the peer knows of are never pulled.
TickPullKnown(n, p, s) ==
  /\ n # p
  /\ ~Ticking(n)
  /\ s \in Scopes(n)
  /\ Ask(n, p, s, "tick")
  /\ UNCHANGED <<store, clock, pushes, pending, replies, minted, faults>>

\* Sync.PullAll: any scope we hold, or one the peer lists for us (onScopes).
TickPull(n, p, s) ==
  /\ n # p
  /\ ~Ticking(n)
  /\ s \in Scopes(n) \/ (s \in Scopes(p) /\ n \in Acl[s])
  /\ Ask(n, p, s, "tick")
  /\ UNCHANGED <<store, clock, pushes, pending, replies, minted, faults>>

\* Faulty variant: membership is not asked for.
AnswerAnyone(q) ==
  LET todo == Since(q.peer, q.scope, q.have) IN
  /\ requests' = requests \ {q}
  /\ replies' = IF todo = {} THEN replies
                ELSE replies \cup {[why |-> q.why, at |-> q.at, todo |-> todo]}
  /\ UNCHANGED <<store, clock, pushes, pending, minted, faults>>

\* Sync.onPull at the peer asked: nothing for a stranger to the scope.
Answer(q) ==
  LET todo == IF q.at \in Acl[q.scope] THEN Since(q.peer, q.scope, q.have) ELSE {} IN
  /\ requests' = requests \ {q}
  /\ replies' = IF todo = {} THEN replies
                ELSE replies \cup {[why |-> q.why, at |-> q.at, todo |-> todo]}
  /\ UNCHANGED <<store, clock, pushes, pending, minted, faults>>

\* The sort of applyInOrder: by author, then by sequence number.
Precedes(f, g) == f.author < g.author \/ (f.author = g.author /\ f.seq < g.seq)

IsFirst(f, frames) == f \in frames /\ \A g \in frames \ {f} : Precedes(f, g)

\* What applyInOrder does after frame f: the first error ends the whole batch.
Rest(n, f, frames) == IF Accepts(n, f) THEN frames \ {f} ELSE {}

\* One iteration of applyInOrder; the service lock is free between two of them.
ApplyNext(r) ==
  \E f \in r.todo :
    /\ IsFirst(f, r.todo)
    /\ Apply(r.at, f)
    /\ LET rest == Rest(r.at, f, r.todo) IN
       replies' = (replies \ {r}) \cup
                  (IF rest = {} THEN {} ELSE {[r EXCEPT !.todo = rest]})
    /\ UNCHANGED <<pushes, pending, requests, minted, faults>>

\* A request fails: timeout, dead connection, peer gone.
Fail(q) ==
  /\ faults < MaxFaults
  /\ faults' = faults + 1
  /\ requests' = requests \ {q}
  /\ UNCHANGED <<store, clock, pushes, pending, replies, minted>>

\* The process of peer n restarts: the frames are on disk, the clock, the
\* goroutines and the connections are not.
Restart(n) ==
  /\ faults < MaxFaults
  /\ faults' = faults + 1
  /\ clock' = [clock EXCEPT ![n] = 0]
  /\ pending' = {g \in pending : g.at # n}
  /\ requests' = {q \in requests : n \notin {q.at, q.peer}}
  /\ replies' = {r \in replies : r.at # n}
  /\ UNCHANGED <<store, pushes, minted>>

Next ==
  \/ \E n \in Node, s \in Scope : Commit(n, s)
  \/ \E m \in pushes : DeliverPush(m)
  \/ \E g \in pending : GapPull(g)
  \/ \E n, p \in Node, s \in Scope : TickPull(n, p, s)
  \/ \E q \in requests : Answer(q) \/ Fail(q)
  \/ \E r \in replies : ApplyNext(r)
  \/ \E n \in Node : Restart(n)

Spec == Init /\ [][Next]_vars

\* The pull of each scope from each peer comes round again with every tick; a
\* peer answers, and a reply that arrived is applied.  Nothing is assumed of
\* pushes: the whole of convergence rests on pulling.
Fairness ==
  /\ \A n, p \in Node, s \in Scope : SF_vars(TickPull(n, p, s))
  /\ \A n \in Node :
       /\ WF_vars(\E q \in requests : q.at = n /\ Answer(q))
       /\ WF_vars(\E g \in pending : g.at = n /\ GapPull(g))
       /\ WF_vars(\E r \in replies : r.at = n /\ ApplyNext(r))

FairSpec == Spec /\ Fairness

-----------------------------------------------------------------------------
(* Properties.                                                             *)

Push == [from : Node, to : Node, frame : Frame]
Pending == [at : Node, peer : Node, scope : Scope]
Request == [why : Reason, at : Node, peer : Node, scope : Scope, have : [Node -> 0..MaxFrames]]
Reply == [why : Reason, at : Node, todo : SUBSET Frame]

\* Every variable holds what its Go counterpart can hold.  The bounds in Frame
\* say more: no sequence number and no Lamport stamp ever exceeds the number of
\* frames committed in the whole mesh.
TypeOK ==
  /\ store \in [Node -> [Scope -> [Node -> Seq(Frame)]]]
  /\ clock \in [Node -> 0..MaxFrames]
  /\ pushes \subseteq Push
  /\ pending \subseteq Pending
  /\ requests \subseteq Request
  /\ replies \subseteq Reply
  /\ minted \in 0..MaxFrames
  /\ faults \in 0..MaxFaults

\* No fork: whatever was lost, repeated, reordered or restarted, a replica's
\* chain of an author is a prefix of the chain the author itself holds, so two
\* replicas never disagree on the frame at a position (store.go, Append).
PrefixOf(mine, theirs) ==
  /\ Len(mine) <= Len(theirs)
  /\ \A i \in 1..Len(mine) : mine[i] = theirs[i]

PrefixOfAuthor ==
  \A n, a \in Node, s \in Scope : PrefixOf(store[n][s][a], store[a][s][a])

\* A stored chain is numbered 1, 2, 3, ..., each frame links to the one before
\* it, and is stamped above it: the canonical (Lamport, ID) order of Frames
\* never shows an author's frames out of the order they were written in.
Linked(chain) ==
  \A i \in 1..Len(chain) :
    /\ chain[i].seq = i
    /\ chain[i].prev = IF i = 1 THEN NoId ELSE chain[i-1].id
    /\ i > 1 => chain[i].lamport > chain[i-1].lamport

ChainLinked == \A n, a \in Node, s \in Scope : Linked(store[n][s][a])

\* Frames of a scope are served to its members only: a peer outside Acl[s]
\* holds no frame of s but its own, and none is on its way to it (Push, onPull).
ServedToMembersOnly ==
  /\ \A n \in Node, s \in Scope :
       n \notin Acl[s] => \A a \in Node \ {n} : store[n][s][a] = <<>>
  /\ \A m \in pushes : m.to \in Acl[m.frame.scope]
  /\ \A r \in replies : \A f \in r.todo : r.at \in Acl[f.scope]

\* A local write is stamped above everything its writer has stored, in every
\* scope and also right after a restart, so an edit never sorts below what it
\* edits (the reseed in Service.Commit).
CommitStampsAbove ==
  [][\A n \in Node, s \in Scope :
       minted' > minted /\ Len(store'[n][s][n]) > Len(store[n][s][n]) =>
         LET new == store'[n][s][n][Len(store'[n][s][n])] IN
         \A f \in Stored(n) : f.lamport < new.lamport]_vars

\* The detailed log implements the abstract one: the author's own copy is the
\* log, every other copy learns it entry by entry.
OwnLog == [s \in Scope |-> [a \in Node |-> store[a][s][a]]]

Abstract == INSTANCE ReplicatedLog WITH
  Replica <- Node, Entry <- Frame, log <- OwnLog, copy <- store

ImplementsReplicatedLog == Abstract!Spec

\* Anti-entropy converges with no push ever arriving: each frame in a log
\* reaches every member of its scope, past gaps, failed requests and restarts.
EventuallyReplicated ==
  \A a, n \in Node, s \in Scope : \A i \in 1..MaxFrames :
    n \in Acl[s] =>
      (Len(store[a][s][a]) >= i ~> Len(store[n][s][a]) >= i)
=============================================================================
