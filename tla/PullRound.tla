------------------------------ MODULE PullRound ------------------------------
(***************************************************************************)
(* Sync.PullAll at one peer, and the db-sync ticker of main.go around it:  *)
(* every 7 s one goroutine walks the reachable peers in the order of their *)
(* keys, asks each for its scopes and pulls every scope, all under one     *)
(* deadline of 5 s.  FrameSync takes it that each scope of each peer is    *)
(* pulled again and again; this module says when that is so.               *)
(*                                                                         *)
(* A request to a peer that does not answer lasts until the deadline: the  *)
(* dial, or the wait for the reply, is bounded by the caller's context     *)
(* alone (bus.go, Request and connFor).                                    *)
(***************************************************************************)
EXTENDS Naturals, FiniteSets

CONSTANTS
  Peer,       \* the other peers, numbered in the order of Peers()
  Scope,
  MaxWrites,  \* bound: frames written at the peers
  MaxFlaps    \* bound: times a peer dies, revives, or changes in the roster

ASSUME PullPeerAssumption == Peer \subseteq Nat
ASSUME PullBoundAssumption == MaxWrites \in Nat /\ MaxFlaps \in Nat

VARIABLES
  up,        \* the peers that answer requests
  listed,    \* the peers the roster says are online, or on the relay
  behind,    \* <<p, s>>: peer p has frames of scope s that we lack
  held,      \* held[p]: the scopes peer p has frames of and serves to us
  local,     \* the scopes we have frames of
  round,     \* the round under way, or NoRound
  owed,      \* what was behind, at a listed peer, when the round began (history)
  writes, flaps

pullVars == <<up, listed, behind, held, local, round, owed, writes, flaps>>

NoRound == [todo |-> {}, known |-> {}, asking |-> {}, expired |-> FALSE, on |-> FALSE]

PullInit ==
  /\ up = Peer
  /\ listed = Peer
  /\ behind = {}
  /\ held = [p \in Peer |-> {}]
  /\ local = {}
  /\ round = NoRound
  /\ owed = {}
  /\ writes = 0
  /\ flaps = 0

\* The tick: our scopes and the reachable peers are read once per round.
RoundTick ==
  /\ ~round.on
  /\ round' = [todo |-> listed, known |-> local, asking |-> {},
               expired |-> FALSE, on |-> TRUE]
  /\ owed' = {d \in behind : d[1] \in listed}
  /\ UNCHANGED <<up, listed, behind, held, local, writes, flaps>>

IsNext(p) == p \in round.todo /\ \A q \in round.todo : p <= q

\* A request to p succeeds before the deadline only, and eats it if p is dead.
Succeeds(p) == p \in up /\ ~round.expired
ExpiredAfter(p) == round.expired \/ p \notin up

\* Faulty variant: the peer is not asked for its scopes.
RemoteScopesUnasked(p) == {}

\* remoteScopes: what the peer lists, or nothing when the request fails.
RemoteScopes(p) == IF Succeeds(p) THEN held[p] ELSE {}

\* The next peer: the union of our scopes and of the peer's.
Discover(p) ==
  /\ round.asking = {}
  /\ IsNext(p)
  /\ round' = [round EXCEPT
       !.todo = @ \ {p},
       !.asking = {p} \X (round.known \cup RemoteScopes(p)),
       !.expired = ExpiredAfter(p)]
  /\ UNCHANGED <<up, listed, behind, held, local, owed, writes, flaps>>

\* PullScope, in the random order of a map; its error is ignored.
PullScope(p, s) ==
  /\ <<p, s>> \in round.asking
  /\ IF Succeeds(p)
     THEN /\ behind' = behind \ {<<p, s>>}
          /\ owed' = owed \ {<<p, s>>}
          /\ local' = IF s \in held[p] THEN local \cup {s} ELSE local
     ELSE UNCHANGED <<behind, owed, local>>
  /\ round' = [round EXCEPT !.asking = @ \ {<<p, s>>}, !.expired = ExpiredAfter(p)]
  /\ UNCHANGED <<up, listed, held, writes, flaps>>

EndRound ==
  /\ round.on
  /\ round.todo = {}
  /\ round.asking = {}
  /\ round' = NoRound
  /\ owed' = {}
  /\ UNCHANGED <<up, listed, behind, held, local, writes, flaps>>

-----------------------------------------------------------------------------
(* The world around it.                                                    *)

Write(p, s) ==
  /\ writes < MaxWrites
  /\ writes' = writes + 1
  /\ behind' = behind \cup {<<p, s>>}
  /\ held' = [held EXCEPT ![p] = @ \cup {s}]
  /\ UNCHANGED <<up, listed, local, round, owed, flaps>>

\* A peer stops answering, or answers again; the roster does not know.
Flap(p) ==
  /\ flaps < MaxFlaps
  /\ flaps' = flaps + 1
  /\ up' = IF p \in up THEN up \ {p} ELSE up \cup {p}
  /\ UNCHANGED <<listed, behind, held, local, round, owed, writes>>

\* The roster takes a peer for offline, or for online again.
Roster(p) ==
  /\ flaps < MaxFlaps
  /\ flaps' = flaps + 1
  /\ listed' = IF p \in listed THEN listed \ {p} ELSE listed \cup {p}
  /\ UNCHANGED <<up, behind, held, local, round, owed, writes>>

RoundStep ==
  \/ RoundTick
  \/ \E p \in Peer : Discover(p)
  \/ \E d \in round.asking : PullScope(d[1], d[2])
  \/ EndRound

PullNext ==
  \/ RoundStep
  \/ \E p \in Peer : Flap(p) \/ Roster(p)
  \/ \E p \in Peer, s \in Scope : Write(p, s)

\* The ticker ticks, and every request ends, with the deadline at the latest.
PullFairSpec == PullInit /\ [][PullNext]_pullVars /\ WF_pullVars(RoundStep)

-----------------------------------------------------------------------------
(* Properties.                                                             *)

RoundRecord == [todo : SUBSET Peer, known : SUBSET Scope, asking : SUBSET (Peer \X Scope),
          expired : BOOLEAN, on : BOOLEAN]

\* Every variable holds what its Go counterpart can hold; the pulls under way
\* are all with one peer, for PullAll is one goroutine.
PullTypeOK ==
  /\ up \subseteq Peer /\ listed \subseteq Peer
  /\ behind \subseteq Peer \X Scope /\ owed \subseteq behind
  /\ held \in [Peer -> SUBSET Scope]
  /\ local \subseteq Scope
  /\ round \in RoundRecord
  /\ \A c, d \in round.asking : c[1] = d[1]
  /\ writes \in 0..MaxWrites /\ flaps \in 0..MaxFlaps

\* A round that did not run out of time leaves nothing out that was missing
\* when it began: scopes only the peer knows of included, peers that left the
\* roster meanwhile included (sync.go:157-160).
UnexpiredRoundIsComplete ==
  (round.on /\ round.todo = {} /\ round.asking = {} /\ ~round.expired) => owed = {}

\* Once every listed peer answers, what is missing from a listed peer is
\* pulled: the fairness FrameSync assumes of its TickPull.
CatchesUp ==
  <>[](listed \subseteq up) =>
    \A p \in Peer, s \in Scope :
      <>[](p \in listed) => (<<p, s>> \in behind ~> <<p, s>> \notin behind)
=============================================================================
