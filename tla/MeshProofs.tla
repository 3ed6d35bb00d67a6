------------------------------ MODULE MeshProofs ------------------------------
(***************************************************************************)
(* Proofs about the parts of the mesh under the replicated log: the round  *)
(* of pulls, gossip, the life of the engine, the filter on its tunnel and  *)
(* the client of a camp, each part by itself, for any values of its        *)
(* constants; and the types of all of them, with pairing, in one instance. *)
(***************************************************************************)
EXTENDS MCMesh, NatOrder, FiniteSetTheorems, SequenceTheorems, TLAPS

-----------------------------------------------------------------------------
(* PullRound.                                                              *)

\* What was missing when the round began and still is will be asked for: its
\* peer is to come, or its scope is among those being pulled; unless the time
\* has run out.  That a peer lists what it is ahead in is what asks for it.
OwedIsPlanned ==
  /\ \A d \in behind : d[2] \in held[d[1]]
  /\ round.on /\ ~round.expired =>
       \A d \in owed : d[1] \in round.todo \/ d \in round.asking

PullInv == PullTypeOK /\ OwedIsPlanned

LEMMA PullInitInv == PullInit => PullInv
BY PullBoundAssumption
   DEF PullInit, PullInv, PullTypeOK, OwedIsPlanned, NoRound, RoundRecord

LEMMA PullStepInv == PullInv /\ [PullNext]_pullVars => PullInv'
<1> SUFFICES ASSUME PullInv, [PullNext]_pullVars PROVE PullInv'
  OBVIOUS
<1>0. /\ up \subseteq Peer /\ listed \subseteq Peer
      /\ behind \subseteq Peer \X Scope /\ owed \subseteq behind
      /\ held \in [Peer -> SUBSET Scope] /\ local \subseteq Scope
      /\ round \in RoundRecord
      /\ \A c, d \in round.asking : c[1] = d[1]
      /\ writes \in 0..MaxWrites /\ flaps \in 0..MaxFlaps
      /\ round.todo \subseteq Peer /\ round.known \subseteq Scope
      /\ round.asking \subseteq Peer \X Scope /\ round.expired \in BOOLEAN /\ round.on \in BOOLEAN
      /\ MaxWrites \in Nat /\ MaxFlaps \in Nat
  BY PullBoundAssumption DEF PullInv, PullTypeOK, RoundRecord
<1>1. CASE RoundTick
  <2>1. round' = [todo |-> listed, known |-> local, asking |-> {}, expired |-> FALSE, on |-> TRUE]
        /\ owed' = {d \in behind : d[1] \in listed}
        /\ UNCHANGED <<up, listed, behind, held, local, writes, flaps>>
    BY <1>1 DEF RoundTick
  <2>2. round' \in RoundRecord
    BY <1>0, <2>1 DEF RoundRecord
  <2> QED
    BY <1>0, <2>1, <2>2 DEF PullInv, PullTypeOK, OwedIsPlanned
<1>2. ASSUME NEW p \in Peer, Discover(p) PROVE PullInv'
  <2> DEFINE pulls == {p} \X (round.known \cup RemoteScopes(p))
  <2>1. /\ round.asking = {} /\ IsNext(p)
        /\ round' = [round EXCEPT !.todo = @ \ {p}, !.asking = pulls, !.expired = ExpiredAfter(p)]
        /\ UNCHANGED <<up, listed, behind, held, local, owed, writes, flaps>>
    BY <1>2 DEF Discover
  <2>2. pulls \subseteq Peer \X Scope /\ ExpiredAfter(p) \in BOOLEAN
    BY <1>0 DEF RemoteScopes, ExpiredAfter
  <2>3. \A c, d \in pulls : c[1] = d[1]
    OBVIOUS
  <2>4. ~ExpiredAfter(p) => \A d \in behind : d[1] = p => d \in pulls
    BY <1>0 DEF ExpiredAfter, RemoteScopes, Succeeds, PullInv, OwedIsPlanned
  <2> HIDE DEF pulls
  <2>5. /\ round'.todo = round.todo \ {p} /\ round'.asking = pulls
        /\ round'.expired = ExpiredAfter(p) /\ round'.on = round.on
        /\ round' \in RoundRecord
    BY <1>0, <2>1, <2>2 DEF RoundRecord
  <2>6. PullTypeOK'
    BY <1>0, <2>1, <2>3, <2>5 DEF PullTypeOK
  <2>7. ASSUME round'.on, ~round'.expired, NEW d \in owed'
        PROVE  d[1] \in round'.todo \/ d \in round'.asking
    <3>1. ~ExpiredAfter(p) /\ ~round.expired /\ round.on /\ d \in owed /\ d \in behind
      BY <1>0, <2>1, <2>5, <2>7 DEF ExpiredAfter
    <3>2. d[1] \in round.todo
      BY <2>1, <3>1 DEF PullInv, OwedIsPlanned
    <3> QED
      BY <2>4, <2>5, <3>1, <3>2
  <2>8. OwedIsPlanned'
    BY <2>1, <2>7 DEF PullInv, OwedIsPlanned
  <2> QED
    BY <2>6, <2>8 DEF PullInv
<1>3. ASSUME NEW d \in round.asking, PullScope(d[1], d[2]) PROVE PullInv'
  <2>0. d = <<d[1], d[2]>> /\ d[1] \in Peer /\ d[2] \in Scope
    BY <1>0
  <2>1. /\ round' = [round EXCEPT !.asking = @ \ {d}, !.expired = ExpiredAfter(d[1])]
        /\ \/ /\ Succeeds(d[1])
              /\ behind' = behind \ {d} /\ owed' = owed \ {d} /\ local' \subseteq local \cup {d[2]}
           \/ ~Succeeds(d[1]) /\ UNCHANGED <<behind, owed, local>>
        /\ UNCHANGED <<up, listed, held, writes, flaps>>
    BY <1>3, <2>0 DEF PullScope
  <2>2. /\ round'.todo = round.todo /\ round'.asking = round.asking \ {d}
        /\ round'.expired = ExpiredAfter(d[1]) /\ round'.on = round.on
        /\ round' \in RoundRecord
    BY <1>0, <2>1 DEF RoundRecord, ExpiredAfter
  <2>3. PullTypeOK'
    BY <1>0, <2>0, <2>1, <2>2 DEF PullTypeOK
  <2>4. OwedIsPlanned'
    BY <1>0, <2>1, <2>2 DEF PullInv, OwedIsPlanned, ExpiredAfter, Succeeds
  <2> QED
    BY <2>3, <2>4 DEF PullInv
<1>4. CASE EndRound
  <2>1. NoRound \in RoundRecord
    BY DEF NoRound, RoundRecord
  <2> QED
    BY <1>0, <1>4, <2>1 DEF EndRound, NoRound, PullInv, PullTypeOK, OwedIsPlanned
<1>5. ASSUME NEW p \in Peer, NEW s \in Scope, Write(p, s) PROVE PullInv'
  <2>1. PullTypeOK'
    BY <1>0, <1>5 DEF Write, PullTypeOK
  <2>2. OwedIsPlanned'
    BY <1>0, <1>5 DEF Write, PullInv, OwedIsPlanned
  <2> QED
    BY <2>1, <2>2 DEF PullInv
<1>6. ASSUME NEW p \in Peer, Flap(p) \/ Roster(p) PROVE PullInv'
  <2>1. PullTypeOK'
    BY <1>0, <1>6 DEF Flap, Roster, PullTypeOK
  <2>2. OwedIsPlanned'
    BY <1>6 DEF Flap, Roster, PullInv, OwedIsPlanned
  <2> QED
    BY <2>1, <2>2 DEF PullInv
<1>7. CASE UNCHANGED pullVars
  BY <1>7 DEF pullVars, PullInv, PullTypeOK, OwedIsPlanned
<1> QED
  BY <1>1, <1>2, <1>3, <1>4, <1>5, <1>6, <1>7 DEF PullNext, RoundStep

\* A round of pulls that had the time leaves out nothing that was missing when
\* it began: not a scope only the peer knows of, not a peer that has since left
\* the roster.
THEOREM RoundsAreComplete == PullFairSpec => []UnexpiredRoundIsComplete
<1>1. PullInv => UnexpiredRoundIsComplete
  BY DEF PullInv, OwedIsPlanned, UnexpiredRoundIsComplete
<1> QED
  BY <1>1, PullInitInv, PullStepInv, PTL DEF PullFairSpec

-----------------------------------------------------------------------------
(* Gossip.                                                                 *)

Word == [state : Nat, stamp : Nat]
Words == pushes \cup {heard}

\* What is on its way is stamped by the clock so far and tells no more than has
\* been seen.  While the clock was never set back and no two loops announced at
\* once, stamps tell the age of a state: what has an older stamp tells no more,
\* and what a loop has read and not sent is the newest that is told.
GossipInv ==
  /\ seen \in Nat /\ wallClock \in Nat \ {0}
  /\ read \in [1..Loops -> Nat] /\ heard \in Word /\ pushes \subseteq Word
  /\ \A l \in 1..Loops : read[l] <= seen
  /\ \A w \in Words : w.state <= seen
  /\ \A p \in pushes : p.stamp # 0
  /\ ~setBack => \A w \in Words : w.stamp <= wallClock
  /\ ~crossed =>
       /\ \A k, l \in 1..Loops : read[k] # 0 /\ read[l] # 0 => k = l
       /\ \A l \in 1..Loops : read[l] # 0 => \A w \in Words : w.state <= read[l]
       /\ ~setBack => \A v, w \in Words : v.stamp < w.stamp => v.state <= w.state

LEMMA GossipInitInv == GossipInit => GossipInv
BY DEF GossipInit, GossipInv, Words, Word, NotHeard

LEMMA GossipStepInv == GossipInv /\ [GossipNext]_gossipVars => GossipInv'
<1> SUFFICES ASSUME GossipInv, [GossipNext]_gossipVars PROVE GossipInv'
  OBVIOUS
<1> USE DEF GossipInv, Words, Word
<1>1. CASE StartGossip
  BY <1>1 DEF StartGossip, gossipHistory
<1>2. CASE StopGossip
  BY <1>2 DEF StopGossip, gossipHistory
<1>3. ASSUME NEW l \in 1..Loops, ReadState(l) PROVE GossipInv'
  <2>1. /\ read' = [read EXCEPT ![l] = seen]
        /\ UNCHANGED <<seen, wallClock, pushes, heard, setBack>>
        /\ ~crossed' => ~crossed /\ \A k \in 1..Loops : read[k] = 0
    BY <1>3 DEF ReadState
  <2>2. \A k \in 1..Loops : read'[k] = IF k = l THEN seen ELSE read[k]
    BY <2>1
  <2>3. Words' = Words
    BY <2>1
  <2>4. read' \in [1..Loops -> Nat] /\ \A k \in 1..Loops : read'[k] <= seen
    BY <2>1, <2>2
  <2>5. ~crossed' => \A k \in 1..Loops : read'[k] # 0 => k = l /\ read'[k] = seen
    BY <2>1, <2>2
  <2> QED
    BY <2>1, <2>3, <2>4, <2>5
<1>4. ASSUME NEW l \in 1..Loops, Send(l) PROVE GossipInv'
  <2> DEFINE new == [state |-> read[l], stamp |-> wallClock]
  <2>1. /\ read[l] # 0 /\ read' = [read EXCEPT ![l] = 0] /\ pushes' = pushes \cup {new}
        /\ UNCHANGED <<seen, wallClock, heard, setBack, crossed>>
    BY <1>4 DEF Send, gossipHistory
  <2>2. new \in Word /\ new.state = read[l] /\ new.stamp = wallClock
    OBVIOUS
  <2> HIDE DEF new
  <2>3. \A k \in 1..Loops : read'[k] = IF k = l THEN 0 ELSE read[k]
    BY <2>1
  <2>4. \A w \in Words' : w \in Words \/ w = new
    BY <2>1
  <2>5. \A w \in Words' : w.state <= seen /\ w.state \in Nat /\ w.stamp \in Nat
    BY <2>2, <2>4
  <2>6. ~setBack => \A w \in Words' : w.stamp <= wallClock
    BY <2>2, <2>4
  <2>7. ~crossed => \A k \in 1..Loops : read'[k] = 0
    BY <2>1, <2>3
  <2>8. ~crossed => \A w \in Words : w.state <= read[l]
    BY <2>1
  <2>9. ~crossed /\ ~setBack =>
          \A v, w \in Words' : v.stamp < w.stamp => v.state <= w.state
    BY <2>2, <2>4, <2>6, <2>8
  <2>10. read' \in [1..Loops -> Nat] /\ \A k \in 1..Loops : read'[k] <= seen
    BY <2>1, <2>3
  <2>11. pushes' \subseteq Word /\ \A p \in pushes' : p.stamp # 0
    BY <2>1, <2>2
  <2> QED
    BY <2>1, <2>5, <2>6, <2>7, <2>9, <2>10, <2>11
<1>5. ASSUME NEW push \in pushes, Hear(push) PROVE GossipInv'
  <2>1. /\ pushes' = pushes \ {push} /\ heard' \in {heard, push}
        /\ UNCHANGED <<seen, wallClock, read, setBack, crossed>>
    BY <1>5 DEF Hear, publisher, gossipHistory
  <2>2. Words' \subseteq Words
    BY <2>1
  <2> QED
    BY <2>1, <2>2
<1>6. ASSUME NEW push \in pushes, LosePush(push) PROVE GossipInv'
  BY <1>6 DEF LosePush, publisher, gossipHistory
<1>7. CASE SeeChange
  BY <1>7 DEF SeeChange, gossipHistory
<1>8. CASE WallClock
  BY <1>8 DEF WallClock
<1>9. CASE HearerRestarts
  <2>1. /\ heard' = NotHeard /\ pushes' = pushes
        /\ UNCHANGED <<seen, wallClock, read, setBack, crossed>>
    BY <1>9 DEF HearerRestarts, publisher, gossipHistory
  <2>2. NotHeard \in Word /\ NotHeard.state = 0 /\ NotHeard.stamp = 0
    BY DEF NotHeard
  <2>3. \A w \in Words' : w \in Words \/ w = NotHeard
    BY <2>1
  <2> HIDE DEF NotHeard
  <2> QED
    BY <2>1, <2>2, <2>3
<1>10. CASE UNCHANGED gossipVars
  BY <1>10 DEF gossipVars, publisher, gossipHistory
<1> QED
  BY <1>1, <1>2, <1>3, <1>4, <1>5, <1>6, <1>7, <1>8, <1>9, <1>10 DEF GossipNext

\* An older state of a node replaces a newer one at another node only when the
\* stamps cannot tell: the clock was set back, two loops announced at once, or
\* the two are of one moment.
THEOREM NewerStates == GossipSpec => NewerStays
<1> DEFINE Kept == heard'.state \in 1..heard.state-1 =>
                     setBack \/ crossed \/ heard'.stamp = heard.stamp
<1>1. GossipInv /\ [GossipNext]_gossipVars => [Kept]_gossipVars
  <2> SUFFICES ASSUME GossipInv, GossipNext, heard'.state \in 1..heard.state-1,
                      ~setBack, ~crossed
               PROVE  heard'.stamp = heard.stamp
    OBVIOUS
  <2>1. heard' # heard /\ heard'.state # 0 /\ heard \in Word
    BY DEF GossipInv
  <2>2. PICK push \in pushes : Hear(push) /\ heard' = push /\ ~Stale(push)
    <3>1. heard' # NotHeard
      BY <2>1 DEF NotHeard
    <3> QED
      BY <2>1, <3>1 DEF GossipNext, StartGossip, StopGossip, ReadState, Send, Hear, LosePush,
         SeeChange, WallClock, HearerRestarts
  <2>3. ~(push.stamp < heard.stamp)
    BY <2>2 DEF Stale, GossipInv
  <2>4. ~(heard.stamp < push.stamp)
    <3>1. push \in Words /\ heard \in Words /\ push.state < heard.state
      BY <2>2 DEF Words, GossipInv, Word
    <3> QED
      BY <3>1 DEF GossipInv, Word, Words
  <2>5. push.stamp \in Nat /\ heard.stamp \in Nat
    BY DEF GossipInv, Word
  <2> QED
    BY <2>2, <2>3, <2>4, <2>5
<1> QED
  BY <1>1, GossipInitInv, GossipStepInv, PTL DEF GossipSpec, NewerStays

-----------------------------------------------------------------------------
(* EngineLife.                                                             *)

\* Where the two threads are.
Beginning == {"start", "starting", "up"}
Closing == {"close", "wait", "reset"}
Stopping == {"stop", "stopping"} \cup Closing
\* The rebind has a start before it.
ToRestart == {"start"} \cup Stopping

One(b) == IF b THEN 1 ELSE 0

EngineTyped ==
  /\ EngineTypeOK
  /\ pc["main"] # "off" /\ pc["rebind"] \notin {"up", "gone", "exited"}
  /\ started + triggers + One(pc["main"] = "start") + One(pc["rebind"] \in ToRestart)
       <= Triggers + 1
  /\ \A t \in Threads :
       /\ pc[t] \in {"starting", "stopping"} => idx[t] \in 1..Services
       /\ pc[t] = "close" => took[t] # NoSession
  /\ engineUp <=> cur # NoSession

\* Before main has started the engine nothing is there, and before it ends no
\* rebind meets the end.
EngineBegins ==
  /\ pc["main"] = "start" =>
       /\ started = 0 /\ ~engineUp /\ pc["rebind"] = "off" /\ served = {} /\ pending = {}
       /\ \A s \in Sessions : worker[s] = {}
  /\ pc["main"] \in Beginning => ~overlapped
  /\ pc["main"] \notin Beginning /\ ~overlapped => pc["rebind"] = "off"

\* With one thread at a time in Stop and Start, a Stop has taken the session
\* that is there, and by the time it resets nothing of it is left.
EngineAlone ==
  ~overlapped =>
    /\ \A s \in Sessions : s # cur => opened[s] = {} /\ worker[s] = {}
    /\ \A t \in Threads :
         /\ pc[t] \in Closing => engineUp /\ took[t] = cur
         /\ pc[t] \in {"wait", "reset"} => opened[cur] = {}
         /\ pc[t] = "reset" => worker[cur] = {}
    /\ pc["rebind"] \in {"stopping", "start"} => ~engineUp
    /\ pc["rebind"] = "starting" => engineUp
    /\ pc["main"] \in {"starting", "up", "stop"} /\ pc["rebind"] \in {"off", "stop"}
         => engineUp \/ startFailed
    /\ pc["main"] \in {"stopping", "gone", "exited"} => ~engineUp
    /\ pc["main"] = "stopping" => served \subseteq 1..idx["main"] \cup Async
    /\ pc["main"] \in {"gone", "exited"} /\ ~startFailed => served \subseteq Async

\* The services before entry n that are neither up nor about to be.
Missing(n) == (1..n) \ (served \cup pending)

\* As far as the last OnStarted has come, a service is missing only by a fault.
EngineServes ==
  ~overlapped /\ pc["main"] \in {"starting", "up"} =>
    /\ pc["rebind"] = "starting" =>
         Cardinality(Missing(idx["rebind"] - 1)) <= Faults - faults
    /\ pc["rebind"] \in {"off", "stop"} \cup Closing /\ engineUp =>
         Cardinality(Missing(IF pc["main"] = "up" THEN Services ELSE idx["main"] - 1))
           <= Faults - faults

EngineInv == EngineTyped /\ EngineBegins /\ EngineAlone /\ EngineServes

\* How many are missing: fewer when more is there, one more per entry passed.
LEMMA MissingCount ==
  ASSUME NEW n \in Nat, NEW A
  PROVE  /\ Cardinality((1..n) \ A) \in Nat
         /\ \A B : A \subseteq B => Cardinality((1..n) \ B) <= Cardinality((1..n) \ A)
         /\ Cardinality((1..(n + 1)) \ A) <= Cardinality((1..n) \ A) + 1
         /\ \A B : A \subseteq B /\ n + 1 \in B =>
              Cardinality((1..(n + 1)) \ B) <= Cardinality((1..n) \ A)
         /\ \A m \in 0..n : Cardinality((1..m) \ A) <= Cardinality((1..n) \ A)
         /\ Cardinality((1..0) \ A) = 0
<1>1. IsFiniteSet(1..n) /\ IsFiniteSet(1..(n + 1))
  BY FS_Interval
<1>2. IsFiniteSet((1..n) \ A)
  BY <1>1, FS_Subset, (1..n) \ A \subseteq 1..n
<1>3. Cardinality((1..n) \ A) \in Nat
  BY <1>2, FS_CardinalityType
<1>4. \A B : A \subseteq B => Cardinality((1..n) \ B) <= Cardinality((1..n) \ A)
  <2> TAKE B
  <2> HAVE A \subseteq B
  <2>1. (1..n) \ B \subseteq (1..n) \ A
    OBVIOUS
  <2> QED
    BY <2>1, <1>2, FS_Subset
<1>5. Cardinality((1..(n + 1)) \ A) <= Cardinality((1..n) \ A) + 1
  <2> DEFINE M == (1..n) \ A
  <2>1. IsFiniteSet(M \cup {n + 1}) /\ Cardinality(M \cup {n + 1}) <= Cardinality(M) + 1
    <3>1. IsFiniteSet(M) /\ Cardinality(M) \in Nat
      BY <1>2, <1>3
    <3> HIDE DEF M
    <3> QED
      BY <3>1, FS_AddElement
  <2>2. (1..(n + 1)) \ A \subseteq M \cup {n + 1}
    OBVIOUS
  <2>3. Cardinality((1..(n + 1)) \ A) <= Cardinality(M \cup {n + 1})
    BY <2>1, <2>2, FS_Subset
  <2>4. /\ Cardinality(M \cup {n + 1}) \in Nat
        /\ IsFiniteSet((1..(n + 1)) \ A)
    BY <2>1, <2>2, FS_CardinalityType, FS_Subset
  <2>5. Cardinality((1..(n + 1)) \ A) \in Nat
    BY <2>4, FS_CardinalityType
  <2> QED
    BY <2>1, <2>3, <2>4, <2>5, <1>3
<1>6. \A B : A \subseteq B /\ n + 1 \in B =>
        Cardinality((1..(n + 1)) \ B) <= Cardinality((1..n) \ A)
  <2> TAKE B
  <2> HAVE A \subseteq B /\ n + 1 \in B
  <2>1. (1..(n + 1)) \ B \subseteq (1..n) \ A
    OBVIOUS
  <2> QED
    BY <2>1, <1>2, FS_Subset
<1>7. Cardinality((1..0) \ A) = 0
  BY FS_EmptySet, (1..0) \ A = {}
<1>8. \A m \in 0..n : Cardinality((1..m) \ A) <= Cardinality((1..n) \ A)
  <2> TAKE m \in 0..n
  <2>1. (1..m) \ A \subseteq (1..n) \ A
    OBVIOUS
  <2> QED
    BY <2>1, <1>2, FS_Subset
<1> QED
  BY <1>3, <1>4, <1>5, <1>6, <1>7, <1>8

LEMMA EngineInitInv == EngineInit => EngineInv
<1> SUFFICES ASSUME EngineInit PROVE EngineInv
  OBVIOUS
<1>1. EngineTyped
  <2>1. EngineTypeOK
    <3>1. pc \in [Threads -> {"start", "starting", "up", "off", "stop", "close", "wait", "reset",
                              "stopping", "gone", "exited"}]
      BY DEF EngineInit
    <3>2. /\ started \in 0..(Triggers + 1) /\ cur \in 0..started /\ triggers \in 0..Triggers
          /\ faults \in 0..Faults
      BY EngineAssumption DEF EngineInit, NoSession
    <3>3. took \in [Threads -> 0..started] /\ idx \in [Threads -> 0..(Services + 1)]
      BY EngineAssumption DEF EngineInit, NoSession
    <3> QED
      BY <3>1, <3>2, <3>3 DEF EngineInit, EngineTypeOK
  <2>2. pc["main"] = "start" /\ pc["rebind"] = "off" /\ \A t \in Threads : pc[t] \in {"start", "off"}
    BY DEF EngineInit, Threads
  <2> QED
    BY <2>1, <2>2, EngineAssumption
       DEF EngineInit, EngineTyped, NoSession, One, ToRestart, Stopping, Closing
<1>2. EngineBegins /\ EngineAlone /\ EngineServes
  BY EngineAssumption
     DEF EngineInit, EngineBegins, EngineAlone, EngineServes, Threads, Sessions, NoSession,
         Beginning, Stopping, Closing
<1> QED
  BY <1>1, <1>2 DEF EngineInv

\* The invariant in the form the steps use.
LEMMA EngineFacts ==
  ASSUME EngineInv
  PROVE  /\ Services \in Nat /\ Services >= 1 /\ Async \subseteq 1..Services /\ Triggers \in Nat
         /\ Faults \in Nat /\ Camp \in 1..Services
         /\ engineUp \in BOOLEAN /\ startFailed \in BOOLEAN /\ overlapped \in BOOLEAN
         /\ started \in 0..(Triggers + 1) /\ cur \in 0..started
         /\ opened \in [Sessions -> SUBSET Handles] /\ worker \in [Sessions -> SUBSET Workers]
         /\ took \in [Threads -> 0..started] /\ idx \in [Threads -> 0..(Services + 1)]
         /\ served \subseteq 1..Services /\ pending \subseteq Async /\ ended \subseteq 1..started
         /\ triggers \in 0..Triggers /\ faults \in 0..Faults
         /\ DOMAIN pc = Threads /\ pc = [t \in Threads |-> pc[t]]
         /\ pc["main"] \in {"start", "starting", "up", "stop", "close", "wait", "reset", "stopping",
                            "gone", "exited"}
         /\ pc["rebind"] \in {"off", "stop", "close", "wait", "reset", "stopping", "start",
                              "starting"}
         /\ 1..started \subseteq Sessions
BY EngineAssumption DEF EngineInv, EngineTyped, EngineTypeOK, Sessions, Threads

LEMMA GotoIs ==
  ASSUME NEW t \in Threads, NEW l, DOMAIN pc = Threads, pc = [u \in Threads |-> pc[u]], Goto(t, l)
  PROVE  /\ pc' = [u \in Threads |-> IF u = t THEN l ELSE pc[u]]
         /\ pc'["main"] = IF t = "main" THEN l ELSE pc["main"]
         /\ pc'["rebind"] = IF t = "rebind" THEN l ELSE pc["rebind"]
BY DEF Goto, Threads

LEMMA StartUpInv == ASSUME EngineInv, NEW t \in Threads, StartUp(t) PROVE EngineInv'
<1> USE EngineFacts DEF Threads
<1>1. CASE ~engineUp /\ started' = started + 1
  <2>1. /\ pc[t] = "start" /\ cur' = started + 1 /\ engineUp'
        /\ opened' = [opened EXCEPT ![started + 1] = Handles]
        /\ worker' = [worker EXCEPT ![started + 1] = Workers]
        /\ idx' = [idx EXCEPT ![t] = 1]
        /\ UNCHANGED <<ended, faults, startFailed, took, served, pending, triggers, overlapped>>
        /\ Goto(t, "starting")
    BY <1>1 DEF StartUp, Goto, wired, engine
  <2>2. /\ pc'["main"] = IF t = "main" THEN "starting" ELSE pc["main"]
        /\ pc'["rebind"] = IF t = "rebind" THEN "starting" ELSE pc["rebind"]
        /\ pc' = [u \in Threads |-> IF u = t THEN "starting" ELSE pc[u]]
    BY <2>1, GotoIs
  <2>3. started + 1 \in 1..(Triggers + 1)
    BY <2>1 DEF EngineInv, EngineTyped, One, ToRestart
  <2>4. EngineTypeOK'
    <3>1. started' \in 0..(Triggers + 1) /\ cur' \in 0..started' /\ engineUp' \in BOOLEAN
      BY <1>1, <2>1, <2>3
    <3>2. opened' \in [Sessions -> SUBSET Handles] /\ worker' \in [Sessions -> SUBSET Workers]
      BY <2>1
    <3>3. ended' \subseteq 1..started' /\ took' \in [Threads -> 0..started']
      BY <1>1, <2>1
    <3>4. idx' \in [Threads -> 0..(Services + 1)]
      BY <2>1
    <3> QED
      BY <2>1, <2>2, <3>1, <3>2, <3>3, <3>4 DEF EngineInv, EngineTyped, EngineTypeOK
  <2>5. EngineTyped'
    BY <1>1, <2>1, <2>2, <2>3, <2>4
       DEF EngineInv, EngineTyped, One, ToRestart, Stopping, Closing, NoSession
  <2>6. EngineBegins'
    BY <1>1, <2>1, <2>2, <2>3 DEF EngineInv, EngineBegins, Beginning
  <2>7. EngineAlone'
    <3> SUFFICES ASSUME ~overlapped PROVE EngineAlone'
      BY <2>1 DEF EngineAlone
    <3>1. /\ cur = NoSession
          /\ \A s \in Sessions : opened[s] = {} /\ worker[s] = {}
          /\ \A u \in Threads : pc[u] \notin Closing
      BY <1>1, SMTT(30) DEF EngineInv, EngineTyped, EngineAlone, Sessions, NoSession
    <3>2. \A s \in Sessions : s # cur' => opened'[s] = {} /\ worker'[s] = {}
      BY <2>1, <2>3, <3>1
    <3>3. \A u \in Threads : pc'[u] \notin Closing
      BY <2>2, <3>1 DEF Closing
    <3>4. pc["main"] \in Beginning
      BY <2>1 DEF EngineInv, EngineBegins, Beginning
    <3>5. pc'["rebind"] \notin {"stopping", "start"} /\ pc'["main"] \in Beginning
      BY <2>1, <2>2, <3>4, <1>1 DEF EngineInv, EngineBegins, Beginning
    <3> QED
      BY <2>1, <3>2, <3>3, <3>5 DEF EngineAlone, Closing, Beginning
  <2>8. EngineServes'
    <3>1. Cardinality(Missing(0)') = 0
      BY <2>1, MissingCount DEF Missing
    <3>2. /\ pc["main"] = "start" => pc["rebind"] = "off"
          /\ idx'[t] - 1 = 0 /\ 0 <= Faults - faults'
      BY <2>1 DEF EngineInv, EngineBegins
    <3> QED
      BY <2>1, <2>2, <3>1, <3>2 DEF EngineServes, Missing, Closing
  <2> QED
    BY <2>5, <2>6, <2>7, <2>8 DEF EngineInv
<1>2. CASE UNCHANGED engine
  <2>1. /\ pc[t] = "start" /\ startFailed' /\ (engineUp \/ faults > 0)
        /\ faults' = IF engineUp THEN faults ELSE faults - 1
        /\ Goto(t, AfterStart(t))
        /\ UNCHANGED <<engine, idx, took, served, pending, triggers, overlapped>>
    BY <1>2 DEF StartUp, wired, engine
  <2>2. /\ pc'["main"] = IF t = "main" THEN "up" ELSE pc["main"]
        /\ pc'["rebind"] = IF t = "rebind" THEN "off" ELSE pc["rebind"]
        /\ pc' = [u \in Threads |-> IF u = t THEN AfterStart(t) ELSE pc[u]]
    BY <2>1, GotoIs DEF AfterStart
  <2>4. EngineTypeOK'
    BY <2>1, <2>2 DEF EngineInv, EngineTyped, EngineTypeOK, engine, AfterStart
  <2>5. EngineTyped'
    BY <2>1, <2>2, <2>4
       DEF EngineInv, EngineTyped, One, ToRestart, Stopping, Closing, NoSession, engine
  <2>6. EngineBegins'
    BY <2>1, <2>2 DEF EngineInv, EngineBegins, Beginning, engine
  <2>7. EngineAlone'
    BY <2>1, <2>2 DEF EngineInv, EngineTyped, EngineBegins, EngineAlone, Beginning, Closing, engine
  <2>8. EngineServes'
    <3> SUFFICES ASSUME ~overlapped, pc'["main"] \in {"starting", "up"} PROVE EngineServes'
      BY <2>1 DEF EngineServes
    <3>1. CASE t = "main"
      BY <3>1, <2>1, <2>2 DEF EngineInv, EngineBegins, EngineServes, engine, Closing
    <3>2. CASE t = "rebind"
      <4>1. ~engineUp' /\ pc'["rebind"] = "off"
        BY <3>2, <2>1, <2>2 DEF EngineInv, EngineAlone, engine
      <4> QED
        BY <4>1 DEF EngineServes
    <3> QED
      BY <3>1, <3>2
  <2> QED
    BY <2>5, <2>6, <2>7, <2>8 DEF EngineInv
<1> QED
  BY <1>1, <1>2 DEF StartUp

LEMMA ServiceUpInv == ASSUME EngineInv, NEW t \in Threads, ServiceUp(t) PROVE EngineInv'
<1> USE EngineFacts DEF Threads
<1> DEFINE next == IF idx[t] = Services THEN AfterStart(t) ELSE "starting"
<1>1. /\ pc[t] = "starting"
      /\ idx' = [idx EXCEPT ![t] = @ + 1]
      /\ Goto(t, next)
      /\ UNCHANGED <<engineUp, cur, started, opened, ended, worker, took, triggers, startFailed,
                     overlapped>>
  BY DEF ServiceUp, engine
<1>2. /\ pc' = [u \in Threads |-> IF u = t THEN next ELSE pc[u]]
      /\ pc'["main"] = IF t = "main" THEN (IF idx[t] = Services THEN "up" ELSE "starting")
                                     ELSE pc["main"]
      /\ pc'["rebind"] = IF t = "rebind" THEN (IF idx[t] = Services THEN "off" ELSE "starting")
                                         ELSE pc["rebind"]
  BY <1>1, GotoIs DEF AfterStart
<1>3. idx[t] \in 1..Services
  BY <1>1 DEF EngineInv, EngineTyped
\* The service is up or on its way, or has cost a fault.
<1>4. /\ served' \subseteq 1..Services /\ pending' \subseteq Async
      /\ served \cup pending \subseteq served' \cup pending'
      /\ served' \ Async \subseteq served \cup {idx[t]}
      /\ faults' \in 0..Faults
      /\ \/ idx[t] \in served' \cup pending' /\ faults' = faults
         \/ faults' = faults - 1
  BY <1>1, <1>3 DEF ServiceUp
<1>5. EngineTyped'
  <2>1. EngineTypeOK'
    <3>1. idx' \in [Threads -> 0..(Services + 1)]
      BY <1>1, <1>3
    <3> QED
      BY <1>1, <1>2, <1>4, <3>1 DEF EngineInv, EngineTyped, EngineTypeOK, AfterStart
  <2>2. \A u \in Threads : pc'[u] \in {"starting", "stopping"} => idx'[u] \in 1..Services
    BY <1>1, <1>2, <1>3 DEF EngineInv, EngineTyped
  <2> QED
    BY <1>1, <1>2, <2>1, <2>2 DEF EngineInv, EngineTyped, One, ToRestart, Stopping, Closing, NoSession
<1>6. EngineBegins'
  BY <1>1, <1>2 DEF EngineInv, EngineBegins, Beginning
<1>7. EngineAlone'
  <2> SUFFICES ASSUME ~overlapped PROVE EngineAlone'
    BY <1>1 DEF EngineAlone
  <2>1. \A u \in Threads : pc'[u] \in Closing \cup {"stop", "stopping", "start", "gone", "exited"} =>
          u # t /\ pc[u] = pc'[u]
    BY <1>1, <1>2 DEF Closing
  <2>2. pc["main"] \in Beginning \/ pc["rebind"] = "off"
    BY DEF EngineInv, EngineBegins
  <2>3. pc'["main"] \in {"stopping", "gone", "exited"} => FALSE
    BY <1>1, <1>2, <2>2 DEF Beginning
  <2>4. pc'["main"] \in {"starting", "up", "stop"} /\ pc'["rebind"] \in {"off", "stop"}
          => engineUp \/ startFailed
    BY <1>1, <1>2 DEF EngineInv, EngineAlone
  <2>5. pc'["rebind"] \in {"stopping", "start"} => ~engineUp
    BY <1>1, <1>2 DEF EngineInv, EngineAlone
  <2>6. pc'["rebind"] = "starting" => engineUp
    BY <1>1, <1>2 DEF EngineInv, EngineAlone
  <2> QED
    BY <1>1, <2>1, <2>3, <2>4, <2>5, <2>6 DEF EngineInv, EngineAlone, Closing
<1>8. EngineServes'
  <2> SUFFICES ASSUME ~overlapped, pc'["main"] \in {"starting", "up"} PROVE EngineServes'
    BY <1>1 DEF EngineServes
  <2> DEFINE k == idx[t] - 1
             Left(n) == (1..n) \ (served' \cup pending')
  <2>0. k \in Nat /\ k + 1 = idx[t]
    BY <1>3
  <2>1. /\ Cardinality(Missing(k)) \in Nat
        /\ Cardinality(Missing(k)) <= Faults - faults =>
             Cardinality(Left(idx[t])) <= Faults - faults'
    <3> DEFINE B == served' \cup pending'
    <3>1. Cardinality((1..k) \ B) <= Cardinality(Missing(k)) /\ Cardinality(Missing(k)) \in Nat
      BY <1>4, <2>0, MissingCount DEF Missing
    <3>2. /\ Cardinality((1..(k + 1)) \ B) <= Cardinality((1..k) \ B) + 1
          /\ Cardinality((1..k) \ B) \in Nat
      BY <2>0, MissingCount
    <3>3. k + 1 \in B => Cardinality((1..(k + 1)) \ B) <= Cardinality(Missing(k))
      BY <1>4, <2>0, MissingCount DEF Missing
    <3>4. Cardinality((1..(k + 1)) \ B) \in Nat
      <4> HIDE DEF k
      <4>1. k + 1 \in Nat
        BY <2>0
      <4> QED
        BY <4>1, MissingCount
    <3>5. Left(idx[t]) = (1..(k + 1)) \ B
      BY <2>0 DEF Missing
    <3>6. (k + 1 \in B /\ faults' = faults) \/ faults' = faults - 1
      BY <1>4, <2>0
    <3>7. Faults - faults \in Nat /\ Faults - faults' \in Int /\ Faults - (faults - 1) = Faults - faults + 1
      BY <1>4
    <3> HIDE DEF k, B, Left
    <3> QED
      BY <3>1, <3>2, <3>3, <3>4, <3>5, <3>6, <3>7
  <2>2. \A n \in Nat : /\ Cardinality(Missing(n)) \in Nat
                       /\ Cardinality(Left(n)) <= Cardinality(Missing(n))
                       /\ Cardinality(Left(n)) \in Nat
                       /\ \A m \in 0..n : Cardinality(Left(m)) <= Cardinality(Left(n))
    BY <1>4, MissingCount DEF Missing
  <2>3. Faults - faults <= Faults - faults' /\ Faults - faults' \in Nat /\ Faults - faults \in Nat
    BY <1>4
  <2> HIDE DEF Left
  <2>4. CASE t = "main"
    <3>1. /\ pc["main"] = "starting" /\ pc'["rebind"] = pc["rebind"]
          /\ \/ pc'["main"] = "up" /\ idx["main"] = Services
             \/ pc'["main"] = "starting" /\ idx'["main"] - 1 = idx["main"]
          /\ idx'["rebind"] = idx["rebind"]
      BY <2>4, <1>1, <1>2, <1>3
    <3>2. /\ pc["rebind"] = "starting" =>
               idx["rebind"] - 1 \in Nat /\ Cardinality(Missing(idx["rebind"] - 1)) <= Faults - faults
          /\ pc["rebind"] \in {"off", "stop"} \cup Closing /\ engineUp =>
               Cardinality(Missing(idx["main"] - 1)) <= Faults - faults
      BY <3>1, <2>4 DEF EngineInv, EngineTyped, EngineServes
    <3>3. pc["rebind"] = "starting" =>
            Cardinality(Left(idx'["rebind"] - 1)) <= Faults - faults'
      <4> SUFFICES ASSUME pc["rebind"] = "starting"
                   PROVE  Cardinality(Left(idx["rebind"] - 1)) <= Faults - faults'
        BY <3>1
      <4> DEFINE j == idx["rebind"] - 1
      <4>1. j \in Nat /\ Cardinality(Missing(j)) <= Faults - faults
        BY <3>2
      <4> HIDE DEF j
      <4>2. Cardinality(Left(j)) <= Faults - faults'
        BY <4>1, <2>2, <2>3
      <4> QED
        BY <4>2 DEF j
    <3>4. pc["rebind"] \in {"off", "stop"} \cup Closing /\ engineUp =>
            Cardinality(Left(idx["main"])) <= Faults - faults'
      BY <3>2, <2>1, <2>4
    <3> QED
      BY <3>1, <3>3, <3>4, <1>1 DEF EngineServes, Missing, Left
  <2>5. CASE t = "rebind"
    <3>1. /\ pc["rebind"] = "starting" /\ pc'["main"] = pc["main"]
          /\ pc'["rebind"] = "off" => idx["rebind"] = Services
          /\ pc'["rebind"] = "starting" => idx'["rebind"] - 1 = idx["rebind"]
          /\ pc'["rebind"] \in {"off", "starting"}
          /\ idx'["main"] = idx["main"]
      BY <2>5, <1>1, <1>2, <1>3
    <3>2. Cardinality(Left(idx["rebind"])) <= Faults - faults'
      BY <3>1, <2>1, <2>5 DEF EngineInv, EngineServes
    <3>3. pc["main"] = "starting" => idx["main"] \in 1..Services
      BY DEF EngineInv, EngineTyped
    <3>4. ASSUME pc'["rebind"] = "off"
          PROVE  Cardinality(Left(IF pc["main"] = "up" THEN Services ELSE idx["main"] - 1))
                   <= Faults - faults'
      <4> DEFINE m == IF pc["main"] = "up" THEN Services ELSE idx["main"] - 1
      <4>1. m \in 0..Services
        BY <3>1, <3>3
      <4>4. Cardinality(Left(Services)) <= Faults - faults'
        BY <3>1, <3>2, <3>4
      <4> HIDE DEF m
      <4>2. /\ Cardinality(Left(m)) <= Cardinality(Left(Services))
            /\ Cardinality(Left(m)) \in Nat /\ Cardinality(Left(Services)) \in Nat
        BY <4>1, <2>2
      <4>3. Cardinality(Left(m)) <= Faults - faults'
        BY <4>4, <4>2, <2>3
      <4> QED
        BY <4>3 DEF m
    <3> QED
      BY <3>1, <3>2, <3>4 DEF EngineServes, Missing, Left, Closing
  <2> QED
    BY <2>4, <2>5
<1> QED
  BY <1>5, <1>6, <1>7, <1>8 DEF EngineInv

LEMMA StopBeginInv == ASSUME EngineInv, NEW t \in Threads, StopBegin(t) PROVE EngineInv'
<1> USE EngineFacts DEF Threads
<1>1. /\ pc[t] = "stop" /\ took' = [took EXCEPT ![t] = cur]
      /\ Goto(t, IF engineUp THEN "close" ELSE AfterStop(t))
      /\ UNCHANGED <<engineUp, cur, started, opened, ended, worker, idx, served, pending, triggers,
                     faults, startFailed, overlapped>>
  BY DEF StopBegin, engine, wired, engineBudgets
<1>2. /\ pc' = [u \in Threads |-> IF u = t THEN (IF engineUp THEN "close" ELSE AfterStop(t)) ELSE pc[u]]
      /\ pc'["main"] = IF t = "main" THEN (IF engineUp THEN "close" ELSE "gone") ELSE pc["main"]
      /\ pc'["rebind"] = IF t = "rebind" THEN (IF engineUp THEN "close" ELSE "start") ELSE pc["rebind"]
  BY <1>1, GotoIs DEF AfterStop
<1>3. EngineTyped'
  <2>1. EngineTypeOK'
    BY <1>1, <1>2 DEF EngineInv, EngineTyped, EngineTypeOK, AfterStop
  <2> QED
    BY <1>1, <1>2, <2>1 DEF EngineInv, EngineTyped, One, ToRestart, Stopping, Closing, NoSession
<1>4. EngineBegins'
  BY <1>1, <1>2 DEF EngineInv, EngineBegins, Beginning
<1>5. EngineAlone'
  BY <1>1, <1>2 DEF EngineInv, EngineTyped, EngineBegins, EngineAlone, Beginning, Closing
<1>6. EngineServes'
  BY <1>1, <1>2 DEF EngineInv, EngineBegins, EngineServes, Missing, Beginning, Closing
<1> QED
  BY <1>3, <1>4, <1>5, <1>6 DEF EngineInv

LEMMA StopCloseInv == ASSUME EngineInv, NEW t \in Threads, StopClose(t) PROVE EngineInv'
<1> USE EngineFacts DEF Threads
<1>1. /\ pc[t] = "close" /\ Goto(t, "wait")
      /\ ended' = ended \cup {took[t]} /\ opened' = [opened EXCEPT ![took[t]] = {}]
      /\ UNCHANGED <<engineUp, cur, started, worker, took, idx, served, pending, triggers, faults,
                     startFailed, overlapped>>
  BY DEF StopClose, LeftOpen, wired, engineBudgets
<1>2. /\ pc' = [u \in Threads |-> IF u = t THEN "wait" ELSE pc[u]]
      /\ pc'["main"] = IF t = "main" THEN "wait" ELSE pc["main"]
      /\ pc'["rebind"] = IF t = "rebind" THEN "wait" ELSE pc["rebind"]
  BY <1>1, GotoIs
<1>3. took[t] \in 1..started
  BY <1>1 DEF EngineInv, EngineTyped, NoSession
<1>4. EngineTyped'
  <2>1. EngineTypeOK'
    BY <1>1, <1>2, <1>3 DEF EngineInv, EngineTyped, EngineTypeOK
  <2> QED
    BY <1>1, <1>2, <2>1 DEF EngineInv, EngineTyped, One, ToRestart, Stopping, Closing, NoSession
<1>5. EngineBegins'
  BY <1>1, <1>2 DEF EngineInv, EngineBegins, Beginning
<1>6. EngineAlone'
  BY <1>1, <1>2, <1>3 DEF EngineInv, EngineTyped, EngineBegins, EngineAlone, Beginning, Closing
<1>7. EngineServes'
  BY <1>1, <1>2 DEF EngineInv, EngineServes, Missing, Closing
<1> QED
  BY <1>4, <1>5, <1>6, <1>7 DEF EngineInv

LEMMA StopWaitInv == ASSUME EngineInv, NEW t \in Threads, StopWait(t) PROVE EngineInv'
<1> USE EngineFacts DEF Threads
<1>1. /\ pc[t] = "wait" /\ Goto(t, "reset") /\ \A s \in Sessions : worker[s] = {}
      /\ UNCHANGED <<engineUp, cur, started, opened, ended, worker, took, idx, served, pending,
                     triggers, faults, startFailed, overlapped>>
  BY DEF StopWait, engine, wired, engineBudgets
<1>2. /\ pc' = [u \in Threads |-> IF u = t THEN "reset" ELSE pc[u]]
      /\ pc'["main"] = IF t = "main" THEN "reset" ELSE pc["main"]
      /\ pc'["rebind"] = IF t = "rebind" THEN "reset" ELSE pc["rebind"]
  BY <1>1, GotoIs
<1>3. EngineTyped'
  BY <1>1, <1>2 DEF EngineInv, EngineTyped, EngineTypeOK, One, ToRestart, Stopping, Closing, NoSession
<1>4. EngineBegins'
  BY <1>1, <1>2 DEF EngineInv, EngineBegins, Beginning
<1>5. EngineAlone'
  BY <1>1, <1>2 DEF EngineInv, EngineTyped, EngineBegins, EngineAlone, Beginning, Closing, NoSession
<1>6. EngineServes'
  BY <1>1, <1>2 DEF EngineInv, EngineServes, Missing, Closing
<1> QED
  BY <1>3, <1>4, <1>5, <1>6 DEF EngineInv

LEMMA StopResetInv == ASSUME EngineInv, NEW t \in Threads, StopReset(t) PROVE EngineInv'
<1> USE EngineFacts DEF Threads
<1>1. /\ pc[t] = "reset" /\ Goto(t, "stopping")
      /\ engineUp' = FALSE /\ cur' = NoSession
      /\ opened' = IF cur = NoSession THEN opened ELSE [opened EXCEPT ![cur] = @ \ {"device"}]
      /\ idx' = [idx EXCEPT ![t] = Services]
      /\ UNCHANGED <<started, ended, worker, took, served, pending, triggers, faults, startFailed,
                     overlapped>>
  BY DEF StopReset, wired, engineBudgets
<1>2. /\ pc' = [u \in Threads |-> IF u = t THEN "stopping" ELSE pc[u]]
      /\ pc'["main"] = IF t = "main" THEN "stopping" ELSE pc["main"]
      /\ pc'["rebind"] = IF t = "rebind" THEN "stopping" ELSE pc["rebind"]
  BY <1>1, GotoIs
<1>3. EngineTyped'
  <2>0. opened' \in [Sessions -> SUBSET Handles]
    <3>1. CASE cur = NoSession
      BY <3>1, <1>1
    <3>2. CASE cur # NoSession
      BY <3>2, <1>1
    <3> QED
      BY <3>1, <3>2
  <2>1. idx' \in [Threads -> 0..(Services + 1)] /\ cur' \in 0..started /\ engineUp' \in BOOLEAN
    <3>1. idx' \in [Threads -> 0..(Services + 1)]
      BY <1>1
    <3>2. cur' \in 0..started
      <4>1. cur' = 0 /\ started \in Nat
        BY <1>1 DEF NoSession
      <4> QED
        BY <4>1
    <3>3. engineUp' \in BOOLEAN
      BY <1>1
    <3> QED
      BY <3>1, <3>2, <3>3
  <2>2. EngineTypeOK'
    BY <1>1, <1>2, <2>0, <2>1 DEF EngineInv, EngineTyped, EngineTypeOK
  <2> QED
    BY <1>1, <1>2, <2>2 DEF EngineInv, EngineTyped, One, ToRestart, Stopping, Closing, NoSession
<1>4. EngineBegins'
  BY <1>1, <1>2 DEF EngineInv, EngineBegins, Beginning
<1>5. EngineAlone'
  <2> SUFFICES ASSUME ~overlapped PROVE EngineAlone'
    BY <1>1 DEF EngineAlone
  <2>1. /\ \A s \in Sessions : opened[s] = {} /\ worker[s] = {}
        /\ cur \in Sessions
    BY <1>1 DEF EngineInv, EngineTyped, EngineAlone, Closing, NoSession
  <2>2. \A s \in Sessions : opened'[s] = {} /\ worker'[s] = {}
    BY <1>1, <2>1
  <2>3. t = "main" => pc["rebind"] = "off"
    BY <1>1 DEF EngineInv, EngineBegins, Beginning
  <2>4. t = "rebind" => pc["main"] \in {"starting", "up"}
    BY <1>1 DEF EngineInv, EngineBegins, Beginning
  <2>5. \A u \in Threads : pc'[u] \notin Closing
    BY <1>2, <2>3, <2>4 DEF Closing
  <2> QED
    BY <1>1, <1>2, <2>2, <2>3, <2>4, <2>5 DEF EngineAlone, Closing
<1>6. EngineServes'
  BY <1>1, <1>2 DEF EngineServes, Closing
<1> QED
  BY <1>3, <1>4, <1>5, <1>6 DEF EngineInv

LEMMA ServiceDownInv == ASSUME EngineInv, NEW t \in Threads, ServiceDown(t) PROVE EngineInv'
<1> USE EngineFacts DEF Threads
<1>1. /\ pc[t] = "stopping" /\ served' = served \ {idx[t]}
      /\ idx' = [idx EXCEPT ![t] = @ - 1]
      /\ Goto(t, IF idx[t] = 1 THEN AfterStop(t) ELSE "stopping")
      /\ UNCHANGED <<engineUp, cur, started, opened, ended, worker, took, pending, triggers, faults,
                     startFailed, overlapped>>
  BY DEF ServiceDown, engine, engineBudgets
<1>2. /\ pc' = [u \in Threads |-> IF u = t THEN (IF idx[t] = 1 THEN AfterStop(t) ELSE "stopping")
                                           ELSE pc[u]]
      /\ pc'["main"] = IF t = "main" THEN (IF idx[t] = 1 THEN "gone" ELSE "stopping") ELSE pc["main"]
      /\ pc'["rebind"] = IF t = "rebind" THEN (IF idx[t] = 1 THEN "start" ELSE "stopping")
                                         ELSE pc["rebind"]
  BY <1>1, GotoIs DEF AfterStop
<1>3. idx[t] \in 1..Services /\ idx'[t] = idx[t] - 1 /\ \A u \in Threads : u # t => idx'[u] = idx[u]
  BY <1>1 DEF EngineInv, EngineTyped
<1>4. EngineTyped'
  <2>1. idx' \in [Threads -> 0..(Services + 1)]
    BY <1>1, <1>3
  <2>2. EngineTypeOK'
    BY <1>1, <1>2, <2>1 DEF EngineInv, EngineTyped, EngineTypeOK, AfterStop
  <2>3. \A u \in Threads : pc'[u] \in {"starting", "stopping"} => idx'[u] \in 1..Services
    BY <1>1, <1>2, <1>3 DEF EngineInv, EngineTyped
  <2> QED
    BY <1>1, <1>2, <2>2, <2>3 DEF EngineInv, EngineTyped, One, ToRestart, Stopping, Closing, NoSession
<1>5. EngineBegins'
  BY <1>1, <1>2 DEF EngineInv, EngineBegins, Beginning
<1>6. EngineAlone'
  <2> SUFFICES ASSUME ~overlapped PROVE EngineAlone'
    BY <1>1 DEF EngineAlone
  <2>1. t = "main" => pc["rebind"] = "off"
    BY <1>1 DEF EngineInv, EngineBegins, Beginning
  <2>2. t = "rebind" => pc["main"] \in {"starting", "up"}
    BY <1>1 DEF EngineInv, EngineBegins, Beginning
  <2>3. t = "main" /\ idx[t] # 1 => served' \subseteq 1..idx'["main"] \cup Async
    BY <1>1, <1>3 DEF EngineInv, EngineAlone
  <2>4. t = "main" /\ idx[t] = 1 => served' \subseteq Async
    BY <1>1, <1>3 DEF EngineInv, EngineAlone
  <2>5. ~engineUp
    BY <1>1 DEF EngineInv, EngineAlone
  <2>6. \A u \in Threads : pc'[u] \notin Closing
    BY <1>2, <2>1, <2>2 DEF Closing
  <2>7. \A s \in Sessions : s # cur => opened[s] = {} /\ worker[s] = {}
    BY DEF EngineInv, EngineAlone
  <2> QED
    BY <1>1, <1>2, <2>1, <2>2, <2>3, <2>4, <2>5, <2>6, <2>7 DEF EngineAlone, Closing
<1>7. EngineServes'
  BY <1>1, <1>2 DEF EngineInv, EngineBegins, EngineServes, Beginning, Closing
<1> QED
  BY <1>4, <1>5, <1>6, <1>7 DEF EngineInv

LEMMA LateUpInv == ASSUME EngineInv, NEW i \in Async, LateUp(i) PROVE EngineInv'
<1> USE EngineFacts DEF Threads
<1>1. /\ i \in pending /\ pending' = pending \ {i} /\ served' = served \cup {i}
      /\ UNCHANGED <<engineUp, cur, started, opened, ended, worker, pc, took, idx, triggers, faults,
                     startFailed, overlapped>>
  BY DEF LateUp, engine, threads, engineBudgets
<1>2. served' \cup pending' = served \cup pending
  BY <1>1
<1>3. EngineTyped'
  BY <1>1 DEF EngineInv, EngineTyped, EngineTypeOK, One, ToRestart, Stopping, Closing, NoSession
<1>4. EngineBegins'
  BY <1>1 DEF EngineInv, EngineBegins, Beginning
<1>5. EngineAlone'
  BY <1>1 DEF EngineInv, EngineAlone, Closing
<1>6. EngineServes'
  BY <1>1, <1>2 DEF EngineInv, EngineServes, Missing, Closing
<1> QED
  BY <1>3, <1>4, <1>5, <1>6 DEF EngineInv

\* A rebind that is asked for: of the rest a worker may end.
LEMMA RebindInv ==
  ASSUME EngineInv, RebindEphemeral, pc["main"] # "start",
         UNCHANGED <<engineUp, cur, started, opened, ended>>,
         worker' \in [Sessions -> SUBSET Workers],
         \A s \in Sessions : worker'[s] \subseteq worker[s]
  PROVE  EngineInv'
<1> USE EngineFacts DEF Threads
<1>1. /\ triggers > 0 /\ triggers' = triggers - 1
      /\ overlapped' = (overlapped \/ pc["main"] \notin Beginning)
      /\ UNCHANGED <<engineUp, cur, started, opened, ended, took, idx, served, pending, faults,
                     startFailed>>
  BY DEF RebindEphemeral, wired, Beginning
<1>2. /\ pc' = [u \in Threads |-> IF u = "rebind" /\ pc["rebind"] = "off" THEN "stop" ELSE pc[u]]
      /\ pc'["main"] = pc["main"]
      /\ pc'["rebind"] = IF pc["rebind"] = "off" THEN "stop" ELSE pc["rebind"]
  BY DEF RebindEphemeral, rebinding
<1>3. EngineTyped'
  <2>1. overlapped' \in BOOLEAN /\ triggers' \in 0..Triggers
    BY <1>1
  <2>2. EngineTypeOK'
    BY <1>1, <1>2, <2>1 DEF EngineInv, EngineTyped, EngineTypeOK
  <2> QED
    BY <1>1, <1>2, <2>2 DEF EngineInv, EngineTyped, One, ToRestart, Stopping, Closing, NoSession
<1>4. EngineBegins'
  BY <1>1, <1>2 DEF EngineInv, EngineBegins, Beginning
<1>5. EngineAlone'
  BY <1>1, <1>2 DEF EngineInv, EngineTyped, EngineBegins, EngineAlone, Beginning, Closing, NoSession
<1>6. EngineServes'
  BY <1>1, <1>2 DEF EngineInv, EngineServes, Missing, Closing
<1> QED
  BY <1>3, <1>4, <1>5, <1>6 DEF EngineInv

LEMMA WorkerEndInv ==
  ASSUME EngineInv, NEW s \in Sessions, NEW w \in Workers, WorkerEnd(s, w) PROVE EngineInv'
<1> USE EngineFacts DEF Threads
<1>1. /\ worker' = [worker EXCEPT ![s] = @ \ {w}]
      /\ UNCHANGED <<engineUp, cur, started, opened, ended, pc, took, idx, served, pending, triggers,
                     faults, startFailed, overlapped>>
  BY DEF WorkerEnd, threads, wired, engineBudgets
<1>2. worker' \in [Sessions -> SUBSET Workers] /\ \A r \in Sessions : worker'[r] \subseteq worker[r]
  BY <1>1
<1>3. EngineTyped'
  BY <1>1, <1>2 DEF EngineInv, EngineTyped, EngineTypeOK, One, ToRestart, Stopping, Closing, NoSession
<1>4. EngineBegins'
  BY <1>1, <1>2 DEF EngineInv, EngineBegins, Beginning
<1>5. EngineAlone'
  BY <1>1, <1>2 DEF EngineInv, EngineTyped, EngineAlone, Closing, NoSession
<1>6. EngineServes'
  BY <1>1 DEF EngineInv, EngineServes, Missing, Closing
<1> QED
  BY <1>3, <1>4, <1>5, <1>6 DEF EngineInv

LEMMA EndInv == ASSUME EngineInv, Shutdown \/ Exit PROVE EngineInv'
<1> USE EngineFacts DEF Threads
<1>1. CASE Shutdown
  <2>1. /\ pc["main"] = "up" /\ Goto("main", "stop") /\ overlapped' = (pc["rebind"] # "off")
        /\ UNCHANGED <<engineUp, cur, started, opened, ended, worker, took, idx, served, pending,
                       triggers, faults, startFailed>>
    BY <1>1 DEF Shutdown, engine, wired, rebinding
  <2>2. /\ pc' = [u \in Threads |-> IF u = "main" THEN "stop" ELSE pc[u]]
        /\ pc'["main"] = "stop" /\ pc'["rebind"] = pc["rebind"]
    BY <2>1, GotoIs
  <2>3. EngineTyped'
    BY <2>1, <2>2 DEF EngineInv, EngineTyped, EngineTypeOK, One, ToRestart, Stopping, Closing, NoSession
  <2>4. EngineBegins' /\ EngineServes'
    BY <2>1, <2>2 DEF EngineBegins, EngineServes, Beginning
  <2>5. EngineAlone'
    BY <2>1, <2>2 DEF EngineInv, EngineBegins, EngineAlone, Beginning, Closing
  <2> QED
    BY <2>3, <2>4, <2>5 DEF EngineInv
<1>2. CASE Exit
  <2>1. /\ pc["main"] = "gone" /\ Goto("main", "exited")
        /\ UNCHANGED <<engineUp, cur, started, opened, ended, worker, took, idx, served, pending,
                       triggers, faults, startFailed, overlapped>>
    BY <1>2 DEF Exit, engine, wired, engineBudgets
  <2>2. /\ pc' = [u \in Threads |-> IF u = "main" THEN "exited" ELSE pc[u]]
        /\ pc'["main"] = "exited" /\ pc'["rebind"] = pc["rebind"]
    BY <2>1, GotoIs
  <2>3. EngineTyped'
    BY <2>1, <2>2 DEF EngineInv, EngineTyped, EngineTypeOK, One, ToRestart, Stopping, Closing, NoSession
  <2>4. EngineBegins' /\ EngineServes'
    BY <2>1, <2>2 DEF EngineInv, EngineBegins, EngineServes, Beginning
  <2>5. EngineAlone'
    BY <2>1, <2>2 DEF EngineInv, EngineBegins, EngineAlone, Beginning, Closing
  <2> QED
    BY <2>3, <2>4, <2>5 DEF EngineInv
<1> QED
  BY <1>1, <1>2

LEMMA EngineStepInv == EngineInv /\ [EngineNext]_engineVars => EngineInv'
<1> SUFFICES ASSUME EngineInv, [EngineNext]_engineVars PROVE EngineInv'
  OBVIOUS
<1>1. ASSUME NEW t \in Threads, ThreadStep(t) PROVE EngineInv'
  BY <1>1, StartUpInv, ServiceUpInv, StopBeginInv, StopCloseInv, StopWaitInv, StopResetInv,
     ServiceDownInv DEF ThreadStep
<1>2. ASSUME NEW i \in Async, LateUp(i) PROVE EngineInv'
  BY <1>2, LateUpInv
<1>3. ASSUME NEW s \in Sessions, PunchRebind(s) PROVE EngineInv'
  <2>1. /\ "punch" \in worker[s] /\ RebindEphemeral
        /\ worker' = [worker EXCEPT ![s] = @ \ {"punch"}]
        /\ UNCHANGED <<engineUp, cur, started, opened, ended>>
    BY <1>3 DEF PunchRebind
  <2>2. pc["main"] # "start"
    BY <2>1 DEF EngineInv, EngineBegins
  <2>3. worker' \in [Sessions -> SUBSET Workers] /\ \A r \in Sessions : worker'[r] \subseteq worker[r]
    BY <2>1, EngineFacts
  <2> QED
    BY <2>1, <2>2, <2>3, RebindInv
<1>4. CASE CampRebind
  <2>1. /\ Camp \in served /\ RebindEphemeral
        /\ UNCHANGED <<engineUp, cur, started, opened, ended, worker>>
    BY <1>4 DEF CampRebind, engine
  <2>2. pc["main"] # "start"
    BY <2>1 DEF EngineInv, EngineBegins
  <2> QED
    BY <2>1, <2>2, EngineFacts, RebindInv
<1>5. ASSUME NEW s \in Sessions, NEW w \in Workers, WorkerEnd(s, w) PROVE EngineInv'
  BY <1>5, WorkerEndInv
<1>6. CASE UNCHANGED engineVars
  BY <1>6
     DEF EngineInv, EngineTyped, EngineTypeOK, EngineBegins, EngineAlone, EngineServes, Missing,
         engineVars, engine, threads, wired, engineBudgets
<1> QED
  BY <1>1, <1>2, <1>3, <1>4, <1>5, <1>6, EndInv DEF EngineNext, EngineStep

\* A restart takes the session that is there and leaves nothing of it behind;
\* once it is over, the services are up but for as many as have failed to
\* start; and a process that has ended has taken everything down.
THEOREM RestartsClean == EngineSpec => []RestartsAreClean
<1>1. EngineInv => RestartsAreClean
  <2> SUFFICES ASSUME EngineInv PROVE RestartsAreClean
    OBVIOUS
  <2> USE EngineFacts DEF Threads
  <2>1. OldSessionsAreGone
    BY DEF EngineInv, EngineAlone, OldSessionsAreGone, Serving
  <2>2. RunningIsServed
    <3> SUFFICES ASSUME pc["main"] = "up", pc["rebind"] = "off", ~overlapped, engineUp, pending = {}
                 PROVE  Cardinality((1..Services) \ served) <= Faults - faults
      BY DEF RunningIsServed, Quiet, Serving, rebinding
    <3>1. Cardinality(Missing(Services)) <= Faults - faults
      BY DEF EngineInv, EngineServes
    <3> QED
      BY <3>1 DEF Missing
  <2>3. CleanExit
    BY SMTT(30) DEF EngineInv, EngineTyped, EngineAlone, CleanExit, exited, NoSession, Sessions
  <2> QED
    BY <2>1, <2>2, <2>3 DEF RestartsAreClean
<1> QED
  BY <1>1, EngineInitInv, EngineStepInv, PTL DEF EngineSpec

-----------------------------------------------------------------------------
(* Firewall.                                                               *)

\* What an opened tunnel lets in: its camp, and the helper's ports with a list.
Rules == [camp : FwCamps, ports : {Merged(l) : l \in Lists}]
Steps == {"none", "save", "apply", "install", "record", "done"}
SettingRecord == [step : Steps, of : 0..Anchors, camp : {0} \cup FwCamps, list : Lists]

FwTyped ==
  /\ FirewallTypeOK
  /\ fwPid + fwFaults <= FwFaults + 1
  /\ anchors \in Seq(Rules)
  /\ setting \in [1..Settings -> SettingRecord]
  /\ \A h \in Busy : setting[h].camp # 0
  /\ \A h \in Busy : setting[h].step # "save" => setting[h].of # 0

\* The anchor of the service is the last that was opened, for its camp.
AnchorIsLast ==
  /\ phase = "up" <=> anchor # 0
  /\ anchor # 0 => anchor = Len(anchors)
  /\ phase \in {"opening", "written", "up"} =>
       Len(anchors) > 0 /\ anchors[Len(anchors)].camp = fwCamp
  /\ phase # "closing" => closing = 1

\* A change of the ports that meets nothing else, and has not failed, has one
\* camp, one anchor and one list from its first step to its last.
ChangesInTurn ==
  mishaps \subseteq {"unrecorded"} =>
    /\ \A g, h \in Busy : g = h
    /\ \A h \in Busy : /\ phase \in {"down", "up"}
                       /\ setting[h].of = anchor /\ setting[h].camp = fwCamp
    /\ phase \in {"opening", "written"} => anchors[Len(anchors)].ports = Merged(allowList[fwCamp])
    /\ phase = "written" => filter = anchors[Len(anchors)]
    /\ phase = "up" /\ Busy = {} =>
         filter = anchors[anchor] /\ anchors[anchor].ports = Merged(allowList[fwCamp])
    /\ \A h \in Busy :
         phase = "up" =>
           /\ setting[h].step # "install" => filter = anchors[anchor]
           /\ setting[h].step = "save" => anchors[anchor].ports = Merged(allowList[fwCamp])
           /\ setting[h].step # "save" => allowList[fwCamp] = setting[h].list
           /\ setting[h].step \in {"install", "record"} =>
                anchors[anchor].ports = Merged(setting[h].list)

\* Rules are in the system only with the file of the process that put them
\* there, except between the two.
RulesAreRecorded ==
  mishaps = {} =>
    /\ phase = "down" /\ filter # NoFilter => LeftBehind
    /\ phase = "opening" \/ (phase = "closing" /\ closing = 2) => filter = NoFilter
    /\ phase = "up" \/ (phase = "closing" /\ closing = 1) => fwFile = fwPid

FwInv == FwTyped /\ AnchorIsLast /\ ChangesInTurn /\ RulesAreRecorded

\* The invariant in the form the steps use.
LEMMA FwFacts ==
  ASSUME FwInv
  PROVE  /\ Anchors \in Nat /\ Settings \in Nat /\ FwFaults \in Nat /\ 0 \notin FwCamps
         /\ filter \in {NoFilter} \cup Rules
         /\ fwPid \in 1..(FwFaults + 1) /\ fwFile \in 0..fwPid /\ fwFaults \in 0..FwFaults
         /\ fwPid + fwFaults <= FwFaults + 1
         /\ allowList \in [FwCamps -> Lists] /\ fwCamp \in {0} \cup FwCamps
         /\ anchors \in Seq(Rules) /\ Len(anchors) \in 0..Anchors /\ anchor \in 0..Len(anchors)
         /\ \A i \in 1..Len(anchors) : anchors[i] \in Rules
         /\ phase \in {"down", "opening", "written", "up", "closing"} /\ closing \in 1..2
         /\ setting \in [1..Settings -> SettingRecord]
         /\ \A h \in 1..Settings : setting[h] \in SettingRecord /\ setting[h].of \in 0..Len(anchors)
         /\ \A h \in Busy : setting[h].camp \in FwCamps
         /\ \A h \in Busy : setting[h].step # "save" => setting[h].of \in 1..Len(anchors)
         /\ mishaps \subseteq {"overlap", "unrecorded", "failed"}
         /\ Busy \subseteq 1..Settings
<1>1. Len(CloseOrder) = 2
  BY DEF CloseOrder
<1>2. Len(anchors) \in Nat /\ Len(anchors) <= Anchors
  BY DEF FwInv, FwTyped, FirewallTypeOK
<1>3. \A i \in 1..Len(anchors) : anchors[i] \in Rules
  BY DEF FwInv, FwTyped
<1>4. \A h \in 1..Settings : setting[h] \in SettingRecord /\ setting[h].of \in 0..Len(anchors)
  BY DEF FwInv, FwTyped, FirewallTypeOK
<1>5. \A h \in Busy : /\ setting[h].camp \in FwCamps
                      /\ setting[h].step # "save" => setting[h].of \in 1..Len(anchors)
  BY <1>2, <1>4 DEF FwInv, FwTyped, Busy, SettingRecord
<1>6. filter \in {NoFilter} \cup Rules
  BY DEF FwInv, FwTyped, FirewallTypeOK, Rules, Merged
<1> QED
  BY <1>1, <1>2, <1>3, <1>4, <1>5, <1>6, FirewallAssumption DEF FwInv, FwTyped, FirewallTypeOK, Busy

\* What is to be shown of the types after a step.
LEMMA FwTypedNext ==
  ASSUME FwInv,
         filter' \in {NoFilter} \cup Rules, fwPid' + fwFaults' <= FwFaults + 1,
         fwPid' \in 1..(FwFaults + 1), fwFile' \in 0..fwPid', fwFaults' \in 0..FwFaults,
         allowList' \in [FwCamps -> Lists], fwCamp' \in {0} \cup FwCamps,
         anchors' \in Seq(Rules), Len(anchors') <= Anchors, anchor' \in 0..Len(anchors'),
         phase' \in {"down", "opening", "written", "up", "closing"}, closing' \in 1..2,
         setting' \in [1..Settings -> SettingRecord],
         \A h \in 1..Settings : setting'[h].of \in 0..Len(anchors'),
         \A h \in Busy' : setting'[h].camp # 0 /\ (setting'[h].step # "save" => setting'[h].of # 0),
         mishaps' \subseteq {"overlap", "unrecorded", "failed"}
  PROVE  FwTyped'
<1>1. Len(CloseOrder) = 2
  BY DEF CloseOrder
<1>2. \A h \in 1..Settings : setting'[h].list \in Lists
  BY DEF SettingRecord
<1>3. filter' \in {NoFilter} \cup [camp : FwCamps, ports : {{0} \cup l : l \in Lists}]
  BY DEF Rules, Merged
<1>4. FirewallTypeOK'
  BY <1>1, <1>2, <1>3 DEF FirewallTypeOK
<1> QED
  BY <1>4 DEF FwTyped

LEMMA FwInitInv == FirewallInit => FwInv
<1> SUFFICES ASSUME FirewallInit PROVE FwInv
  OBVIOUS
<1> USE FirewallAssumption
<1>1. Len(CloseOrder) = 2 /\ anchors \in Seq(Rules) /\ Len(anchors) = 0
  BY DEF CloseOrder, FirewallInit
<1>2. NoSetting \in SettingRecord /\ NoSetting.step = "none" /\ NoSetting.of = 0 /\ NoSetting.list \in Lists
  BY DEF NoSetting, SettingRecord, Steps, Lists
<1>3. setting \in [1..Settings -> SettingRecord] /\ \A h \in 1..Settings : setting[h] = NoSetting
  BY <1>2 DEF FirewallInit
<1>4. Busy = {}
  BY <1>2, <1>3 DEF Busy
<1>5. FirewallTypeOK
  <2>1. allowList \in [FwCamps -> Lists]
    BY DEF FirewallInit, Lists
  <2> QED
    BY <1>1, <1>2, <1>3, <2>1 DEF FirewallInit, FirewallTypeOK
<1>6. FwTyped
  BY <1>1, <1>3, <1>4, <1>5 DEF FirewallInit, FwTyped
<1>7. AnchorIsLast /\ ChangesInTurn /\ RulesAreRecorded
  BY <1>4 DEF FirewallInit, AnchorIsLast, ChangesInTurn, RulesAreRecorded
<1> QED
  BY <1>6, <1>7 DEF FwInv

LEMMA OpenAnchorInv == ASSUME FwInv, NEW c \in FwCamps, OpenAnchor(c) PROVE FwInv'
<1> USE FwFacts
<1> DEFINE rules == [camp |-> c, ports |-> Merged(allowList[c])]
<1>1. /\ phase = "down" /\ phase' = "opening" /\ Len(anchors) < Anchors
      /\ anchors' = Append(anchors, rules) /\ fwCamp' = c
      /\ filter' = IF LeftBehind THEN NoFilter ELSE filter
      /\ fwFile' = IF LeftBehind THEN 0 ELSE fwFile
      /\ mishaps' = IF Busy # {} THEN mishaps \cup {"overlap"} ELSE mishaps
      /\ UNCHANGED <<allowList, fwPid, anchor, closing, setting, fwFaults>>
  BY DEF OpenAnchor, Overlap, Mishap
<1>2. rules \in Rules
  BY DEF Rules
<1>3. rules.camp = c /\ rules.ports = Merged(allowList[c])
  OBVIOUS
<1> HIDE DEF rules
<1>4. /\ anchors' \in Seq(Rules) /\ Len(anchors') = Len(anchors) + 1
      /\ anchors'[Len(anchors')] = rules
  BY <1>1, <1>2, AppendProperties
<1>5. Busy' = Busy
  BY <1>1 DEF Busy
<1>6. FwTyped'
  <2>1. fwFile' \in 0..fwPid' /\ filter' \in {NoFilter} \cup Rules
    BY <1>1
  <2>2. \A h \in Busy' : setting'[h].camp # 0 /\ (setting'[h].step # "save" => setting'[h].of # 0)
    BY <1>1, <1>5
  <2>3. /\ Len(anchors') <= Anchors /\ anchor' \in 0..Len(anchors')
        /\ \A h \in 1..Settings : setting'[h].of \in 0..Len(anchors')
    BY <1>1, <1>4
  <2> QED
    BY <1>1, <1>4, <2>1, <2>2, <2>3, FwTypedNext, SMTT(30)
<1>7. anchor = 0
  BY <1>1 DEF FwInv, AnchorIsLast
<1>8. AnchorIsLast'
  BY <1>1, <1>3, <1>4, <1>7 DEF FwInv, AnchorIsLast
<1>9. ChangesInTurn'
  <2> SUFFICES ASSUME mishaps' \subseteq {"unrecorded"} PROVE ChangesInTurn'
    BY DEF ChangesInTurn
  <2>1. Busy = {}
    BY <1>1
  <2> QED
    BY <1>1, <1>3, <1>4, <1>5, <2>1 DEF ChangesInTurn
<1>10. RulesAreRecorded'
  BY <1>1 DEF FwInv, RulesAreRecorded
<1> QED
  BY <1>6, <1>8, <1>9, <1>10 DEF FwInv

LEMMA InstallAnchorInv == ASSUME FwInv, InstallAnchor PROVE FwInv'
<1> USE FwFacts
<1>1. /\ phase = "opening"
      /\ UNCHANGED <<fwFile, allowList, fwPid, anchors, anchor, fwCamp, closing, setting, mishaps>>
      /\ \/ phase' = "written" /\ filter' = anchors[Len(anchors)] /\ UNCHANGED fwFaults
         \/ phase' = "down" /\ fwFaults' = fwFaults - 1 /\ fwFaults > 0 /\ UNCHANGED filter
  BY DEF InstallAnchor, FwFails, anchorVars
<1>2. Busy' = Busy
  BY <1>1 DEF Busy
<1>3. Len(anchors) \in 1..Len(anchors) /\ anchor = 0
  BY <1>1 DEF FwInv, AnchorIsLast
<1>4. FwTyped'
  <2>1. filter' \in {NoFilter} \cup Rules
    BY <1>1, <1>3
  <2>2. fwFaults' \in 0..FwFaults /\ fwPid' + fwFaults' <= FwFaults + 1
    BY <1>1
  <2> QED
    BY <1>1, <1>2, <2>1, <2>2, FwTypedNext, SMTT(30)
<1>5. AnchorIsLast'
  BY <1>1, <1>3 DEF FwInv, AnchorIsLast
<1>6. ChangesInTurn'
  BY <1>1, <1>2 DEF FwInv, ChangesInTurn
<1>7. RulesAreRecorded'
  BY <1>1 DEF FwInv, RulesAreRecorded
<1> QED
  BY <1>4, <1>5, <1>6, <1>7 DEF FwInv

LEMMA WriteAnchorInv == ASSUME FwInv, WriteAnchor PROVE FwInv'
<1> USE FwFacts
<1>1. /\ phase = "written" /\ phase' = "up" /\ anchor' = Len(anchors)
      /\ UNCHANGED <<filter, allowList, fwPid, anchors, fwCamp, closing, setting>>
      /\ \/ fwFile' = fwPid /\ UNCHANGED <<mishaps, fwFaults>>
         \/ /\ fwFaults > 0 /\ fwFaults' = fwFaults - 1
            /\ mishaps' = mishaps \cup {"unrecorded"} /\ UNCHANGED fwFile
  BY DEF WriteAnchor, FwFails, Mishap
<1>2. Busy' = Busy
  BY <1>1 DEF Busy
<1>3. Len(anchors) \in 1..Len(anchors)
  BY <1>1 DEF FwInv, AnchorIsLast
<1>4. FwTyped'
  <2>1. fwFaults' \in 0..FwFaults /\ fwPid' + fwFaults' <= FwFaults + 1 /\ fwFile' \in 0..fwPid'
    BY <1>1
  <2> QED
    BY <1>1, <1>2, <1>3, <2>1, FwTypedNext, SMTT(30)
<1>5. AnchorIsLast'
  BY <1>1, <1>3 DEF FwInv, AnchorIsLast
<1>6. ChangesInTurn'
  <2> SUFFICES ASSUME mishaps \subseteq {"unrecorded"} PROVE ChangesInTurn'
    BY <1>1 DEF ChangesInTurn
  <2>1. Busy = {}
    BY <1>1 DEF FwInv, ChangesInTurn
  <2> QED
    BY <1>1, <1>2, <2>1 DEF FwInv, ChangesInTurn
<1>7. RulesAreRecorded'
  BY <1>1 DEF FwInv, RulesAreRecorded
<1> QED
  BY <1>4, <1>5, <1>6, <1>7 DEF FwInv

LEMMA StopAnchorInv == ASSUME FwInv, StopAnchor PROVE FwInv'
<1> USE FwFacts
<1>1. /\ phase = "up" /\ phase' = "closing" /\ anchor' = 0
      /\ mishaps' = IF Busy # {} THEN mishaps \cup {"overlap"} ELSE mishaps
      /\ UNCHANGED <<filter, fwFile, allowList, fwPid, anchors, fwCamp, closing, setting, fwFaults>>
  BY DEF StopAnchor, Overlap, Mishap, kernel
<1>2. Busy' = Busy
  BY <1>1 DEF Busy
<1>3. FwTyped'
  BY <1>1, <1>2, FwTypedNext, SMTT(30)
<1>4. AnchorIsLast'
  BY <1>1 DEF FwInv, AnchorIsLast
<1>5. ChangesInTurn'
  BY <1>1, <1>2 DEF ChangesInTurn
<1>6. RulesAreRecorded'
  BY <1>1 DEF FwInv, AnchorIsLast, RulesAreRecorded
<1> QED
  BY <1>3, <1>4, <1>5, <1>6 DEF FwInv

LEMMA CloseAnchorInv == ASSUME FwInv, CloseAnchor PROVE FwInv'
<1> USE FwFacts
<1>1. Len(CloseOrder) = 2 /\ CloseOrder[1] = "filter" /\ CloseOrder[2] = "file"
  BY DEF CloseOrder
<1>2. /\ phase = "closing"
      /\ phase' = IF closing = 2 THEN "down" ELSE "closing"
      /\ closing' = IF closing = 2 THEN 1 ELSE closing + 1
      /\ UNCHANGED <<allowList, fwPid, anchors, anchor, fwCamp, setting>>
      /\ \/ /\ filter' = IF closing = 1 THEN NoFilter ELSE filter
            /\ fwFile' = IF closing = 2 THEN 0 ELSE fwFile
            /\ UNCHANGED <<mishaps, fwFaults>>
         \/ /\ fwFaults > 0 /\ fwFaults' = fwFaults - 1
            /\ mishaps' = mishaps \cup {"failed"} /\ UNCHANGED <<filter, fwFile>>
  BY <1>1 DEF CloseAnchor, FwFails, Mishap, anchorVars, kernel
<1>3. Busy' = Busy
  BY <1>2 DEF Busy
<1>4. FwTyped'
  <2>1. /\ fwFaults' \in 0..FwFaults /\ fwPid' + fwFaults' <= FwFaults + 1 /\ fwFile' \in 0..fwPid'
        /\ closing' \in 1..2
    BY <1>2
  <2>2. filter' \in {NoFilter} \cup Rules /\ mishaps' \subseteq {"overlap", "unrecorded", "failed"}
    BY <1>2
  <2> QED
    BY <1>2, <1>3, <2>1, <2>2, FwTypedNext, SMTT(30)
<1>5. AnchorIsLast'
  BY <1>2 DEF FwInv, AnchorIsLast
<1>6. ChangesInTurn'
  <2> SUFFICES ASSUME mishaps' \subseteq {"unrecorded"} PROVE ChangesInTurn'
    BY DEF ChangesInTurn
  <2>1. mishaps' = mishaps
    BY <1>2
  <2>2. Busy = {}
    BY <1>2, <2>1 DEF FwInv, ChangesInTurn
  <2> QED
    BY <1>2, <1>3, <2>2 DEF ChangesInTurn
<1>7. RulesAreRecorded'
  BY <1>2 DEF FwInv, RulesAreRecorded
<1> QED
  BY <1>4, <1>5, <1>6, <1>7 DEF FwInv

\* The handlers that are still at work keep their camp and their anchor when one of them moves.
LEMMA HandlersGoOn ==
  ASSUME FwInv, NEW h \in 1..Settings,
         \A g \in 1..Settings : g # h => setting'[g] = setting[g],
         Busy' \subseteq Busy \cup {h},
         h \in Busy' => setting'[h].camp # 0 /\ (setting'[h].step # "save" => setting'[h].of # 0)
  PROVE  \A g \in Busy' : setting'[g].camp # 0 /\ (setting'[g].step # "save" => setting'[g].of # 0)
<1> SUFFICES ASSUME NEW g \in Busy'
             PROVE  setting'[g].camp # 0 /\ (setting'[g].step # "save" => setting'[g].of # 0)
  OBVIOUS
<1>1. CASE g = h
  BY <1>1
<1>2. CASE g # h
  <2>1. g \in Busy /\ g \in 1..Settings
    BY <1>2 DEF Busy
  <2>2. setting'[g] = setting[g]
    BY <1>2, <2>1
  <2> QED
    BY <2>1, <2>2 DEF FwInv, FwTyped
<1> QED
  BY <1>1, <1>2

\* A handler goes on to its next step, or ends.
LEMMA ProceedIs ==
  ASSUME FwInv, NEW h \in 1..Settings, NEW from \in {"save", "apply", "install", "record"},
         NEW to \in {"apply", "install", "record", "done"}, Proceed(h, from, to)
  PROVE  /\ h \in Busy /\ setting[h].step = from
         /\ setting' \in [1..Settings -> SettingRecord]
         /\ \A g \in 1..Settings : g # h => setting'[g] = setting[g]
         /\ setting'[h].step = to
         /\ IF to = "done" THEN setting'[h].of = 0
            ELSE /\ setting'[h].of = setting[h].of /\ setting'[h].camp = setting[h].camp
                 /\ setting'[h].list = setting[h].list
         /\ Busy' = IF to = "done" THEN Busy \ {h} ELSE Busy
<1> USE FwFacts
<1>1. /\ setting[h].step = from /\ h \in Busy
      /\ setting' = [setting EXCEPT ![h] = IF to = "done" THEN Finished ELSE [@ EXCEPT !.step = to]]
  BY DEF Proceed, Busy
<1>2. Finished \in SettingRecord /\ Finished.step = "done" /\ Finished.of = 0
  BY SMTT(30) DEF Finished, NoSetting, SettingRecord, Steps, Lists
<1>3. /\ [setting[h] EXCEPT !.step = to] \in SettingRecord
      /\ [setting[h] EXCEPT !.step = to].step = to
      /\ [setting[h] EXCEPT !.step = to].of = setting[h].of
      /\ [setting[h] EXCEPT !.step = to].camp = setting[h].camp
      /\ [setting[h] EXCEPT !.step = to].list = setting[h].list
  BY DEF SettingRecord, Steps
<1>4. /\ setting' \in [1..Settings -> SettingRecord]
      /\ setting'[h] = IF to = "done" THEN Finished ELSE [setting[h] EXCEPT !.step = to]
      /\ \A g \in 1..Settings : g # h => setting'[g] = setting[g]
  BY <1>1, <1>2, <1>3
<1>5. setting'[h].step = to
  BY <1>2, <1>3, <1>4
<1>6. Busy' = IF to = "done" THEN Busy \ {h} ELSE Busy
  BY <1>1, <1>4, <1>5 DEF Busy
<1> QED
  BY <1>1, <1>2, <1>3, <1>4, <1>5, <1>6

LEMMA SetUserPortsInv ==
  ASSUME FwInv, NEW h \in 1..Settings, NEW list \in Lists, SetUserPorts(h, list) PROVE FwInv'
<1> USE FwFacts
<1> DEFINE r == [step |-> "save", of |-> anchor, camp |-> fwCamp, list |-> list]
<1>1. /\ setting[h].step = "none" /\ phase \notin {"opening", "written"} /\ fwCamp # 0
      /\ setting' = [setting EXCEPT ![h] = r]
      /\ mishaps' = IF Busy # {} \/ phase = "closing" THEN mishaps \cup {"overlap"} ELSE mishaps
      /\ UNCHANGED <<filter, fwFile, allowList, fwPid, anchors, anchor, fwCamp, phase, closing,
                     fwFaults>>
  BY DEF SetUserPorts, Overlap, Mishap, kernel, anchorVars
<1>2. /\ r \in SettingRecord /\ r.step = "save" /\ r.of = anchor /\ r.camp = fwCamp
  BY DEF SettingRecord, Steps
<1> HIDE DEF r
<1>3. /\ setting' \in [1..Settings -> SettingRecord] /\ setting'[h] = r
      /\ \A g \in 1..Settings : g # h => setting'[g] = setting[g]
  BY <1>1, <1>2
<1>4. Busy' = Busy \cup {h}
  BY <1>2, <1>3 DEF Busy
<1>5. FwTyped'
  <2>1. \A g \in 1..Settings : setting'[g].of \in 0..Len(anchors')
    BY <1>1, <1>2, <1>3
  <2>2. \A g \in Busy' : setting'[g].camp # 0 /\ (setting'[g].step # "save" => setting'[g].of # 0)
    <3>1. h \in Busy' => setting'[h].camp # 0 /\ (setting'[h].step # "save" => setting'[h].of # 0)
      BY <1>1, <1>2, <1>3
    <3>2. Busy' \subseteq Busy \cup {h}
      BY <1>4
    <3> QED
      BY <1>3, <3>1, <3>2, HandlersGoOn
  <2> QED
    BY <1>1, <1>3, <2>1, <2>2, FwTypedNext, SMTT(30)
<1>6. AnchorIsLast'
  BY <1>1 DEF FwInv, AnchorIsLast
<1>7. ChangesInTurn'
  <2> SUFFICES ASSUME mishaps' \subseteq {"unrecorded"} PROVE ChangesInTurn'
    BY DEF ChangesInTurn
  <2>1. Busy = {} /\ phase \in {"down", "up"} /\ mishaps' = mishaps
    BY <1>1
  <2>2. Busy' = {h}
    BY <1>4, <2>1
  <2> QED
    BY <1>1, <1>2, <1>3, <2>1, <2>2 DEF FwInv, ChangesInTurn
<1>8. RulesAreRecorded'
  BY <1>1 DEF FwInv, RulesAreRecorded, LeftBehind
<1> QED
  BY <1>5, <1>6, <1>7, <1>8 DEF FwInv

LEMMA SavePortsInv == ASSUME FwInv, NEW h \in 1..Settings, SavePorts(h) PROVE FwInv'
<1> USE FwFacts
<1> DEFINE to == IF setting[h].of = 0 THEN "done" ELSE "apply"
<1>1. /\ Proceed(h, "save", to)
      /\ allowList' = [allowList EXCEPT ![setting[h].camp] = setting[h].list]
      /\ UNCHANGED <<filter, fwFile, fwPid, anchors, anchor, fwCamp, phase, closing, mishaps, fwFaults>>
  BY DEF SavePorts, kernel, anchorVars
<1>2. to \in {"apply", "done"} /\ (to = "done" <=> setting[h].of = 0)
  OBVIOUS
<1> HIDE DEF to
<1>3. /\ h \in Busy /\ setting[h].step = "save" /\ setting' \in [1..Settings -> SettingRecord]
      /\ \A g \in 1..Settings : g # h => setting'[g] = setting[g]
      /\ setting'[h].step = to
      /\ IF to = "done" THEN setting'[h].of = 0
         ELSE /\ setting'[h].of = setting[h].of /\ setting'[h].camp = setting[h].camp
              /\ setting'[h].list = setting[h].list
      /\ Busy' = IF to = "done" THEN Busy \ {h} ELSE Busy
  BY <1>1, <1>2, ProceedIs
<1>4. allowList' \in [FwCamps -> Lists] /\ allowList'[setting[h].camp] = setting[h].list
  BY <1>1, <1>3 DEF SettingRecord
<1>5. FwTyped'
  <2>1. \A g \in 1..Settings : setting'[g].of \in 0..Len(anchors')
    <3> SUFFICES ASSUME NEW g \in 1..Settings PROVE setting'[g].of \in 0..Len(anchors')
      OBVIOUS
    <3>1. CASE g = h
      BY <1>1, <1>2, <1>3, <3>1
    <3>2. CASE g # h
      BY <1>1, <1>2, <1>3, <3>2
    <3> QED
      BY <3>1, <3>2
  <2>2. \A g \in Busy' : setting'[g].camp # 0 /\ (setting'[g].step # "save" => setting'[g].of # 0)
    <3>1. h \in Busy' => setting'[h].camp # 0 /\ (setting'[h].step # "save" => setting'[h].of # 0)
      BY <1>2, <1>3
    <3>2. Busy' \subseteq Busy \cup {h}
      BY <1>3
    <3> QED
      BY <1>3, <3>1, <3>2, HandlersGoOn
  <2> QED
    BY <1>1, <1>3, <1>4, <2>1, <2>2, FwTypedNext, SMTT(30)
<1>6. AnchorIsLast'
  BY <1>1 DEF FwInv, AnchorIsLast
<1>7. ChangesInTurn'
  <2> SUFFICES ASSUME mishaps \subseteq {"unrecorded"} PROVE ChangesInTurn'
    BY <1>1 DEF ChangesInTurn
  <2>1. /\ Busy = {h} /\ setting[h].of = anchor /\ setting[h].camp = fwCamp
        /\ phase \in {"down", "up"}
        /\ phase = "up" => filter = anchors[anchor]
    <3>0. h \in Busy
      BY <1>3
    <3>1. Busy = {h}
      BY <3>0 DEF FwInv, ChangesInTurn
    <3> QED
      BY <1>3, <3>1 DEF FwInv, ChangesInTurn
  <2>2. to = "done" <=> phase # "up"
    BY <1>2, <2>1 DEF FwInv, AnchorIsLast
  <2> QED
    BY <1>1, <1>2, <1>3, <1>4, <2>1, <2>2 DEF ChangesInTurn
<1>8. RulesAreRecorded'
  BY <1>1 DEF FwInv, RulesAreRecorded, LeftBehind
<1> QED
  BY <1>5, <1>6, <1>7, <1>8 DEF FwInv

LEMMA ApplyPortsInv == ASSUME FwInv, NEW h \in 1..Settings, ApplyPorts(h) PROVE FwInv'
<1> USE FwFacts
<1>1. /\ Proceed(h, "apply", "install")
      /\ anchors' = [anchors EXCEPT ![setting[h].of].ports = Merged(setting[h].list)]
      /\ UNCHANGED <<filter, fwFile, allowList, fwPid, anchor, fwCamp, phase, closing, mishaps, fwFaults>>
  BY DEF ApplyPorts, Applied, kernel
<1>2. /\ h \in Busy /\ setting[h].step = "apply" /\ setting' \in [1..Settings -> SettingRecord]
      /\ \A g \in 1..Settings : g # h => setting'[g] = setting[g]
      /\ setting'[h].step = "install" /\ setting'[h].of = setting[h].of
      /\ setting'[h].camp = setting[h].camp /\ setting'[h].list = setting[h].list
      /\ Busy' = Busy
  BY <1>1, ProceedIs
<1> DEFINE i == setting[h].of
           rules == [anchors[i] EXCEPT !.ports = Merged(setting[h].list)]
<1>3. i \in 1..Len(anchors)
  BY <1>2
<1>4. rules \in Rules /\ rules.camp = anchors[i].camp /\ rules.ports = Merged(setting[h].list)
  <2>1. anchors[i] \in Rules /\ setting[h].list \in Lists
    BY <1>3 DEF SettingRecord
  <2> HIDE DEF i
  <2> QED
    BY <2>1 DEF Rules
<1>5. anchors' = [anchors EXCEPT ![i] = rules]
  BY <1>1
<1> HIDE DEF i, rules
<1>6. /\ anchors' \in Seq(Rules) /\ Len(anchors') = Len(anchors)
      /\ \A j \in 1..Len(anchors) : anchors'[j] = IF j = i THEN rules ELSE anchors[j]
  BY <1>3, <1>4, <1>5, ExceptSeq
<1>7. FwTyped'
  <2>1. \A g \in 1..Settings : setting'[g].of \in 0..Len(anchors')
    BY <1>2, <1>6
  <2>2. \A g \in Busy' : setting'[g].camp # 0 /\ (setting'[g].step # "save" => setting'[g].of # 0)
    <3>1. h \in Busy' => setting'[h].camp # 0 /\ (setting'[h].step # "save" => setting'[h].of # 0)
      BY <1>2, <1>3 DEF i
    <3>2. Busy' \subseteq Busy \cup {h}
      BY <1>2
    <3> QED
      BY <1>2, <3>1, <3>2, HandlersGoOn
  <2> QED
    BY <1>1, <1>2, <1>6, <2>1, <2>2, FwTypedNext, SMTT(30)
<1>8. \A j \in 1..Len(anchors) : anchors'[j].camp = anchors[j].camp
  BY <1>4, <1>6
<1>9. AnchorIsLast'
  BY <1>1, <1>6, <1>8 DEF FwInv, AnchorIsLast
<1>10. ChangesInTurn'
  <2> SUFFICES ASSUME mishaps \subseteq {"unrecorded"} PROVE ChangesInTurn'
    BY <1>1 DEF ChangesInTurn
  <2>1. Busy = {h} /\ i = anchor /\ setting[h].camp = fwCamp /\ phase \in {"up", "down"}
    <3>0. h \in Busy
      BY <1>2
    <3>1. Busy = {h}
      BY <3>0 DEF FwInv, ChangesInTurn
    <3> QED
      BY <3>0, <3>1 DEF FwInv, ChangesInTurn, i
  <2>2. phase = "up" /\ allowList[fwCamp] = setting[h].list
    BY <1>2, <1>3, <2>1 DEF FwInv, AnchorIsLast, ChangesInTurn
  <2>3. anchors'[anchor].ports = Merged(setting'[h].list)
    BY <1>2, <1>3, <1>4, <1>6, <2>1
  <2>4. /\ Busy' = {h} /\ setting'[h].of = anchor /\ setting'[h].camp = fwCamp
        /\ setting'[h].step = "install" /\ allowList[fwCamp] = setting'[h].list
    BY <1>2, <2>1, <2>2 DEF i
  <2> QED
    BY <1>1, <2>2, <2>3, <2>4 DEF ChangesInTurn
<1>11. RulesAreRecorded'
  BY <1>1 DEF FwInv, RulesAreRecorded, LeftBehind
<1> QED
  BY <1>7, <1>9, <1>10, <1>11 DEF FwInv

LEMMA InstallPortsInv == ASSUME FwInv, NEW h \in 1..Settings, InstallPorts(h) PROVE FwInv'
<1> USE FwFacts
<1>1. PICK to \in {"record", "done"} :
        /\ Proceed(h, "install", to)
        /\ \/ /\ to = "record" /\ filter' = anchors[setting[h].of]
              /\ UNCHANGED <<mishaps, fwFaults>>
           \/ /\ to = "done" /\ fwFaults > 0 /\ fwFaults' = fwFaults - 1
              /\ mishaps' = mishaps \cup {"failed"} /\ UNCHANGED filter
        /\ UNCHANGED <<fwFile, allowList, fwPid, anchors, anchor, fwCamp, phase, closing>>
  BY DEF InstallPorts, FwFails, Mishap, anchorVars
<1>2. /\ h \in Busy /\ setting[h].step = "install" /\ setting' \in [1..Settings -> SettingRecord]
      /\ \A g \in 1..Settings : g # h => setting'[g] = setting[g]
      /\ setting'[h].step = to
      /\ IF to = "done" THEN setting'[h].of = 0
         ELSE /\ setting'[h].of = setting[h].of /\ setting'[h].camp = setting[h].camp
              /\ setting'[h].list = setting[h].list
      /\ Busy' = IF to = "done" THEN Busy \ {h} ELSE Busy
  BY <1>1, ProceedIs
<1>3. setting[h].of \in 1..Len(anchors)
  BY <1>2
<1>4. FwTyped'
  <2>1. \A g \in 1..Settings : setting'[g].of \in 0..Len(anchors')
    <3> SUFFICES ASSUME NEW g \in 1..Settings PROVE setting'[g].of \in 0..Len(anchors')
      OBVIOUS
    <3>1. CASE g = h
      BY <1>1, <1>2, <1>3, <3>1
    <3>2. CASE g # h
      BY <1>1, <1>2, <1>3, <3>2
    <3> QED
      BY <3>1, <3>2
  <2>2. \A g \in Busy' : setting'[g].camp # 0 /\ (setting'[g].step # "save" => setting'[g].of # 0)
    <3>1. h \in Busy' => setting'[h].camp # 0 /\ (setting'[h].step # "save" => setting'[h].of # 0)
      BY <1>2, <1>3
    <3>2. Busy' \subseteq Busy \cup {h}
      BY <1>2
    <3> QED
      BY <1>2, <3>1, <3>2, HandlersGoOn
  <2>3. filter' \in {NoFilter} \cup Rules /\ mishaps' \subseteq {"overlap", "unrecorded", "failed"}
    BY <1>1, <1>3
  <2>4. fwFaults' \in 0..FwFaults /\ fwPid' + fwFaults' <= FwFaults + 1
    BY <1>1
  <2> QED
    BY <1>1, <1>2, <2>1, <2>2, <2>3, <2>4, FwTypedNext, SMTT(30)
<1>5. AnchorIsLast'
  BY <1>1 DEF FwInv, AnchorIsLast
<1>6. ChangesInTurn'
  <2> SUFFICES ASSUME mishaps' \subseteq {"unrecorded"} PROVE ChangesInTurn'
    BY DEF ChangesInTurn
  <2>1. to = "record" /\ filter' = anchors[setting[h].of] /\ mishaps' = mishaps
    BY <1>1
  <2>2. Busy = {h} /\ setting[h].of = anchor /\ setting[h].camp = fwCamp /\ phase \in {"up", "down"}
    <3>1. mishaps \subseteq {"unrecorded"} /\ h \in Busy
      BY <1>2, <2>1
    <3>2. Busy = {h}
      BY <3>1 DEF FwInv, ChangesInTurn
    <3> QED
      BY <3>1, <3>2 DEF FwInv, ChangesInTurn
  <2>3. phase = "up"
    BY <1>3, <2>2 DEF FwInv, AnchorIsLast
  <2>4. allowList[fwCamp] = setting[h].list /\ anchors[anchor].ports = Merged(setting[h].list)
    BY <1>2, <2>1, <2>2, <2>3 DEF FwInv, ChangesInTurn
  <2> QED
    BY <1>1, <1>2, <2>1, <2>2, <2>3, <2>4 DEF ChangesInTurn
<1>7. RulesAreRecorded'
  <2> SUFFICES ASSUME mishaps' = {} PROVE RulesAreRecorded'
    BY DEF RulesAreRecorded
  <2>1. to = "record" /\ mishaps = {}
    BY <1>1
  <2>2. phase \in {"up", "down"} /\ setting[h].of = anchor
    BY <1>2, <2>1 DEF FwInv, ChangesInTurn
  <2>3. phase = "up"
    BY <1>3, <2>2 DEF FwInv, AnchorIsLast
  <2> QED
    BY <1>1, <2>1, <2>3 DEF FwInv, RulesAreRecorded
<1> QED
  BY <1>4, <1>5, <1>6, <1>7 DEF FwInv

LEMMA RecordPortsInv == ASSUME FwInv, NEW h \in 1..Settings, RecordPorts(h) PROVE FwInv'
<1> USE FwFacts
<1>1. /\ Proceed(h, "record", "done")
      /\ \/ fwFile' = fwPid /\ UNCHANGED <<mishaps, fwFaults>>
         \/ /\ fwFaults > 0 /\ fwFaults' = fwFaults - 1
            /\ mishaps' = mishaps \cup {"unrecorded"} /\ UNCHANGED fwFile
      /\ UNCHANGED <<filter, allowList, fwPid, anchors, anchor, fwCamp, phase, closing>>
  BY DEF RecordPorts, FwFails, Mishap, anchorVars
<1>2. /\ h \in Busy /\ setting[h].step = "record" /\ setting' \in [1..Settings -> SettingRecord]
      /\ \A g \in 1..Settings : g # h => setting'[g] = setting[g]
      /\ setting'[h].step = "done" /\ setting'[h].of = 0
      /\ Busy' = Busy \ {h}
  BY <1>1, ProceedIs
<1>3. FwTyped'
  <2>1. \A g \in 1..Settings : setting'[g].of \in 0..Len(anchors')
    <3> SUFFICES ASSUME NEW g \in 1..Settings PROVE setting'[g].of \in 0..Len(anchors')
      OBVIOUS
    <3>1. CASE g = h
      BY <1>1, <1>2, <3>1
    <3>2. CASE g # h
      BY <1>1, <1>2, <3>2
    <3> QED
      BY <3>1, <3>2
  <2>2. \A g \in Busy' : setting'[g].camp # 0 /\ (setting'[g].step # "save" => setting'[g].of # 0)
    <3>1. h \in Busy' => setting'[h].camp # 0 /\ (setting'[h].step # "save" => setting'[h].of # 0)
      BY <1>2
    <3>2. Busy' \subseteq Busy \cup {h}
      BY <1>2
    <3> QED
      BY <1>2, <3>1, <3>2, HandlersGoOn
  <2>3. /\ fwFaults' \in 0..FwFaults /\ fwPid' + fwFaults' <= FwFaults + 1 /\ fwFile' \in 0..fwPid'
        /\ mishaps' \subseteq {"overlap", "unrecorded", "failed"}
    BY <1>1
  <2> QED
    BY <1>1, <1>2, <2>1, <2>2, <2>3, FwTypedNext, SMTT(30)
<1>4. AnchorIsLast'
  BY <1>1 DEF FwInv, AnchorIsLast
<1>5. ChangesInTurn'
  <2> SUFFICES ASSUME mishaps \subseteq {"unrecorded"} PROVE ChangesInTurn'
    BY <1>1 DEF ChangesInTurn
  <2>1. Busy = {h} /\ setting[h].of = anchor /\ setting[h].camp = fwCamp /\ phase \in {"up", "down"}
    <3>0. h \in Busy
      BY <1>2
    <3>1. Busy = {h}
      BY <3>0 DEF FwInv, ChangesInTurn
    <3> QED
      BY <3>0, <3>1 DEF FwInv, ChangesInTurn
  <2>2. phase = "up"
    BY <1>2, <2>1 DEF FwInv, AnchorIsLast
  <2>3. filter = anchors[anchor] /\ anchors[anchor].ports = Merged(allowList[fwCamp])
    BY <1>2, <2>1, <2>2 DEF FwInv, ChangesInTurn
  <2> QED
    BY <1>1, <1>2, <2>1, <2>2, <2>3 DEF ChangesInTurn
<1>6. RulesAreRecorded'
  <2> SUFFICES ASSUME mishaps' = {} PROVE RulesAreRecorded'
    BY DEF RulesAreRecorded
  <2>1. mishaps = {} /\ fwFile' = fwPid
    BY <1>1
  <2>2. phase \in {"up", "down"} /\ setting[h].of = anchor
    BY <1>2, <2>1, SMTT(30) DEF FwInv, ChangesInTurn
  <2>3. phase = "up"
    BY <1>2, <2>2 DEF FwInv, AnchorIsLast
  <2> QED
    BY <1>1, <2>1, <2>3 DEF FwInv, RulesAreRecorded
<1> QED
  BY <1>3, <1>4, <1>5, <1>6 DEF FwInv

LEMMA FwCrashInv == ASSUME FwInv, FwCrash PROVE FwInv'
<1> USE FwFacts
<1>1. /\ fwFaults > 0 /\ fwFaults' = fwFaults - 1 /\ fwPid' = fwPid + 1
      /\ anchor' = 0 /\ fwCamp' = 0 /\ phase' = "down" /\ closing' = 1
      /\ setting' = [h \in 1..Settings |-> IF h \in Busy THEN Finished ELSE setting[h]]
      /\ mishaps' = IF phase = "written" THEN mishaps \cup {"unrecorded"} ELSE mishaps
      /\ UNCHANGED <<filter, fwFile, allowList, anchors>>
  BY DEF FwCrash, FwFails, Mishap, kernel
<1>2. Finished \in SettingRecord /\ Finished.step = "done" /\ Finished.of = 0
  BY DEF Finished, NoSetting, SettingRecord, Steps, Lists
<1>3. setting' \in [1..Settings -> SettingRecord]
  BY <1>1, <1>2
<1>4. Busy' = {}
  BY <1>1, <1>2 DEF Busy
<1>5. FwTyped'
  <2>1. \A g \in 1..Settings : setting'[g].of \in 0..Len(anchors')
    BY <1>1, <1>2
  <2>2. /\ fwFaults' \in 0..FwFaults /\ fwPid' + fwFaults' <= FwFaults + 1
        /\ fwPid' \in 1..(FwFaults + 1) /\ fwFile' \in 0..fwPid'
        /\ mishaps' \subseteq {"overlap", "unrecorded", "failed"}
    BY <1>1
  <2>3. /\ filter' \in {NoFilter} \cup Rules /\ allowList' \in [FwCamps -> Lists] /\ fwCamp' \in {0} \cup FwCamps
        /\ anchors' \in Seq(Rules) /\ Len(anchors') <= Anchors /\ anchor' \in 0..Len(anchors')
        /\ phase' \in {"down", "opening", "written", "up", "closing"} /\ closing' \in 1..2
    BY <1>1
  <2> QED
    BY <1>3, <1>4, <2>1, <2>2, <2>3, FwTypedNext, SMTT(30)
<1>6. AnchorIsLast'
  BY <1>1 DEF AnchorIsLast
<1>7. ChangesInTurn'
  BY <1>1, <1>4 DEF ChangesInTurn
<1>8. RulesAreRecorded'
  <2> SUFFICES ASSUME mishaps' = {}, filter # NoFilter PROVE LeftBehind'
    BY <1>1 DEF RulesAreRecorded
  <2>1. mishaps = {} /\ phase # "written"
    BY <1>1
  <2>2. CASE phase = "down"
    BY <1>1, <2>1, <2>2 DEF FwInv, RulesAreRecorded, LeftBehind
  <2>3. CASE phase # "down"
    <3>1. fwFile = fwPid
      BY <2>1, <2>3 DEF FwInv, RulesAreRecorded
    <3> QED
      BY <1>1, <3>1 DEF LeftBehind
  <2> QED
    BY <2>2, <2>3
<1> QED
  BY <1>5, <1>6, <1>7, <1>8 DEF FwInv

LEMMA FwStepInv == FwInv /\ [FirewallNext]_fwVars => FwInv'
<1> SUFFICES ASSUME FwInv, [FirewallNext]_fwVars PROVE FwInv'
  OBVIOUS
<1>1. CASE UNCHANGED fwVars
  BY <1>1
     DEF FwInv, FwTyped, FirewallTypeOK, AnchorIsLast, ChangesInTurn, RulesAreRecorded, Busy,
         LeftBehind, fwVars, kernel, anchorVars
<1> QED
  BY <1>1, OpenAnchorInv, InstallAnchorInv, WriteAnchorInv, StopAnchorInv, CloseAnchorInv,
     SetUserPortsInv, SavePortsInv, ApplyPortsInv, InstallPortsInv, RecordPortsInv, FwCrashInv
     DEF FirewallNext

\* What the firewall lets in is what was saved, and what it leaves behind the
\* next process finds, whenever no change of the ports has met another, a Start
\* or a Stop, and none has failed.
THEOREM FilterAccounted == FirewallSpec => []FilterIsAccountedFor
<1>1. FwInv => FilterIsAccountedFor
  <2> SUFFICES ASSUME FwInv PROVE FilterIsAccountedFor
    OBVIOUS
  <2> USE FwFacts
  <2>1. FilterIsWhatWasSaved
    <3> SUFFICES ASSUME phase = "up", Busy = {}, mishaps \subseteq {"unrecorded"}
                 PROVE  filter = [camp |-> fwCamp, ports |-> Merged(allowList[fwCamp])]
      BY DEF FilterIsWhatWasSaved
    <3>1. /\ anchor \in 1..Len(anchors) /\ anchors[anchor].camp = fwCamp
          /\ filter = anchors[anchor] /\ anchors[anchor].ports = Merged(allowList[fwCamp])
      BY DEF FwInv, AnchorIsLast, ChangesInTurn
    <3> QED
      BY <3>1 DEF Rules
  <2>2. LeftoverIsRecorded
    BY DEF FwInv, RulesAreRecorded, LeftoverIsRecorded
  <2> QED
    BY <2>1, <2>2 DEF FilterIsAccountedFor
<1> QED
  BY <1>1, FwInitInv, FwStepInv, PTL DEF FirewallSpec

-----------------------------------------------------------------------------
(* CampClient.                                                             *)

\* How many members of S come before p, in the order of the server.
Before(S, p) == Cardinality({q \in S : q < p})

\* In a set of peers the places are counted from 0, one for each.
LEMMA Places ==
  ASSUME NEW N \in Nat, NEW S \in SUBSET (1..N)
  PROVE  /\ IsFiniteSet(S) /\ Cardinality(S) \in 0..N
         /\ \A p \in Nat : IsFiniteSet({q \in S : q < p}) /\ Before(S, p) \in Nat
         /\ \A p \in S : Before(S, p) < Cardinality(S)
         /\ \A p, q \in S : p < q => Before(S, p) < Before(S, q)
         /\ \A n \in Nat : n < Cardinality(S) => \E p \in S : Before(S, p) = n
<1>1. IsFiniteSet(1..N) /\ Cardinality(1..N) = N
  <2>1. Cardinality(1..N) = IF 1 > N THEN 0 ELSE N - 1 + 1
    BY FS_Interval
  <2> QED
    BY <2>1, FS_Interval
<1>2. IsFiniteSet(S) /\ Cardinality(S) \in 0..N
  <2>1. IsFiniteSet(S) /\ Cardinality(S) <= N
    BY <1>1, FS_Subset
  <2>2. Cardinality(S) \in Nat
    BY <2>1, FS_CardinalityType
  <2> QED
    BY <2>1, <2>2
<1>3. \A p \in Nat : IsFiniteSet({q \in S : q < p}) /\ Before(S, p) \in Nat
  <2> TAKE p \in Nat
  <2>1. IsFiniteSet({q \in S : q < p})
    BY <1>2, FS_Subset, {q \in S : q < p} \in SUBSET S
  <2> QED
    BY <2>1, FS_CardinalityType DEF Before
\* A member itself is not before it: what contains both is larger by one.
<1>4. ASSUME NEW p \in S, NEW T \in SUBSET S, p \in T, \A q \in S : q < p => q \in T
      PROVE  Before(S, p) < Cardinality(T)
  <2> DEFINE L == {q \in S : q < p}
  <2>0. p \in Nat
    OBVIOUS
  <2>1. p \notin L /\ L \cup {p} \in SUBSET T
    <3>1. p \notin L
      BY <2>0
    <3>2. \A q \in L : q \in T
      BY <1>4
    <3> QED
      BY <1>4, <3>1, <3>2
  <2>2. IsFiniteSet(L) /\ Cardinality(L) \in Nat /\ Cardinality(L) = Before(S, p)
    BY <1>3, <2>0 DEF Before
  <2>3. IsFiniteSet(T) /\ Cardinality(T) \in Nat
    BY <1>2, FS_Subset, FS_CardinalityType
  <2> HIDE DEF L
  <2>4. Cardinality(L \cup {p}) = Cardinality(L) + 1
    BY <2>1, <2>2, FS_AddElement
  <2>5. Cardinality(L \cup {p}) <= Cardinality(T)
    BY <2>1, <2>3, FS_Subset
  <2> QED
    BY <2>2, <2>3, <2>4, <2>5
<1>5. \A p \in S : Before(S, p) < Cardinality(S)
  BY <1>4
<1>6. \A p, q \in S : p < q => Before(S, p) < Before(S, q)
  <2> TAKE p, q \in S
  <2> HAVE p < q
  <2> DEFINE T == {x \in S : x < q}
  <2>1. T \in SUBSET S /\ p \in T /\ \A x \in S : x < p => x \in T
    <3>1. \A x \in S : x < p => x < q
      OBVIOUS
    <3> QED
      BY <3>1
  <2>2. Cardinality(T) = Before(S, q)
    BY DEF Before
  <2> HIDE DEF T
  <2> QED
    BY <2>1, <2>2, <1>4
<1>7. \A n \in Nat : n < Cardinality(S) => \E p \in S : Before(S, p) = n
  <2> TAKE n \in Nat
  <2> HAVE n < Cardinality(S)
  <2>0. S \in SUBSET Nat /\ \A x \in S : x <= N
    OBVIOUS
  \* The greatest member of a set R that holds all below it.
  <2>1. ASSUME NEW R \in SUBSET S, R # {}, \A x \in R, y \in S : y < x => y \in R
        PROVE  \E m \in R : Before(S, m) = Cardinality(R) - 1
    <3>1. PICK m \in R : \A x \in R : x <= m
      <4>1. R \in SUBSET Nat /\ \A x \in R : x <= N
        BY <2>0
      <4> QED
        BY <4>1, <2>1, GreatestOfBounded
    <3>2. {q \in S : q < m} = R \ {m}
      <4>1. \A q \in S : q < m => q \in R \ {m}
        BY <2>0, <2>1, <3>1
      <4>2. \A q \in R \ {m} : q \in S /\ q < m
        BY <2>0, <3>1
      <4> QED
        BY <4>1, <4>2
    <3>3. IsFiniteSet(R)
      BY <1>2, FS_Subset
    <3>4. Cardinality(R \ {m}) = Cardinality(R) - 1
      BY <3>3, FS_RemoveElement
    <3> QED
      BY <3>2, <3>4 DEF Before
  <2> DEFINE T == {p \in S : Before(S, p) >= n}
  <2>2. T # {}
    <3>1. S # {}
      BY FS_EmptySet
    <3>2. PICK m \in S : Before(S, m) = Cardinality(S) - 1
      BY <3>1, <2>1
    <3>3. Before(S, m) >= n
      BY <3>2, <1>2
    <3> QED
      BY <3>3
  <2>3. PICK p \in T : \A x \in T : p <= x
    <3>1. T \in SUBSET Nat
      BY <2>0
    <3> HIDE DEF T
    <3> QED
      BY <3>1, <2>2, LeastOfNats
  <2>4. p \in S /\ p \in Nat /\ Before(S, p) >= n /\ Before(S, p) \in Nat
    BY <2>0, <2>3, <1>3
  <2>5. ASSUME Before(S, p) # n PROVE FALSE
    <3> DEFINE R == {q \in S : q < p}
    <3>1. IsFiniteSet(R) /\ Cardinality(R) = Before(S, p) /\ Cardinality(R) > n
      BY <1>3, <2>4, <2>5 DEF Before
    <3>2. R \in SUBSET S /\ \A x \in R, y \in S : y < x => y \in R
      <4>1. \A x, y \in S : x < p /\ y < x => y < p
        BY <2>0, <2>4
      <4> QED
        BY <4>1
    <3>3. \A x \in R : x \in S /\ x < p /\ x \in Nat
      BY <2>0
    <3> HIDE DEF R
    <3>4. R # {}
      BY <3>1, FS_EmptySet
    <3>5. PICK m \in R : Before(S, m) = Cardinality(R) - 1
      BY <3>2, <3>4, <2>1
    <3>6. m \in T
      BY <3>1, <3>3, <3>5, <2>4
    <3> QED
      BY <3>3, <3>6, <2>3, <2>4
  <2> QED
    BY <2>4, <2>5
<1> QED
  BY <1>2, <1>3, <1>5, <1>6, <1>7

\* Whether p is left out of what is gathered although its place has passed.
Skipped(p) == p \notin cycleAcc /\ Before(inCamp, p) < cursor

\* Windows are gathered only from a server that sends no roster.
WithoutApi == ~api => ~httpOK /\ fetch = NoRoster /\ late = NoRoster

\* Who stays is in every roster under way, and who is reachable by windows is
\* among those gathered.
StayersAreListed ==
  /\ \A roster \in fetch \cup late : stayed \subseteq roster
  /\ \A p \in KnownPeers : ~api /\ table[p] = "live" => p \in rosterSeen

\* Of one who stays, each miss that is counted is of another of the last rotations in
\* a row that lost a window, and one that is about to be is of such a rotation.
MissesArePaid ==
  \A p \in stayed \cap rosterSeen :
    ~api => rosterMiss[p] <= streak /\ (Skipped(p) => shaken)

\* One forgotten is in nothing a table is made from.
ForgottenIsNowhere ==
  \A p \in forgot :
    table[p] = "none" /\ p \notin inCamp \cup UnderWay \cup seed \cup catalog

ClientBudgetsOK == missBudget \in 0..WindowMisses /\ restartBudget \in Nat

ClientInv ==
  /\ ClientTypeOK /\ ClientBudgetsOK
  /\ WithoutApi /\ StayersAreListed /\ MissesArePaid /\ ForgottenIsNowhere

LEMMA ClientInitInv == ClientInit => ClientInv
<1> SUFFICES ASSUME ClientInit PROVE ClientInv
  OBVIOUS
<1>1. ClientTypeOK
  <2>1. /\ {api, session, httpOK} \subseteq BOOLEAN
        /\ inCamp \subseteq KnownPeers /\ cursor \in 0..PeerTotal
    <3>1. api \in BOOLEAN /\ session \in BOOLEAN /\ httpOK \in BOOLEAN
      BY DEF ClientInit
    <3>2. inCamp \subseteq KnownPeers /\ cursor \in 0..PeerTotal
      BY ClientAssumption DEF ClientInit
    <3> QED
      BY <3>1, <3>2
  <2>2. rosterMiss \in [KnownPeers -> 0..Grace]
    BY ClientAssumption DEF ClientInit, Unseen
  <2>3. table \in [KnownPeers -> {"none", "ghost", "live"}]
    BY DEF ClientInit
  <2>4. shaken \in BOOLEAN /\ streak \in 0..(Grace + 1)
    <3>1. shaken = FALSE /\ streak = 0
      BY Zenon DEF ClientInit
    <3>2. streak \in 0..(Grace + 1)
      BY <3>1, ClientAssumption
    <3>3. shaken \in BOOLEAN
      BY <3>1, Zenon
    <3> QED
      BY <3>2, <3>3
  <2> QED
    BY <2>1, <2>2, <2>3, <2>4 DEF ClientInit, ClientTypeOK, NoRoster
<1>2. ClientBudgetsOK /\ WithoutApi /\ StayersAreListed /\ MissesArePaid /\ ForgottenIsNowhere
  BY ClientAssumption DEF ClientInit, ClientBudgetsOK, WithoutApi, StayersAreListed, MissesArePaid, ForgottenIsNowhere, NoRoster
<1> QED
  BY <1>1, <1>2 DEF ClientInv

\* What the type says of each variable.
LEMMA ClientFacts ==
  ASSUME ClientInv
  PROVE  /\ api \in BOOLEAN /\ session \in BOOLEAN /\ httpOK \in BOOLEAN
         /\ inCamp \in SUBSET (1..PeerTotal) /\ KnownPeers = 1..PeerTotal /\ PeerTotal \in Nat
         /\ cursor \in Nat /\ Grace \in Nat /\ WindowMisses \in Nat
         /\ missBudget \in Nat /\ restartBudget \in Nat
         /\ cycleAcc \subseteq KnownPeers /\ rosterSeen \subseteq KnownPeers
         /\ rosterMiss \in [KnownPeers -> 0..Grace]
         /\ table \in [KnownPeers -> {"none", "ghost", "live"}]
         /\ seed \subseteq KnownPeers /\ catalog \subseteq KnownPeers
         /\ \A roster \in fetch \cup late : roster \subseteq KnownPeers
         /\ stayed \subseteq inCamp /\ forgot \subseteq KnownPeers
         /\ shaken \in BOOLEAN /\ streak \in Nat /\ streak <= Grace + 1
BY ClientAssumption DEF ClientInv, ClientTypeOK, ClientBudgetsOK, KnownPeers

\* A window holds the peer whose place is the start; who is not in it has
\* another place, and the last place ends the rotation.
LEMMA WindowIs ==
  ASSUME ClientInv
  PROVE  /\ Window \subseteq inCamp /\ StartAt \in Nat /\ StartAt <= cursor
         /\ ~CycleEnd => StartAt + 1 <= PeerTotal
         /\ CycleEnd \in BOOLEAN
         /\ \A p \in inCamp \ Window :
              /\ Before(inCamp, p) \in Nat
              /\ Before(inCamp, p) < StartAt + 1 => Before(inCamp, p) < cursor
              /\ CycleEnd => Before(inCamp, p) < cursor
<1> DEFINE card == Cardinality(inCamp)
<1>1. /\ card \in Nat /\ card <= PeerTotal /\ (inCamp # {} => card > 0)
      /\ \A p \in inCamp : p \in Nat /\ Before(inCamp, p) \in Nat /\ Before(inCamp, p) < card
      /\ \A p, q \in inCamp : p < q => Before(inCamp, p) < Before(inCamp, q)
      /\ \A n \in Nat : n < card => \E p \in inCamp : Before(inCamp, p) = n
  <2>1. inCamp \in SUBSET (1..PeerTotal) /\ PeerTotal \in Nat
    BY ClientFacts
  <2>2. /\ IsFiniteSet(inCamp) /\ card \in 0..PeerTotal
        /\ \A p \in Nat : Before(inCamp, p) \in Nat
        /\ \A p \in inCamp : Before(inCamp, p) < card
        /\ \A p, q \in inCamp : p < q => Before(inCamp, p) < Before(inCamp, q)
        /\ \A n \in Nat : n < card => \E p \in inCamp : Before(inCamp, p) = n
    BY <2>1, Places
  <2>3. inCamp # {} => card > 0
    BY <2>2, FS_EmptySet
  <2> HIDE DEF card
  <2> QED
    BY <2>1, <2>2, <2>3
<1>2. StartAt = (IF cursor < card THEN cursor ELSE 0) /\ (CycleEnd <=> StartAt + 1 >= card)
  BY DEF StartAt, CycleEnd
<1>3. CycleEnd \in BOOLEAN
  BY DEF CycleEnd
<1>4. cursor \in Nat
  BY ClientFacts
<1>5. inCamp # {} =>
        \E s \in inCamp : Window = {s} /\ Before(inCamp, s) = StartAt
  <2> HAVE inCamp # {}
  <2>1. StartAt \in Nat /\ StartAt < card
    BY <1>1, <1>2, <1>4
  <2>2. \E s \in inCamp : Cardinality({q \in inCamp : q < s}) = StartAt
    BY <2>1, <1>1 DEF Before
  <2>3. Sorted(StartAt) \in inCamp /\ Before(inCamp, Sorted(StartAt)) = StartAt
    BY <2>2 DEF Sorted, Before
  <2> QED
    BY <2>3 DEF Window
<1>6. inCamp = {} => Window = {}
  BY DEF Window
<1> HIDE DEF card
<1>7. Window \subseteq inCamp
  BY <1>5, <1>6
<1>8. ASSUME NEW p \in inCamp \ Window
      PROVE  Before(inCamp, p) # StartAt
  <2>1. PICK s \in inCamp : Window = {s} /\ Before(inCamp, s) = StartAt
    BY <1>5
  <2>2. p # s /\ p \in Nat /\ s \in Nat
    BY <2>1, <1>1
  <2>3. p < s \/ s < p
    BY <2>2
  <2>4. Before(inCamp, p) < Before(inCamp, s) \/ Before(inCamp, s) < Before(inCamp, p)
    BY <2>3, <1>1
  <2>5. Before(inCamp, p) \in Nat /\ Before(inCamp, s) \in Nat
    BY <1>1
  <2> QED
    BY <2>1, <2>4, <2>5
<1>9. StartAt \in Nat /\ StartAt <= cursor /\ (~CycleEnd => StartAt + 1 <= PeerTotal)
  <2>1. PeerTotal \in Nat
    BY ClientFacts
  <2> QED
    BY <2>1, <1>1, <1>2, <1>4
<1>10. ASSUME NEW p \in inCamp \ Window
       PROVE  /\ Before(inCamp, p) \in Nat
              /\ Before(inCamp, p) < StartAt + 1 => Before(inCamp, p) < cursor
              /\ CycleEnd => Before(inCamp, p) < cursor
  BY <1>1, <1>2, <1>4, <1>8, <1>9
<1> QED
  BY <1>3, <1>7, <1>9, <1>10

\* A roster reaches the table: its peers are live, nobody comes back from none.
LEMMA AppliedIs ==
  ASSUME ClientInv, NEW roster \in SUBSET KnownPeers, Apply(roster)
  PROVE  /\ table' \in [KnownPeers -> {"none", "ghost", "live"}]
         /\ \A p \in KnownPeers : /\ table'[p] = "live" <=> p \in roster
                                  /\ table[p] = "none" /\ p \notin roster => table'[p] = "none"
         /\ catalog' \subseteq KnownPeers /\ catalog' \subseteq catalog \cup roster
<1>1. /\ table \in [KnownPeers -> {"none", "ghost", "live"}]
      /\ catalog \subseteq KnownPeers
  BY ClientFacts
<1>2. table' = [p \in KnownPeers |-> IF p \in roster THEN "live"
                                     ELSE IF table[p] = "none" THEN "none" ELSE "ghost"]
  BY DEF Apply, Reconciled
<1>3. table' \in [KnownPeers -> {"none", "ghost", "live"}]
  BY <1>1, <1>2
<1>4. \A p \in KnownPeers : /\ table'[p] = "live" <=> p \in roster
                            /\ table[p] = "none" /\ p \notin roster => table'[p] = "none"
  BY <1>1, <1>2
<1>5. catalog' \subseteq KnownPeers /\ catalog' \subseteq catalog \cup roster
  BY <1>1 DEF Apply
<1> QED
  BY <1>3, <1>4, <1>5

LEMMA FetchBeginInv == ASSUME ClientInv, FetchBegin PROVE ClientInv'
<1>1. /\ api /\ fetch' = {inCamp}
      /\ UNCHANGED <<campServer, session, httpOK, gathering, table, seed, catalog, late,
                     history, losses, clientBudgets>>
  BY DEF FetchBegin
<1> USE DEF campServer, gathering, history, losses, clientBudgets
<1>2. ClientTypeOK' /\ ClientBudgetsOK'
  BY <1>1, ClientFacts DEF ClientInv, ClientTypeOK, ClientBudgetsOK, KnownPeers
<1>3. WithoutApi' /\ StayersAreListed' /\ MissesArePaid'
  BY <1>1, ClientFacts DEF ClientInv, WithoutApi, StayersAreListed, MissesArePaid
<1>4. UnderWay' \subseteq UnderWay \cup inCamp
  BY <1>1 DEF UnderWay
<1>5. ForgottenIsNowhere'
  BY <1>1, <1>4 DEF ClientInv, ForgottenIsNowhere
<1> QED
  BY <1>2, <1>3, <1>5 DEF ClientInv

\* A roster that has come back, from a poller or from one whose session ended.
LEMMA FetchedInv ==
  ASSUME ClientInv, FetchEnd \/ FetchLate
  PROVE  /\ ClientInv'
         /\ \A p \in stayed : table'[p] = "live"
<1> USE DEF campServer, gathering, history, losses, clientBudgets
<1>1. PICK rosters \in {fetch, late} : rosters # NoRoster /\ Apply(UNION rosters)
  BY DEF FetchEnd, FetchLate
<1>2. /\ httpOK' = TRUE /\ fetch' \subseteq fetch /\ late' \subseteq late
      /\ UNCHANGED <<campServer, session, gathering, seed, history, losses, clientBudgets>>
  BY DEF FetchEnd, FetchLate, NoRoster
<1>3. UNION rosters \in SUBSET KnownPeers /\ UNION rosters \subseteq UnderWay
      /\ \A p \in stayed : p \in UNION rosters
  <2>1. \A r \in rosters : r \in fetch \cup late
    BY <1>1
  <2>2. PICK some \in rosters : TRUE
    BY <1>1 DEF NoRoster
  <2>3. \A r \in rosters : r \subseteq KnownPeers /\ stayed \subseteq r
    BY <2>1, ClientFacts DEF ClientInv, StayersAreListed
  <2>4. \A p \in UNION rosters : p \in KnownPeers /\ p \in UnderWay
    <3> TAKE p \in UNION rosters
    <3>1. PICK r \in rosters : p \in r
      OBVIOUS
    <3>2. p \in UNION (fetch \cup late)
      BY <2>1, <3>1
    <3>3. p \in KnownPeers
      BY <2>3, <3>1
    <3> QED
      BY <3>2, <3>3, Zenon DEF UnderWay
  <2>5. \A p \in stayed : p \in UNION rosters
    BY <2>2, <2>3
  <2> QED
    BY <2>4, <2>5
<1> DEFINE roster == UNION rosters
<1>4. /\ table' \in [KnownPeers -> {"none", "ghost", "live"}]
      /\ \A p \in KnownPeers : /\ table'[p] = "live" <=> p \in roster
                               /\ table[p] = "none" /\ p \notin roster => table'[p] = "none"
      /\ catalog' \subseteq KnownPeers /\ catalog' \subseteq catalog \cup roster
  BY <1>1, <1>3, AppliedIs
<1> HIDE DEF roster
<1>5. api
  BY <1>1 DEF ClientInv, WithoutApi, NoRoster
<1>6. ClientTypeOK' /\ ClientBudgetsOK'
  <2>1. fetch' \cup late' \subseteq SUBSET KnownPeers
    BY <1>2 DEF ClientInv, ClientTypeOK
  <2> QED
    BY <1>2, <1>4, <2>1 DEF ClientInv, ClientTypeOK, ClientBudgetsOK
<1>7. WithoutApi' /\ StayersAreListed' /\ MissesArePaid'
  BY <1>2, <1>5 DEF ClientInv, WithoutApi, StayersAreListed, MissesArePaid
<1>8. UnderWay' \subseteq UnderWay
  BY <1>2 DEF UnderWay
<1>9. ForgottenIsNowhere'
  <2>1. roster \subseteq UnderWay /\ forgot \subseteq KnownPeers
    BY <1>3, ClientFacts DEF roster
  <2> QED
    BY <1>2, <1>4, <1>8, <2>1 DEF ClientInv, ForgottenIsNowhere
<1>10. \A p \in stayed : table'[p] = "live"
  <2>1. stayed \subseteq KnownPeers
    BY ClientFacts
  <2> QED
    BY <2>1, <1>3, <1>4 DEF roster
<1> QED
  BY <1>6, <1>7, <1>9, <1>10 DEF ClientInv

LEMMA AnnounceLostInv == ASSUME ClientInv, AnnounceLost PROVE ClientInv'
<1> USE DEF campServer, gathering, history, poller, losses
<1>1. /\ missBudget > 0 /\ missBudget' = missBudget - 1
      /\ cursor' = IF CycleEnd THEN 0 ELSE StartAt + 1
      /\ shaken' = TRUE
      /\ UNCHANGED <<api, inCamp, session, httpOK, gathering, table, seed, catalog, poller,
                     history, streak, restartBudget>>
  BY DEF AnnounceLost
<1>2. cursor' \in 0..PeerTotal
  BY <1>1, WindowIs, ClientFacts
<1>3. ClientTypeOK' /\ ClientBudgetsOK'
  BY <1>1, <1>2, ClientFacts DEF ClientInv, ClientTypeOK, ClientBudgetsOK, KnownPeers
<1>4. WithoutApi' /\ StayersAreListed'
  BY <1>1 DEF ClientInv, WithoutApi, StayersAreListed
<1>5. MissesArePaid'
  BY <1>1 DEF ClientInv, MissesArePaid
<1>6. ForgottenIsNowhere'
  BY <1>1 DEF ClientInv, ForgottenIsNowhere, UnderWay
<1> QED
  BY <1>3, <1>4, <1>5, <1>6 DEF ClientInv

\* What a rotation that ends leaves of one who stayed, and of one who did not
\* come up.
LEMMA AbsentIs ==
  ASSUME ClientInv, NEW acc \in SUBSET KnownPeers
  PROVE  /\ Absent(acc).seen \subseteq rosterSeen \cup acc
         /\ Absent(acc).miss \in [KnownPeers -> 0..Grace]
         /\ acc \subseteq Absent(acc).seen
         /\ \A p \in acc : Absent(acc).miss[p] = 0
         /\ \A p \in KnownPeers \ acc : Absent(acc).miss[p] <= rosterMiss[p] + 1
         /\ \A p \in rosterSeen \ acc :
              rosterMiss[p] + 1 <= Grace => p \in Absent(acc).seen
<1> DEFINE missed == [p \in KnownPeers |-> IF p \in rosterSeen \ acc THEN rosterMiss[p] + 1 ELSE 0]
           gone == {p \in rosterSeen \ acc : missed[p] > Grace}
           miss == [p \in KnownPeers |-> IF p \in gone THEN 0 ELSE missed[p]]
<1>1. Absent(acc) = [seen |-> (rosterSeen \cup acc) \ gone, miss |-> miss]
  BY Zenon DEF Absent
<1>2. Absent(acc).seen = (rosterSeen \cup acc) \ gone /\ Absent(acc).miss = miss
  <2> HIDE DEF gone, miss
  <2> QED
    BY <1>1
<1>3. /\ rosterSeen \subseteq KnownPeers /\ Grace \in Nat
      /\ \A p \in KnownPeers : rosterMiss[p] \in Nat
  BY ClientFacts
<1>4. \A p \in KnownPeers :
        /\ missed[p] \in Nat
        /\ p \in acc => missed[p] = 0
        /\ missed[p] <= rosterMiss[p] + 1
        /\ p \notin rosterSeen => missed[p] = 0
  BY <1>3
<1> HIDE DEF missed
<1>5. /\ gone \subseteq rosterSeen \ acc
      /\ \A p \in rosterSeen \ acc : p \notin gone => missed[p] <= Grace
      /\ \A p \in rosterSeen \ acc : rosterMiss[p] + 1 <= Grace => p \notin gone
  <2>1. \A p \in rosterSeen \ acc : ~(missed[p] > Grace) => missed[p] <= Grace
    BY <1>3, <1>4
  <2>2. \A p \in rosterSeen \ acc : rosterMiss[p] + 1 <= Grace => ~(missed[p] > Grace)
    BY <1>3, <1>4
  <2> QED
    BY <2>1, <2>2
<1> HIDE DEF gone
<1>6. \A p \in KnownPeers : missed[p] <= Grace \/ p \in gone
  BY <1>3, <1>4, <1>5
<1>7. /\ miss \in [KnownPeers -> 0..Grace]
      /\ \A p \in acc : miss[p] = 0
      /\ \A p \in KnownPeers \ acc : miss[p] <= rosterMiss[p] + 1
  <2>1. \A p \in KnownPeers : miss[p] = IF p \in gone THEN 0 ELSE missed[p]
    OBVIOUS
  <2>2. \A p \in KnownPeers : (IF p \in gone THEN 0 ELSE missed[p]) \in 0..Grace
    BY <1>3, <1>4, <1>6
  <2>3. miss \in [KnownPeers -> 0..Grace]
    BY <2>2
  <2> HIDE DEF miss
  <2> QED
    BY <2>1, <2>3, <1>3, <1>4
<1> HIDE DEF miss
<1> QED
  BY <1>2, <1>5, <1>7

LEMMA ClientAnnounceInv ==
  ASSUME ClientInv, ClientAnnounce
  PROVE  /\ ClientInv'
         /\ \A p \in stayed : table[p] = "live" => table'[p] = "live" \/ streak' > Grace
<1> USE DEF campServer, history, poller, clientBudgets, losses
<1> DEFINE acc == cycleAcc \cup Window
           next == Absent(acc)
<1>1. /\ ~api /\ ~httpOK
      /\ cursor' = IF CycleEnd THEN 0 ELSE StartAt + 1
      /\ UNCHANGED <<api, inCamp, session, httpOK, seed, poller, history, clientBudgets>>
  BY DEF ClientAnnounce, ClientInv, WithoutApi
<1>2. CASE /\ ~CycleEnd /\ cycleAcc' = acc
           /\ UNCHANGED <<rosterSeen, rosterMiss, losses, table, catalog>>
  <2>1. ClientTypeOK' /\ ClientBudgetsOK'
    <3>1. cursor' \in 0..PeerTotal /\ acc \subseteq KnownPeers
      BY <1>1, <1>2, WindowIs, ClientFacts
    <3> HIDE DEF acc
    <3> QED
      BY <1>1, <1>2, <3>1 DEF ClientInv, ClientTypeOK, ClientBudgetsOK, KnownPeers
  <2>2. WithoutApi' /\ StayersAreListed'
    BY <1>1, <1>2 DEF ClientInv, WithoutApi, StayersAreListed
  <2>3. MissesArePaid'
    <3> SUFFICES ASSUME NEW p \in stayed \cap rosterSeen
                 PROVE  rosterMiss[p] <= streak /\ (Skipped(p)' => shaken)
      BY <1>1, <1>2 DEF MissesArePaid
    <3>1. rosterMiss[p] <= streak /\ (Skipped(p) => shaken)
      BY <1>1 DEF ClientInv, MissesArePaid
    <3>2. Skipped(p)' => Skipped(p)
      <4>1. Before(inCamp, p)' = Before(inCamp, p)
        BY <1>1 DEF Before
      <4>2. p \in inCamp
        BY ClientFacts
      <4>3. ASSUME p \notin acc, Before(inCamp, p) < StartAt + 1 PROVE Skipped(p)
        <5>1. p \in inCamp \ Window /\ p \notin cycleAcc
          BY <4>2, <4>3
        <5> QED
          BY <5>1, <4>3, WindowIs DEF Skipped
      <4> QED
        BY <1>1, <1>2, <4>1, <4>3 DEF Skipped
    <3> QED
      BY <3>1, <3>2
  <2>4. ForgottenIsNowhere'
    <3>1. UnderWay' \subseteq UnderWay \cup inCamp
      BY <1>1, <1>2, WindowIs DEF UnderWay
    <3> QED
      BY <1>1, <1>2, <3>1 DEF ClientInv, ForgottenIsNowhere
  <2> QED
    BY <1>2, <2>1, <2>2, <2>3, <2>4 DEF ClientInv
<1>3. CASE /\ CycleEnd /\ cycleAcc' = {} /\ RotationEnds
           /\ rosterSeen' = next.seen /\ rosterMiss' = next.miss
           /\ Apply(next.seen)
  <2>1. /\ Window \subseteq inCamp /\ acc \in SUBSET KnownPeers /\ acc \subseteq UnderWay \cup inCamp
        /\ rosterSeen \subseteq UnderWay
    BY WindowIs, ClientFacts DEF UnderWay
  <2>2. /\ next.seen \subseteq rosterSeen \cup acc
        /\ next.miss \in [KnownPeers -> 0..Grace]
        /\ acc \subseteq next.seen
        /\ \A p \in acc : next.miss[p] = 0
        /\ \A p \in KnownPeers \ acc : next.miss[p] <= rosterMiss[p] + 1
        /\ \A p \in rosterSeen \ acc : rosterMiss[p] + 1 <= Grace => p \in next.seen
    BY <2>1, AbsentIs
  <2>3. next.seen \in SUBSET KnownPeers
    BY <2>1, <2>2, ClientFacts
  <2> HIDE DEF next
  <2>4. /\ table' \in [KnownPeers -> {"none", "ghost", "live"}]
        /\ \A p \in KnownPeers : /\ table'[p] = "live" <=> p \in next.seen
                                 /\ table[p] = "none" /\ p \notin next.seen => table'[p] = "none"
        /\ catalog' \subseteq KnownPeers /\ catalog' \subseteq catalog \cup next.seen
    BY <1>3, <2>3, AppliedIs
  <2>r. /\ shaken' = FALSE /\ streak' \in Nat /\ streak' <= Grace + 1
        /\ shaken => streak' > Grace \/ streak' = streak + 1
    BY <1>3, ClientFacts DEF RotationEnds
  \* One who stays and was left out of this rotation was so for a window that was lost.
  <2>5. ASSUME NEW p \in (stayed \cap rosterSeen) \ acc
        PROVE  /\ rosterMiss[p] + 1 <= streak' \/ streak' > Grace
               /\ p \in KnownPeers /\ rosterMiss[p] \in Nat
    <3>1. p \in inCamp \ Window /\ p \notin cycleAcc /\ p \in KnownPeers /\ rosterMiss[p] \in Nat
      BY ClientFacts
    <3>2. Skipped(p)
      BY <1>3, <3>1, WindowIs DEF Skipped
    <3>3. rosterMiss[p] <= streak /\ shaken
      BY <1>1, <3>2 DEF ClientInv, MissesArePaid
    <3>4. streak \in Nat
      BY ClientFacts
    <3> QED
      BY <3>1, <3>3, <3>4, <2>r
  <2>6. ASSUME NEW p \in stayed \cap (rosterSeen \cup acc)
        PROVE  p \in next.seen \/ streak' > Grace
    <3>1. CASE p \in acc
      BY <3>1, <2>2
    <3>2. CASE p \notin acc
      <4>1. p \in (stayed \cap rosterSeen) \ acc
        BY <3>2
      <4>2. rosterMiss[p] \in Nat /\ Grace \in Nat /\ (rosterMiss[p] + 1 <= streak' \/ streak' > Grace)
        BY <4>1, <2>5, ClientFacts
      <4>3. rosterMiss[p] + 1 <= Grace \/ streak' > Grace
        BY <4>2, <2>r
      <4> QED
        BY <4>1, <4>3, <2>2
    <3> QED
      BY <3>1, <3>2
  <2>7. ClientTypeOK' /\ ClientBudgetsOK'
    <3>1. cursor' \in 0..PeerTotal
      BY <1>1, <1>3, ClientFacts
    <3>2. shaken' \in BOOLEAN /\ streak' \in 0..(Grace + 1)
      <4>1. streak' \in 0..(Grace + 1)
        BY <2>r, ClientFacts
      <4>2. shaken' \in BOOLEAN
        BY <2>r, Zenon
      <4> QED
        BY <4>1, <4>2
    <3>3. ClientBudgetsOK'
      BY <1>1 DEF ClientInv, ClientBudgetsOK
    <3>4. ClientTypeOK'
      BY <1>1, <1>3, <2>2, <2>3, <2>4, <3>1, <3>2 DEF ClientInv, ClientTypeOK, KnownPeers
    <3> QED
      BY <3>3, <3>4
  <2>8. WithoutApi' /\ StayersAreListed'
    BY <1>1, <1>3, <2>4 DEF ClientInv, WithoutApi, StayersAreListed
  <2>9. MissesArePaid'
    <3> SUFFICES ASSUME NEW p \in stayed \cap next.seen
                 PROVE  next.miss[p] <= streak' /\ ~Skipped(p)'
      BY <1>1, <1>3 DEF MissesArePaid
    <3>1. p \in inCamp /\ p \in KnownPeers
      BY ClientFacts
    <3>2. ~Skipped(p)'
      <4>1. Before(inCamp, p)' = Before(inCamp, p) /\ Before(inCamp, p) \in Nat /\ cursor' = 0
        <5>1. inCamp \in SUBSET (1..PeerTotal) /\ PeerTotal \in Nat /\ p \in Nat
          BY <3>1, ClientFacts
        <5>2. Before(inCamp, p) \in Nat
          BY <5>1, Places
        <5> QED
          BY <1>1, <1>3, <5>2 DEF Before
      <4> QED
        BY <4>1 DEF Skipped
    <3>3. next.miss[p] \in 0..Grace /\ Grace \in Nat
      BY <3>1, <2>2, ClientFacts
    <3>4. CASE p \in acc
      BY <3>2, <3>3, <3>4, <2>2, <2>r
    <3>5. CASE p \notin acc
      <4>1. p \in (stayed \cap rosterSeen) \ acc
        BY <3>5, <2>2
      <4>2. rosterMiss[p] \in Nat /\ (rosterMiss[p] + 1 <= streak' \/ streak' > Grace)
        BY <4>1, <2>5
      <4>3. next.miss[p] <= rosterMiss[p] + 1
        BY <3>1, <3>5, <2>2
      <4> QED
        BY <3>2, <3>3, <4>2, <4>3, <2>r
    <3> QED
      BY <3>4, <3>5
  <2>10. ForgottenIsNowhere'
    <3>1. UnderWay' \subseteq UnderWay \cup inCamp /\ next.seen \subseteq UnderWay \cup inCamp
      BY <1>1, <1>3, <2>1, <2>2 DEF UnderWay
    <3>2. forgot \subseteq KnownPeers
      BY ClientFacts
    <3> QED
      BY <1>1, <3>1, <3>2, <2>4 DEF ClientInv, ForgottenIsNowhere
  <2>11. \A p \in stayed : table[p] = "live" => table'[p] = "live" \/ streak' > Grace
    <3>1. \A p \in stayed : table[p] = "live" => p \in rosterSeen /\ p \in KnownPeers
      BY <1>1, ClientFacts DEF ClientInv, StayersAreListed
    <3> QED
      BY <3>1, <2>4, <2>6
  <2> QED
    BY <2>7, <2>8, <2>9, <2>10, <2>11 DEF ClientInv
<1> QED
  BY <1>1, <1>2, <1>3 DEF ClientAnnounce

LEMMA ForgetPeerInv ==
  ASSUME ClientInv, NEW p \in KnownPeers, ForgetPeer(p)
  PROVE  ClientInv'
<1> USE DEF campServer, gathering, poller, clientBudgets, losses
<1>1. /\ table' = [table EXCEPT ![p] = "none"]
      /\ seed' = (IF session THEN seed \ {p} ELSE seed)
      /\ catalog' = (IF session THEN catalog \ {p} ELSE catalog)
      /\ forgot' = (IF session /\ p \notin inCamp \cup UnderWay THEN forgot \cup {p} ELSE forgot)
      /\ UNCHANGED <<campServer, session, httpOK, gathering, poller, stayed, losses, clientBudgets>>
  BY DEF ForgetPeer, ForgottenBy
<1>2. /\ table' \in [KnownPeers -> {"none", "ghost", "live"}]
      /\ \A q \in KnownPeers : table'[q] = IF q = p THEN "none" ELSE table[q]
  BY <1>1, ClientFacts
<1>3. ClientTypeOK' /\ ClientBudgetsOK'
  <2>1. seed' \subseteq KnownPeers /\ catalog' \subseteq KnownPeers
    BY <1>1, ClientFacts
  <2>2. forgot' \subseteq KnownPeers \ inCamp
    BY <1>1 DEF ClientInv, ClientTypeOK
  <2> QED
    BY <1>1, <1>2, <2>1, <2>2 DEF ClientInv, ClientTypeOK, ClientBudgetsOK
<1>4. WithoutApi' /\ StayersAreListed'
  BY <1>1, <1>2 DEF ClientInv, WithoutApi, StayersAreListed
<1>5. MissesArePaid'
  BY <1>1 DEF ClientInv, MissesArePaid, Skipped
<1>6. ForgottenIsNowhere'
  <2>1. UnderWay' = UnderWay
    BY <1>1 DEF UnderWay
  <2>2. ASSUME NEW q \in forgot'
        PROVE  table'[q] = "none" /\ q \notin inCamp \cup UnderWay \cup seed' \cup catalog'
    <3>1. CASE q \in forgot
      BY <3>1, <1>1, <1>2, ClientFacts DEF ClientInv, ForgottenIsNowhere
    <3>2. CASE q \notin forgot
      BY <3>2, <2>2, <1>1, <1>2
    <3> QED
      BY <3>1, <3>2
  <2> QED
    BY <1>1, <2>1, <2>2 DEF ForgottenIsNowhere
<1> QED
  BY <1>3, <1>4, <1>5, <1>6 DEF ClientInv

LEMMA StopSessionInv == ASSUME ClientInv, StopSession PROVE ClientInv'
<1> USE DEF campServer, gathering, history, losses, clientBudgets
<1>1. /\ session' = FALSE /\ httpOK' = FALSE
      /\ table' = [p \in KnownPeers |-> "none"]
      /\ fetch' = NoRoster /\ (late' = fetch \/ late' = late)
      /\ UNCHANGED <<campServer, gathering, seed, catalog, history, losses, clientBudgets>>
  BY DEF StopSession
<1>2. /\ table' \in [KnownPeers -> {"none", "ghost", "live"}]
      /\ \A p \in KnownPeers : table'[p] = "none"
  BY <1>1
<1>3. fetch' \cup late' \subseteq fetch \cup late /\ UnderWay' \subseteq UnderWay
  <2>1. fetch' \cup late' \subseteq fetch \cup late
    BY <1>1 DEF NoRoster
  <2> QED
    BY <1>1, <2>1 DEF UnderWay
<1>4. ClientTypeOK' /\ ClientBudgetsOK'
  BY <1>1, <1>2, <1>3 DEF ClientInv, ClientTypeOK, ClientBudgetsOK
<1>5. WithoutApi' /\ StayersAreListed'
  BY <1>1, <1>2, <1>3 DEF ClientInv, WithoutApi, StayersAreListed, NoRoster
<1>6. MissesArePaid'
  BY <1>1 DEF ClientInv, MissesArePaid, Skipped
<1>7. ForgottenIsNowhere'
  BY <1>1, <1>2, <1>3, ClientFacts DEF ClientInv, ForgottenIsNowhere
<1> QED
  BY <1>4, <1>5, <1>6, <1>7 DEF ClientInv

LEMMA StartSessionInv == ASSUME ClientInv, StartSession PROVE ClientInv'
<1> USE DEF campServer, gathering, poller, history, losses
<1>1. /\ restartBudget > 0 /\ restartBudget' = restartBudget - 1 /\ session' = TRUE
      /\ table' = Hydrated
      /\ UNCHANGED <<campServer, httpOK, gathering, seed, catalog, poller, history, losses, missBudget>>
  BY DEF StartSession
<1>2. /\ table' \in [KnownPeers -> {"none", "ghost", "live"}]
      /\ \A p \in KnownPeers :
           table'[p] = IF table[p] = "none" /\ p \in seed THEN "ghost" ELSE table[p]
  BY <1>1, ClientFacts DEF Hydrated
<1>3. ClientTypeOK' /\ ClientBudgetsOK'
  BY <1>1, <1>2 DEF ClientInv, ClientTypeOK, ClientBudgetsOK
<1>4. WithoutApi' /\ StayersAreListed'
  BY <1>1, <1>2 DEF ClientInv, WithoutApi, StayersAreListed
<1>5. MissesArePaid'
  BY <1>1 DEF ClientInv, MissesArePaid, Skipped
<1>6. ForgottenIsNowhere'
  BY <1>1, <1>2, ClientFacts DEF ClientInv, ForgottenIsNowhere, UnderWay
<1> QED
  BY <1>3, <1>4, <1>5, <1>6 DEF ClientInv

LEMMA ClientRestartInv == ASSUME ClientInv, Restart PROVE ClientInv'
<1> USE DEF campServer, history, losses
<1>1. /\ restartBudget > 0 /\ restartBudget' = restartBudget - 1
      /\ session' = TRUE /\ httpOK' = FALSE
      /\ cycleAcc' = {} /\ rosterSeen' = {} /\ rosterMiss' = Unseen
      /\ seed' = catalog
      /\ table' = [p \in KnownPeers |-> IF p \in catalog THEN "ghost" ELSE "none"]
      /\ fetch' = {} /\ late' = {}
      /\ UNCHANGED <<campServer, catalog, history, losses, missBudget>>
  BY DEF Restart, NoRoster
<1>2. /\ table' \in [KnownPeers -> {"none", "ghost", "live"}]
      /\ \A p \in KnownPeers : table'[p] = IF p \in catalog THEN "ghost" ELSE "none"
      /\ rosterMiss' \in [KnownPeers -> 0..Grace]
  BY <1>1, ClientFacts DEF Unseen
<1>3. ClientTypeOK' /\ ClientBudgetsOK'
  <2>1. {api, session, httpOK}' \subseteq BOOLEAN
    BY <1>1, ClientFacts
  <2>2. (fetch \cup late)' \subseteq SUBSET KnownPeers /\ (seed \cup catalog)' \subseteq KnownPeers
    BY <1>1, ClientFacts
  <2> QED
    BY <1>1, <1>2, <2>1, <2>2 DEF ClientInv, ClientTypeOK, ClientBudgetsOK
<1>4. WithoutApi' /\ StayersAreListed' /\ MissesArePaid'
  BY <1>1, <1>2 DEF ClientInv, WithoutApi, StayersAreListed, MissesArePaid, NoRoster
<1>5. ForgottenIsNowhere'
  BY <1>1, <1>2, ClientFacts DEF ClientInv, ForgottenIsNowhere, UnderWay
<1> QED
  BY <1>3, <1>4, <1>5 DEF ClientInv

\* One more in the camp moves the others' places up, if anywhere.
LEMMA JoinsInv == ASSUME ClientInv, NEW p \in KnownPeers, Joins(p) PROVE ClientInv'
<1> USE DEF gathering, poller, clientBudgets, losses
<1>1. /\ inCamp' = inCamp \cup {p} /\ forgot' = forgot \ {p}
      /\ UNCHANGED <<api, cursor, session, httpOK, gathering, table, seed, catalog, poller,
                     stayed, losses, clientBudgets>>
  BY DEF Joins
<1>2. ClientTypeOK' /\ ClientBudgetsOK'
  BY <1>1 DEF ClientInv, ClientTypeOK, ClientBudgetsOK
<1>3. WithoutApi' /\ StayersAreListed'
  BY <1>1 DEF ClientInv, WithoutApi, StayersAreListed
<1>4. MissesArePaid'
  <2> SUFFICES ASSUME NEW q \in stayed \cap rosterSeen, ~api
               PROVE  rosterMiss[q] <= streak /\ (Skipped(q)' => shaken)
    BY <1>1 DEF MissesArePaid
  <2>1. inCamp \cup {p} \in SUBSET (1..PeerTotal) /\ PeerTotal \in Nat /\ q \in Nat
    BY ClientFacts
  <2>2. Before(inCamp, q) <= Before(inCamp \cup {p}, q)
    <3>1. IsFiniteSet({x \in inCamp \cup {p} : x < q})
      BY <2>1, Places
    <3>2. {x \in inCamp : x < q} \in SUBSET {x \in inCamp \cup {p} : x < q}
      OBVIOUS
    <3> QED
      BY <3>1, <3>2, FS_Subset DEF Before
  <2>3. Before(inCamp, q) \in Nat /\ Before(inCamp \cup {p}, q) \in Nat
    BY <2>1, ClientFacts, Places
  <2>4. Skipped(q)' <=> q \notin cycleAcc /\ Before(inCamp \cup {p}, q) < cursor
    BY <1>1 DEF Skipped, Before
  <2>5. Skipped(q)' => Skipped(q)
    BY <2>2, <2>3, <2>4, ClientFacts DEF Skipped
  <2>6. rosterMiss[q] <= streak /\ (Skipped(q) => shaken)
    BY DEF ClientInv, MissesArePaid
  <2> QED
    BY <2>5, <2>6
<1>5. ForgottenIsNowhere'
  BY <1>1 DEF ClientInv, ForgottenIsNowhere, UnderWay
<1> QED
  BY <1>2, <1>3, <1>4, <1>5 DEF ClientInv

LEMMA LeavesInv == ASSUME ClientInv, NEW p \in KnownPeers, Leaves(p) PROVE ClientInv'
<1> USE DEF gathering, poller, losses
<1>1. /\ missBudget > 0 /\ missBudget' = missBudget - 1
      /\ inCamp' = inCamp \ {p} /\ stayed' = stayed \ {p} /\ shaken' = TRUE
      /\ UNCHANGED <<api, cursor, session, httpOK, gathering, table, seed, catalog, poller,
                     forgot, streak, restartBudget>>
  BY DEF Leaves
<1>2. ClientTypeOK' /\ ClientBudgetsOK'
  BY <1>1, ClientFacts DEF ClientInv, ClientTypeOK, ClientBudgetsOK
<1>3. WithoutApi' /\ StayersAreListed'
  BY <1>1 DEF ClientInv, WithoutApi, StayersAreListed
<1>4. MissesArePaid'
  BY <1>1 DEF ClientInv, MissesArePaid
<1>5. ForgottenIsNowhere'
  BY <1>1 DEF ClientInv, ForgottenIsNowhere, UnderWay
<1> QED
  BY <1>2, <1>3, <1>4, <1>5 DEF ClientInv

LEMMA ClientStepInv == ClientInv /\ [ClientNext]_clientVars => ClientInv'
<1> SUFFICES ASSUME ClientInv, [ClientNext]_clientVars PROVE ClientInv'
  OBVIOUS
<1>1. CASE ClientNext
  BY <1>1, FetchBeginInv, FetchedInv, ClientAnnounceInv, AnnounceLostInv, StopSessionInv,
     StartSessionInv, ClientRestartInv, ForgetPeerInv, JoinsInv, LeavesInv DEF ClientNext
<1>2. CASE UNCHANGED clientVars
  BY <1>2 DEF clientVars, campServer, gathering, poller, history, losses, clientBudgets, ClientInv,
     ClientTypeOK, ClientBudgetsOK, WithoutApi, StayersAreListed, MissesArePaid, Skipped,
     ForgottenIsNowhere, UnderWay
<1> QED
  BY <1>1, <1>2

\* A peer that is gone and forgotten stays gone, however many windows are lost
\* and however often the node starts again (handleForgetPeer, mergeRoster).
THEOREM ForgottenDoNotReturn == ClientSpec => []ForgottenStaysGone
<1>1. ClientInv => ForgottenStaysGone
  BY DEF ClientInv, ForgottenIsNowhere, ForgottenStaysGone
<1> QED
  BY <1>1, ClientInitInv, ClientStepInv, PTL DEF ClientSpec

\* The table turns nobody into a ghost who stayed in the camp, however many windows
\* are lost and shifted over time, unless in more rotations in a row than the grace;
\* and brings nobody back who was gone and forgotten (onUpdate, mergeRoster,
\* applyPeerList).
THEOREM TableStaysTrue == ClientSpec => TableIsTrue
<1> DEFINE Kept == \A p \in KnownPeers :
                     /\ p \in stayed /\ table[p] = "live" /\ session' /\ restartBudget' = restartBudget
                     /\ table'[p] = "ghost"
                     => streak' > Grace
<1>1. ClientInv /\ [ClientNext]_clientVars => [Kept]_clientVars
  <2> SUFFICES ASSUME ClientInv, ClientNext, NEW p \in KnownPeers,
                      p \in stayed, table[p] = "live", session', restartBudget' = restartBudget
               PROVE  table'[p] # "ghost" \/ streak' > Grace
    OBVIOUS
  <2>0. restartBudget \in Nat /\ table \in [KnownPeers -> {"none", "ghost", "live"}]
    BY ClientFacts
  <2>1. CASE FetchEnd \/ FetchLate
    BY <2>1, FetchedInv
  <2>2. CASE ClientAnnounce
    BY <2>2, ClientAnnounceInv
  <2>3. CASE \E q \in KnownPeers : ForgetPeer(q)
    BY <2>0, <2>3 DEF ForgetPeer, ForgottenBy
  <2>4. CASE StopSession \/ StartSession \/ Restart
    BY <2>0, <2>4 DEF StopSession, StartSession, Restart
  <2>5. CASE FetchBegin \/ AnnounceLost \/ \E q \in KnownPeers : Joins(q) \/ Leaves(q)
    BY <2>5 DEF FetchBegin, AnnounceLost, Joins, Leaves
  <2> QED
    BY <2>1, <2>2, <2>3, <2>4, <2>5 DEF ClientNext
<1> QED
  BY <1>1, ClientInitInv, ClientStepInv, ForgottenDoNotReturn, PTL
     DEF ClientSpec, TableIsTrue, StayersStayLive

-----------------------------------------------------------------------------
(* Pairing, and the parts in one instance.                                 *)

LEMMA PairInitInv == PairInit => PairTypeOK
<1> SUFFICES ASSUME PairInit PROVE PairTypeOK
  OBVIOUS
<1>1. Fresh \in Nat /\ PairChanges \in Nat
  BY PairingAssumption
<1>2. /\ res \in [Machines -> 0..Fresh] /\ req \in [Machines -> 0..Fresh]
      /\ ping \in [Machines -> 0..Fresh] /\ met \in 0..Fresh
  BY <1>1 DEF PairInit
<1>3. /\ udp \in [Machines -> Addresses] /\ reflex \in [Machines -> Addresses]
      /\ pushed \in [Machines -> PairEndpoints] /\ dev \in [Machines -> PairEndpoints]
  BY DEF PairInit, Addresses, PairEndpoints
<1>4. /\ open \subseteq Machines /\ ticked \subseteq Machines /\ pairChanges \in 0..PairChanges
  BY <1>1 DEF PairInit
<1> QED
  BY <1>2, <1>3, <1>4 DEF PairTypeOK

LEMMA PairStepInv == PairTypeOK /\ [PairNext]_pairVars => PairTypeOK'
<1> SUFFICES ASSUME PairTypeOK, [PairNext]_pairVars PROVE PairTypeOK'
  OBVIOUS
<1> USE DEF signals, device, network
<1>1. /\ res \in [Machines -> 0..Fresh] /\ req \in [Machines -> 0..Fresh]
      /\ ping \in [Machines -> 0..Fresh] /\ met \in 0..Fresh
      /\ udp \in [Machines -> Addresses] /\ reflex \in [Machines -> Addresses]
      /\ pushed \in [Machines -> PairEndpoints] /\ dev \in [Machines -> PairEndpoints]
      /\ open \subseteq Machines /\ ticked \subseteq Machines
      /\ pairChanges \in 0..PairChanges
      /\ Fresh \in Nat /\ PairChanges \in Nat
      /\ "good" \in Addresses /\ "bad" \in Addresses /\ Addresses \subseteq PairEndpoints
      /\ "relay" \in PairEndpoints
      /\ \A x \in Machines : Other(x) \in Machines
  BY PairingAssumption DEF PairTypeOK, Addresses, PairEndpoints, Machines, Other
\* A push leaves an endpoint for the machine.
<1>2. ASSUME NEW x \in Machines, Push(x, Wanted(x))
      PROVE  pushed' \in [Machines -> PairEndpoints] /\ dev' \in [Machines -> PairEndpoints]
  <2>1. Wanted(x) \in PairEndpoints
    BY <1>1 DEF Wanted
  <2> QED
    BY <1>1, <1>2, <2>1 DEF Push
<1>3. ASSUME TimePasses PROVE PairTypeOK'
  <2>1. \A age \in 0..Fresh : Older(age) \in 0..Fresh
    BY <1>1 DEF Older
  <2>2. /\ res' \in [Machines -> 0..Fresh] /\ req' \in [Machines -> 0..Fresh]
        /\ ping' \in [Machines -> 0..Fresh] /\ met' \in 0..Fresh
    BY <1>1, <1>3, <2>1 DEF TimePasses
  <2> QED
    BY <1>1, <1>3, <2>2 DEF TimePasses, PairTypeOK
<1>4. ASSUME NEW x \in Machines, PunchTick(x) PROVE PairTypeOK'
  <2>1. /\ ticked' \subseteq Machines /\ UNCHANGED <<network, met>>
        /\ Push(x, Wanted(x))
    BY <1>1, <1>4 DEF PunchTick
  <2>2. /\ res' \in [Machines -> 0..Fresh] /\ req' \in [Machines -> 0..Fresh]
        /\ ping' \in [Machines -> 0..Fresh] /\ udp' \in [Machines -> Addresses]
    <3>1. CASE Exchange(x, Answered(x))
      BY <1>1, <3>1 DEF Exchange
    <3>2. CASE ping' = [ping EXCEPT ![x] = 0] /\ UNCHANGED <<req, res, udp>>
      BY <1>1, <3>2
    <3>3. CASE UNCHANGED <<ping, req, res, udp>>
      BY <1>1, <3>3
    <3> QED
      BY <1>4, <3>1, <3>2, <3>3 DEF PunchTick
  <2> QED
    BY <1>1, <1>2, <2>1, <2>2 DEF PairTypeOK
<1>5. ASSUME NEW x \in Machines, RosterAddress(x) PROVE PairTypeOK'
  <2>1. udp' \in [Machines -> Addresses]
    BY <1>1, <1>5 DEF RosterAddress
  <2> QED
    BY <1>1, <1>5, <2>1 DEF RosterAddress, PairTypeOK
<1>6. ASSUME NEW x \in Machines, Sync(x) PROVE PairTypeOK'
  BY <1>1, <1>2, <1>6 DEF Sync, PairTypeOK
<1>7. ASSUME NEW x \in Machines, Deliver(x) PROVE PairTypeOK'
  <2>1. dev' \in [Machines -> PairEndpoints]
    BY <1>1, <1>7 DEF Deliver
  <2> QED
    BY <1>1, <1>7, <2>1 DEF Deliver, PairTypeOK
<1>8. ASSUME NEW x \in Machines, PathChanges(x) PROVE PairTypeOK'
  <2>1. open' \subseteq Machines /\ pairChanges' \in 0..PairChanges
    BY <1>1, <1>8 DEF PathChanges
  <2> QED
    BY <1>1, <1>8, <2>1 DEF PathChanges, PairTypeOK
<1>9. ASSUME NEW x \in Machines, AddressChanges(x) PROVE PairTypeOK'
  <2>1. /\ udp' = [udp EXCEPT ![Other(x)] = "bad"]
        /\ pushed' = [pushed EXCEPT ![Other(x)] = Moved(pushed[Other(x)])]
        /\ dev' = [dev EXCEPT ![Other(x)] = Moved(dev[Other(x)])]
        /\ pairChanges' \in 0..PairChanges
        /\ UNCHANGED <<open, reflex, signals>>
    BY <1>1, <1>9 DEF AddressChanges
  <2>2. \A e \in PairEndpoints : Moved(e) \in PairEndpoints
    BY <1>1 DEF Moved
  <2>3. /\ pushed[Other(x)] \in PairEndpoints /\ dev[Other(x)] \in PairEndpoints
    BY <1>1
  <2>4. /\ Moved(pushed[Other(x)]) \in PairEndpoints /\ Moved(dev[Other(x)]) \in PairEndpoints
    BY <2>2, <2>3
  <2>5. /\ udp' \in [Machines -> Addresses]
        /\ pushed' \in [Machines -> PairEndpoints] /\ dev' \in [Machines -> PairEndpoints]
    BY <1>1, <2>1, <2>4
  <2> QED
    BY <1>1, <2>1, <2>5 DEF PairTypeOK
<1>10. CASE UNCHANGED pairVars
  BY <1>10 DEF pairVars, PairTypeOK
<1> QED
  BY <1>3, <1>4, <1>5, <1>6, <1>7, <1>8, <1>9, <1>10 DEF PairNext, MachineStep

\* What Gossip keeps beyond the order of its stamps: each change was paid for.
GossipTyped ==
  /\ GossipTypeOK
  /\ loops \in [on : SUBSET (1..Loops), made : 0..Loops]
  /\ gossipChanges \in Nat /\ seen + gossipChanges <= GossipChanges + 1

LEMMA GossipTypedStep ==
  /\ GossipInit => GossipTyped
  /\ GossipInv /\ GossipTyped /\ [GossipNext]_gossipVars => GossipTyped'
<1> USE DEF publisher, gossipHistory
<1>0. {Loops, ClockMax, PushMax, GossipChanges} \subseteq Nat /\ ClockMax > 0
  BY GossipAssumption
<1>1. ASSUME GossipInit PROVE GossipTyped
  BY <1>0, <1>1 DEF GossipInit, GossipTyped, GossipTypeOK, NotHeard
<1> SUFFICES ASSUME GossipInv, GossipTyped, [GossipNext]_gossipVars PROVE GossipTyped'
  BY <1>1
<1>2. /\ seen \in Nat /\ wallClock \in 1..ClockMax /\ cancel \in 0..loops.made
      /\ loops.on \in SUBSET (1..Loops) /\ loops.made \in 0..Loops
      /\ loops = [on |-> loops.on, made |-> loops.made]
      /\ loops.on \subseteq {cancel} \ {0}
      /\ read \in [1..Loops -> Nat]
  BY DEF GossipInv, GossipTyped, GossipTypeOK
<1>paid. ASSUME gossipChanges' = gossipChanges \/ GossipChange, seen' = seen
       PROVE  gossipChanges' \in Nat /\ seen' + gossipChanges' <= GossipChanges + 1
  <2>1. gossipChanges \in Nat /\ seen + gossipChanges <= GossipChanges + 1
    BY DEF GossipTyped
  <2> QED
    BY <1>0, <1>2, <1>paid, <2>1 DEF GossipChange
<1>3. CASE StartGossip
  <2>1. CASE HasLoop
    BY <1>3, <2>1 DEF StartGossip, GossipTyped, GossipTypeOK
  <2>2. CASE ~HasLoop
    <3> DEFINE l == loops.made + 1
    <3>1. /\ cancel = 0 /\ l \in 1..Loops /\ cancel' = l
          /\ loops' = [on |-> loops.on \cup {l}, made |-> l]
          /\ UNCHANGED <<seen, wallClock, read, pushes, heard, gossipChanges>>
      BY <1>3, <2>2 DEF StartGossip, HasLoop
    <3>2. /\ loops'.on = {l} /\ loops'.made = l
          /\ loops' \in [on : SUBSET (1..Loops), made : 0..Loops]
      BY <1>0, <1>2, <3>1
    <3>3. loops'.on \subseteq {cancel'} \ {0} /\ cancel' \in 0..loops'.made
      BY <1>2, <3>1, <3>2
    <3> HIDE DEF l
    <3> QED
      BY <3>1, <3>2, <3>3 DEF GossipTyped, GossipTypeOK
  <2> QED
    BY <2>1, <2>2
<1>4. CASE StopGossip
  <2>1. /\ loops' = [on |-> loops.on \ {cancel}, made |-> loops.made] /\ cancel' = 0
        /\ UNCHANGED <<seen, wallClock, read, pushes, heard>>
    BY <1>2, <1>4 DEF StopGossip, NoLoop
  <2>2. /\ loops'.on = {} /\ loops'.made = loops.made
        /\ loops' \in [on : SUBSET (1..Loops), made : 0..Loops]
    BY <1>2, <2>1
  <2>3. gossipChanges' \in Nat /\ seen' + gossipChanges' <= GossipChanges + 1
    BY <1>4, <1>paid, <2>1 DEF StopGossip
  <2> QED
    BY <1>2, <2>1, <2>2, <2>3 DEF GossipTyped, GossipTypeOK
<1>5. ASSUME NEW l \in 1..Loops, ReadState(l) PROVE GossipTyped'
  <2>1. \A k \in 1..Loops : read'[k] \in 0..seen
    BY <1>2, <1>5 DEF ReadState, GossipTyped, GossipTypeOK
  <2> QED
    BY <1>5, <2>1 DEF ReadState, GossipTyped, GossipTypeOK
<1>6. ASSUME NEW l \in 1..Loops, Send(l) PROVE GossipTyped'
  <2> DEFINE new == [state |-> read[l], stamp |-> wallClock]
  <2>1. \A k \in 1..Loops : read'[k] \in 0..seen
    BY <1>2, <1>6 DEF Send, GossipTyped, GossipTypeOK
  <2>2. new.state \in 0..seen /\ new.stamp \in 0..ClockMax
    BY <1>2 DEF GossipTyped, GossipTypeOK
  <2> HIDE DEF new
  <2>3. pushes' = pushes \cup {new} /\ UNCHANGED <<seen, wallClock, cancel, loops, heard, gossipChanges>>
    BY <1>6 DEF Send, new
  <2>4. \A push \in pushes' \cup {heard} : push.state \in 0..seen /\ push.stamp \in 0..ClockMax
    BY <2>2, <2>3 DEF GossipTyped, GossipTypeOK
  <2> QED
    BY <2>1, <2>3, <2>4 DEF GossipTyped, GossipTypeOK
<1>7. ASSUME NEW push \in pushes, Hear(push) \/ LosePush(push) PROVE GossipTyped'
  <2>1. /\ pushes' \cup {heard'} \subseteq pushes \cup {heard}
        /\ UNCHANGED publisher
    BY <1>7 DEF Hear, LosePush
  <2>2. gossipChanges' \in Nat /\ seen' + gossipChanges' <= GossipChanges + 1
    BY <1>7, <1>paid, <2>1 DEF Hear, LosePush
  <2> QED
    BY <2>1, <2>2 DEF GossipTyped, GossipTypeOK
<1>8. CASE SeeChange
  <2>1. /\ gossipChanges > 0 /\ gossipChanges' = gossipChanges - 1 /\ seen' = seen + 1
        /\ UNCHANGED <<wallClock, cancel, loops, read, pushes, heard>>
    BY <1>8 DEF SeeChange, GossipChange
  <2>2. seen' \in 1..GossipChanges + 1 /\ gossipChanges' \in Nat
        /\ seen' + gossipChanges' <= GossipChanges + 1
    BY <1>0, <1>2, <2>1 DEF GossipTyped, GossipTypeOK
  <2>3. \A n \in 0..seen : n \in 0..seen'
    BY <1>2, <2>1
  <2> QED
    BY <2>1, <2>2, <2>3 DEF GossipTyped, GossipTypeOK
<1>9. CASE WallClock
  <2>1. /\ wallClock' \in 1..ClockMax
        /\ UNCHANGED <<seen, cancel, loops, read, pushes, heard>>
    BY <1>0, <1>2, <1>9 DEF WallClock
  <2>2. gossipChanges' \in Nat /\ seen' + gossipChanges' <= GossipChanges + 1
    BY <1>9, <1>paid, <2>1 DEF WallClock
  <2> QED
    BY <2>1, <2>2 DEF GossipTyped, GossipTypeOK
<1>10. CASE HearerRestarts
  <2>1. NotHeard.state \in 0..seen /\ NotHeard.stamp \in 0..ClockMax
    BY <1>0, <1>2 DEF NotHeard
  <2>2. /\ heard' = NotHeard /\ pushes' = pushes /\ UNCHANGED publisher
    BY <1>10 DEF HearerRestarts
  <2>3. gossipChanges' \in Nat /\ seen' + gossipChanges' <= GossipChanges + 1
    BY <1>10, <1>paid, <2>2 DEF HearerRestarts
  <2> HIDE DEF NotHeard
  <2> QED
    BY <2>1, <2>2, <2>3 DEF GossipTyped, GossipTypeOK
<1>11. CASE UNCHANGED gossipVars
  BY <1>11 DEF gossipVars, GossipTyped, GossipTypeOK
<1> QED
  BY <1>3, <1>4, <1>5, <1>6, <1>7, <1>8, <1>9, <1>10, <1>11 DEF GossipNext

\* Each part is where its own invariant has it.
MeshInv ==
  EngineInv /\ PairTypeOK /\ ClientInv /\ PullInv
  /\ GossipInv /\ GossipTyped /\ FwInv

\* Every variable of the mesh's parts holds what its Go counterpart can hold,
\* whichever part takes the steps.
THEOREM MeshTypes == MeshFairSpec => []MeshTypeOK
<1>1. MeshInit => MeshInv
  BY EngineInitInv, PairInitInv, ClientInitInv, PullInitInv, GossipInitInv, GossipTypedStep,
     FwInitInv
     DEF MeshInit, MeshInv
<1>2. MeshInv /\ [MeshNext]_MeshVars => MeshInv'
  <2> SUFFICES ASSUME MeshInv, [MeshNext]_MeshVars PROVE MeshInv'
    OBVIOUS
  <2>1. /\ [EngineNext]_engineVars /\ [PairNext]_pairVars /\ [ClientNext]_clientVars
        /\ [PullNext]_pullVars /\ [GossipNext]_gossipVars /\ [FirewallNext]_fwVars
    BY DEF MeshNext, MeshVars
  <2> QED
    BY <2>1, EngineStepInv, PairStepInv, ClientStepInv, PullStepInv, GossipStepInv,
       GossipTypedStep, FwStepInv DEF MeshInv
<1>3. MeshInv => MeshTypeOK
  BY DEF MeshInv, MeshTypeOK, EngineInv, EngineTyped, ClientInv, PullInv, GossipTyped, FwInv, FwTyped
<1> QED
  BY <1>1, <1>2, <1>3, PTL DEF MeshFairSpec, MeshSpec
===============================================================================
