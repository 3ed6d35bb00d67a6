------------------------------ MODULE WireProofs ------------------------------
(***************************************************************************)
(* Proofs about the peer bus, for any calls, connections and bounds, and   *)
(* about the camp server, for any camps, machines and addresses.           *)
(***************************************************************************)
EXTENDS MCWire, FiniteSetTheorems, TLAPS

-----------------------------------------------------------------------------
(* The operators of the table.                                             *)

\* An upsert keeps the types of the table, and every address in the reverse
\* map is still the address of the peer it names.
LEMMA UpsertKeeps ==
  ASSUME TypeOK, SourceNamesItsPeer, NEW s \in Slots, NEW e \in Endpoints, Upsert(s, e)
  PROVE  /\ reg' \in [Slots -> Endpoints \cup {NoEndpoint}]
         /\ age' \in [Slots -> 0..(EvictAfter + 1)]
         /\ bySrc' \in [Endpoints -> Slots \cup {Nobody}]
         /\ SourceNamesItsPeer'
<1>1. reg' \in [Slots -> Endpoints \cup {NoEndpoint}]
  BY DEF Upsert, TypeOK
<1>2. age' \in [Slots -> 0..(EvictAfter + 1)]
  BY CountAssumption DEF Upsert, TypeOK
<1>3. bySrc' \in [Endpoints -> Slots \cup {Nobody}]
  BY DEF Upsert, TypeOK
<1>4. ASSUME NEW x \in Endpoints, bySrc'[x] # Nobody PROVE reg'[bySrc'[x]] = x
  <2>1. CASE x = e
    BY <2>1 DEF Upsert, TypeOK
  <2>2. CASE x # e
    <3>1. x # reg[s] /\ bySrc'[x] = bySrc[x]
      BY <1>4, <2>2 DEF Upsert
    <3>2. reg[bySrc[x]] = x /\ bySrc[x] \in Slots
      BY <1>4, <3>1 DEF SourceNamesItsPeer, TypeOK
    <3>3. bySrc[x] # s
      BY <3>1, <3>2
    <3>. QED
      BY <3>1, <3>2, <3>3 DEF Upsert, TypeOK
  <2>. QED
    BY <2>1, <2>2
<1>5. SourceNamesItsPeer'
  BY <1>4 DEF SourceNamesItsPeer
<1>. QED
  BY <1>1, <1>2, <1>3, <1>5

\* The same of an eviction.
LEMMA EvictKeeps ==
  ASSUME TypeOK, SourceNamesItsPeer, EvictStale
  PROVE  /\ reg' \in [Slots -> Endpoints \cup {NoEndpoint}]
         /\ age' \in [Slots -> 0..(EvictAfter + 1)]
         /\ bySrc' \in [Endpoints -> Slots \cup {Nobody}]
         /\ SourceNamesItsPeer'
<1>1. reg' \in [Slots -> Endpoints \cup {NoEndpoint}]
  BY DEF EvictStale, TypeOK
<1>2. age' \in [Slots -> 0..(EvictAfter + 1)]
  BY CountAssumption DEF EvictStale, TypeOK
<1>3. bySrc' \in [Endpoints -> Slots \cup {Nobody}]
  BY DEF EvictStale, TypeOK
<1>4. ASSUME NEW x \in Endpoints, bySrc'[x] # Nobody PROVE reg'[bySrc'[x]] = x
  <2>1. bySrc'[x] = bySrc[x] /\ \A s \in Idle : reg[s] # x
    BY <1>4 DEF EvictStale
  <2>2. bySrc[x] \in Slots /\ reg[bySrc[x]] = x
    BY <1>4, <2>1 DEF SourceNamesItsPeer, TypeOK
  <2>3. bySrc[x] \notin Idle
    BY <2>1, <2>2
  <2>. QED
    BY <2>1, <2>2, <2>3 DEF EvictStale
<1>5. SourceNamesItsPeer'
  BY <1>4 DEF SourceNamesItsPeer
<1>. QED
  BY <1>1, <1>2, <1>3, <1>5

\* What relayLookup finds is a frame between two members of one camp.
LEMMA LookupFindsCampmates ==
  ASSUME TypeOK, SourceNamesItsPeer, NEW src \in Endpoints, NEW to \in Pubs,
         RelayLookup(src, to) # Dropped
  PROVE  LET r == RelayLookup(src, to) IN
         /\ r \in [src : Endpoints, from : Pubs, to : Pubs, addr : Endpoints]
         /\ \E c \in Camps : reg[<<c, r.from>>] = r.src /\ reg[<<c, r.to>>] = r.addr
<1> DEFINE c == bySrc[src][1]
           target == <<c, to>>
           r == RelayLookup(src, to)
<1>1. bySrc[src] # Nobody /\ Registered(target)
  BY DEF RelayLookup
<1>2. r = [src |-> src, from |-> bySrc[src][2], to |-> to, addr |-> reg[target]]
  BY <1>1 DEF RelayLookup
<1>3. bySrc[src] \in Slots
  BY <1>1 DEF TypeOK
<1>4. c \in Camps /\ bySrc[src][2] \in Pubs /\ bySrc[src] = <<c, bySrc[src][2]>>
  BY <1>3 DEF Slots
<1>5. target \in Slots
  BY <1>4 DEF Slots
<1>6. reg[target] \in Endpoints
  BY <1>1, <1>5 DEF Registered, TypeOK
<1>7. reg[bySrc[src]] = src
  BY <1>1 DEF SourceNamesItsPeer
<1>8. r \in [src : Endpoints, from : Pubs, to : Pubs, addr : Endpoints]
  BY <1>2, <1>4, <1>6
<1>9. reg[<<c, r.from>>] = r.src /\ reg[<<c, r.to>>] = r.addr
  BY <1>2, <1>4, <1>7
<1>. QED
  BY <1>4, <1>8, <1>9

-----------------------------------------------------------------------------
(* The inductive invariant: types, the soundness of the reverse map, and   *)
(* what the last step relayed.                                             *)

IInv == TypeOK /\ SourceNamesItsPeer /\ RelayStaysInCamp

LEMMA InitIInv == Init => IInv
<1> SUFFICES ASSUME Init PROVE IInv
  OBVIOUS
<1>1. TypeOK
  BY CountAssumption DEF Init, TypeOK
<1>2. SourceNamesItsPeer
  BY DEF Init, SourceNamesItsPeer
<1>3. RelayStaysInCamp
  BY DEF Init, RelayStaysInCamp
<1>. QED
  BY <1>1, <1>2, <1>3 DEF IInv

\* Nothing relayed, nothing to show.
LEMMA DroppedKeeps ==
  ASSUME relayed' = Dropped
  PROVE  /\ RelayStaysInCamp'
         /\ relayed' \in [src : Endpoints, from : Pubs, to : Pubs, addr : Endpoints]
                           \cup {Dropped}
BY DEF RelayStaysInCamp

\* What the steps of the machines and the network leave alone.
LEMMA QuietKeeps ==
  ASSUME IInv, UNCHANGED hub
  PROVE  /\ reg' \in [Slots -> Endpoints \cup {NoEndpoint}]
         /\ age' \in [Slots -> 0..(EvictAfter + 1)]
         /\ bySrc' \in [Endpoints -> Slots \cup {Nobody}]
         /\ SourceNamesItsPeer'
BY DEF IInv, TypeOK, SourceNamesItsPeer, hub

LEMMA MoveKeepsIInv ==
  ASSUME IInv, NEW p \in Pubs, NEW place \in Places \cup {Away}, Move(p, place)
  PROVE  IInv'
<1>1. UNCHANGED hub /\ relayed' = Dropped /\ UNCHANGED wire
  BY DEF Move
<1>2. home' \in [Pubs -> Places \cup {Away}]
  BY DEF Move, IInv, TypeOK
<1>3. moves' \in 0..MaxMoves
  BY CountAssumption DEF Move, IInv, TypeOK
<1>4. wire' \subseteq Announces
  BY <1>1 DEF IInv, TypeOK
<1>. QED
  BY <1>1, <1>2, <1>3, <1>4, QuietKeeps, DroppedKeeps DEF IInv, TypeOK

LEMMA NextKeepsIInv == IInv /\ [Next]_vars => IInv'
<1> SUFFICES ASSUME IInv, [Next]_vars PROVE IInv'
  OBVIOUS
<1>0. TypeOK /\ SourceNamesItsPeer
  BY DEF IInv
<1>1. ASSUME NEW m \in wire, HearAnnounce(m) PROVE IInv'
  <2>1. <<m.camp, m.pub>> \in Slots /\ m.src \in Endpoints
    BY <1>0 DEF TypeOK, Announces, Slots
  <2>2. /\ Upsert(<<m.camp, m.pub>>, m.src) /\ relayed' = Dropped
        /\ wire' \subseteq wire /\ UNCHANGED <<home, moves>>
    BY <1>1 DEF HearAnnounce
  <2>3. /\ reg' \in [Slots -> Endpoints \cup {NoEndpoint}]
        /\ age' \in [Slots -> 0..(EvictAfter + 1)]
        /\ bySrc' \in [Endpoints -> Slots \cup {Nobody}]
        /\ SourceNamesItsPeer'
    BY <1>0, <2>1, <2>2, UpsertKeeps
  <2>. QED
    BY <1>0, <2>2, <2>3, DroppedKeeps DEF IInv, TypeOK
<1>2. ASSUME NEW m \in wire, LoseAnnounce(m) PROVE IInv'
  <2>1. UNCHANGED hub /\ relayed' = Dropped /\ wire' \subseteq wire
        /\ UNCHANGED <<home, moves>>
    BY <1>2 DEF LoseAnnounce
  <2>. QED
    BY <1>0, <2>1, QuietKeeps, DroppedKeeps DEF IInv, TypeOK
<1>3. ASSUME NEW e \in Endpoints, NEW p \in Pubs, HandleRelay(e, p) PROVE IInv'
  <2>1. /\ RelayLookup(e, p) # Dropped /\ relayed' = RelayLookup(e, p)
        /\ UNCHANGED hub /\ UNCHANGED <<home, wire, moves>>
    BY <1>3 DEF HandleRelay
  <2>2. /\ relayed' \in [src : Endpoints, from : Pubs, to : Pubs, addr : Endpoints]
        /\ \E c \in Camps : /\ reg[<<c, relayed'.from>>] = relayed'.src
                            /\ reg[<<c, relayed'.to>>] = relayed'.addr
    BY <1>0, <2>1, LookupFindsCampmates
  <2>3. RelayStaysInCamp'
    BY <2>1, <2>2 DEF RelayStaysInCamp, hub
  <2>. QED
    BY <1>0, <2>1, <2>2, <2>3, QuietKeeps DEF IInv, TypeOK
<1>4. CASE EvictStale
  <2>1. relayed' = Dropped /\ UNCHANGED <<home, wire, moves>>
    BY <1>4 DEF EvictStale
  <2>. QED
    BY <1>0, <1>4, <2>1, EvictKeeps, DroppedKeeps DEF IInv, TypeOK
<1>5. CASE ClockTick
  <2>1. relayed' = Dropped /\ UNCHANGED <<reg, bySrc, home, wire, moves>>
    BY <1>5 DEF ClockTick
  <2>2. age' \in [Slots -> 0..(EvictAfter + 1)]
    BY <1>0, <1>5, CountAssumption DEF ClockTick, TypeOK
  <2>3. SourceNamesItsPeer'
    BY <1>0, <2>1 DEF SourceNamesItsPeer
  <2>. QED
    BY <1>0, <2>1, <2>2, <2>3, DroppedKeeps DEF IInv, TypeOK
<1>6. ASSUME NEW p \in Pubs, Announce(p) PROVE IInv'
  <2>1. UNCHANGED hub /\ relayed' = Dropped /\ UNCHANGED <<home, moves>>
    BY <1>6 DEF Announce
  <2>2. home[p] \in Places
    BY <1>0, <1>6 DEF Announce, TypeOK
  <2>3. [camp |-> home[p].camp, pub |-> p, src |-> home[p].at] \in Announces
    BY <2>2 DEF Places, Announces
  <2>4. wire' \subseteq Announces
    BY <1>0, <1>6, <2>3 DEF Announce, TypeOK
  <2>. QED
    BY <1>0, <2>1, <2>4, QuietKeeps, DroppedKeeps DEF IInv, TypeOK
<1>7. ASSUME NEW p \in Pubs, Leave(p) PROVE IInv'
  BY <1>7, MoveKeepsIInv DEF Leave
<1>8. ASSUME NEW p \in Pubs, NEW e \in Endpoints, Rebind(p, e) PROVE IInv'
  <2>1. home[p] \in Places
    BY <1>0, <1>8 DEF Rebind, TypeOK
  <2>2. [home[p] EXCEPT !.at = e] \in Places
    BY <2>1 DEF Places
  <2>. QED
    BY <1>8, <2>2, MoveKeepsIInv DEF Rebind
<1>9. ASSUME NEW p \in Pubs, NEW e \in Endpoints, NEW c \in Camps, Join(p, c, e)
      PROVE  IInv'
  <2>1. [camp |-> c, at |-> e] \in Places
    BY DEF Places
  <2>. QED
    BY <1>9, <2>1, MoveKeepsIInv DEF Join
<1>10. CASE UNCHANGED vars
  <2>1. UNCHANGED hub /\ UNCHANGED <<home, wire, relayed, moves>>
    BY <1>10 DEF vars, hub
  <2>2. RelayStaysInCamp'
    BY <2>1 DEF IInv, RelayStaysInCamp, hub
  <2>. QED
    BY <1>0, <2>1, <2>2, QuietKeeps DEF IInv, TypeOK
<1>. QED
  BY <1>1, <1>2, <1>3, <1>4, <1>5, <1>6, <1>7, <1>8, <1>9, <1>10 DEF Next

\* The invariant holds of every behaviour.
THEOREM Invariance == Spec => []IInv
<1>1. Init => IInv
  BY InitIInv
<1>2. IInv /\ [Next]_vars => IInv'
  BY NextKeepsIInv
<1>. QED
  BY <1>1, <1>2, PTL DEF Spec

-----------------------------------------------------------------------------
(* The results.                                                            *)

\* Type correctness of the hub's table, the wire and the machines.
THEOREM TypeCorrect == Spec => []TypeOK
<1>1. IInv => TypeOK
  BY DEF IInv
<1>. QED
  BY <1>1, Invariance, PTL

\* The reverse map only ever names a peer that is registered at the address
\* it is asked for, for whatever machines come, go, move and swap addresses.
THEOREM ReverseMapIsSound == Spec => []SourceNamesItsPeer
<1>1. IInv => SourceNamesItsPeer
  BY DEF IInv
<1>. QED
  BY <1>1, Invariance, PTL

\* A relayed frame passes between two members of one camp, from the address
\* of the one it names as its sender to that of the other.
THEOREM RelayIsConfined == Spec => []RelayStaysInCamp
<1>1. IInv => RelayStaysInCamp
  BY DEF IInv
<1>. QED
  BY <1>1, Invariance, PTL

\* A step that forgets whom an address belongs to, and leaves it registered
\* there, had another entry at that address.
LEMMA StepLosesToSharer ==
  ASSUME IInv, [Next]_vars,
         NEW s \in Slots, NEW e \in Endpoints,
         bySrc[e] = s, bySrc'[e] # s, reg'[s] = e
  PROVE  \E t \in Slots \ {s} : reg[t] = e \/ reg'[t] = e
<1>0. TypeOK /\ SourceNamesItsPeer /\ reg[s] = e
  <2>1. s # Nobody
    BY OutsideAssumption
  <2>. QED
    BY <2>1 DEF IInv, SourceNamesItsPeer
<1>1. ASSUME NEW m \in wire, HearAnnounce(m)
      PROVE  \E t \in Slots \ {s} : reg[t] = e \/ reg'[t] = e
  <2> DEFINE t == <<m.camp, m.pub>>
  <2>1. t \in Slots /\ Upsert(t, m.src)
    BY <1>0, <1>1 DEF TypeOK, Announces, Slots, HearAnnounce
  <2>2. e = m.src \/ e = reg[t]
    BY <2>1 DEF Upsert
  <2>3. t # s
    <3>1. SUFFICES ASSUME t = s PROVE FALSE
      OBVIOUS
    <3>2. reg'[s] = m.src
      BY <1>0, <2>1, <3>1 DEF Upsert, TypeOK
    <3>3. bySrc'[e] = s
      BY <2>1, <3>1, <3>2 DEF Upsert
    <3>. QED
      BY <3>3
  <2>4. reg'[t] = m.src
    BY <1>0, <2>1 DEF Upsert, TypeOK
  <2>. QED
    BY <2>1, <2>2, <2>3, <2>4
<1>2. CASE EvictStale
  <2>1. PICK t \in Idle : reg[t] = e
    BY <1>2 DEF EvictStale
  <2>2. s \notin Idle
    <3>1. SUFFICES ASSUME s \in Idle PROVE FALSE
      OBVIOUS
    <3>2. reg'[s] = NoEndpoint
      BY <1>2, <3>1 DEF EvictStale
    <3>. QED
      BY <3>2, OutsideAssumption
  <2>. QED
    BY <2>1, <2>2 DEF Idle
<1>3. CASE UNCHANGED bySrc
  BY <1>3
<1>4. [Next]_vars =>
        (\E m \in wire : HearAnnounce(m)) \/ EvictStale \/ UNCHANGED bySrc
  BY DEF Next, LoseAnnounce, HandleRelay, ClockTick, Announce, Leave, Rebind, Join,
         Move, hub, vars
<1>. QED
  BY <1>1, <1>2, <1>3, <1>4

\* Only a peer that shared its address with another entry can drop out of the
\* reverse map while it is in the table.
THEOREM OnlySharersLoseTheirSource == Spec => LosesSourceOnlyToSharer
<1>1. IInv /\ [Next]_vars => ForgetsOnlySharers
  BY StepLosesToSharer DEF ForgetsOnlySharers
<1>. QED
  BY <1>1, Invariance, PTL DEF Spec, LosesSourceOnlyToSharer

-----------------------------------------------------------------------------
(* The bus.                                                                *)

Shaking(k) == call[k].pc \in {"hand", "cache"}

\* How the parts of the bus go together: a Stop holds what it took, calls are
\* of a service that was started, and one caller dials for all.
BusShape ==
  /\ running => ~stopping
  /\ running \/ stopping => gen > 0
  /\ closing # NoConnection => stopping
  /\ \A k \in Calls : call[k].pc # "idle" => gen > 0
  /\ \A k \in Calls : call[k].pc \in {"cache", "talk"} => call[k].conn # NoConnection
  /\ dialing <=> \E k \in Calls : Shaking(k)
  /\ \A j, k \in Calls : Shaking(j) /\ Shaking(k) => j = k

BusInv == BusTypeOK /\ BusShape /\ CachedIsServed /\ NoStrayDial

\* The invariant in the form the steps use.
LEMMA BusFacts ==
  ASSUME BusInv
  PROVE  /\ ConnCount \in Nat /\ MaxStarts \in Nat /\ Budget \in Nat /\ Changes \in Nat
         /\ PingFailLimit \in Nat \ {0} /\ EvictGrace \in Nat \ {0}
         /\ running \in BOOLEAN /\ stopping \in BOOLEAN /\ dialing \in BOOLEAN
         /\ sweeping \in BOOLEAN /\ knows \in BOOLEAN /\ peerUp \in BOOLEAN
         /\ gen \in 0..MaxStarts /\ cancelled \in 0..gen
         /\ listener \in {"off", "binding", "on"} /\ linkUp \in {"none", "up", "down"}
         /\ cached \in Conns \cup {NoConnection} /\ closing \in Conns \cup {NoConnection}
         /\ pingFail \in 0..PingFailLimit /\ evictMiss \in 0..(EvictGrace - 1)
         /\ call \in [Calls -> CallRecord] /\ conn \in [Conns -> ConnRecord]
         /\ \A k \in Calls : call[k] \in CallRecord
         /\ \A c \in Conns : conn[c] \in ConnRecord
         /\ budget \in 0..Budget /\ changes \in 0..Changes
         /\ NoConnection \notin Conns
BY BusAssumption DEF BusInv, BusTypeOK, Conns, NoConnection

LEMMA BusInitInv == BusInit => BusInv
<1> SUFFICES ASSUME BusInit PROVE BusInv
  OBVIOUS
<1>1. IdleCall \in CallRecord /\ NoConn \in ConnRecord
  BY BusAssumption DEF IdleCall, NoConn, CallRecord, ConnRecord
<1>2. BusTypeOK
  <2>1. call \in [Calls -> CallRecord] /\ conn \in [Conns -> ConnRecord]
    BY <1>1 DEF BusInit
  <2>2. /\ gen \in 0..MaxStarts /\ cancelled \in 0..gen /\ pingFail \in 0..PingFailLimit
        /\ evictMiss \in 0..(EvictGrace - 1) /\ budget \in 0..Budget /\ changes \in 0..Changes
    BY BusAssumption DEF BusInit
  <2> QED
    BY <2>1, <2>2 DEF BusInit, BusTypeOK
<1>3. BusShape
  BY DEF BusInit, BusShape, Shaking, IdleCall
<1>4. CachedIsServed /\ NoStrayDial
  BY DEF BusInit, CachedIsServed, NoStrayDial, NoConn
<1> QED
  BY <1>2, <1>3, <1>4 DEF BusInv

LEMMA PayKeeps ==
  ASSUME Budget \in Nat, budget \in 0..Budget, NEW free, Pay(free) PROVE budget' \in 0..Budget
BY DEF Pay

LEMMA GoIs ==
  ASSUME BusInv, NEW k \in Calls, NEW r \in CallRecord, Go(k, r)
  PROVE  /\ call' \in [Calls -> CallRecord]
         /\ call'[k] = r
         /\ \A j \in Calls : j # k => call'[j] = call[j]
BY BusFacts DEF Go

LEMMA EndedIs ==
  ASSUME BusInv, NEW k \in Calls, NEW o \in {"answered", "missed"}
  PROVE  /\ Ended(k, o) \in CallRecord
         /\ Ended(k, o).pc \in {"idle", o}
<1> USE BusFacts
<1>1. call[k].gen \in 0..MaxStarts
  BY DEF CallRecord
<1>2. CASE k \in Pings
  BY <1>1, <1>2 DEF Ended, IdleCall, CallRecord
<1>3. CASE k \notin Pings
  BY <1>3 DEF Ended, IdleCall, CallRecord
<1> QED
  BY <1>2, <1>3

LEMMA ReleaseIs ==
  ASSUME BusInv, NEW k \in Calls, NEW r \in CallRecord, Release(k, r)
  PROVE  /\ call' \in [Calls -> CallRecord]
         /\ call'[k] = r
         /\ \A j \in Calls : j # k =>
              /\ call'[j].conn = call[j].conn
              /\ call'[j].pc = IF call[j].pc = "join" THEN "dial" ELSE call[j].pc
         /\ dialing' = FALSE
<1>1. \A j \in Calls : [call[j] EXCEPT !.pc = "dial"] \in CallRecord
  BY BusFacts DEF CallRecord
<1>2. call' = [j \in Calls |-> IF j = k THEN r
                              ELSE IF call[j].pc = "join" THEN [call[j] EXCEPT !.pc = "dial"]
                              ELSE call[j]]
  BY DEF Release
<1>3. call' \in [Calls -> CallRecord]
  BY <1>1, <1>2, BusFacts
<1>4. \A j \in Calls : j # k =>
              /\ call'[j].conn = call[j].conn
              /\ call'[j].pc = IF call[j].pc = "join" THEN "dial" ELSE call[j].pc
  BY <1>2, BusFacts DEF CallRecord
<1> QED
  BY <1>2, <1>3, <1>4 DEF Release

LEMMA CloseIs ==
  ASSUME BusInv, NEW c \in Conns \cup {NoConnection}
  PROVE  /\ Close(c) \in [Conns -> ConnRecord]
         /\ \A d \in Conns : /\ Close(c)[d].serve = conn[d].serve
                             /\ d # c => Close(c)[d] = conn[d]
                             /\ d = c => ~Close(c)[d].ours
<1>1. \A d \in Conns : /\ Closed(conn[d]) \in ConnRecord
                       /\ Closed(conn[d]).serve = conn[d].serve /\ ~Closed(conn[d]).ours
  BY BusFacts DEF Closed, NoConn, ConnRecord
<1>2. CASE c = NoConnection
  BY <1>2, BusFacts DEF Close
<1>3. CASE c # NoConnection
  <2>1. Close(c) = [conn EXCEPT ![c] = Closed(conn[c])]
    BY <1>3 DEF Close
  <2> QED
    BY <1>1, <1>3, <2>1, BusFacts
<1> QED
  BY <1>2, <1>3

LEMMA ConnectIs ==
  ASSUME BusInv, NEW c \in Conns, NEW inbound \in BOOLEAN, Connect(c, inbound)
  PROVE  /\ conn' \in [Conns -> ConnRecord]
         /\ c # cached /\ c # closing /\ \A k \in Calls : call[k].conn # c
         /\ conn'[c].inbound = inbound
         /\ \A d \in Conns : d # c => conn'[d] = conn[d]
<1>1. [NoConn EXCEPT !.ours = TRUE, !.theirs = TRUE, !.inbound = inbound, !.queued = inbound]
        \in ConnRecord
  <2>1. NoConn \in ConnRecord
    BY BusFacts DEF NoConn, ConnRecord
  <2> QED
    BY <2>1 DEF ConnRecord
<1>2. conn' = [conn EXCEPT ![c] = [NoConn EXCEPT !.ours = TRUE, !.theirs = TRUE,
                                     !.inbound = inbound, !.queued = inbound]]
  BY DEF Connect
<1>3. conn'[c].inbound = inbound
  BY <1>2, BusFacts DEF NoConn
<1> QED
  BY <1>1, <1>2, <1>3, BusFacts DEF Connect, Unused

\* The steps of one connection: it is accepted, or closes further.
LEMMA ConnStepInv ==
  ASSUME BusInv, NEW c \in Conns, Accept(c) \/ EndAccept(c) \/ Notice(c) \/ PeerClose(c) \/ Stall(c)
  PROVE  BusInv'
<1> USE BusFacts
<1>1. CASE Accept(c)
  <2>1. /\ conn[c].queued /\ gen > cancelled
        /\ conn' = [conn EXCEPT ![c].queued = FALSE, ![c].serve = gen]
        /\ cached' = IF knows /\ cached = NoConnection THEN c ELSE cached
        /\ UNCHANGED <<running, gen, cancelled, listener, closing, stopping, dialing, linkUp, pingFail,
                       evictMiss, sweeping, call, knows, peerUp, changes, budget>>
    BY <1>1 DEF Accept, service, links, outside
  <2>2. /\ conn' \in [Conns -> ConnRecord]
        /\ conn'[c].serve = gen /\ conn'[c].inbound = conn[c].inbound
        /\ conn'[c].ours = conn[c].ours /\ conn'[c].theirs = conn[c].theirs
        /\ \A d \in Conns : d # c => conn'[d] = conn[d]
    BY <2>1, ZenonT(30) DEF ConnRecord
  <2>3. BusTypeOK'
    BY <2>1, <2>2 DEF BusInv, BusTypeOK
  <2>4. BusShape'
    BY <2>1 DEF BusInv, BusShape, Shaking
  <2>5. CachedIsServed'
    BY <2>1, <2>2 DEF BusInv, CachedIsServed, NoConnection
  <2>6. NoStrayDial'
    BY <2>1, <2>2 DEF BusInv, NoStrayDial, NoConnection
  <2> QED
    BY <2>3, <2>4, <2>5, <2>6 DEF BusInv
<1>2. CASE EndAccept(c)
  <2>1. /\ conn[c].serve # 0 /\ (~conn[c].ours \/ conn[c].serve <= cancelled)
        /\ conn' = [conn EXCEPT ![c].serve = 0]
        /\ cached' = IF cached = c THEN NoConnection ELSE cached
        /\ UNCHANGED <<running, gen, cancelled, listener, closing, stopping, dialing, linkUp, pingFail,
                       evictMiss, sweeping, call, knows, peerUp, changes, budget>>
    BY <1>2 DEF EndAccept, Forgotten, service, links, outside
  <2>2. /\ conn' \in [Conns -> ConnRecord]
        /\ conn'[c].inbound = conn[c].inbound
        /\ conn'[c].ours = conn[c].ours /\ conn'[c].theirs = conn[c].theirs
        /\ \A d \in Conns : d # c => conn'[d] = conn[d]
    BY <2>1 DEF ConnRecord
  <2>3. BusTypeOK'
    BY <2>1, <2>2 DEF BusInv, BusTypeOK
  <2>4. BusShape'
    BY <2>1 DEF BusInv, BusShape, Shaking
  <2>5. CachedIsServed'
    BY <2>1, <2>2 DEF BusInv, CachedIsServed, NoConnection
  <2>6. NoStrayDial'
    <3>1. ~conn[c].ours \/ cancelled > 0
      BY <2>1 DEF ConnRecord
    <3> QED
      BY <2>1, <2>2, <3>1 DEF BusInv, NoStrayDial, NoConnection
  <2> QED
    BY <2>3, <2>4, <2>5, <2>6 DEF BusInv
<1>3. CASE Notice(c) \/ PeerClose(c) \/ Stall(c)
  <2>1. /\ UNCHANGED <<running, gen, cancelled, listener, closing, stopping, cached, dialing, linkUp,
                       pingFail, evictMiss, sweeping, call, knows, peerUp, changes>>
        /\ budget' \in 0..Budget
        /\ \/ conn' = Close(c)
           \/ conn' = [conn EXCEPT ![c].theirs = FALSE]
           \/ conn' = [conn EXCEPT ![c].stalled = TRUE]
    BY <1>3, PayKeeps DEF Notice, PeerClose, Stall, service, links, outside
  <2>2. /\ conn' \in [Conns -> ConnRecord]
        /\ conn'[c].serve = conn[c].serve
        /\ conn'[c].ours => /\ conn[c].ours /\ conn'[c].inbound = conn[c].inbound
                            /\ conn'[c].theirs => conn[c].theirs
        /\ \A d \in Conns : d # c => conn'[d] = conn[d]
    <3>1. CASE conn' = Close(c)
      BY <3>1, CloseIs
    <3>2. CASE conn' = [conn EXCEPT ![c].theirs = FALSE]
      BY <3>2, ZenonT(30) DEF ConnRecord
    <3>3. CASE conn' = [conn EXCEPT ![c].stalled = TRUE]
      BY <3>3, ZenonT(30) DEF ConnRecord
    <3> QED
      BY <2>1, <3>1, <3>2, <3>3
  <2>3. BusTypeOK'
    BY <2>1, <2>2 DEF BusInv, BusTypeOK
  <2>4. BusShape'
    BY <2>1 DEF BusInv, BusShape, Shaking
  <2>5. CachedIsServed'
    BY <2>1, <2>2 DEF BusInv, CachedIsServed, NoConnection
  <2>6. NoStrayDial'
    BY <2>1, <2>2 DEF BusInv, NoStrayDial, NoConnection
  <2> QED
    BY <2>3, <2>4, <2>5, <2>6 DEF BusInv
<1> QED
  BY <1>1, <1>2, <1>3

\* Call k makes a step outside the handshake.
Moves(k) ==
  \/ call'[k] = call[k]
  \/ /\ ~Shaking(k) /\ ~Shaking(k)'
     /\ call'[k].pc # "idle" => gen > 0
     /\ call'[k].pc = "talk" => call'[k].conn # NoConnection

\* Steps that leave the handshake alone, and the connections but for a drop.
LEMMA MovesInv ==
  ASSUME BusInv, call' \in [Calls -> CallRecord], \A k \in Calls : Moves(k),
         UNCHANGED <<service, dialing, outside>>,
         UNCHANGED <<cached, conn>> \/ (cached' = NoConnection /\ conn' = Close(cached)),
         linkUp' \in {"none", "up", "down"}, pingFail' \in 0..PingFailLimit,
         evictMiss' \in 0..(EvictGrace - 1), sweeping' \in BOOLEAN, budget' \in 0..Budget
  PROVE  BusInv'
<1> USE BusFacts
<1>1. UNCHANGED <<running, gen, cancelled, listener, closing, stopping, dialing, knows, peerUp, changes>>
  BY DEF service, outside
<1>2. /\ conn' \in [Conns -> ConnRecord] /\ cached' \in Conns \cup {NoConnection}
      /\ \A c \in Conns : /\ conn'[c].serve = conn[c].serve
                          /\ conn'[c].ours => conn'[c] = conn[c]
                          /\ cached = c => cached' = c \/ ~conn'[c].ours
      /\ cached' = cached \/ cached' = NoConnection
  <2>1. CASE UNCHANGED <<cached, conn>>
    BY <2>1
  <2>2. CASE cached' = NoConnection /\ conn' = Close(cached)
    BY <2>2, CloseIs
  <2> QED
    BY <2>1, <2>2
<1>3. BusTypeOK'
  BY <1>1, <1>2 DEF BusInv, BusTypeOK
<1>4. BusShape'
  <2>1. \A k \in Calls : Shaking(k)' <=> Shaking(k)
    BY DEF Moves, Shaking
  <2>2. \A k \in Calls : call'[k].pc # "idle" => gen > 0
    BY DEF Moves, BusInv, BusShape
  <2>3. \A k \in Calls : call'[k].pc \in {"cache", "talk"} => call'[k].conn # NoConnection
    BY DEF Moves, BusInv, BusShape, Shaking
  <2> QED
    BY <1>1, <2>1, <2>2, <2>3 DEF BusInv, BusShape
<1>5. CachedIsServed'
  BY <1>2 DEF BusInv, CachedIsServed
<1>6. NoStrayDial'
  <2> SUFFICES ASSUME NEW c \in Conns, conn'[c].ours, conn'[c].theirs, ~conn'[c].inbound,
                      c \notin {cached', closing'},
                      \A k \in Calls : call'[k].conn = c => call'[k].pc # "cache"
               PROVE  cancelled > 0
    BY <1>1 DEF NoStrayDial
  <2>1. conn'[c] = conn[c] /\ c \notin {cached, closing}
    BY <1>1, <1>2
  <2>2. \A k \in Calls : call[k].conn = c => call[k].pc # "cache"
    BY DEF Moves, Shaking
  <2> QED
    BY <2>1, <2>2 DEF BusInv, NoStrayDial
<1> QED
  BY <1>3, <1>4, <1>5, <1>6 DEF BusInv

\* The ways of a call but for a handshake that begins or ends.
LEMMA CallMoves ==
  ASSUME BusInv, NEW k \in Calls,
         \/ Begin(k) /\ k \in Apps
         \/ JoinDial(k) \/ Talk(k) \/ Score(k) \/ Reopen(k) \/ DropDead(k)
         \/ Dial(k) /\ UNCHANGED dialing
  PROVE  BusInv'
<1> USE BusFacts
<1>0. call[k].pc # "idle" => gen > 0
  BY DEF BusInv, BusShape
<1> DEFINE Typed == /\ linkUp' \in {"none", "up", "down"} /\ pingFail' \in 0..PingFailLimit
                    /\ evictMiss' \in 0..(EvictGrace - 1) /\ sweeping' \in BOOLEAN
                    /\ budget' \in 0..Budget
           Quiet0 == UNCHANGED <<service, dialing, outside>>
           Kept == UNCHANGED <<cached, conn>> \/ (cached' = NoConnection /\ conn' = Close(cached))
<1>1. CASE Begin(k)
  <2> DEFINE r == At(k, "dial")
  <2>1. gen > 0 /\ call[k] = IdleCall /\ Go(k, r) /\ Quiet0 /\ Kept /\ Typed
    BY <1>1 DEF Begin, links
  <2>2. r \in CallRecord /\ r.pc = "dial"
    BY DEF At, CallRecord
  <2>3. call' \in [Calls -> CallRecord] /\ \A j \in Calls : Moves(j)
    <3> HIDE DEF r
    <3> QED
      BY <2>1, <2>2, GoIs DEF Moves, Shaking, IdleCall
  <2> QED
    BY <2>1, <2>3, MovesInv
<1>2. CASE JoinDial(k)
  <2> DEFINE r == Ended(k, "missed")
  <2>1. call[k].pc = "join" /\ Go(k, r) /\ Quiet0 /\ Kept /\ Typed
    BY <1>2, PayKeeps DEF JoinDial, links
  <2>2. r \in CallRecord /\ r.pc \in {"idle", "missed"}
    BY EndedIs
  <2>3. call' \in [Calls -> CallRecord] /\ \A j \in Calls : Moves(j)
    <3> HIDE DEF r
    <3> QED
      BY <1>0, <2>1, <2>2, GoIs DEF Moves, Shaking
  <2> QED
    BY <2>1, <2>3, MovesInv
<1>3. CASE Talk(k)
  <2>1. PICK r \in {Ended(k, "answered"), Ended(k, "missed")} :
          call[k].pc = "talk" /\ Go(k, r) /\ Quiet0 /\ Kept /\ Typed
    BY <1>3, PayKeeps DEF Talk, links
  <2>2. r \in CallRecord /\ r.pc \in {"idle", "answered", "missed"}
    BY EndedIs
  <2>3. call' \in [Calls -> CallRecord] /\ \A j \in Calls : Moves(j)
    BY <1>0, <2>1, <2>2, GoIs DEF Moves, Shaking
  <2> QED
    BY <2>1, <2>3, MovesInv
<1>4. CASE Score(k)
  <2>1. PICK r \in {IdleCall, At(k, "drop")} :
          call[k].pc \in {"answered", "missed"} /\ Go(k, r) /\ Quiet0 /\ Kept /\ Typed
    BY <1>4 DEF Score
  <2>2. r \in CallRecord /\ r.pc \in {"idle", "drop"}
    <3>1. IdleCall \in CallRecord /\ IdleCall.pc = "idle"
      BY DEF IdleCall, CallRecord
    <3>2. At(k, "drop") \in CallRecord /\ At(k, "drop").pc = "drop"
      BY DEF At, CallRecord
    <3> QED
      BY <3>1, <3>2
  <2>3. call' \in [Calls -> CallRecord] /\ \A j \in Calls : Moves(j)
    BY <1>0, <2>1, <2>2, GoIs DEF Moves, Shaking
  <2> QED
    BY <2>1, <2>3, MovesInv
<1>5. CASE Reopen(k)
  <2> DEFINE r == [At(k, "dial") EXCEPT !.conn = NoConnection, !.again = TRUE]
  <2>1. call[k].pc = "talk" /\ Go(k, r) /\ Quiet0 /\ Kept /\ Typed
    BY <1>5 DEF Reopen, Drop, links
  <2>2. r \in CallRecord /\ r.pc = "dial"
    BY DEF At, CallRecord
  <2>3. call' \in [Calls -> CallRecord] /\ \A j \in Calls : Moves(j)
    <3> HIDE DEF r
    <3> QED
      BY <1>0, <2>1, <2>2, GoIs DEF Moves, Shaking
  <2> QED
    BY <2>1, <2>3, MovesInv
<1>6. CASE DropDead(k)
  <2>1. call[k].pc = "drop" /\ Go(k, IdleCall) /\ Quiet0 /\ Kept /\ Typed
    BY <1>6 DEF DropDead, Drop, links
  <2>2. IdleCall \in CallRecord /\ IdleCall.pc = "idle"
    BY DEF IdleCall, CallRecord
  <2>3. call' \in [Calls -> CallRecord] /\ \A j \in Calls : Moves(j)
    BY <1>0, <2>1, <2>2, GoIs DEF Moves, Shaking
  <2> QED
    BY <2>1, <2>3, MovesInv
<1>7. CASE Dial(k) /\ UNCHANGED dialing
  <2>0. call[k].pc = "dial" /\ Quiet0 /\ Kept /\ Typed
    BY <1>7 DEF Dial, links
  <2>1. CASE cached # NoConnection
    <3> DEFINE r == On(k, cached)
    <3>1. r \in CallRecord /\ r.pc = "talk" /\ r.conn = cached
      BY <2>1 DEF On, CallRecord
    <3>2. Go(k, r)
      BY <1>7, <2>1 DEF Dial
    <3> HIDE DEF r
    <3>3. call' \in [Calls -> CallRecord] /\ \A j \in Calls : Moves(j)
      BY <1>0, <2>0, <2>1, <3>1, <3>2, GoIs DEF Moves, Shaking
    <3> QED
      BY <2>0, <3>3, MovesInv
  <2>2. CASE cached = NoConnection
    <3> DEFINE r == At(k, "join")
    <3>1. r \in CallRecord /\ r.pc = "join"
      BY DEF At, CallRecord
    <3>2. Go(k, r)
      BY <1>7, <2>2 DEF Dial
    <3> HIDE DEF r
    <3>3. call' \in [Calls -> CallRecord] /\ \A j \in Calls : Moves(j)
      BY <1>0, <2>0, <3>1, <3>2, GoIs DEF Moves, Shaking
    <3> QED
      BY <2>0, <3>3, MovesInv
  <2> QED
    BY <2>1, <2>2
<1> QED
  BY <1>1, <1>2, <1>3, <1>4, <1>5, <1>6, <1>7

\* A handshake begins, succeeds or fails, and ends.
LEMMA DialInv == ASSUME BusInv, NEW k \in Calls, Dial(k), dialing' # dialing PROVE BusInv'
<1> USE BusFacts
<1> DEFINE r == At(k, "hand")
<1>1. /\ call[k].pc = "dial" /\ Go(k, r) /\ ~dialing /\ dialing' = TRUE
      /\ UNCHANGED <<running, gen, cancelled, listener, closing, stopping, cached, linkUp, pingFail,
                     evictMiss, sweeping, conn, knows, peerUp, changes, budget>>
  BY DEF Dial, service, links, outside
<1>2. r \in CallRecord /\ r.pc = "hand"
  BY DEF At, CallRecord
<1> HIDE DEF r
<1>3. call' \in [Calls -> CallRecord] /\ call'[k] = r /\ \A j \in Calls : j # k => call'[j] = call[j]
  BY <1>1, <1>2, GoIs
<1>4. BusTypeOK'
  BY <1>1, <1>3 DEF BusInv, BusTypeOK
<1>5. BusShape'
  BY <1>1, <1>2, <1>3 DEF BusInv, BusShape, Shaking
<1>6. CachedIsServed'
  BY <1>1 DEF BusInv, CachedIsServed
<1>7. NoStrayDial'
  BY <1>1, <1>2, <1>3 DEF BusInv, NoStrayDial
<1> QED
  BY <1>4, <1>5, <1>6, <1>7 DEF BusInv

LEMMA HandshakeInv == ASSUME BusInv, NEW k \in Calls, Handshake(k) PROVE BusInv'
<1> USE BusFacts
<1>1. /\ call[k].pc = "hand"
      /\ UNCHANGED <<running, gen, cancelled, listener, closing, stopping, cached, linkUp, pingFail,
                     evictMiss, sweeping, knows, peerUp, changes>>
  BY DEF Handshake, service, links, outside
<1>2. gen > 0 /\ dialing /\ \A j \in Calls : j # k => ~Shaking(j)
  BY <1>1 DEF BusInv, BusShape, Shaking
<1>3. ASSUME NEW c \in Conns, Connect(c, FALSE), Go(k, [At(k, "cache") EXCEPT !.conn = c]),
             UNCHANGED <<dialing, budget>>
      PROVE  BusInv'
  <2> DEFINE r == [At(k, "cache") EXCEPT !.conn = c]
  <2>1. r \in CallRecord /\ r.pc = "cache" /\ r.conn = c
    BY DEF At, CallRecord
  <2>2. call' \in [Calls -> CallRecord] /\ call'[k] = r /\ \A j \in Calls : j # k => call'[j] = call[j]
    BY <1>3, <2>1, GoIs
  <2> HIDE DEF r
  <2>3. /\ conn' \in [Conns -> ConnRecord] /\ c # cached /\ c # closing
        /\ \A d \in Conns : d # c => conn'[d] = conn[d]
    BY <1>3, ConnectIs
  <2>4. BusTypeOK'
    BY <1>1, <1>3, <2>2, <2>3 DEF BusInv, BusTypeOK
  <2>5. BusShape'
    BY <1>1, <1>2, <1>3, <2>1, <2>2 DEF BusInv, BusShape, Shaking
  <2>6. CachedIsServed'
    BY <1>1, <2>3 DEF BusInv, CachedIsServed
  <2>7. NoStrayDial'
    BY <1>1, <2>1, <2>2, <2>3 DEF BusInv, NoStrayDial
  <2> QED
    BY <2>4, <2>5, <2>6, <2>7 DEF BusInv
<1>4. ASSUME Release(k, Ended(k, "missed")), budget' \in 0..Budget, UNCHANGED conn PROVE BusInv'
  <2> DEFINE r == Ended(k, "missed")
  <2>1. r \in CallRecord /\ r.pc \in {"idle", "missed"}
    BY EndedIs
  <2>2. /\ call' \in [Calls -> CallRecord] /\ call'[k] = r /\ dialing' = FALSE
        /\ \A j \in Calls : j # k =>
             /\ call'[j].conn = call[j].conn
             /\ call'[j].pc = IF call[j].pc = "join" THEN "dial" ELSE call[j].pc
    BY <1>4, <2>1, ReleaseIs
  <2> HIDE DEF r
  <2>3. BusTypeOK'
    BY <1>1, <1>4, <2>2, ZenonT(30) DEF BusInv, BusTypeOK
  <2>4. BusShape'
    BY <1>1, <1>2, <2>1, <2>2 DEF BusInv, BusShape, Shaking
  <2>5. CachedIsServed'
    BY <1>1, <1>4 DEF BusInv, CachedIsServed
  <2>6. NoStrayDial'
    BY <1>1, <1>4, <2>2 DEF BusInv, NoStrayDial
  <2> QED
    BY <2>3, <2>4, <2>5, <2>6 DEF BusInv
<1> QED
  BY <1>3, <1>4, PayKeeps DEF Handshake

LEMMA CacheInv == ASSUME BusInv, NEW k \in Calls, Cache(k) PROVE BusInv'
<1> USE BusFacts
<1>1. /\ call[k].pc = "cache" /\ call[k].conn \in Conns
      /\ UNCHANGED <<running, gen, cancelled, listener, closing, stopping, linkUp, pingFail,
                     evictMiss, sweeping, knows, peerUp, changes, budget>>
  BY DEF Cache, service, links, outside, BusInv, BusShape, CallRecord
<1>2. gen > 0 /\ dialing /\ \A j \in Calls : j # k => ~Shaking(j)
  BY <1>1 DEF BusInv, BusShape, Shaking
\* Either way the call goes on, with a connection.
<1>3. ASSUME NEW r \in CallRecord, r.pc = "talk", r.conn # NoConnection, Release(k, r),
             conn' \in [Conns -> ConnRecord], cached' \in Conns
      PROVE  BusTypeOK' /\ BusShape'
  <2>1. /\ call' \in [Calls -> CallRecord] /\ call'[k] = r /\ dialing' = FALSE
        /\ \A j \in Calls : j # k =>
             /\ call'[j].conn = call[j].conn
             /\ call'[j].pc = IF call[j].pc = "join" THEN "dial" ELSE call[j].pc
    BY <1>3, ReleaseIs
  <2>2. BusTypeOK'
    BY <1>1, <1>3, <2>1 DEF BusInv, BusTypeOK
  <2>3. BusShape'
    BY <1>1, <1>2, <1>3, <2>1 DEF BusInv, BusShape, Shaking
  <2> QED
    BY <2>2, <2>3
<1>4. CASE cached # NoConnection
  <2> DEFINE r == On(k, cached)
  <2>1. conn' = Close(call[k].conn) /\ Release(k, r) /\ cached' = cached
    BY <1>4 DEF Cache
  <2>2. r \in CallRecord /\ r.pc = "talk" /\ r.conn # NoConnection
    BY <1>4 DEF On, CallRecord
  <2>3. /\ conn' \in [Conns -> ConnRecord]
        /\ \A d \in Conns : /\ conn'[d].serve = conn[d].serve
                            /\ d # call[k].conn => conn'[d] = conn[d]
                            /\ d = call[k].conn => ~conn'[d].ours
    BY <1>1, <2>1, CloseIs
  <2>4. \A j \in Calls : j # k => call'[j].pc # "cache" /\ call[j].pc # "cache"
    BY <2>1, <2>2, <1>2, ReleaseIs DEF Shaking
  <2>5. BusTypeOK' /\ BusShape'
    BY <1>3, <1>4, <2>1, <2>2, <2>3
  <2>6. CachedIsServed'
    BY <2>1, <2>3 DEF BusInv, CachedIsServed
  <2>7. NoStrayDial'
    BY <1>1, <2>1, <2>3, <2>4 DEF BusInv, NoStrayDial
  <2> QED
    BY <2>5, <2>6, <2>7 DEF BusInv
<1>5. CASE cached = NoConnection
  <2> DEFINE r == At(k, "talk")
             c == call[k].conn
  <2>1. conn' = [conn EXCEPT ![c].serve = gen] /\ Release(k, r) /\ cached' = c
    BY <1>5 DEF Cache
  <2>2. r \in CallRecord /\ r.pc = "talk" /\ r.conn # NoConnection
    BY <1>1 DEF At, CallRecord
  <2>3. /\ conn' \in [Conns -> ConnRecord] /\ conn'[c].serve = gen
        /\ \A d \in Conns : d # c => conn'[d] = conn[d]
    BY <1>1, <2>1 DEF ConnRecord
  <2>4. \A j \in Calls : j # k => call[j].pc # "cache"
    BY <1>2 DEF Shaking
  <2>5. BusTypeOK' /\ BusShape'
    BY <1>1, <1>3, <2>1, <2>2, <2>3
  <2>6. CachedIsServed'
    BY <1>2, <2>1, <2>3 DEF CachedIsServed
  <2>7. NoStrayDial'
    BY <1>1, <1>5, <2>1, <2>3, <2>4 DEF BusInv, NoStrayDial
  <2> QED
    BY <2>5, <2>6, <2>7 DEF BusInv
<1> QED
  BY <1>4, <1>5

\* The peer dials.
LEMMA PeerDialInv == ASSUME BusInv, PeerDial PROVE BusInv'
<1> USE BusFacts
<1>1. PICK c \in Conns : Connect(c, TRUE)
  BY DEF PeerDial
<1>2. /\ UNCHANGED <<running, gen, cancelled, listener, closing, stopping, cached, dialing, linkUp,
                     pingFail, evictMiss, sweeping, call, knows, peerUp, changes>>
      /\ budget' \in 0..Budget
  BY PayKeeps DEF PeerDial, service, links, outside
<1>3. /\ conn' \in [Conns -> ConnRecord] /\ c # cached /\ conn'[c].inbound
      /\ \A d \in Conns : d # c => conn'[d] = conn[d]
  BY <1>1, ConnectIs
<1>4. BusTypeOK'
  BY <1>2, <1>3 DEF BusInv, BusTypeOK
<1>5. BusShape'
  BY <1>2 DEF BusInv, BusShape, Shaking
<1>6. CachedIsServed'
  BY <1>2, <1>3 DEF BusInv, CachedIsServed
<1>7. NoStrayDial'
  BY <1>2, <1>3 DEF BusInv, NoStrayDial
<1> QED
  BY <1>4, <1>5, <1>6, <1>7 DEF BusInv

\* The rounds of pings.
LEMMA RoundInv == ASSUME BusInv, Round \/ Evict PROVE BusInv'
<1> USE BusFacts
<1>1. CASE Round
  <2>1. /\ running /\ gen > cancelled
        /\ UNCHANGED <<service, cached, dialing, pingFail, conn, outside, budget>>
    BY <1>1 DEF Round
  <2>2. gen > 0
    BY <2>1
  <2>3. CASE knows
    <3>1. PICK k \in Pings : call[k] = IdleCall /\ Go(k, [IdleCall EXCEPT !.pc = "dial", !.gen = gen])
      BY <1>1, <2>3 DEF Round
    <3> DEFINE r == [IdleCall EXCEPT !.pc = "dial", !.gen = gen]
    <3>2. r \in CallRecord /\ r.pc = "dial" /\ k \in Calls
      BY DEF IdleCall, CallRecord, Calls
    <3>3. evictMiss' = 0 /\ linkUp' = linkUp /\ sweeping' = sweeping
      BY <1>1, <2>3 DEF Round
    <3>4. call' \in [Calls -> CallRecord] /\ \A j \in Calls : Moves(j)
      <4> HIDE DEF r
      <4>1. Go(k, r)
        BY <3>1 DEF r
      <4> QED
        BY <2>2, <3>1, <3>2, <4>1, GoIs DEF Moves, Shaking, IdleCall
    <3> QED
      BY <2>1, <3>3, <3>4, MovesInv
  <2>4. CASE ~knows
    <3>1. /\ sweeping' \in BOOLEAN /\ linkUp' = "none" /\ call' = call
          /\ evictMiss' = IF cached # NoConnection /\ Misses >= EvictGrace THEN 0 ELSE Misses
      BY <1>1, <2>4 DEF Round
    <3>2. evictMiss' \in 0..(EvictGrace - 1)
      BY <3>1 DEF Misses
    <3> QED
      BY <2>1, <3>1, <3>2, MovesInv DEF Moves
  <2> QED
    BY <2>3, <2>4
<1>2. CASE Evict
  <2>1. /\ UNCHANGED <<service, dialing, outside, linkUp, evictMiss, call, budget>>
        /\ sweeping' = FALSE /\ pingFail' = 0
        /\ cached' = NoConnection /\ conn' = Close(cached)
    BY <1>2 DEF Evict, Drop
  <2>2. call' \in [Calls -> CallRecord] /\ \A k \in Calls : Moves(k)
    BY <2>1 DEF Moves
  <2>3. /\ linkUp' \in {"none", "up", "down"} /\ pingFail' \in 0..PingFailLimit
        /\ evictMiss' \in 0..(EvictGrace - 1) /\ budget' \in 0..Budget
    BY <2>1
  <2>4. sweeping' \in BOOLEAN
    BY <2>1
  <2> QED
    BY <2>1, <2>2, <2>3, <2>4, MovesInv
<1> QED
  BY <1>1, <1>2

\* The life of the service, the roster and the peer.
LEMMA LifeInv ==
  ASSUME BusInv, BusStart \/ Listen \/ BusStop \/ StopEnd \/ Change PROVE BusInv'
<1> USE BusFacts
<1>1. CASE BusStart \/ Listen \/ Change
  <2>1. /\ gen' \in {gen, gen + 1} /\ gen' <= MaxStarts /\ running' \in BOOLEAN
        /\ running' => gen' > 0 /\ ~stopping
        /\ listener' \in {"off", "binding", "on"} /\ knows' \in BOOLEAN /\ peerUp' \in BOOLEAN
        /\ changes' \in 0..Changes
        /\ UNCHANGED <<cancelled, closing, stopping, cached, dialing, linkUp, pingFail,
                       evictMiss, sweeping, call, conn, budget>>
    <3>1. CASE BusStart
      BY <3>1 DEF BusStart, links, outside
    <3>2. CASE Listen
      BY <3>2 DEF Listen, BusInv, BusShape, links, outside
    <3>3. CASE Change
      <4>1. knows' \in BOOLEAN /\ peerUp' \in BOOLEAN
        BY <3>3 DEF Change
      <4>2. changes' \in 0..Changes
        BY <3>3 DEF Change
      <4> QED
        BY <3>3, <4>1, <4>2 DEF Change, BusInv, BusShape, service, links
    <3> QED
      BY <1>1, <3>1, <3>2, <3>3
  <2>2. BusTypeOK'
    BY <2>1 DEF BusInv, BusTypeOK
  <2>3. BusShape'
    BY <2>1 DEF BusInv, BusShape, Shaking
  <2>4. CachedIsServed' /\ NoStrayDial'
    BY <2>1 DEF BusInv, CachedIsServed, NoStrayDial
  <2> QED
    BY <2>2, <2>3, <2>4 DEF BusInv
<1>2. CASE BusStop
  <2>1. /\ running /\ changes' \in 0..Changes /\ running' = FALSE /\ stopping' = TRUE
        /\ closing' = cached /\ cached' = NoConnection
        /\ UNCHANGED <<gen, cancelled, listener, dialing, linkUp, pingFail, evictMiss, sweeping,
                       call, conn, knows, peerUp, budget>>
    BY <1>2 DEF BusStop, links
  <2>2. closing = NoConnection
    BY <2>1 DEF BusInv, BusShape
  <2>3. BusTypeOK'
    BY <2>1 DEF BusInv, BusTypeOK
  <2>4. BusShape'
    BY <2>1 DEF BusInv, BusShape, Shaking
  <2>5. CachedIsServed' /\ NoStrayDial'
    BY <2>1, <2>2 DEF BusInv, CachedIsServed, NoStrayDial
  <2> QED
    BY <2>3, <2>4, <2>5 DEF BusInv
<1>3. CASE StopEnd
  <2>1. /\ stopping /\ stopping' = FALSE /\ cancelled' = gen /\ listener' = "off"
        /\ conn' = [c \in Conns |-> IF c = closing \/ conn[c].inbound THEN Closed(conn[c]) ELSE conn[c]]
        /\ closing' = NoConnection
        /\ UNCHANGED <<running, gen, cached, dialing, linkUp, pingFail, evictMiss, sweeping, call,
                       knows, peerUp, changes, budget>>
    BY <1>3 DEF StopEnd, links, outside
  <2>2. gen > 0
    BY <2>1 DEF BusInv, BusShape
  <2>3. \A c \in Conns : Closed(conn[c]) \in ConnRecord /\ Closed(conn[c]).serve = conn[c].serve
    BY DEF Closed, NoConn, ConnRecord
  <2>4. conn' \in [Conns -> ConnRecord] /\ \A c \in Conns : conn'[c].serve = conn[c].serve
    BY <2>1, <2>3
  <2>5. BusTypeOK'
    <3>1. cancelled' \in 0..gen' /\ closing' \in Conns \cup {NoConnection}
      BY <2>1
    <3> QED
      BY <2>1, <2>4, <3>1 DEF BusInv, BusTypeOK
  <2>6. BusShape'
    BY <2>1 DEF BusInv, BusShape, Shaking
  <2>7. CachedIsServed' /\ NoStrayDial'
    BY <2>1, <2>2, <2>4 DEF BusInv, CachedIsServed, NoStrayDial
  <2> QED
    BY <2>5, <2>6, <2>7 DEF BusInv
<1> QED
  BY <1>1, <1>2, <1>3

LEMMA BusStepInv == BusInv /\ [BusNext]_busVars => BusInv'
<1> SUFFICES ASSUME BusInv, [BusNext]_busVars PROVE BusInv'
  OBVIOUS
<1>1. ASSUME NEW k \in Calls, CallStep(k) PROVE BusInv'
  <2>1. CASE Dial(k)
    BY <2>1, DialInv, CallMoves
  <2> QED
    BY <1>1, <2>1, CallMoves, HandshakeInv, CacheInv DEF CallStep
<1>2. ASSUME NEW k \in Apps, Begin(k) PROVE BusInv'
  BY <1>2, CallMoves DEF Calls
<1>3. CASE UNCHANGED busVars
  BY <1>3 DEF BusInv, BusTypeOK, BusShape, Shaking, CachedIsServed, NoStrayDial, busVars, service,
              links, outside
<1> QED
  BY <1>1, <1>2, <1>3, ConnStepInv, PeerDialInv, RoundInv, LifeInv DEF BusNext

\* Dials, streams, stops and the peer's own dials may meet in any order: one
\* caller shakes hands for all, what is cached is served, and a connection that
\* was dialed and is not used is closed.
THEOREM BusAccounts == BusSpec => []ConnectionsAccountedFor
<1>1. BusInv => ConnectionsAccountedFor
  <2> SUFFICES ASSUME BusInv PROVE OneHandshake
    BY DEF BusInv, ConnectionsAccountedFor
  <2> DEFINE H == {k \in Calls : call[k].pc \in {"hand", "cache"}}
  <2>1. CASE dialing
    <3>1. PICK k \in Calls : H = {k}
      BY <2>1 DEF BusInv, BusShape, Shaking
    <3> QED
      BY <2>1, <3>1, FS_Singleton DEF OneHandshake
  <2>2. CASE ~dialing
    <3>1. H = {}
      BY <2>2 DEF BusInv, BusShape, Shaking
    <3> QED
      BY <2>2, <3>1, FS_EmptySet DEF OneHandshake
  <2> QED
    BY <2>1, <2>2
<1> QED
  BY <1>1, BusInitInv, BusStepInv, PTL DEF BusSpec

\* Bus and hub are in states of their types, together in one instance as well:
\* a step of the one leaves the other's variables alone.
THEOREM WireTypes == WireSpec => []WireTypeOK
<1>1. WireInit => BusInv /\ IInv
  BY BusInitInv, InitIInv DEF WireInit
<1>2. (BusInv /\ IInv) /\ [WireNext]_WireVars => BusInv' /\ IInv'
  <2>1. CASE BusNext /\ UNCHANGED vars
    BY <2>1, BusStepInv, NextKeepsIInv
  <2>2. CASE Next /\ UNCHANGED busVars
    BY <2>2, BusStepInv, NextKeepsIInv
  <2>3. CASE UNCHANGED WireVars
    BY <2>3, BusStepInv, NextKeepsIInv DEF WireVars
  <2> QED
    BY <2>1, <2>2, <2>3 DEF WireNext
<1>3. BusInv /\ IInv => WireTypeOK
  BY DEF BusInv, IInv, WireTypeOK
<1> QED
  BY <1>1, <1>2, <1>3, PTL DEF WireSpec

=============================================================================
