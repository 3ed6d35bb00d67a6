------------------------------- MODULE CampHub -------------------------------
(***************************************************************************)
(* The camp server's table of peers (camp/hub.go) with its reverse map     *)
(* from UDP source addresses to peers, the announce and relay datagrams    *)
(* that read and write it (camp/udp.go), and its eviction ticker.  Around  *)
(* it, the machines that announce: they join and leave camps from one      *)
(* socket, their NAT moves them to another public address, an address one  *)
(* gave up is taken by another, and announces are lost, late or overtaken. *)
(*                                                                         *)
(* Hub.mu covers each operation of the table whole.  Of an entry the model *)
(* keeps the address and the age; name, version, role, keys and reported   *)
(* links are carried to the roster verbatim and left out.                  *)
(***************************************************************************)
EXTENDS Naturals, FiniteSets

CONSTANTS
  Camps,
  Pubs,         \* the machines, by public key
  Endpoints,    \* public UDP addresses
  EvictAfter,   \* clock ticks an entry may stay idle
  MaxMoves,     \* bound: machines joining, leaving or moving
  MaxInFlight   \* bound: announces of one machine on the wire

ASSUME CountAssumption ==
  EvictAfter \in Nat /\ MaxMoves \in Nat /\ MaxInFlight \in Nat

\* An entry is known by its camp and pub.
Slots == Camps \X Pubs
Nobody == <<"no camp", "nobody">>
NoEndpoint == "no endpoint"

ASSUME OutsideAssumption == Nobody \notin Slots /\ NoEndpoint \notin Endpoints

VARIABLES
  reg,      \* reg[<<c, p>>]: camps[c].peers[p].info.UDPEndpoint
  age,      \* clock ticks since lastSeen, counted up to the cutoff
  bySrc,    \* the reverse map
  home,     \* home[p]: the camp and address machine p announces from, if any
  wire,     \* announces in flight
  relayed,  \* the frame the last step relayed, if it did
  moves

vars == <<reg, age, bySrc, home, wire, relayed, moves>>
hub == <<reg, age, bySrc>>

Away == [camp |-> "none", at |-> NoEndpoint]
Places == [camp : Camps, at : Endpoints]
Announces == [camp : Camps, pub : Pubs, src : Endpoints]
Dropped == [src |-> NoEndpoint, from |-> "nobody", to |-> "nobody",
            addr |-> NoEndpoint]

Registered(s) == reg[s] # NoEndpoint

Init ==
  /\ reg = [s \in Slots |-> NoEndpoint]
  /\ age = [s \in Slots |-> 0]
  /\ bySrc = [e \in Endpoints |-> Nobody]
  /\ home = [p \in Pubs |-> Away]
  /\ wire = {}
  /\ relayed = Dropped
  /\ moves = 0

-----------------------------------------------------------------------------
(* The table.                                                              *)

\* Faulty variant: upsert without the delete when the address moved.
UpsertKeepsOld(s, e) ==
  /\ reg' = [reg EXCEPT ![s] = e]
  /\ age' = [age EXCEPT ![s] = 0]
  /\ bySrc' = [bySrc EXCEPT ![e] = s]

\* Faulty variant: upsert that deletes the old address last, moved or not.
UpsertDeletesLast(s, e) ==
  /\ reg' = [reg EXCEPT ![s] = e]
  /\ age' = [age EXCEPT ![s] = 0]
  /\ bySrc' = [x \in Endpoints |->
                 IF x = reg[s] THEN Nobody ELSE IF x = e THEN s ELSE bySrc[x]]

\* Hub.upsert: the address moves with the entry, in both maps.
Upsert(s, e) ==
  /\ reg' = [reg EXCEPT ![s] = e]
  /\ age' = [age EXCEPT ![s] = 0]
  /\ bySrc' = [x \in Endpoints |->
                 IF x = e THEN s ELSE IF x = reg[s] THEN Nobody ELSE bySrc[x]]

\* The slots last seen before the cutoff.
Idle == {s \in Slots : Registered(s) /\ age[s] > EvictAfter}

\* Hub.evictStale.
EvictStale ==
  /\ Idle # {}
  /\ reg' = [s \in Slots |-> IF s \in Idle THEN NoEndpoint ELSE reg[s]]
  /\ age' = [s \in Slots |-> IF s \in Idle THEN 0 ELSE age[s]]
  /\ bySrc' = [x \in Endpoints |->
                 IF \E s \in Idle : reg[s] = x THEN Nobody ELSE bySrc[x]]
  /\ relayed' = Dropped
  /\ UNCHANGED <<home, wire, moves>>

\* Faulty variant: relayLookup without the check of the target.
RelayLookupUnchecked(src, to) ==
  IF bySrc[src] = Nobody THEN Dropped
  ELSE [src |-> src, from |-> bySrc[src][2], to |-> to,
        addr |-> reg[<<bySrc[src][1], to>>]]

\* Faulty variant: relayLookup that looks for the target in every camp.
RelayLookupAnyCamp(src, to) ==
  IF bySrc[src] = Nobody \/ ~\E c \in Camps : Registered(<<c, to>>) THEN Dropped
  ELSE [src |-> src, from |-> bySrc[src][2], to |-> to,
        addr |-> reg[<<CHOOSE c \in Camps : Registered(<<c, to>>), to>>]]

\* Hub.relayLookup: the sender is known by its source alone, the target must
\* be in the sender's camp.
RelayLookup(src, to) ==
  IF bySrc[src] = Nobody THEN Dropped
  ELSE LET target == <<bySrc[src][1], to>> IN
       IF Registered(target)
       THEN [src |-> src, from |-> bySrc[src][2], to |-> to, addr |-> reg[target]]
       ELSE Dropped

-----------------------------------------------------------------------------
(* The datagrams the server reads.                                         *)

\* serveUDP takes an announce.
HearAnnounce(m) ==
  /\ m \in wire
  /\ wire' = wire \ {m}
  /\ Upsert(<<m.camp, m.pub>>, m.src)
  /\ relayed' = Dropped
  /\ UNCHANGED <<home, moves>>

\* serveUDP takes a relay frame, from any address.
HandleRelay(src, to) ==
  /\ RelayLookup(src, to) # Dropped
  /\ relayed' = RelayLookup(src, to)
  /\ UNCHANGED <<hub, home, wire, moves>>

LoseAnnounce(m) ==
  /\ m \in wire
  /\ wire' = wire \ {m}
  /\ relayed' = Dropped
  /\ UNCHANGED <<hub, home, moves>>

\* Time passes for the entries; beyond the cutoff older is no different.
ClockTick ==
  /\ \E s \in Slots : Registered(s) /\ age[s] <= EvictAfter
  /\ age' = [s \in Slots |->
               IF Registered(s) /\ age[s] <= EvictAfter THEN age[s] + 1 ELSE age[s]]
  /\ relayed' = Dropped
  /\ UNCHANGED <<reg, bySrc, home, wire, moves>>

-----------------------------------------------------------------------------
(* The machines.                                                           *)

\* AnnounceClient.Run: every 4 s, from the socket of the tunnel.
Announce(p) ==
  /\ home[p] # Away
  /\ LET m == [camp |-> home[p].camp, pub |-> p, src |-> home[p].at] IN
     /\ m \notin wire
     /\ Cardinality({x \in wire : x.pub = p}) < MaxInFlight
     /\ wire' = wire \cup {m}
  /\ relayed' = Dropped
  /\ UNCHANGED <<hub, home, moves>>

Free(e) == \A p \in Pubs : home[p].at # e

Move(p, place) ==
  /\ moves < MaxMoves
  /\ moves' = moves + 1
  /\ home' = [home EXCEPT ![p] = place]
  /\ relayed' = Dropped
  /\ UNCHANGED <<hub, wire>>

\* camp.Service.Start: a machine in no camp joins one.
Join(p, c, e) ==
  /\ home[p] = Away
  /\ Free(e)
  /\ Move(p, [camp |-> c, at |-> e])

\* camp.Service.Stop: announcing stops, the server is told nothing.
Leave(p) ==
  /\ home[p] # Away
  /\ Move(p, Away)

\* The machine's NAT gives its socket another public address.
Rebind(p, e) ==
  /\ home[p] # Away
  /\ Free(e)
  /\ Move(p, [home[p] EXCEPT !.at = e])

Next ==
  \/ \E m \in wire : HearAnnounce(m) \/ LoseAnnounce(m)
  \/ \E e \in Endpoints, p \in Pubs : HandleRelay(e, p)
  \/ EvictStale
  \/ ClockTick
  \/ \E p \in Pubs : Announce(p) \/ Leave(p)
  \/ \E p \in Pubs, e \in Endpoints : Rebind(p, e) \/ \E c \in Camps : Join(p, c, e)

Spec == Init /\ [][Next]_vars

\* A machine keeps announcing, and not all its announces are lost.
FairSpec ==
  /\ Spec
  /\ \A p \in Pubs : /\ WF_vars(Announce(p))
                     /\ SF_vars(\E m \in wire : m.pub = p /\ HearAnnounce(m))

-----------------------------------------------------------------------------
(* Properties.                                                             *)

\* Types; an entry's address is unknown exactly when there is no entry.
TypeOK ==
  /\ reg \in [Slots -> Endpoints \cup {NoEndpoint}]
  /\ age \in [Slots -> 0..(EvictAfter + 1)]
  /\ bySrc \in [Endpoints -> Slots \cup {Nobody}]
  /\ home \in [Pubs -> Places \cup {Away}]
  /\ wire \subseteq Announces
  /\ relayed \in [src : Endpoints, from : Pubs, to : Pubs, addr : Endpoints]
                   \cup {Dropped}
  /\ moves \in 0..MaxMoves

\* The reverse map is never stale: the peer it names for an address is in the
\* table, at that very address (hub.go, bySrc).  A peer that moved or was
\* evicted leaves nothing behind that would name it as the sender of frames
\* of whoever has its old address.
SourceNamesItsPeer ==
  \A e \in Endpoints : bySrc[e] # Nobody => reg[bySrc[e]] = e

\* What udp.go promises of a relayed frame: the sender it names and the
\* target are members of one camp, the frame came from the sender's address
\* and goes to the target's.
RelayStaysInCamp ==
  relayed # Dropped =>
    \E c \in Camps : /\ reg[<<c, relayed.from>>] = relayed.src
                     /\ reg[<<c, relayed.to>>] = relayed.addr

\* "Kept in sync with upsert/evict" (hub.go:50) is not quite so: a peer that
\* stays in the table at its address may vanish from the reverse map, and its
\* relay frames are then dropped until it announces again.  That takes
\* another entry at the same address, be it of the same peer in the camp it
\* left or of the previous user of the address, which is evicted or moves.
\* No peer with an address of its own is ever affected.
ForgetsOnlySharers ==
  \A s \in Slots, e \in Endpoints :
    /\ bySrc[e] = s /\ bySrc'[e] # s
    /\ reg'[s] = e
    => \E t \in Slots \ {s} : reg[t] = e \/ reg'[t] = e

LosesSourceOnlyToSharer == [][ForgetsOnlySharers]_vars

\* The next announce repairs it: a machine, which moves a bounded number of
\* times only, is again and again the one the server knows by its address.
Known(p) == bySrc[home[p].at] = <<home[p].camp, p>>
StaysRelayable == \A p \in Pubs : []<>(home[p] # Away => Known(p))
=============================================================================
