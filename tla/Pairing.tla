------------------------------- MODULE Pairing -------------------------------
(***************************************************************************)
(* How two paired machines reach each other: the pairing exchange that     *)
(* probes the direct path, the choice between direct path and camp relay,  *)
(* the peer entry pushed into the WireGuard device, and the device's own   *)
(* roaming to whatever endpoint a packet last came from.                   *)
(*                                                                         *)
(* Time passes in units.  An age is the number of units since something,   *)
(* and stops at Fresh; what matters of the real intervals is their order,  *)
(* 20 s to the relay, 25 s between probes of a healthy path, 30 s until    *)
(* signals are stale.  In each unit either loop ticks once.  An exchange   *)
(* takes no time, nor does a sync or a packet.  Both are members of the    *)
(* camp and know each other's keys from the roster.                        *)
(***************************************************************************)
EXTENDS Naturals

CONSTANTS
  RelayAfter, \* relayAfterMs
  KeepAlive,  \* keepaliveMs
  Fresh,      \* pairFreshMs, and freshMs of holePunchLoop
  PairChanges     \* bound: changes of paths and addresses

ASSUME PairingAssumption ==
  /\ RelayAfter \in Nat /\ KeepAlive \in Nat /\ Fresh \in Nat \ {0}
  /\ PairChanges \in Nat

VARIABLES
  open,    \* the machines whose direct packets get through
  reflex,  \* what the roster shows each machine of the other's address
  udp,     \* peerState.UDPAddr
  res, req, ping, \* ages of LastValidResMs, LastValidReqMs, LastPingMs
  met,     \* age of FirstSeenMs
  ticked,  \* the loops that have ticked in this unit
  pushed,  \* Device.lastPeers: the endpoint last configured
  dev,     \* the endpoint the device sends to
  pairChanges

signals == <<res, req, ping, met, ticked>>
device == <<pushed, dev>>
network == <<open, reflex, pairChanges>>
pairVars == <<network, udp, signals, device>>

Machines == {"a", "b"}
Other(x) == IF x = "a" THEN "b" ELSE "a"
\* An address of the peer is its own, or it has moved, or it never was.
Addresses == {"good", "bad"}
PairEndpoints == Addresses \cup {"relay"}

PairInit ==
  /\ open = Machines
  /\ reflex \in [Machines -> Addresses] /\ reflex["b"] = "bad"
  /\ udp = [x \in Machines |-> "good"]
  /\ res = [x \in Machines |-> Fresh] /\ req = [x \in Machines |-> Fresh]
  /\ ping = [x \in Machines |-> Fresh] /\ met = 0
  /\ ticked = {}
  /\ pushed = [x \in Machines |-> "good"] /\ dev = [x \in Machines |-> "good"]
  /\ pairChanges = PairChanges

-----------------------------------------------------------------------------
(* The entry of the device.                                                *)

\* peerOnRelay: past its grace, and no fresh answer on the direct path.
OnRelay(x) == met > RelayAfter /\ res[x] > RelayAfter

\* awgSyncPeers: the endpoint it configures.
Wanted(x) == IF OnRelay(x) THEN "relay" ELSE udp[x]

\* SyncPeers: only a difference from the last push is sent to the device.
Push(x, e) ==
  /\ pushed' = [pushed EXCEPT ![x] = e]
  /\ dev' = [dev EXCEPT ![x] = IF e = pushed[x] THEN @ ELSE e]

-----------------------------------------------------------------------------
(* The pairing exchange.                                                   *)

\* holePunchLoop: a probe is due at once, or after 25 s on a healthy path.
Due(x) == ping[x] >= IF res[x] < Fresh THEN KeepAlive ELSE 1

\* The request gets to the other machine, which answers it to where it came
\* from; the answer gets back.
Heard(x) == udp[x] = "good" /\ x \in open
Answered(x) == Heard(x) /\ Other(x) \in open

\* handlePairReq at one end, handlePairRes at the other: both take the address
\* the packet came from.  What has changed for the other end is pushed there.
Exchange(x, answered) ==
  LET y == Other(x) IN
  /\ ping' = [ping EXCEPT ![x] = 0]
  /\ req' = [req EXCEPT ![y] = 0]
  /\ res' = IF answered THEN [res EXCEPT ![x] = 0] ELSE res
  /\ udp' = [udp EXCEPT ![y] = "good"]

\* A tick of holePunchLoop: a probe if it is due; and a sync, which finds what
\* was there before the answer.
PunchTick(x) ==
  /\ x \notin ticked
  /\ ticked' = ticked \cup {x}
  /\ \/ /\ Due(x) /\ Heard(x)
        /\ Exchange(x, Answered(x))
     \/ /\ Due(x) /\ ~Heard(x)
        /\ ping' = [ping EXCEPT ![x] = 0]
        /\ UNCHANGED <<req, res, udp>>
     \/ /\ ~Due(x)
        /\ UNCHANGED <<ping, req, res, udp>>
  /\ Push(x, Wanted(x))
  /\ UNCHANGED <<network, met>>

\* applyPeerList: a recent direct signal outweighs the roster.
DirectFresh(x) == req[x] < Fresh \/ res[x] < Fresh

RosterAddress(x) ==
  /\ udp' = [udp EXCEPT ![x] = IF DirectFresh(x) THEN @ ELSE reflex[x]]
  /\ UNCHANGED <<network, signals, device>>

\* awgSyncPeers in a goroutine, after a roster or a change of address.
Sync(x) ==
  /\ Push(x, Wanted(x))
  /\ UNCHANGED <<network, udp, signals>>

-----------------------------------------------------------------------------
(* The device (external), its bind, and the network.                       *)

\* Bind.Send at one end, Deliver or DeliverRelay at the other: the packet is
\* attributed to the path it took, and the device roams to it.
Arrives(x) ==
  \/ dev[x] = "relay"
  \/ dev[x] = "good" /\ x \in open

Deliver(x) ==
  /\ Arrives(x)
  /\ dev' = [dev EXCEPT ![Other(x)] = dev[x]]
  /\ UNCHANGED <<network, udp, signals, pushed>>

Older(age) == IF age < Fresh THEN age + 1 ELSE age

TimePasses ==
  /\ ticked = Machines
  /\ ticked' = {}
  /\ res' = [x \in Machines |-> Older(res[x])]
  /\ req' = [x \in Machines |-> Older(req[x])]
  /\ ping' = [x \in Machines |-> Older(ping[x])]
  /\ met' = Older(met)
  /\ UNCHANGED <<network, udp, device>>

\* A machine's packets stop getting through, or do so again.
PathChanges(x) ==
  /\ pairChanges > 0 /\ pairChanges' = pairChanges - 1
  /\ open' = IF x \in open THEN open \ {x} ELSE open \cup {x}
  /\ UNCHANGED <<reflex, udp, signals, device>>

\* A machine gets another address: what the other knows of it is wrong, and
\* the roster follows.
Moved(e) == IF e = "good" THEN "bad" ELSE e
AddressChanges(x) ==
  LET y == Other(x) IN
  /\ pairChanges > 0 /\ pairChanges' = pairChanges - 1
  /\ udp' = [udp EXCEPT ![y] = "bad"]
  /\ pushed' = [pushed EXCEPT ![y] = Moved(@)]
  /\ dev' = [dev EXCEPT ![y] = Moved(@)]
  /\ UNCHANGED <<open, reflex, signals>>

MachineStep(x) == PunchTick(x) \/ RosterAddress(x) \/ Sync(x) \/ Deliver(x)

PairNext ==
  \/ TimePasses
  \/ \E x \in Machines : MachineStep(x) \/ PathChanges(x) \/ AddressChanges(x)

PairSpec == PairInit /\ [][PairNext]_pairVars

\* Clocks and loops run, rosters come, and the device sends keepalives.  Paths
\* and addresses need not change, and no sync but the loop's is owed.
PairFairness ==
  /\ WF_pairVars(TimePasses)
  /\ \A x \in Machines : WF_pairVars(PunchTick(x)) /\ WF_pairVars(RosterAddress(x)) /\ WF_pairVars(Deliver(x))

PairFairSpec == PairSpec /\ PairFairness

-----------------------------------------------------------------------------

\* Every variable holds what its Go counterpart can hold.
PairTypeOK ==
  /\ open \subseteq Machines /\ ticked \subseteq Machines
  /\ reflex \in [Machines -> Addresses] /\ udp \in [Machines -> Addresses]
  /\ {res, req, ping} \subseteq [Machines -> 0..Fresh] /\ met \in 0..Fresh
  /\ {pushed, dev} \subseteq [Machines -> PairEndpoints]
  /\ pairChanges \in 0..PairChanges

Healthy == open = Machines

\* The roster shows at least one of them where the other is: behind a symmetric
\* NAT it does not, and two that have both moved only meet at the relay.
Findable == Healthy /\ \E x \in Machines : reflex[x] = "good"

\* Each machine comes to know the other's address and keeps it, however the
\* two have moved, as soon as the direct path works and the roster is right;
\* a roster that is wrong for this machine does not take it away again.
AddressesSettle ==
  <>[]Findable => <>[](\A x \in Machines : udp[x] = "good")

\* On a direct path that works both come to be paired and stay so, while their
\* loops tick.
StaysPaired ==
  <>[]Findable /\ []<>(ticked = Machines) => <>[](\A x \in Machines : res[x] < Fresh /\ req[x] < Fresh)

\* A direct path that works comes back into use, at both ends, and what the
\* device sends keeps arriving.
DirectComesBack ==
  <>[]Findable => \A x \in Machines : []<>(dev[x] = "good") /\ []<>Arrives(x)

\* A pair whose direct path has always worked does not use the relay: direct is
\* the default, and the relay is for a pair that is stuck.
HealthyStaysDirect ==
  Healthy /\ pairChanges = PairChanges
    => \A x \in Machines : pushed[x] # "relay"
=============================================================================
