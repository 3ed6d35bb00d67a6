-------------------------------- MODULE MCMesh --------------------------------
(***************************************************************************)
(* The parts of the mesh, and the filter on its tunnel, that are checked   *)
(* each by itself, in one instance: a behaviour is one of the part that is *)
(* chosen at its start, the others keep their initial states.              *)
(***************************************************************************)
EXTENDS EngineLife, Pairing, CampClient, PullRound, Gossip, Firewall

TwoPeers == {1, 2}
TwoScopes == {"channels", "notes"}

VARIABLE part

MeshVars == <<engineVars, pairVars, clientVars, pullVars, gossipVars, fwVars, part>>

MeshInit ==
  /\ EngineInit /\ PairInit /\ ClientInit /\ PullInit /\ GossipInit /\ FirewallInit
  /\ \/ part = "engine" \/ part = "pairing" \/ part = "client" \/ part = "round"
     \/ part = "gossip" \/ part = "firewall"
  /\ part # "pairing" => reflex["a"] = "good"
  /\ part # "client" => api /\ inCamp = {}

MeshNext ==
  /\ UNCHANGED part
  /\ \/ /\ UNCHANGED <<gossipVars, fwVars>>
        /\ \/ part = "engine" /\ EngineNext /\ UNCHANGED <<pairVars, clientVars, pullVars>>
           \/ part = "pairing" /\ PairNext /\ UNCHANGED <<engineVars, clientVars, pullVars>>
           \/ part = "client" /\ ClientNext /\ UNCHANGED <<engineVars, pairVars, pullVars>>
           \/ part = "round" /\ PullNext /\ UNCHANGED <<engineVars, pairVars, clientVars>>
     \/ /\ UNCHANGED <<engineVars, pairVars, clientVars, pullVars>>
        /\ \/ part = "gossip" /\ GossipNext /\ UNCHANGED fwVars
           \/ part = "firewall" /\ FirewallNext /\ UNCHANGED gossipVars

MeshSpec == MeshInit /\ [][MeshNext]_MeshVars

Of(p, step) == part = p /\ step

\* The fairness of each part, as its module states and explains it.
MeshFairness ==
  /\ \A t \in Threads : WF_engineVars(Of("engine", ThreadStep(t) /\ ~exited))
  /\ \A s \in Sessions, w \in Workers : WF_engineVars(Of("engine", WorkerEnd(s, w) /\ ~exited))
  /\ \A i \in Async : WF_engineVars(Of("engine", LateUp(i) /\ ~exited))
  /\ WF_pairVars(Of("pairing", TimePasses))
  /\ \A x \in Machines : /\ WF_pairVars(Of("pairing", PunchTick(x)))
                          /\ WF_pairVars(Of("pairing", RosterAddress(x)))
                          /\ WF_pairVars(Of("pairing", Deliver(x)))
  /\ WF_clientVars(Of("client", FetchBegin)) /\ WF_clientVars(Of("client", FetchEnd))
  /\ WF_clientVars(Of("client", FetchLate)) /\ WF_clientVars(Of("client", ClientAnnounce))
  /\ WF_clientVars(Of("client", StartSession))
  /\ WF_pullVars(Of("round", RoundStep))
  /\ \A l \in 1..Loops : /\ WF_gossipVars(Of("gossip", ReadState(l)))
                         /\ WF_gossipVars(Of("gossip", Send(l)))
  /\ WF_gossipVars(Of("gossip", \E push \in pushes : Hear(push)))
  /\ WF_gossipVars(Of("gossip", WallClock /\ wallClock' > wallClock))

MeshFairSpec == MeshSpec /\ MeshFairness

\* The parts are in states of their types.
MeshTypeOK ==
  /\ EngineTypeOK /\ PairTypeOK /\ ClientTypeOK
  /\ PullTypeOK /\ GossipTypeOK /\ FirewallTypeOK

\* After rebinds, moves, lost windows, dead peers and lost pushes the mesh comes
\* to what it is to be: the engine runs, addresses are known and the direct path
\* is used, the table lists the camp, what is missing is pulled, and the other
\* node has heard the present state.
MeshSettles ==
  /\ ComesBack /\ AddressesSettle /\ StaysPaired /\ DirectComesBack
  /\ TableFollows /\ CatchesUp /\ HeardSettles
===============================================================================
