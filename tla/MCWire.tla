-------------------------------- MODULE MCWire --------------------------------
(***************************************************************************)
(* The peer bus and the camp server, checked each by itself, in one        *)
(* instance: a behaviour is one of the part that is chosen at its start.   *)
(***************************************************************************)
EXTENDS Bus, CampHub

TwoCamps == {"red", "blue"}
TwoPubs == {"ann", "bob"}
TwoEndpoints == {"e1", "e2"}

VARIABLE part

WireVars == <<busVars, vars, part>>

WireInit == BusInit /\ Init /\ (part = "bus" \/ part = "hub")

WireNext ==
  /\ UNCHANGED part
  /\ \/ part = "bus" /\ BusNext /\ UNCHANGED vars
     \/ part = "hub" /\ Next /\ UNCHANGED busVars

Of(p, step) == part = p /\ step

\* The fairness of each part, as its module states and explains it.
WireFairness ==
  /\ WF_busVars(Of("bus", Listen)) /\ WF_busVars(Of("bus", StopEnd))
  /\ WF_busVars(Of("bus", Round)) /\ WF_busVars(Of("bus", Evict))
  /\ \A k \in Calls : WF_busVars(Of("bus", CallStep(k) /\ budget' = budget))
  /\ \A c \in Conns : /\ WF_busVars(Of("bus", Accept(c))) /\ WF_busVars(Of("bus", EndAccept(c)))
                       /\ WF_busVars(Of("bus", Notice(c)))
                       /\ WF_busVars(Of("bus", PeerClose(c) /\ budget' = budget))
  /\ \A p \in Pubs : /\ WF_vars(Of("hub", Announce(p)))
                     /\ SF_vars(Of("hub", \E m \in wire : m.pub = p /\ HearAnnounce(m)))

WireSpec == WireInit /\ [][WireNext]_WireVars /\ WireFairness

\* Bus and hub are in states of their types.
WireTypeOK == BusTypeOK /\ TypeOK

\* However connections broke and announces were lost: links form, what has
\* stopped or departed is forgotten, and who is in a camp can be relayed to.
WireSettles == MeshForms /\ DepartedForgotten /\ StoppedForgets /\ StaysRelayable
===============================================================================
