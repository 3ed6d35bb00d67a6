------------------------------ MODULE CampClient ------------------------------
(***************************************************************************)
(* Where a node's table of peers comes from (mesh/camp): the roster polled *)
(* over HTTP, or, from a server without that endpoint, the windows carried *)
(* by announce replies, gathered over a rotation with a grace for windows  *)
(* that are lost; the engine's table that either of them reconciles; the   *)
(* catalog that seeds the table at a start; the user forgetting a peer.    *)
(*                                                                         *)
(* The server of this commit answers an announce without a window: windows *)
(* are what a client still takes from an older one, whose order is that of *)
(* Hub.listWindow.                                                         *)
(*                                                                         *)
(* A window holds one peer.  Of an entry the model keeps whether the peer  *)
(* is known, and whether it is reachable ("live") or a remembered ghost.   *)
(***************************************************************************)
EXTENDS Naturals, FiniteSets

CONSTANTS
  PeerTotal,  \* the other machines are 1..PeerTotal, sorted as the server sorts
  Grace,      \* rosterGraceCycles
  WindowMisses,     \* bound: windows lost and peers gone from the camp
  Restarts    \* bound: restarts of the engine or of the process

ASSUME ClientAssumption ==
  PeerTotal \in Nat /\ Grace \in Nat /\ WindowMisses \in Nat /\ Restarts \in Nat

VARIABLES
  api,       \* the server has /api/id; else it sends windows
  inCamp,    \* the peers in the server's camp
  cursor,    \* where this node's next window starts
  session,   \* the camp service runs
  httpOK,
  cycleAcc, rosterSeen, rosterMiss,
  table,     \* Engine.peers
  seed,      \* Engine.camp.PeerCatalog
  catalog,   \* PeerCatalog in cache.json
  fetch,     \* {the roster the poller holds}, or NoRoster
  late,      \* the same of a poller whose session ended
  stayed,    \* history: the peers that never left the camp
  forgot,    \* history: peers forgotten when gone, and not in the camp since
  shaken,    \* history: a window of this rotation was lost or shifted
  streak,    \* history: the last rotations in a row of which one was, to Grace + 1
  missBudget, restartBudget

campServer == <<api, inCamp, cursor>>
gathering == <<cycleAcc, rosterSeen, rosterMiss>>
poller == <<fetch, late>>
history == <<stayed, forgot>>
losses == <<shaken, streak>>
clientBudgets == <<missBudget, restartBudget>>
clientVars == <<campServer, session, httpOK, gathering, table, seed, catalog,
                poller, history, losses, clientBudgets>>

KnownPeers == 1..PeerTotal
NoRoster == {}
Unseen == [p \in KnownPeers |-> 0]

ClientInit ==
  /\ api \in BOOLEAN /\ inCamp \in SUBSET KnownPeers /\ cursor = 0
  /\ session = TRUE /\ httpOK = FALSE
  /\ cycleAcc = {} /\ rosterSeen = {} /\ rosterMiss = Unseen
  /\ seed = KnownPeers /\ catalog = seed
  /\ table = [p \in KnownPeers |-> "ghost"]
  /\ fetch = NoRoster /\ late = NoRoster
  /\ stayed = inCamp /\ forgot = {} /\ shaken = FALSE /\ streak = 0
  /\ missBudget = WindowMisses /\ restartBudget = Restarts

-----------------------------------------------------------------------------
(* A roster reaches the table.                                             *)

\* Faulty variant: a peer the roster no longer lists is left as it was.
ReconciledListed(roster) ==
  [p \in KnownPeers |-> IF p \in roster THEN "live" ELSE table[p]]

\* Engine.applyPeerList: who is listed is live, who is not is a ghost.
Reconciled(roster) ==
  [p \in KnownPeers |-> IF p \in roster THEN "live"
                   ELSE IF table[p] = "none" THEN "none" ELSE "ghost"]

\* Service.applyRoster, mergeRoster: nobody leaves the catalog, which is
\* written only for a running camp.
Apply(roster) ==
  /\ table' = Reconciled(roster)
  /\ catalog' = IF session THEN catalog \cup roster ELSE catalog

\* httpRosterLoop: the roster is read at the server, and applied when it has
\* come back, or the request fails.
FetchBegin ==
  /\ session /\ api /\ fetch = NoRoster
  /\ fetch' = {inCamp}
  /\ UNCHANGED <<campServer, session, httpOK, gathering, table, seed, catalog, late, history, losses, clientBudgets>>

FetchEnd ==
  /\ fetch # NoRoster
  /\ httpOK' = TRUE
  /\ Apply(UNION fetch)
  /\ fetch' = NoRoster
  /\ UNCHANGED <<campServer, session, gathering, seed, late, history, losses, clientBudgets>>

\* A roster already decoded when its loop was cancelled is applied all the same.
FetchLate ==
  /\ late # NoRoster
  /\ httpOK' = TRUE
  /\ Apply(UNION late)
  /\ late' = NoRoster
  /\ UNCHANGED <<campServer, session, gathering, seed, fetch, history, losses, clientBudgets>>

\* Hub.listWindow: this node's next window, sorted by pub, and whether it ends
\* the rotation.
Sorted(n) == CHOOSE p \in inCamp : Cardinality({q \in inCamp : q < p}) = n
StartAt == IF cursor < Cardinality(inCamp) THEN cursor ELSE 0
Window == IF inCamp = {} THEN {} ELSE {Sorted(StartAt)}
CycleEnd == StartAt + 1 >= Cardinality(inCamp)

\* Faulty variant: the misses of a peer add up although it was seen in between.
AbsentAddsUp(acc) ==
  LET missed == [p \in KnownPeers |-> IF p \in rosterSeen \ acc THEN rosterMiss[p] + 1
                                     ELSE rosterMiss[p]]
      gone == {p \in rosterSeen \ acc : missed[p] > Grace}
  IN [seen |-> (rosterSeen \cup acc) \ gone,
      miss |-> [p \in KnownPeers |-> IF p \in gone THEN 0 ELSE missed[p]]]

\* Faulty variant: a miss is counted but never acted on.
AbsentForever(acc) ==
  [seen |-> rosterSeen \cup acc,
   miss |-> [p \in KnownPeers |-> IF p \in rosterSeen \ acc THEN rosterMiss[p] + 1 ELSE 0]]

\* onUpdate at the end of a rotation: the present are refreshed; who has now
\* been absent for more than the grace is dropped.
Absent(acc) ==
  LET missed == [p \in KnownPeers |-> IF p \in rosterSeen \ acc THEN rosterMiss[p] + 1 ELSE 0]
      gone == {p \in rosterSeen \ acc : missed[p] > Grace}
  IN [seen |-> (rosterSeen \cup acc) \ gone,
      miss |-> [p \in KnownPeers |-> IF p \in gone THEN 0 ELSE missed[p]]]

\* History.
RotationEnds ==
  /\ shaken' = FALSE
  /\ streak' = IF ~shaken THEN 0 ELSE IF streak > Grace THEN streak ELSE streak + 1

\* The announce reply comes, with its window.
ClientAnnounce ==
  /\ session /\ ~api
  /\ cursor' = IF CycleEnd THEN 0 ELSE StartAt + 1
  /\ LET acc == cycleAcc \cup Window
         round == Absent(acc)
     IN IF httpOK THEN UNCHANGED <<gathering, losses, table, catalog>>
        ELSE IF ~CycleEnd
        THEN /\ cycleAcc' = acc
             /\ UNCHANGED <<rosterSeen, rosterMiss, losses, table, catalog>>
        ELSE /\ cycleAcc' = {} /\ RotationEnds
             /\ rosterSeen' = round.seen /\ rosterMiss' = round.miss
             /\ Apply(round.seen)
  /\ UNCHANGED <<api, inCamp, session, httpOK, seed, poller, history, clientBudgets>>

\* It does not.
AnnounceLost ==
  /\ session /\ ~api
  /\ missBudget > 0 /\ missBudget' = missBudget - 1
  /\ cursor' = IF CycleEnd THEN 0 ELSE StartAt + 1
  /\ shaken' = TRUE
  /\ UNCHANGED <<api, inCamp, session, httpOK, gathering, table, seed, catalog, poller, history,
                 streak, restartBudget>>

-----------------------------------------------------------------------------
(* The user.                                                               *)

\* Engine.ForgetPeer: the table and, while the engine runs, the seed.
ForgottenBy(p) ==
  /\ table' = [table EXCEPT ![p] = "none"]
  /\ seed' = IF session THEN seed \ {p} ELSE seed

\* The rosters under way, read before a peer left.
UnderWay == cycleAcc \cup rosterSeen \cup UNION (fetch \cup late)

\* Server.handleForgetPeer, of a peer it finds: also the catalog of the running
\* camp.
ForgetPeer(p) ==
  /\ table[p] # "none"
  /\ ForgottenBy(p)
  /\ catalog' = IF session THEN catalog \ {p} ELSE catalog
  /\ forgot' = IF session /\ p \notin inCamp \cup UnderWay
               THEN forgot \cup {p} ELSE forgot
  /\ UNCHANGED <<campServer, session, httpOK, gathering, poller, stayed, losses, clientBudgets>>

-----------------------------------------------------------------------------
(* Sessions, processes and the camp.                                       *)

\* Engine.Stop empties the table, then OnStopped stops the camp service, whose
\* gathered windows stay; its poller may be past the point of no return.
StopSession ==
  /\ session
  /\ session' = FALSE
  /\ httpOK' = FALSE
  /\ table' = [p \in KnownPeers |-> "none"]
  /\ fetch' = NoRoster
  /\ late' \in {fetch, late}
  /\ UNCHANGED <<campServer, gathering, seed, catalog, history, losses, clientBudgets>>

\* Engine.Start hydrates the table from the seed; what is there already stays.
Hydrated == [p \in KnownPeers |-> IF table[p] = "none" /\ p \in seed THEN "ghost" ELSE table[p]]

StartSession ==
  /\ ~session /\ restartBudget > 0
  /\ restartBudget' = restartBudget - 1
  /\ session' = TRUE
  /\ table' = Hydrated
  /\ UNCHANGED <<campServer, httpOK, gathering, seed, catalog, poller, history,
                 losses, missBudget>>

\* The process starts again: only what is on disk is left.
Restart ==
  /\ restartBudget > 0 /\ restartBudget' = restartBudget - 1
  /\ session' = TRUE /\ httpOK' = FALSE
  /\ cycleAcc' = {} /\ rosterSeen' = {} /\ rosterMiss' = Unseen
  /\ seed' = catalog
  /\ table' = [p \in KnownPeers |-> IF p \in catalog THEN "ghost" ELSE "none"]
  /\ fetch' = NoRoster /\ late' = NoRoster
  /\ UNCHANGED <<campServer, catalog, history, losses, missBudget>>

Joins(p) ==
  /\ p \notin inCamp
  /\ inCamp' = inCamp \cup {p}
  /\ forgot' = forgot \ {p}
  /\ UNCHANGED <<api, cursor, session, httpOK, gathering, table, seed, catalog, poller, stayed, losses, clientBudgets>>

Leaves(p) ==
  /\ p \in inCamp
  /\ missBudget > 0 /\ missBudget' = missBudget - 1
  /\ inCamp' = inCamp \ {p}
  /\ stayed' = stayed \ {p}
  /\ shaken' = TRUE
  /\ UNCHANGED <<api, cursor, session, httpOK, gathering, table, seed, catalog, poller, forgot,
                 streak, restartBudget>>

ClientNext ==
  \/ FetchBegin \/ FetchEnd \/ FetchLate \/ ClientAnnounce \/ AnnounceLost
  \/ StopSession \/ StartSession \/ Restart
  \/ \E p \in KnownPeers : ForgetPeer(p) \/ Joins(p) \/ Leaves(p)

ClientSpec == ClientInit /\ [][ClientNext]_clientVars

\* The poller and the announces go on, and a session that ended starts again.
ClientFairness ==
  /\ WF_clientVars(FetchBegin) /\ WF_clientVars(FetchEnd) /\ WF_clientVars(FetchLate)
  /\ WF_clientVars(ClientAnnounce) /\ WF_clientVars(StartSession)

-----------------------------------------------------------------------------

\* Every variable holds what its Go counterpart can hold; no peer is counted as
\* missing for longer than the grace.
ClientTypeOK ==
  /\ {api, session, httpOK} \subseteq BOOLEAN
  /\ inCamp \subseteq KnownPeers /\ cursor \in 0..PeerTotal
  /\ cycleAcc \subseteq KnownPeers /\ rosterSeen \subseteq KnownPeers
  /\ rosterMiss \in [KnownPeers -> 0..Grace]
  /\ table \in [KnownPeers -> {"none", "ghost", "live"}]
  /\ seed \subseteq KnownPeers /\ catalog \subseteq KnownPeers
  /\ fetch \cup late \subseteq SUBSET KnownPeers
  /\ stayed \subseteq inCamp /\ forgot \subseteq KnownPeers \ inCamp
  /\ shaken \in BOOLEAN /\ streak \in 0..(Grace + 1)

\* A peer that stays in the camp stays reachable, however many windows are lost,
\* or shifted by others that leave, over time: only more rotations in a row than the
\* grace, each with such a window, can turn it into a ghost, or a stop of the engine.
StayersStayLive ==
  [][\A p \in KnownPeers :
       /\ p \in stayed /\ table[p] = "live" /\ session' /\ restartBudget' = restartBudget
       /\ table'[p] = "ghost"
       => streak' > Grace]_clientVars

\* A peer that is gone and that the user forgot stays gone, from the catalog too
\* and over restarts, until it announces itself again, unless a roster that
\* names it was still under way.
ForgottenStaysGone ==
  \A p \in forgot : table[p] = "none" /\ p \notin catalog

\* The table turns nobody into a ghost who stayed, but for the streak of rotations
\* above, and brings nobody back who was gone and forgotten.
TableIsTrue == []ForgottenStaysGone /\ StayersStayLive

\* While the session goes on the table comes to say who is in the camp, whatever
\* rosters of the past arrive late.
TableFollows ==
  <>[]session =>
    \A p \in KnownPeers : /\ <>[](p \in inCamp) => <>(table[p] = "live")
                     /\ <>[](p \notin inCamp) => []<>(table[p] # "live")
===============================================================================
