-------------------------------- MODULE Gossip --------------------------------
(***************************************************************************)
(* mesh/gossip: what one node sees of the mesh, announced to another every *)
(* 20 s, which keeps the latest by its time stamp.  The state is read and  *)
(* stamped in two steps, each push travels in a goroutine of its own, and  *)
(* the loop of a stopped service ends its announcement beside the loop of  *)
(* the next one.  Pulls, which nobody sends, and the entries of nodes that *)
(* have left, which nothing removes, are left out.                         *)
(***************************************************************************)
EXTENDS Naturals, FiniteSets

CONSTANTS
  Loops,         \* bound: starts of the service, numbered from 1
  ClockMax,      \* bound: the last time stamp
  PushMax,       \* bound: pushes on their way
  GossipChanges  \* bound: changes seen, pushes lost, clocks set back, restarts

ASSUME GossipAssumption ==
  {Loops, ClockMax, PushMax, GossipChanges} \subseteq Nat /\ PushMax > 0 /\ ClockMax > 0

VARIABLES
  seen,       \* the node's state, by the number of its changes
  wallClock,
  wanted,     \* the service is started
  cancel,     \* Service.cancel: the loop to cancel, or 0
  loops,      \* the loops that go on, and those that were
  read,       \* read[l]: the state that loop l has read but not sent, or 0
  pushes,     \* the states on their way, with their stamps
  heard,      \* the other node's entry for this one
  setBack, crossed, \* history: the clock was set back; two loops announced at once
  gossipChanges

publisher == <<seen, wallClock, wanted, cancel, loops, read>>
gossipHistory == <<setBack, crossed>>
gossipVars == <<publisher, pushes, heard, gossipHistory, gossipChanges>>

NotHeard == [state |-> 0, stamp |-> 0]

GossipInit ==
  /\ seen = 1 /\ wallClock = 1
  /\ wanted = FALSE /\ cancel = 0
  /\ loops = [on |-> {}, made |-> 0] /\ read = [l \in 1..Loops |-> 0]
  /\ pushes = {} /\ heard = NotHeard
  /\ setBack = FALSE /\ crossed = FALSE
  /\ gossipChanges = GossipChanges

GossipChange == gossipChanges > 0 /\ gossipChanges' = gossipChanges - 1

HasLoop == cancel # 0

\* Start: nothing if there is a loop.
StartGossip ==
  /\ wanted' = TRUE
  /\ IF HasLoop THEN UNCHANGED <<cancel, loops>>
     ELSE LET l == loops.made + 1 IN
          l \in 1..Loops /\ cancel' = l /\ loops' = [on |-> loops.on \cup {l}, made |-> l]
  /\ UNCHANGED <<seen, wallClock, read, pushes, heard, gossipHistory, gossipChanges>>

NoLoop == 0

\* Stop: the loop ends after the announcement under way.
StopGossip ==
  /\ GossipChange
  /\ wanted /\ wanted' = FALSE
  /\ loops' = [loops EXCEPT !.on = @ \ {cancel}] /\ cancel' = NoLoop
  /\ UNCHANGED <<seen, wallClock, read, pushes, heard, gossipHistory>>

\* Announce, at the start of a loop and every 20 s: the state is read ...
ReadState(l) ==
  /\ l \in loops.on /\ read[l] = 0
  /\ read' = [read EXCEPT ![l] = seen]
  /\ crossed' = (crossed \/ \E k \in 1..Loops : read[k] # 0)
  /\ UNCHANGED <<seen, wallClock, wanted, cancel, loops, pushes, heard, setBack, gossipChanges>>

\* ... and stamped, and the pushes go out.
Send(l) ==
  /\ read[l] # 0 /\ Cardinality(pushes) < PushMax
  /\ pushes' = pushes \cup {[state |-> read[l], stamp |-> wallClock]}
  /\ read' = [read EXCEPT ![l] = 0]
  /\ UNCHANGED <<seen, wallClock, wanted, cancel, loops, heard, gossipHistory, gossipChanges>>

\* Faulty variant: whatever arrives is kept.
StaleNever(push) == FALSE

\* An older stamp; none (0) is never older.
Stale(push) == push.stamp # 0 /\ push.stamp < heard.stamp

\* handle and store.
Hear(push) ==
  /\ push \in pushes /\ pushes' = pushes \ {push}
  /\ heard' = IF Stale(push) THEN heard ELSE push
  /\ UNCHANGED <<publisher, gossipHistory, gossipChanges>>

LosePush(push) ==
  /\ GossipChange /\ push \in pushes /\ pushes' = pushes \ {push}
  /\ UNCHANGED <<publisher, heard, gossipHistory>>

SeeChange ==
  /\ GossipChange /\ seen' = seen + 1
  /\ UNCHANGED <<wallClock, wanted, cancel, loops, read, pushes, heard, gossipHistory>>

WallClock ==
  /\ \/ wallClock < ClockMax /\ wallClock' = wallClock + 1 /\ UNCHANGED <<setBack, gossipChanges>>
     \/ GossipChange /\ wallClock > 1 /\ wallClock' = wallClock - 1 /\ setBack' = TRUE
  /\ UNCHANGED <<seen, wanted, cancel, loops, read, pushes, heard, crossed>>

\* The other node starts anew.
HearerRestarts ==
  /\ GossipChange /\ heard' = NotHeard
  /\ UNCHANGED <<publisher, pushes, gossipHistory>>

GossipNext ==
  \/ StartGossip \/ StopGossip
  \/ \E l \in 1..Loops : ReadState(l) \/ Send(l)
  \/ \E push \in pushes : Hear(push) \/ LosePush(push)
  \/ SeeChange \/ WallClock \/ HearerRestarts

GossipSpec == GossipInit /\ [][GossipNext]_gossipVars

\* Announcements go on, what is sent and not lost arrives, and time passes.
GossipFairness ==
  /\ \A l \in 1..Loops : WF_gossipVars(ReadState(l)) /\ WF_gossipVars(Send(l))
  /\ WF_gossipVars(\E push \in pushes : Hear(push))
  /\ WF_gossipVars(WallClock /\ wallClock' > wallClock)

-----------------------------------------------------------------------------
\* Type invariant; at most the loop that can be cancelled goes on.
GossipTypeOK ==
  /\ seen \in 1..GossipChanges + 1 /\ wallClock \in 1..ClockMax
  /\ loops.on \subseteq {cancel} \ {0} /\ cancel \in 0..loops.made
  /\ \A l \in 1..Loops : read[l] \in 0..seen
  /\ \A push \in pushes \cup {heard} : push.state \in 0..seen /\ push.stamp \in 0..ClockMax

\* An older state never replaces a newer one, in whatever order the pushes
\* arrive, unless the stamps do not tell: the clock was set back, the two are of
\* one millisecond, or two loops read and stamped at the same time.
NewerStays ==
  [][heard'.state \in 1..heard.state-1 =>
       setBack \/ crossed \/ heard'.stamp = heard.stamp]_gossipVars

\* While the service is started, the other node comes to have the present state,
\* whatever was lost, late or stamped too early before.
HeardSettles == <>[](wanted => heard.state = seen)
===============================================================================
