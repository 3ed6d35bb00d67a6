--------------------------------- MODULE Calls ---------------------------------
(***************************************************************************)
(* services/calls: the group call that one peer hosts, from Create to the  *)
(* last that leaves, and its discovery by another peer, which polls.  The  *)
(* call is an atomic pointer: only Create takes the mutex, and whoever     *)
(* ends a call stores nil whatever call is there by then.  A call stands   *)
(* for its SFU (module Sfu), of which only the participants matter here.   *)
(***************************************************************************)
EXTENDS Naturals, FiniteSets

CONSTANTS
  Callers,     \* the participants besides the host
  MaxCalls,    \* bound: calls made
  CallChanges  \* bound: joins, ends, losses, engine and network changes

ASSUME CallsAssumption == Callers \subseteq 1..97 /\ {MaxCalls, CallChanges} \subseteq Nat

VARIABLES
  call,        \* Service.call: 0 is none
  madeCalls,   \* the calls made
  creating,    \* the Creates that hold the mutex
  people,      \* people[c]: the participants of the SFU of call c
  closed,      \* the SFUs that were closed
  joining,     \* Joins that have loaded the call
  leaving,     \* Leaves that have removed their participant
  clearing,    \* the ended calls that are not cleared yet, with who does it
  engine,      \* "up", "stopping" (Running says true still) or "down"
  reach,       \* the other peer reaches this one
  reply, remoteCall,\* its poll: the call in the answer; its remoteCalls
  failed,     \* history: calls whose last participant failed rather than left
  stray,       \* history: calls joined after they were closed, or cleared by
               \* the end of another
  callChanges

hosting == <<call, madeCalls, creating>>
sfus == <<people, closed>>
callHandlers == <<joining, leaving, clearing>>
discovery == <<reach, reply, remoteCall>>
callHistory == <<failed, stray>>
callVars == <<hosting, sfus, callHandlers, engine, discovery, callHistory, callChanges>>

Host == 0
Everyone == Callers \cup {Host}
CallIds == 1..MaxCalls
Handle(p, c) == [who |-> p, of |-> c]
StopItself == 98 \* handlers that are no participant's
EndItself == 99

CallsInit ==
  /\ call = 0 /\ madeCalls = 0 /\ creating = {}
  /\ people = [c \in CallIds |-> {}] /\ closed = {}
  /\ joining = {} /\ leaving = {} /\ clearing = {}
  /\ engine = "up" /\ reach = TRUE /\ reply = 0 /\ remoteCall = 0
  /\ failed = {} /\ stray = {}
  /\ callChanges = CallChanges

CallChange == callChanges > 0 /\ callChanges' = callChanges - 1

-----------------------------------------------------------------------------
(* The host.                                                               *)

NobodyCreates == creating = {}

\* Create, until the call is stored.
Create ==
  LET c == madeCalls + 1 IN
  /\ NobodyCreates /\ call = 0 /\ engine # "down" /\ c \in CallIds
  /\ call' = c /\ madeCalls' = c /\ creating' = creating \cup {c}
  /\ UNCHANGED <<sfus, callHandlers, engine, discovery, callHistory, callChanges>>

\* AddParticipant: a closed SFU takes participants as well.
Joined(c, p) ==
  /\ people' = [people EXCEPT ![c] = @ \cup {p}]
  /\ stray' = IF c \in closed THEN stray \cup {c} ELSE stray

\* Faulty variant: the participants stay.
SfuClosedOnly(c) == people

\* Close of the SFU.
SfuClosed(c) == [people EXCEPT ![c] = {}]

\* The pointer is set to nil by the one who ended call c.
Cleared(c) ==
  /\ call' = 0
  /\ stray' = IF call \in {0, c} THEN stray ELSE stray \cup {call}

\* Create, from there: the host is a participant, or cannot be.
CreateEnd ==
  \E c \in creating :
    /\ \/ Joined(c, Host) /\ UNCHANGED <<call, closed>>
       \/ people' = SfuClosed(c) /\ closed' = closed \cup {c} /\ Cleared(c)
    /\ creating' = creating \ {c}
    /\ UNCHANGED <<madeCalls, callHandlers, engine, discovery, failed, callChanges>>

\* The call is ended by w: End, Reset, or Leave of the host or of the last one.
Ended(w, c) ==
  /\ people' = SfuClosed(c) /\ closed' = closed \cup {c}
  /\ clearing' = clearing \cup {Handle(w, c)}

Clear ==
  \E h \in clearing :
    /\ Cleared(h.of)
    /\ clearing' = clearing \ {h}
    /\ UNCHANGED <<madeCalls, creating, sfus, joining, leaving, engine, discovery>>
    /\ UNCHANGED <<failed, callChanges>>

\* End: the user stops the call, or joins a call elsewhere.
End ==
  /\ CallChange /\ call # 0 /\ Ended(EndItself, call)
  /\ UNCHANGED <<hosting, joining, leaving, engine, discovery, callHistory>>

\* The engine stops: Reset.
Stopping ==
  /\ CallChange /\ engine = "up" /\ engine' = "stopping"
  /\ IF call # 0 THEN Ended(StopItself, call) ELSE UNCHANGED <<sfus, clearing>>
  /\ UNCHANGED <<hosting, joining, leaving, discovery, callHistory>>

Stopped ==
  /\ engine = "stopping" /\ \A h \in clearing : h.who # StopItself
  /\ engine' = "down"
  /\ UNCHANGED <<hosting, sfus, callHandlers, discovery, callHistory, callChanges>>

StartEngine ==
  /\ engine = "down" /\ engine' = "up"
  /\ UNCHANGED <<hosting, sfus, callHandlers, discovery, callHistory, callChanges>>

-----------------------------------------------------------------------------
(* The participants.                                                       *)

\* Join loads the call, and adds its caller then.
Join(p) ==
  /\ CallChange /\ call # 0 /\ engine # "down"
  /\ joining' = joining \cup {Handle(p, call)}
  /\ UNCHANGED <<hosting, sfus, leaving, clearing, engine, discovery, callHistory>>

JoinEnd ==
  \E h \in joining :
    /\ Joined(h.of, h.who)
    /\ joining' = joining \ {h}
    /\ UNCHANGED <<hosting, closed, leaving, clearing, engine, discovery, failed, callChanges>>

\* Leave: with the host goes the call.
Leave(p) ==
  /\ CallChange /\ call # 0
  /\ IF p = Host
     THEN Ended(p, call) /\ UNCHANGED leaving
     ELSE /\ people' = [people EXCEPT ![call] = @ \ {p}]
          /\ leaving' = leaving \cup {Handle(p, call)}
          /\ UNCHANGED <<closed, clearing>>
  /\ UNCHANGED <<hosting, joining, engine, discovery, callHistory>>

NobodyLeft(c) == people[c] = {}

LeaveEnd ==
  \E h \in leaving :
    /\ leaving' = leaving \ {h}
    /\ IF NobodyLeft(h.of) THEN Ended(h.who, h.of) ELSE UNCHANGED <<sfus, clearing>>
    /\ UNCHANGED <<hosting, joining, engine, discovery, callHistory, callChanges>>

\* A connection fails: the SFU removes its participant, and nothing else happens.
SfuDrops(c, p) ==
  /\ CallChange /\ p \in people[c]
  /\ people' = [people EXCEPT ![c] = @ \ {p}]
  /\ failed' = IF people[c] = {p} THEN failed \cup {c} ELSE failed
  /\ UNCHANGED <<hosting, closed, callHandlers, engine, discovery, stray>>

-----------------------------------------------------------------------------
(* Discovery by the other peer.                                            *)

ReachChanges ==
  /\ CallChange /\ reach' = ~reach
  /\ UNCHANGED <<hosting, sfus, callHandlers, engine, reply, remoteCall, callHistory>>

\* The handler on the bus, LocalCall: if it is reached and its bus is up.
Answered == IF reach /\ engine = "up" THEN call ELSE 0

\* pollOnce asks.
AskCall ==
  /\ reply' = Answered
  /\ UNCHANGED <<hosting, sfus, callHandlers, engine, reach, remoteCall, callHistory, callChanges>>

Found(c) == c

\* ... and stores what it found, when all were asked.
StoreCalls ==
  /\ remoteCall' = Found(reply)
  /\ UNCHANGED <<hosting, sfus, callHandlers, engine, reach, reply, callHistory, callChanges>>

-----------------------------------------------------------------------------
CallsNext ==
  \/ Create \/ CreateEnd \/ Clear \/ End \/ Stopping \/ Stopped \/ StartEngine
  \/ \E p \in Callers : Join(p)
  \/ \E p \in Everyone : Leave(p) \/ \E c \in CallIds : SfuDrops(c, p)
  \/ JoinEnd \/ LeaveEnd
  \/ ReachChanges \/ AskCall \/ StoreCalls

\* Handlers run to their end, and the poll goes on.
CallsFairness ==
  /\ WF_callVars(CreateEnd) /\ WF_callVars(Clear) /\ WF_callVars(JoinEnd) /\ WF_callVars(LeaveEnd)
  /\ WF_callVars(Stopped) /\ WF_callVars(AskCall) /\ WF_callVars(StoreCalls)

CallsSpec == CallsInit /\ [][CallsNext]_callVars /\ CallsFairness

-----------------------------------------------------------------------------
\* Type invariant; one Create at a time is between its check and its end.
CallsTypeOK ==
  /\ call \in 0..madeCalls /\ madeCalls \in 0..MaxCalls
  /\ creating \subseteq 1..madeCalls /\ Cardinality(creating) <= 1
  /\ people \in [CallIds -> SUBSET Everyone] /\ closed \subseteq 1..madeCalls
  /\ \A h \in joining \cup leaving \cup clearing : h.of \in 1..madeCalls
  /\ engine \in {"up", "stopping", "down"}
  /\ {reply, remoteCall} \subseteq 0..madeCalls

\* Nobody is in a call that is not the call of the host: its media would go on
\* where no leave and no end reaches it.  (Unless it was joined after it was
\* closed, or cleared by the end of an earlier call.)
NobodyInLostCall == \A c \in CallIds : people[c] # {} => c = call \/ c \in stray

\* With the last one that leaves the call ends, whoever leaves at the same time;
\* only a call that a failed connection emptied may stay.
LastOneEndsIt == <>[](call # 0 => people[call] # {} \/ call \in failed)

\* The other peer's list comes to show the call that is there, or none.
DiscoveryFollows == <>[](remoteCall = Answered)

===============================================================================
