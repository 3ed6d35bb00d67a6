---------------------------------- MODULE Sfu ----------------------------------
(***************************************************************************)
(* services/calls/sfu: the peer that hosts a group call forwards every     *)
(* participant's track to all the others.  Participants are keyed by their *)
(* address; a page that reloads joins again, with a new peer connection.   *)
(* Signals and callbacks of the WebRTC library come in goroutines of their *)
(* own, and name the participant by the address.                           *)
(*                                                                         *)
(* A connection stands for its participant object: 1, 2, ... in the order  *)
(* of their joins.  It publishes one track at most.  The browser (external)*)
(* offers when it is asked to, with an m-line for each track it was told   *)
(* of; signals are delivered at once.  The senders of a connection that is *)
(* closed are left out.                                                    *)
(***************************************************************************)
EXTENDS Naturals

CONSTANTS
  Ips,       \* the participants' addresses
  MaxJoins,  \* bound: connections
  MaxFails   \* bound: connections that fail

ASSUME SfuAssumption == MaxJoins \in Nat /\ MaxFails \in Nat

None == 0
Conns == 1..MaxJoins

VARIABLES
  joins,     \* the number of connections made
  who,       \* who[c]: the address that connection c was made for, if it was
  member,    \* SFU.participants: the connection of each address, or None
  open,      \* the connections that are open
  late,      \* the connections whose failure is on its way to the SFU
  fails,
  tracks,    \* the connections whose track is in Participant.tracks
  flow,      \* flow[c]: where handleTrack is for the track of c
  senders,   \* senders[c][d]: how many senders of c carry the track of d
  timers,    \* renegTimers: the connection to be renegotiated, by address
  mlines     \* mlines[c]: what the browser has offered

sfuPeers == <<joins, who, member, open, late, fails>>
sfuTracks == <<tracks, flow, senders>>
sfuSignals == <<timers, mlines>>
sfuVars == <<sfuPeers, sfuTracks, sfuSignals>>

Present == {c \in Conns : \E ip \in Ips : member[ip] = c}
Others(ip) == {c \in Present : who[c] # ip}
Sum(f) == LET sum[k \in 0..MaxJoins] == IF k = 0 THEN 0 ELSE f[k] + sum[k - 1]
          IN sum[MaxJoins]
\* The m-lines of a browser that has m and is told of n tracks.
Larger(m, n) == IF m > n THEN m ELSE n
Nothing == [d \in Conns |-> 0]

SfuInit ==
  /\ joins = 0 /\ who = [c \in Conns |-> None] /\ member = [ip \in Ips |-> None]
  /\ open = {} /\ late = {} /\ fails = MaxFails
  /\ tracks = {} /\ flow = [c \in Conns |-> "none"]
  /\ senders = [c \in Conns |-> Nothing]
  /\ timers = [ip \in Ips |-> None]
  /\ mlines = [c \in Conns |-> 0]

\* renegotiate: the timer of the address is set anew, for this connection.
Renegotiate(cs) == [ip \in Ips |-> IF \E c \in cs : who[c] = ip
                                   THEN CHOOSE c \in cs : who[c] = ip ELSE timers[ip]]

\* c is closed: the others' senders of its track, as far as it is published, are
\* removed.
Removed(c) ==
  [d \in Conns |-> IF d = c THEN Nothing
                   ELSE IF c \in tracks /\ d \in Others(who[c])
                   THEN [senders[d] EXCEPT ![c] = 0] ELSE senders[d]]

-----------------------------------------------------------------------------
(* Participants.                                                           *)

\* AddParticipant: the stale connection of the same address is replaced, and the
\* new one sends the tracks the others have published.
AddParticipant ==
  /\ joins < MaxJoins
  /\ joins' = joins + 1
  /\ \E ip \in Ips : LET c == joins' old == member[ip]
     IN /\ member' = [member EXCEPT ![ip] = c]
        /\ who' = [who EXCEPT ![c] = ip]
        /\ open' = (open \ {old}) \cup {c}
        /\ mlines' = IF old = None THEN mlines ELSE [mlines EXCEPT ![old] = 0]
        /\ senders' = [(IF old = None THEN senders ELSE Removed(old))
                         EXCEPT ![c] = [d \in Conns |-> IF d \in Others(ip) \cap tracks
                                                        THEN 1 ELSE 0]]
  /\ UNCHANGED <<late, fails, tracks, flow, timers>>

\* RemoveParticipant: whoever is at the address by now.
Remove(ip) ==
  LET c == member[ip] IN
    IF c = None THEN UNCHANGED <<member, open, senders, timers, mlines>>
    ELSE /\ member' = [member EXCEPT ![ip] = None]
         /\ open' = open \ {c}
         /\ senders' = Removed(c)
         /\ timers' = Renegotiate(Others(ip))
         /\ mlines' = [mlines EXCEPT ![c] = 0]

\* The participant leaves (call.leave).
LeaveCall ==
  /\ \E ip \in Ips : member[ip] # None /\ Remove(ip)
  /\ UNCHANGED <<joins, who, late, fails, tracks, flow>>

\* The connection fails, and the callback is on its way.
ConnFails ==
  /\ fails > 0 /\ fails' = fails - 1
  /\ \E c \in open \ late : late' = late \cup {c}
  /\ UNCHANGED <<joins, who, member, open, sfuTracks, sfuSignals>>

\* ... and removes by address.
ConnFailed ==
  /\ \E c \in late : late' = late \ {c} /\ Remove(who[c])
  /\ UNCHANGED <<joins, who, fails, tracks, flow>>

-----------------------------------------------------------------------------
(* handleTrack.                                                            *)

TrackArrives ==
  /\ \E c \in open :
       /\ flow[c] = "none" /\ mlines[c] > 0
       /\ flow' = [flow EXCEPT ![c] = "listed"] /\ tracks' = tracks \cup {c}
  /\ UNCHANGED <<sfuPeers, senders, sfuSignals>>

\* Faulty variants: those who joined earlier, all the other connections.
ReceiversEarly(c) == {d \in Others(who[c]) : d < c}

\* It goes to all the others who are present now.
Receivers(c) == Others(who[c])

Forward ==
  /\ \E c \in Conns :
       /\ flow[c] = "listed"
       /\ flow' = [flow EXCEPT ![c] = "first"]
       /\ senders' = [d \in Conns |-> IF d \in Receivers(c)
                                      THEN [senders[d] EXCEPT ![c] = @ + 1] ELSE senders[d]]
       /\ timers' = Renegotiate(Receivers(c))
  /\ UNCHANGED <<sfuPeers, tracks, mlines>>

FirstPacket ==
  /\ \E c \in open : flow[c] = "first" /\ flow' = [flow EXCEPT ![c] = "live"]
  /\ UNCHANGED <<sfuPeers, tracks, senders, sfuSignals>>

\* A read fails, the connection being closed: before the first packet that is
\* the end; after it the others' senders are still to go.
TrackEnds ==
  /\ \E c \in Conns \ open :
       /\ flow[c] \in {"first", "live"}
       /\ tracks' = tracks \ {c}
       /\ flow' = [flow EXCEPT ![c] = IF @ = "first" THEN "over" ELSE "ended"]
  /\ UNCHANGED <<sfuPeers, senders, sfuSignals>>

\* One sender of each.
Unforward ==
  /\ \E c \in Conns :
       /\ flow[c] = "ended"
       /\ flow' = [flow EXCEPT ![c] = "over"]
       /\ LET affected == {d \in Others(who[c]) : senders[d][c] > 0}
          IN /\ senders' = [d \in Conns |-> IF d \in affected
                              THEN [senders[d] EXCEPT ![c] = @ - 1] ELSE senders[d]]
             /\ timers' = Renegotiate(affected)
  /\ UNCHANGED <<sfuPeers, tracks, mlines>>

-----------------------------------------------------------------------------
(* Negotiation.                                                            *)

\* The senders that no m-line of the offer carries.
Unserved(c, lines) == IF Sum(senders[c]) > lines THEN {c} ELSE {}

\* handleOffer: an offer without enough m-lines is answered, and renegotiated.
\* The first offer has one, for the browser's own track.
FirstOffer ==
  /\ \E c \in Present :
       /\ mlines[c] = 0
       /\ mlines' = [mlines EXCEPT ![c] = 1]
       /\ timers' = Renegotiate(Unserved(c, 1))
  /\ UNCHANGED <<sfuPeers, sfuTracks>>

\* The timer of the address runs out: the browser there is told the number of
\* tracks of the connection the timer was set for, and offers as many m-lines.
TimerFires ==
  /\ \E ip \in Ips :
       /\ timers[ip] # None
       /\ \/ /\ member[ip] = None
             /\ timers' = [timers EXCEPT ![ip] = None] /\ UNCHANGED mlines
          \/ \E c \in Present :
               /\ who[c] = ip /\ mlines[c] > 0
               /\ mlines' = [mlines EXCEPT ![c] = Larger(@, Sum(senders[timers[ip]]))]
               /\ timers' = [timers EXCEPT
                                ![ip] = IF Unserved(c, mlines'[c]) = {} THEN None ELSE c]
  /\ UNCHANGED <<sfuPeers, sfuTracks>>

SfuNext ==
  \/ AddParticipant \/ LeaveCall \/ ConnFails \/ ConnFailed
  \/ TrackArrives \/ Forward \/ FirstPacket \/ TrackEnds \/ Unforward
  \/ FirstOffer \/ TimerFires

SfuSpec == SfuInit /\ [][SfuNext]_sfuVars

\* Callbacks, timers and browsers get to run; nobody has to join, leave or fail.
SfuFairness ==
  /\ WF_sfuVars(ConnFailed) /\ WF_sfuVars(Forward) /\ WF_sfuVars(TrackEnds)
  /\ WF_sfuVars(Unforward) /\ WF_sfuVars(TimerFires) /\ WF_sfuVars(FirstOffer)

-----------------------------------------------------------------------------

\* Every variable holds what its Go counterpart can hold; whoever is a member has
\* an open connection of his own, and no track is sent more than twice.
SfuTypeOK ==
  /\ joins \in 0..MaxJoins /\ who \in [Conns -> Ips \cup {None}]
  /\ member \in [Ips -> 0..joins]
  /\ \A ip \in Ips : member[ip] # None => who[member[ip]] = ip /\ member[ip] \in open
  /\ open \subseteq Present /\ late \subseteq 1..joins /\ fails \in 0..MaxFails
  /\ tracks \subseteq 1..joins
  /\ flow \in [Conns -> {"none", "listed", "first", "live", "ended", "over"}]
  /\ senders \in [Conns -> [Conns -> 0..2]]
  /\ timers \in [Ips -> 0..joins]
  /\ mlines \in [Conns -> 0..(2 * MaxJoins)]

\* Whatever the order of joins and of tracks, a participant is sent every track
\* that another one has published and that has been forwarded.
EveryoneIsSent ==
  \A c, d \in Present :
    who[c] # who[d] /\ d \in tracks /\ flow[d] \in {"first", "live"} => senders[c][d] > 0

\* Nobody is sent a track of their own, not even one of the connection that the
\* present one has replaced and whose handleTrack comes late.
NotSentToSelf ==
  \A c \in Present, d \in Conns : senders[c][d] > 0 => who[c] # who[d]

\* Who is sent what, in whatever order participants join, are replaced by a
\* reload, and begin and end their tracks: all of the others, nothing of one's own.
SentToAllOthers == EveryoneIsSent /\ NotSentToSelf

\* Once nobody joins, leaves or fails any more, every participant's browser has
\* an m-line for each track it is sent.
AllNegotiated ==
  <>[](\A c \in Present : mlines[c] >= Sum(senders[c]))
===============================================================================
