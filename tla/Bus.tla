-------------------------------- MODULE Bus ---------------------------------
(***************************************************************************)
(* mesh/bus: the QUIC connections of one service to one peer.  A connection *)
(* serves both ways: either end caches it, opens streams on it and accepts *)
(* the other's as long as its accept loop runs.                            *)
(*                                                                         *)
(* The peer is the environment: it is reachable or not, it dials when it   *)
(* holds no connection, and it closes its end of one that does not serve   *)
(* it.  That a call expires, a handshake fails, a connection breaks,       *)
(* stalls or is closed by the peer, or that both dial at once, for no      *)
(* reason that shows here, happens only `budget' times; what cannot        *)
(* succeed fails for free.  Payloads and handlers are left out: an         *)
(* exchange succeeds iff its connection works.  Binding the listener and   *)
(* entering it in the service are one step, and Start waits for a Stop to  *)
(* finish, as the engine calls them in turn.  Link events are left out.    *)
(***************************************************************************)
EXTENDS Naturals, FiniteSets

CONSTANTS
  Pings,         \* pings under way: one of a round, more after a restart
  Apps,          \* calls of the services above
  ConnCount,     \* bound: connections in existence at a time
  MaxStarts,     \* bound: starts of the service
  Budget,        \* bound: failures that have no cause in the model
  Changes,       \* bound: stops, changes of the roster and of the peer
  PingFailLimit, \* pingFailLimit
  EvictGrace     \* evictGraceRounds

Calls == Pings \cup Apps
Conns == 1..ConnCount
NoConnection == 0

ASSUME BusAssumption ==
  /\ Pings \cap Apps = {}
  /\ ConnCount \in Nat /\ MaxStarts \in Nat /\ Budget \in Nat /\ Changes \in Nat
  /\ PingFailLimit \in Nat \ {0} /\ EvictGrace \in Nat \ {0}

VARIABLES
  running,    \* Service.running
  gen,        \* the number of starts; names Service.ctx
  cancelled,  \* contexts up to this one are cancelled
  listener,   \* Service.ln: "off", "binding" or "on"
  closing,    \* the connection a Stop has taken and not closed yet
  stopping,   \* a Stop is between its lock and its end
  cached,     \* Service.conns of the peer
  dialing,    \* Service.dialing of the peer
  linkUp,     \* Service.linkUp of the peer: "none", "up" or "down"
  pingFail, evictMiss,
  sweeping,   \* a round has found the cached connection stale
  call,       \* where each call is
  conn,       \* the connections
  knows,      \* the resolver lists the peer
  peerUp,     \* the peer listens and can be reached
  budget, changes

service == <<running, gen, cancelled, listener, closing, stopping>>
links == <<linkUp, pingFail, evictMiss, sweeping>>
outside == <<knows, peerUp, changes>>
busVars == <<service, cached, dialing, links, call, conn, outside, budget>>

IdleCall == [pc |-> "idle", conn |-> NoConnection, again |-> FALSE, gen |-> 0]

\* ours, theirs: the end is open.  serve: the context of our accept loop.
NoConn == [ours |-> FALSE, theirs |-> FALSE, inbound |-> FALSE,
           queued |-> FALSE, stalled |-> FALSE, serve |-> 0]

BusInit ==
  /\ running = FALSE /\ gen = 0 /\ cancelled = 0 /\ listener = "off"
  /\ closing = NoConnection /\ stopping = FALSE
  /\ cached = NoConnection /\ dialing = FALSE
  /\ linkUp = "none" /\ pingFail = 0 /\ evictMiss = 0 /\ sweeping = FALSE
  /\ call = [k \in Calls |-> IdleCall]
  /\ conn = [c \in Conns |-> NoConn]
  /\ knows = TRUE /\ peerUp = TRUE
  /\ budget = Budget /\ changes = Changes

\* Whatever fails without a cause is paid for.
Pay(free) == IF free THEN budget' = budget
             ELSE budget > 0 /\ budget' = budget - 1

-----------------------------------------------------------------------------
(* Connections.                                                            *)

\* CloseWithError: only our accept loop is left, to end.
Closed(r) == [NoConn EXCEPT !.serve = r.serve]
Close(c) == IF c = NoConnection THEN conn ELSE [conn EXCEPT ![c] = Closed(@)]

Unused(c) == /\ conn[c] = NoConn
             /\ c \notin {cached, closing}
             /\ \A k \in Calls : call[k].conn # c

\* A new connection takes the first free name.
Connect(c, inbound) ==
  /\ Unused(c)
  /\ \A d \in 1..(c - 1) : ~Unused(d)
  /\ conn' = [conn EXCEPT ![c] = [NoConn EXCEPT
       !.ours = TRUE, !.theirs = TRUE, !.inbound = inbound, !.queued = inbound]]

\* Our accept loop on c is there, or will be.
WillServe(c) ==
  \/ conn[c].serve > cancelled
  \/ conn[c].queued /\ listener = "on"
  \/ \E k \in Calls : call[k].pc = "cache" /\ call[k].conn = c

Works(c) == conn[c].ours /\ conn[c].theirs /\ ~conn[c].stalled

\* dropConn: whatever is cached is closed.
Drop == cached' = NoConnection /\ pingFail' = 0 /\ conn' = Close(cached)

\* serveConn: a connection is cached if its peer is known (PubForIP) and none
\* is cached yet (adoptConn), and served anyway.
Accept(c) ==
  /\ conn[c].queued
  /\ listener = "on" /\ gen > cancelled
  /\ conn' = [conn EXCEPT ![c].queued = FALSE, ![c].serve = gen]
  /\ cached' = IF knows /\ cached = NoConnection THEN c ELSE cached
  /\ UNCHANGED <<service, dialing, links, call, outside, budget>>

\* Faulty variant: a connection that has died stays cached.
NotForgotten(c) == cached

\* forgetConn: only if it is still the cached one.
Forgotten(c) == IF cached = c THEN NoConnection ELSE cached

\* acceptStreams returns: our end is closed, or the service has stopped.
EndAccept(c) ==
  /\ conn[c].serve # 0
  /\ ~conn[c].ours \/ conn[c].serve <= cancelled
  /\ conn' = [conn EXCEPT ![c].serve = 0]
  /\ cached' = Forgotten(c)
  /\ UNCHANGED <<service, dialing, links, call, outside, budget>>

\* We learn that the peer has closed it: CONNECTION_CLOSE or the idle timeout.
Notice(c) ==
  /\ conn[c].ours /\ ~conn[c].theirs
  /\ conn' = Close(c)
  /\ UNCHANGED <<service, cached, dialing, links, call, outside, budget>>

\* The peer's end closes: because its pings over it fail, as we serve no
\* streams there; or for a reason of its own.
PeerClose(c) ==
  /\ conn[c].theirs
  /\ conn' = [conn EXCEPT ![c].theirs = FALSE]
  /\ Pay(~WillServe(c))
  /\ UNCHANGED <<service, cached, dialing, links, call, outside>>

\* Streams stall, while keepalives pass and no idle timeout comes.
Stall(c) ==
  /\ Works(c)
  /\ conn' = [conn EXCEPT ![c].stalled = TRUE]
  /\ Pay(FALSE)
  /\ UNCHANGED <<service, cached, dialing, links, call, outside>>

\* The peer dials when it holds no connection; that both do so at once, which
\* the tie-break is to avoid, is paid for.
PeerDial ==
  /\ listener = "on" /\ peerUp
  /\ \A c \in Conns : ~conn[c].theirs
  /\ \E c \in Conns : Connect(c, TRUE)
  /\ Pay(~dialing)
  /\ UNCHANGED <<service, cached, dialing, links, call, outside>>

-----------------------------------------------------------------------------
(* Calls.                                                                  *)

Go(k, r) == call' = [call EXCEPT ![k] = r]
At(k, pc) == [call[k] EXCEPT !.pc = pc]
On(k, c) == [call[k] EXCEPT !.pc = "talk", !.conn = c]

\* How a call ends: a ping is scored, the others return to their caller.
Ended(k, outcome) ==
  IF k \in Pings THEN [IdleCall EXCEPT !.pc = outcome, !.gen = call[k].gen] ELSE IdleCall

\* The context of a ping is its round's.
Expired(k) == k \in Pings /\ call[k].gen <= cancelled

\* Request, Notify or OpenStream of a service above the bus.
Begin(k) ==
  /\ gen > 0
  /\ call[k] = IdleCall
  /\ Go(k, At(k, "dial"))
  /\ UNCHANGED <<service, cached, dialing, links, conn, outside, budget>>

\* connFor and dial: the cached connection; or one caller shakes hands, and
\* the others wait for it.  The higher pub first waits for the peer to dial
\* (waitInbound), which is a delay here: dial looks into the cache again.
Dial(k) ==
  /\ call[k].pc = "dial"
  /\ IF cached # NoConnection THEN Go(k, On(k, cached)) /\ UNCHANGED dialing
     ELSE IF dialing THEN Go(k, At(k, "join")) /\ UNCHANGED dialing
     ELSE Go(k, At(k, "hand")) /\ dialing' = TRUE
  /\ UNCHANGED <<service, cached, links, conn, outside, budget>>

\* The winner removes its entry and closes its channel: the others look again.
Release(k, r) ==
  /\ dialing' = FALSE
  /\ call' = [j \in Calls |->
       IF j = k THEN r
       ELSE IF call[j].pc = "join" THEN [call[j] EXCEPT !.pc = "dial"]
       ELSE call[j]]

\* dialOnce, until the handshake is over.
Handshake(k) ==
  /\ call[k].pc = "hand"
  /\ \/ /\ knows /\ peerUp /\ ~Expired(k)
        /\ \E c \in Conns : /\ Connect(c, FALSE)
                            /\ Go(k, [At(k, "cache") EXCEPT !.conn = c])
        /\ UNCHANGED <<dialing, budget>>
     \/ /\ Release(k, Ended(k, "missed"))
        /\ Pay(~knows \/ ~peerUp \/ Expired(k))
        /\ UNCHANGED conn
  /\ UNCHANGED <<service, cached, links, outside>>

\* Faulty variant: a second connection is left as it is.
CacheBeside(k) ==
  /\ call[k].pc = "cache"
  /\ IF cached # NoConnection
     THEN /\ conn' = conn
          /\ Release(k, On(k, cached))
          /\ UNCHANGED cached
     ELSE /\ cached' = call[k].conn
          /\ conn' = [conn EXCEPT ![call[k].conn].serve = gen]
          /\ Release(k, At(k, "talk"))
  /\ UNCHANGED <<service, links, outside, budget>>

\* The rest of dialOnce, and dial: the first connection stays, a second one is
\* closed; the accept loop rides the service's context, cancelled or not.
Cache(k) ==
  /\ call[k].pc = "cache"
  /\ IF cached # NoConnection
     THEN /\ conn' = Close(call[k].conn)
          /\ Release(k, On(k, cached))
          /\ UNCHANGED cached
     ELSE /\ cached' = call[k].conn
          /\ conn' = [conn EXCEPT ![call[k].conn].serve = gen]
          /\ Release(k, At(k, "talk"))
  /\ UNCHANGED <<service, links, outside, budget>>

\* OpenStreamSync on a closed connection: whatever is cached, which may be
\* another one by now, is dropped, and the call tries once more.
Reopen(k) ==
  /\ call[k].pc = "talk"
  /\ ~conn[call[k].conn].ours /\ ~call[k].again /\ ~Expired(k)
  /\ Drop
  /\ Go(k, [At(k, "dial") EXCEPT !.conn = NoConnection, !.again = TRUE])
  /\ UNCHANGED <<service, dialing, linkUp, evictMiss, sweeping, outside, budget>>

\* A stream, and frames out and back.  A call whose stream stalls, or whose
\* connection closes under it, fails and leaves the connection as it is.
Talk(k) ==
  /\ call[k].pc = "talk"
  /\ \/ /\ Works(call[k].conn)
        /\ Go(k, Ended(k, "answered"))
        /\ UNCHANGED budget
     \/ /\ Go(k, Ended(k, "missed"))
        /\ Pay(Expired(k) \/ ~Works(call[k].conn))
  /\ UNCHANGED <<service, cached, dialing, links, conn, outside>>

\* The context expires while another caller dials.
JoinDial(k) ==
  /\ call[k].pc = "join"
  /\ Go(k, Ended(k, "missed"))
  /\ Pay(Expired(k))
  /\ UNCHANGED <<service, cached, dialing, links, conn, outside>>

-----------------------------------------------------------------------------
(* Pings and eviction.                                                     *)

\* evictStale: the rounds without the peer while a connection to it is cached.
Misses == IF cached = NoConnection THEN evictMiss ELSE evictMiss + 1

\* pingRound: probe the peer if it is listed, else sweep it away.
Round ==
  /\ running /\ gen > cancelled /\ ~sweeping
  /\ IF knows
     THEN /\ \A k \in Pings : call[k].gen < gen
          /\ \E k \in Pings : /\ call[k] = IdleCall
                              /\ Go(k, [IdleCall EXCEPT !.pc = "dial", !.gen = gen])
          /\ evictMiss' = 0
          /\ UNCHANGED <<linkUp, sweeping>>
     ELSE /\ sweeping' = (cached # NoConnection /\ Misses >= EvictGrace)
          /\ evictMiss' = IF cached # NoConnection /\ Misses >= EvictGrace THEN 0
                          ELSE Misses
          /\ linkUp' = "none"
          /\ UNCHANGED call
  /\ UNCHANGED <<service, cached, dialing, pingFail, conn, outside, budget>>

\* The sweep drops what it has found stale, after its lock.
Evict ==
  /\ sweeping
  /\ sweeping' = FALSE
  /\ Drop
  /\ UNCHANGED <<service, dialing, linkUp, evictMiss, call, outside, budget>>

Streak == pingFail + 1 >= PingFailLimit

\* pingOne, when the ping has ended.  Its sections for the count and for the
\* link are one step: nothing else reads both.
Score(k) ==
  /\ \/ /\ call[k].pc = "answered"
        /\ pingFail' = 0
        /\ linkUp' = "up"
        /\ Go(k, IdleCall)
     \/ /\ call[k].pc = "missed"
        /\ pingFail' = IF pingFail < PingFailLimit THEN pingFail + 1 ELSE pingFail
        /\ IF Streak THEN Go(k, At(k, "drop")) /\ UNCHANGED linkUp
           ELSE Go(k, IdleCall) /\ linkUp' = "down"
  /\ UNCHANGED <<service, cached, dialing, evictMiss, sweeping, conn, outside,
                 budget>>

DropDead(k) ==
  /\ call[k].pc = "drop"
  /\ Drop
  /\ linkUp' = "down"
  /\ Go(k, IdleCall)
  /\ UNCHANGED <<service, dialing, evictMiss, sweeping, outside, budget>>

-----------------------------------------------------------------------------
(* The service's life, the roster and the peer.                            *)

BusStart ==
  /\ ~running /\ ~stopping
  /\ gen < MaxStarts
  /\ running' = TRUE
  /\ gen' = gen + 1
  /\ listener' = "binding"
  /\ UNCHANGED <<cancelled, closing, stopping, cached, dialing, links,
                 call, conn, outside, budget>>

\* listenLoop has bound the listener, after any number of retries.
Listen ==
  /\ running /\ listener = "binding"
  /\ listener' = "on"
  /\ UNCHANGED <<running, gen, cancelled, closing, stopping, cached,
                 dialing, links, call, conn, outside, budget>>

\* Stop, under the lock.
BusStop ==
  /\ running /\ changes > 0
  /\ changes' = changes - 1
  /\ running' = FALSE /\ stopping' = TRUE
  /\ closing' = cached /\ cached' = NoConnection
  /\ UNCHANGED <<gen, cancelled, listener, dialing, links, call, conn,
                 knows, peerUp, budget>>

\* Stop, after it: the context, the connections taken, and the listener, whose
\* socket carries those it accepted.
StopEnd ==
  /\ stopping
  /\ stopping' = FALSE /\ cancelled' = gen /\ listener' = "off"
  /\ conn' = [c \in Conns |->
       IF c = closing \/ conn[c].inbound
       THEN Closed(conn[c]) ELSE conn[c]]
  /\ closing' = NoConnection
  /\ UNCHANGED <<running, gen, cached, dialing, links, call, outside,
                 budget>>

\* The peer comes or goes, in the roster or in fact.
Change ==
  /\ changes > 0
  /\ changes' = changes - 1
  /\ \/ knows' = ~knows /\ UNCHANGED peerUp
     \/ peerUp' = ~peerUp /\ UNCHANGED knows
  /\ UNCHANGED <<service, cached, dialing, links, call, conn, budget>>

CallStep(k) ==
  \/ Dial(k) \/ JoinDial(k) \/ Handshake(k) \/ Cache(k) \/ Reopen(k) \/ Talk(k)
  \/ Score(k) \/ DropDead(k)

BusNext ==
  \/ BusStart \/ Listen \/ BusStop \/ StopEnd \/ Change
  \/ Round \/ Evict \/ PeerDial
  \/ \E k \in Apps : Begin(k)
  \/ \E k \in Calls : CallStep(k)
  \/ \E c \in Conns :
       Accept(c) \/ EndAccept(c) \/ Notice(c) \/ PeerClose(c) \/ Stall(c)

BusSpec == BusInit /\ [][BusNext]_busVars

\* Goroutines run, contexts expire, rounds come and the peer's end of a dead
\* connection goes.  Stops, calls from above and failures need not come; a
\* step that has to be paid for is not owed once the budget is spent.
BusFairness ==
  /\ WF_busVars(Listen) /\ WF_busVars(StopEnd) /\ WF_busVars(Round) /\ WF_busVars(Evict)
  /\ \A k \in Calls : WF_busVars(CallStep(k) /\ budget' = budget)
  /\ \A c \in Conns : /\ WF_busVars(Accept(c)) /\ WF_busVars(EndAccept(c))
                      /\ WF_busVars(Notice(c)) /\ WF_busVars(PeerClose(c) /\ budget' = budget)

BusFairSpec == BusSpec /\ BusFairness

-----------------------------------------------------------------------------

CallRecord ==
  [pc : {"idle", "dial", "join", "hand", "cache", "talk", "answered", "missed",
         "drop"},
   conn : Conns \cup {NoConnection}, again : BOOLEAN, gen : 0..MaxStarts]

ConnRecord == [ours : BOOLEAN, theirs : BOOLEAN, inbound : BOOLEAN,
               queued : BOOLEAN, stalled : BOOLEAN, serve : 0..MaxStarts]

\* Every variable holds what its Go counterpart can hold; the counts stay within
\* their limits.
BusTypeOK ==
  /\ {running, stopping, dialing, sweeping, knows, peerUp} \subseteq BOOLEAN
  /\ gen \in 0..MaxStarts /\ cancelled \in 0..gen
  /\ listener \in {"off", "binding", "on"}
  /\ cached \in Conns \cup {NoConnection} /\ closing \in Conns \cup {NoConnection}
  /\ linkUp \in {"none", "up", "down"}
  /\ pingFail \in 0..PingFailLimit /\ evictMiss \in 0..(EvictGrace - 1)
  /\ call \in [Calls -> CallRecord]
  /\ conn \in [Conns -> ConnRecord]
  /\ budget \in 0..Budget /\ changes \in 0..Changes

\* Concurrent callers never run two handshakes to one peer, and a caller never
\* waits for a handshake that nobody runs (Service.dialing).
OneHandshake ==
  Cardinality({k \in Calls : call[k].pc \in {"hand", "cache"}})
    = IF dialing THEN 1 ELSE 0

\* A cached connection has an accept loop: it is forgotten when it dies, and
\* the peer's streams on it are accepted (the reason dialOnce gives for its
\* loop), whichever end dialed and whatever was stopped meanwhile.
CachedIsServed == cached # NoConnection => conn[cached].serve # 0

\* A connection we dialed and do not use is closed, not left open behind the
\* cached one.  Only Stop breaks this: what a dial that outlives it has cached
\* is forgotten but not closed.
NoStrayDial ==
  \A c \in Conns :
    /\ conn[c].ours /\ conn[c].theirs /\ ~conn[c].inbound
    /\ c \notin {cached, closing}
    /\ \A k \in Calls : call[k].conn = c => call[k].pc # "cache"
    => cancelled > 0

\* Every connection is accounted for, however dials, streams, stops and the
\* peer's dials meet: one handshake at a time, and each connection is cached
\* and served, or on its way to be closed.
ConnectionsAccountedFor == OneHandshake /\ CachedIsServed /\ NoStrayDial

\* The mesh forms: a service that runs, and lists a peer that can be reached,
\* comes to have a working link and keeps it, whatever broke, stalled, stopped
\* or raced before.
MeshForms == <>[](running /\ knows /\ peerUp) => <>[](linkUp = "up")

\* A peer that has left the roster is forgotten, although a ping under way may
\* mark it up once more and a late dial may cache its connection.
DepartedForgotten ==
  <>[](running /\ ~knows) => <>[](linkUp = "none" /\ cached = NoConnection)

\* A stopped service keeps no connection: what a call that outlives Stop has
\* dialed is cached, and forgotten again.
StoppedForgets == <>[](~running) => []<>(cached = NoConnection)
=============================================================================
