-------------------------------- MODULE Tunnel --------------------------------
(***************************************************************************)
(* The intercepts of services/tunnel: names whose traffic goes through an  *)
(* exit peer.  Four activities share the set of intercepts: the user who   *)
(* adds one, the user who removes one, the DNS handler that resolves a     *)
(* subdomain of an intercepted zone on demand, and the ticker that         *)
(* resolves every name again.  Each takes the lock for the map only, and   *)
(* asks the exit peer, changes the kernel's routes and pins without it;    *)
(* and the engine restarts under all of them, waiting for none.            *)
(*                                                                         *)
(* There is one zone with one subdomain, and a name has one address.  A    *)
(* route that exists cannot be added again, and a utun opened anew has the *)
(* name of the one before (Linux): the route managers of two sessions run  *)
(* the same commands.  One removal at a time.                              *)
(***************************************************************************)
EXTENDS Naturals, FiniteSets

CONSTANTS
  Addresses,
  MaxIds,       \* bound: ids taken by additions
  Busy,         \* bound: activities at a time
  Turns         \* bound: changes of answers and of the link, and restarts

ASSUME TunnelAssumption == MaxIds \in Nat \ {0} /\ Busy \in Nat \ {0} /\ Turns \in Nat

VARIABLES
  intercepts,  \* records [id, spec, at]: at holds the address routed, if any
  nextID,
  routes,      \* the addresses with a route to the utun
  stored,      \* the zone is among the intercepts of the camp's config
  pins,        \* pins[spec]: what the local DNS answers
  adds,        \* where the two kinds of addition are
  ticker,      \* where the ticker is
  todo,        \* the entries the ticker's round has yet to look at
  victims,     \* the entries taken out whose routes are still to go
  unpinned,    \* the name whose pin is about to go
  forgetting,  \* the removal will take the zone out of the config
  phase,       \* where the engine is in its restart
  overtaken,   \* it came up while an addition or a removal was under way
  answer,      \* what the exit peer resolves a name to
  link,        \* the exit peer can be asked
  turns

names == <<intercepts, nextID, routes>>
shown == <<stored, pins>>
removal == <<victims, unpinned, forgetting>>
round == <<ticker, todo>>
life == <<phase, overtaken>>
exitPeer == <<answer, link, turns>>
tunnelVars == <<names, shown, adds, round, removal, life, exitPeer>>

Specs == {"zone", "sub"}
Additions == {"user", "query"}
Phases == {"serving", "closing", "gone", "stopped", "up", "reset"}

Listed(spec) == {e \in intercepts : e.spec = spec}
Sought(a) == IF a = "user" THEN "zone" ELSE "sub"

\* The utun is open: route commands work.
Device == phase \in {"up", "reset", "serving"}
\* Engine.Routes has a manager, of an open utun or of a closed one.
Table == phase \notin {"gone", "stopped"}
\* The service knows its camp.
Attached == phase \notin {"stopped", "up"}

\* Where an activity is, and the entry it is about.
At(step, id, spec, at) == [step |-> step, entry |-> [id |-> id, spec |-> spec, at |-> at]]
Idle == At("idle", 0, "zone", {})

\* What is under way; one more may begin.
Removing == victims # {} \/ unpinned # {} \/ forgetting
Begun ==
  {a \in Additions : adds[a] # Idle}
    \cup (IF Removing THEN {"removal"} ELSE {})
    \cup (IF ticker # Idle \/ todo # {} THEN {"ticker"} ELSE {})
Room == Cardinality(Begun) < Busy

TunnelInit ==
  /\ answer \in [Specs -> Addresses] /\ link = TRUE /\ turns = Turns
  /\ intercepts = {[id |-> 1, spec |-> "zone", at |-> {}]}
  /\ nextID = 1 /\ stored = TRUE
  /\ routes = {} /\ pins = [s \in Specs |-> {}]
  /\ adds = [a \in Additions |-> Idle] /\ ticker = Idle
  /\ todo = {} /\ victims = {} /\ unpinned = {} /\ forgetting = FALSE
  /\ phase = "serving" /\ overtaken = FALSE

-----------------------------------------------------------------------------
(* Adding.                                                                 *)

Moves(a, to) == adds' = [adds EXCEPT ![a] = to]
Proceeds(a, step) == Moves(a, [adds[a] EXCEPT !.step = step])

\* Service.Add, by the user: of a peer the engine knows.
AddBegin ==
  /\ adds["user"] = Idle /\ Table /\ Room /\ nextID < MaxIds
  /\ Moves("user", At("ask", 0, "zone", {}))
  /\ UNCHANGED <<names, shown, round, removal, life, exitPeer>>

\* Service.ResolveSubdomain: under an active zone, of a name not listed; who asks
\* for the same name waits.
QueryBegin ==
  /\ adds["query"] = Idle /\ Room /\ nextID < MaxIds
  /\ Listed("sub") = {} /\ Listed("zone") # {}
  /\ Moves("query", At("ask", 0, "sub", {}))
  /\ UNCHANGED <<names, shown, round, removal, life, exitPeer>>

\* resolvePrefixes: what the exit peer resolves the name to, or an error.
Resolved(spec) == IF link THEN {answer[spec]} ELSE {}

\* addLocked: the exit peer has answered, and an id is taken under the lock; or
\* it has not (as at the bound).
Number(a) ==
  /\ adds[a].step = "ask"
  /\ \/ /\ Resolved(Sought(a)) # {} /\ nextID < MaxIds
        /\ nextID' = nextID + 1
        /\ Moves(a, At("route", nextID + 1, Sought(a), Resolved(Sought(a))))
     \/ /\ Resolved(Sought(a)) = {} \/ nextID >= MaxIds
        /\ Moves(a, Idle) /\ UNCHANGED nextID
  /\ UNCHANGED <<intercepts, routes, shown, round, removal, life, exitPeer>>

\* Without the lock: the route, or, when it is there already or the utun is
\* closed, an error.  Without a manager the call panics, and the HTTP server ends
\* the user's; a query's panic is Fatal, if the manager was not read in time.
Route(a) ==
  /\ adds[a].step = "route"
  /\ LET at == adds[a].entry.at IN
       \/ /\ Device /\ at \cap routes = {}
          /\ routes' = routes \cup at
          /\ Proceeds(a, "insert")
       \/ /\ ~Device \/ at \cap routes # {}
          /\ Moves(a, Idle) /\ UNCHANGED routes
  /\ UNCHANGED <<intercepts, nextID, shown, round, removal, life, exitPeer>>

\* The map with this entry under its id.
With(e) == {f \in intercepts : f.id # e.id} \cup {e}

\* Under the lock again: the entry is listed.
Insert(a) ==
  /\ adds[a].step = "insert"
  /\ intercepts' = With(adds[a].entry)
  /\ Proceeds(a, "pin")
  /\ UNCHANGED <<nextID, routes, shown, round, removal, life, exitPeer>>

\* Pins follow what was routed; nothing routed leaves them.
Pinned(e) == [pins EXCEPT ![e.spec] = IF e.at = {} THEN @ ELSE e.at]

Pin(a) ==
  /\ adds[a].step = "pin"
  /\ pins' = Pinned(adds[a].entry)
  /\ IF a = "user" THEN Proceeds(a, "store") ELSE Moves(a, Idle)
  /\ UNCHANGED <<names, stored, round, removal, life, exitPeer>>

\* The user's goes into the config of the camp, if there is one by now.
AddStore ==
  /\ adds["user"].step = "store"
  /\ stored' = (stored \/ Attached)
  /\ Moves("user", Idle)
  /\ UNCHANGED <<names, pins, round, removal, life, exitPeer>>

-----------------------------------------------------------------------------
(* Removing.                                                               *)

\* Service.Remove: the entry, and with a zone its subdomains, leave the set.
Victims(e) == IF e.spec = "zone" THEN {e} \cup Listed("sub") ELSE {e}

RemoveBegin ==
  /\ ~Removing /\ Room
  /\ \E e \in intercepts :
       /\ victims' = Victims(e)
       /\ intercepts' = intercepts \ Victims(e)
       /\ forgetting' = (e.spec = "zone" /\ Attached)
  /\ UNCHANGED <<nextID, routes, shown, adds, round, unpinned, life, exitPeer>>

\* Faulty variant: the routes of the subdomains stay.
FreedOfZone(v) == IF v.spec = "zone" THEN v.at ELSE {}

\* The routes that go with an entry.
Freed(v) == v.at

\* Then, one after the other, each loses its routes and its pin.  The manager is
\* read before the first: where there is none the call may have it still, or it
\* panics at an entry with routes and ends.
RemoveRoutes ==
  /\ victims # {} /\ unpinned = {}
  /\ \/ /\ \E v \in victims :
             /\ routes' = routes \ Freed(v)
             /\ victims' = victims \ {v} /\ unpinned' = {v.spec}
        /\ UNCHANGED forgetting
     \/ /\ ~Table /\ \E v \in victims : v.at # {}
        /\ victims' = {} /\ forgetting' = FALSE
        /\ UNCHANGED <<routes, unpinned>>
  /\ UNCHANGED <<intercepts, nextID, shown, adds, round, life, exitPeer>>

RemovePin ==
  /\ unpinned # {}
  /\ pins' = [s \in Specs |-> IF s \in unpinned THEN {} ELSE pins[s]]
  /\ unpinned' = {}
  /\ UNCHANGED <<names, stored, adds, round, victims, forgetting, life, exitPeer>>

\* And the config its pair of zone and peer.
RemoveStore ==
  /\ victims = {} /\ unpinned = {} /\ forgetting
  /\ stored' = FALSE /\ forgetting' = FALSE
  /\ UNCHANGED <<names, pins, adds, round, victims, unpinned, life, exitPeer>>

-----------------------------------------------------------------------------
(* Refreshing.                                                             *)

\* refreshOnce: the round is about what is listed now, by id.
Round == intercepts

RefreshBegin ==
  /\ ticker = Idle /\ todo = {} /\ Table /\ Room
  /\ todo' = Round
  /\ UNCHANGED <<names, shown, adds, ticker, removal, life, exitPeer>>

\* The next name is resolved; not while the link is down; and an answer that is
\* the old one ends its turn.
RefreshAsk ==
  /\ ticker = Idle
  /\ \E e \in todo :
       /\ todo' = todo \ {e}
       /\ ticker' = IF Resolved(e.spec) \notin {{}, e.at}
                    THEN At("ask", e.id, e.spec, Resolved(e.spec)) ELSE Idle
  /\ UNCHANGED <<names, shown, adds, removal, life, exitPeer>>

\* The entry that is listed under the id now, whatever it was then.
Current(id) == {e \in intercepts : e.id = id}

\* Under the lock: that entry gives up its routes and takes the new ones, but for
\* those that exist, and all of them when the utun is closed.
Reroute(old) ==
  LET mine == Current(old.id)
      others == routes \ UNION {e.at : e \in mine}
      taken == IF Device THEN old.at \ others ELSE {}
      next == {[e EXCEPT !.at = taken] : e \in mine}
  IN [mine |-> mine, next |-> next, taken |-> taken,
      routes |-> others \cup UNION {e.at : e \in next}]

\* The round uses the manager and the ids it began with, in whatever session.
RefreshRoute ==
  /\ ticker.step = "ask"
  /\ LET r == Reroute(ticker.entry) IN
       /\ intercepts' = (intercepts \ r.mine) \cup r.next
       /\ routes' = r.routes
       /\ ticker' = IF r.mine = {} THEN Idle
                    ELSE At("pin", ticker.entry.id, ticker.entry.spec, r.taken)
  /\ UNCHANGED <<nextID, shown, adds, todo, removal, life, exitPeer>>

\* The pin of the name that was asked for follows when the lock is released.
RefreshPin ==
  /\ ticker.step = "pin"
  /\ pins' = Pinned(ticker.entry)
  /\ ticker' = Idle
  /\ UNCHANGED <<names, stored, adds, todo, removal, life, exitPeer>>

-----------------------------------------------------------------------------
(* The engine restarts (Engine.Stop and Start, by the rebind goroutine),   *)
(* and with it the service.  Nothing waits for the activities.             *)

Unmoved == <<stored, adds, round, removal, answer, link>>

\* Engine.Stop: the utun closes and takes the routes along.
EngineClose ==
  /\ phase = "serving" /\ turns > 0 /\ turns' = turns - 1
  /\ phase' = "closing" /\ routes' = {}
  /\ UNCHANGED <<intercepts, nextID, pins, overtaken, Unmoved>>

\* Then the manager goes.
EngineGone ==
  /\ phase = "closing" /\ phase' = "gone"
  /\ UNCHANGED <<names, pins, overtaken, turns, Unmoved>>

\* OnStopped, Service.Stop: the set is empty, its pins go.
ServiceStop ==
  /\ phase = "gone" /\ phase' = "stopped"
  /\ intercepts' = {}
  /\ pins' = [s \in Specs |-> IF Listed(s) # {} THEN {} ELSE pins[s]]
  /\ UNCHANGED <<nextID, routes, overtaken, turns, Unmoved>>

\* An addition has its id, a removal its victims, or an entry is listed that the
\* next Start will not know of.
UnderWay ==
  \/ \E a \in Additions : adds[a].step \in {"route", "insert"}
  \/ victims # {} \/ intercepts # {}

\* Engine.Start: a new utun and a new manager.
EngineUp ==
  /\ phase = "stopped" /\ phase' = "up"
  /\ overtaken' = UnderWay
  /\ UNCHANGED <<names, pins, turns, Unmoved>>

\* OnStarted, Service.Start: an empty set, numbered anew.
ServiceStart ==
  /\ phase = "up" /\ phase' = "reset"
  /\ intercepts' = {} /\ nextID' = 0
  /\ overtaken' = (overtaken \/ UnderWay)
  /\ UNCHANGED <<routes, pins, turns, Unmoved>>

\* restoreFromStore: the stored zone is pending.
Restored ==
  /\ phase = "reset" /\ phase' = "serving"
  /\ nextID' = IF stored THEN nextID + 1 ELSE nextID
  /\ intercepts' = IF stored THEN With([id |-> nextID + 1, spec |-> "zone", at |-> {}])
                   ELSE intercepts
  /\ UNCHANGED <<routes, pins, overtaken, turns, Unmoved>>

\* A query that finds no manager panics in the DNS handler, which nothing
\* recovers: the process ends, and another may be started.
Fatal ==
  /\ adds["query"].step = "route" /\ ~Table
  /\ intercepts' = {} /\ nextID' = 0 /\ routes' = {}
  /\ pins' = [s \in Specs |-> {}]
  /\ adds' = [a \in Additions |-> Idle] /\ ticker' = Idle /\ todo' = {}
  /\ victims' = {} /\ unpinned' = {} /\ forgetting' = FALSE
  /\ phase' = "stopped"
  /\ UNCHANGED <<stored, overtaken, exitPeer>>

\* Around it.
AnswerChanges ==
  /\ turns > 0 /\ turns' = turns - 1
  /\ \E s \in Specs : \E a \in Addresses \ {answer[s]} : answer' = [answer EXCEPT ![s] = a]
  /\ UNCHANGED <<names, shown, adds, round, removal, life, link>>

LinkChanges ==
  /\ turns > 0 /\ turns' = turns - 1
  /\ link' = ~link
  /\ UNCHANGED <<names, shown, adds, round, removal, life, answer>>

TunnelNext ==
  \/ AddBegin \/ QueryBegin \/ AddStore
  \/ \E a \in Additions : Number(a) \/ Route(a) \/ Insert(a) \/ Pin(a)
  \/ RemoveBegin \/ RemoveRoutes \/ RemovePin \/ RemoveStore
  \/ RefreshBegin \/ RefreshAsk \/ RefreshRoute \/ RefreshPin
  \/ EngineClose \/ EngineGone \/ ServiceStop \/ EngineUp \/ ServiceStart \/ Restored
  \/ Fatal \/ AnswerChanges \/ LinkChanges

TunnelSpec == TunnelInit /\ [][TunnelNext]_tunnelVars

\* Calls return, the ticker ticks, and a Stop or a Start that has begun goes on;
\* nobody has to add, ask for or remove anything, and a restart may fail.
TunnelFairness ==
  /\ \A a \in Additions :
       /\ WF_tunnelVars(Number(a)) /\ WF_tunnelVars(Route(a))
       /\ WF_tunnelVars(Insert(a)) /\ WF_tunnelVars(Pin(a))
  /\ WF_tunnelVars(AddStore)
  /\ WF_tunnelVars(RemoveRoutes) /\ WF_tunnelVars(RemovePin) /\ WF_tunnelVars(RemoveStore)
  /\ WF_tunnelVars(RefreshBegin) /\ WF_tunnelVars(RefreshAsk)
  /\ WF_tunnelVars(RefreshRoute) /\ WF_tunnelVars(RefreshPin)
  /\ WF_tunnelVars(EngineGone) /\ WF_tunnelVars(ServiceStop)
  /\ WF_tunnelVars(ServiceStart) /\ WF_tunnelVars(Restored)

-----------------------------------------------------------------------------

Entries == [id : 0..(MaxIds + 1), spec : Specs, at : SUBSET Addresses]
Activities == [step : {"idle", "ask", "route", "insert", "pin", "store"}, entry : Entries]

\* Every variable holds what its Go counterpart can hold; an id names one
\* intercept.
TunnelTypeOK ==
  /\ intercepts \subseteq Entries /\ todo \subseteq Entries /\ victims \subseteq Entries
  /\ \A e, f \in intercepts : e.id = f.id => e = f
  /\ nextID \in 0..(MaxIds + 1) /\ stored \in BOOLEAN
  /\ routes \subseteq Addresses /\ pins \in [Specs -> SUBSET Addresses]
  /\ adds \in [Additions -> Activities] /\ ticker \in Activities
  /\ unpinned \subseteq Specs /\ forgetting \in BOOLEAN
  /\ phase \in Phases /\ overtaken \in BOOLEAN
  /\ answer \in [Specs -> Addresses] /\ link \in BOOLEAN /\ turns \in 0..Turns

\* Who has routes: the entries listed, those just taken out, and those routed and
\* about to be listed.
Holders ==
  intercepts \cup victims
    \cup {adds[a].entry : a \in {b \in Additions : adds[b].step = "insert"}}

\* While the utun is open every route belongs to exactly one intercept, listed or
\* on its way in or out, and every address an intercept lists is routed: no route
\* outlives its intercept, none is taken from under another.  A round of the
\* ticker may go on across any number of restarts, with the ids and the manager
\* of a session long gone.  Excused is the session that began while an addition
\* had its id or a removal its victims, or with an entry from before its Start.
RoutesHaveOneOwner ==
  Device /\ ~overtaken =>
    /\ routes = UNION {e.at : e \in Holders}
    /\ \A e, f \in Holders : e # f => e.at \cap f.at = {}

\* As long as the engine stays up and the exit peer can be asked, the addresses its
\* answers name come to be routed, for every name listed, also those restored
\* before it could be, in every session but one that overtook an addition or a
\* removal.
AnswersComeToBeRouted ==
  <>[](phase = "serving" /\ link /\ ~overtaken)
    => []<>(\A e \in intercepts : answer[e.spec] \in routes)

\* A zone that was removed takes everything under it along: once nothing is going
\* on no name under it is intercepted.
DetachedIsGone ==
  /\ Begun = {}
  /\ ~stored /\ Listed("zone") = {}
  => Listed("sub") = {}
===============================================================================
