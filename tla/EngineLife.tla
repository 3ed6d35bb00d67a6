----------------------------- MODULE EngineLife -----------------------------
(***************************************************************************)
(* The life of the mesh engine in one process: main starts it and stops it *)
(* when the process ends; meanwhile the rebind goroutine restarts it on a  *)
(* fresh port when the hole punching loop or the camp client asks for it.  *)
(* Both run Start and Stop, whose parts outside the mutex interleave, and  *)
(* through OnStarted and OnStopped bring the services up and down.  Camp   *)
(* mode only.  A session is what one Start has set up.                     *)
(***************************************************************************)
EXTENDS Naturals, FiniteSets

CONSTANTS
  Services,  \* bound: the registry has the entries 1..Services, in order
  Camp,      \* the entry of the camp client, which asks for rebinds
  Async,     \* the entries whose start runs in a goroutine of its own (drop)
  Triggers,  \* bound: requests for a rebind
  Faults     \* bound: starts, of the engine or a service, that fail

ASSUME EngineAssumption ==
  /\ Services \in Nat /\ Camp \in 1..Services /\ Async \subseteq 1..Services
  /\ Triggers \in Nat /\ Faults \in Nat

VARIABLES
  engineUp,   \* Engine.running
  cur,        \* the session the engine's fields hold, or none
  started,    \* the number of sessions
  opened,     \* what of each session is open
  ended,      \* the sessions whose context is cancelled
  worker,     \* the workers of each session
  pc, took, idx, \* where each thread is; the session its Stop works on; its service
  served,     \* the services that are started
  pending,    \* services whose start runs by itself
  triggers, faults,
  startFailed, \* a restart has failed
  overlapped   \* the end of the process met a rebind

engine == <<engineUp, cur, started, opened, ended, worker>>
threads == <<pc, took, idx>>
wired == <<served, pending>>
engineBudgets == <<triggers, faults, startFailed, overlapped>>
engineVars == <<engine, threads, wired, engineBudgets>>

Threads == {"main", "rebind"}
Sessions == 1..(Triggers + 1)
NoSession == 0
Handles == {"udp", "device", "routes"}
Workers == {"recv", "punch"}

exited == pc["main"] = "exited"
rebinding == pc["rebind"] # "off"
ending == pc["main"] \in {"gone", "exited"}
\* main is not about to end the process.
Serving == pc["main"] \in {"start", "starting", "up"} /\ ~overlapped

EngineInit ==
  /\ engineUp = FALSE /\ cur = NoSession /\ started = 0
  /\ opened = [s \in Sessions |-> {}] /\ ended = {}
  /\ worker = [s \in Sessions |-> {}]
  /\ pc = [t \in Threads |-> IF t = "main" THEN "start" ELSE "off"]
  /\ took = [t \in Threads |-> NoSession] /\ idx = [t \in Threads |-> 0]
  /\ served = {} /\ pending = {}
  /\ triggers = Triggers /\ faults = Faults
  /\ startFailed = FALSE /\ overlapped = FALSE

Goto(t, l) == pc' = [pc EXCEPT ![t] = l]

-----------------------------------------------------------------------------
(* Start.                                                                  *)

\* Where a thread goes from Start, and from Stop: the rebind starts again,
\* whatever its Stop has reported.
AfterStart(t) == IF t = "main" THEN "up" ELSE "off"
AfterStop(t) == IF t = "main" THEN "gone" ELSE "start"

\* The part under the mutex: all the handles, or none (rollbackPartial).
StartUp(t) ==
  /\ pc[t] = "start"
  /\ \/ /\ ~engineUp
        /\ started' = started + 1
        /\ cur' = started' /\ engineUp' = TRUE
        /\ opened' = [opened EXCEPT ![started'] = Handles]
        /\ worker' = [worker EXCEPT ![started'] = Workers]
        /\ pc' = [pc EXCEPT ![t] = "starting"]
        /\ idx' = [idx EXCEPT ![t] = 1]
        /\ UNCHANGED <<ended, faults, startFailed>>
     \/ /\ engineUp \/ faults > 0
        /\ faults' = IF engineUp THEN faults ELSE faults - 1
        /\ startFailed' = TRUE
        /\ Goto(t, AfterStart(t))
        /\ UNCHANGED <<engine, idx>>
  /\ UNCHANGED <<took, wired, triggers, overlapped>>

\* Faulty variant: the first error ends OnStarted.
ServiceUpOrQuit(t) ==
  /\ pc[t] = "starting"
  /\ \/ /\ served' = served \cup {idx[t]}
        /\ idx' = [idx EXCEPT ![t] = @ + 1]
        /\ Goto(t, IF idx[t] = Services THEN AfterStart(t) ELSE "starting")
        /\ UNCHANGED faults
     \/ /\ faults > 0
        /\ faults' = faults - 1
        /\ Goto(t, AfterStart(t))
        /\ UNCHANGED <<served, idx>>
  /\ UNCHANGED <<engine, took, pending, triggers, startFailed, overlapped>>

\* OnStarted, one service: what fails is logged and passed over; a service
\* that is up stays as it is.
ServiceUp(t) ==
  /\ pc[t] = "starting"
  /\ \/ /\ idx[t] \in Async
        /\ pending' = pending \cup {idx[t]}
        /\ UNCHANGED <<served, faults>>
     \/ /\ idx[t] \notin Async
        /\ served' = served \cup {idx[t]}
        /\ UNCHANGED <<pending, faults>>
     \/ /\ idx[t] \notin Async /\ faults > 0
        /\ faults' = faults - 1
        /\ UNCHANGED <<served, pending>>
  /\ idx' = [idx EXCEPT ![t] = @ + 1]
  /\ Goto(t, IF idx[t] = Services THEN AfterStart(t) ELSE "starting")
  /\ UNCHANGED <<engine, took, triggers, startFailed, overlapped>>

\* The goroutine of a start gets to it, whatever has happened since.
LateUp(i) ==
  /\ i \in pending
  /\ pending' = pending \ {i} /\ served' = served \cup {i}
  /\ UNCHANGED <<engine, threads, engineBudgets>>

-----------------------------------------------------------------------------
(* Stop.                                                                   *)

\* Under the mutex: the handles are taken, and running stays.
StopBegin(t) ==
  /\ pc[t] = "stop"
  /\ took' = [took EXCEPT ![t] = cur]
  /\ Goto(t, IF engineUp THEN "close" ELSE AfterStop(t))
  /\ UNCHANGED <<engine, idx, wired, engineBudgets>>

\* What Stop leaves of the session it has taken.
LeftOpen == {}

StopClose(t) ==
  /\ pc[t] = "close"
  /\ ended' = ended \cup {took[t]}
  /\ opened' = [opened EXCEPT ![took[t]] = @ \cap LeftOpen]
  /\ Goto(t, "wait")
  /\ UNCHANGED <<engineUp, cur, started, worker, took, idx, wired, engineBudgets>>

\* workers.Wait: one group for the workers of every session.
StopWait(t) ==
  /\ pc[t] = "wait"
  /\ \A s \in Sessions : worker[s] = {}
  /\ Goto(t, "reset")
  /\ UNCHANGED <<engine, took, idx, wired, engineBudgets>>

\* Under the mutex again: the fields are cleared, whichever session they hold
\* by now.
StopReset(t) ==
  /\ pc[t] = "reset"
  /\ engineUp' = FALSE /\ cur' = NoSession
  /\ opened' = IF cur = NoSession THEN opened ELSE [opened EXCEPT ![cur] = @ \ {"device"}]
  /\ Goto(t, "stopping")
  /\ idx' = [idx EXCEPT ![t] = Services]
  /\ UNCHANGED <<started, ended, worker, took, wired, engineBudgets>>

\* OnStopped, one service, in reverse order.
ServiceDown(t) ==
  /\ pc[t] = "stopping"
  /\ served' = served \ {idx[t]}
  /\ idx' = [idx EXCEPT ![t] = @ - 1]
  /\ Goto(t, IF idx[t] = 1 THEN AfterStop(t) ELSE "stopping")
  /\ UNCHANGED <<engine, took, pending, engineBudgets>>

-----------------------------------------------------------------------------
(* Workers, rebinds and the end.                                           *)

WorkerEnd(s, w) ==
  /\ w \in worker[s] /\ s \in ended
  /\ worker' = [worker EXCEPT ![s] = @ \ {w}]
  /\ UNCHANGED <<engineUp, cur, started, opened, ended, threads, wired, engineBudgets>>

\* RebindEphemeral: the first caller starts the goroutine, the others nothing.
RebindEphemeral ==
  /\ triggers > 0 /\ triggers' = triggers - 1
  /\ pc' = [pc EXCEPT !["rebind"] = IF rebinding THEN @ ELSE "stop"]
  /\ overlapped' = (overlapped \/ pc["main"] \notin {"start", "starting", "up"})
  /\ UNCHANGED <<took, idx, wired, faults, startFailed>>

\* holePunchLoop asks, after a jump of the clock, sends that failed for long or
\* peers that are all silent, and ends, whether or not it is heard.
PunchRebind(s) ==
  /\ "punch" \in worker[s]
  /\ RebindEphemeral
  /\ worker' = [worker EXCEPT ![s] = @ \ {"punch"}]
  /\ UNCHANGED <<engineUp, cur, started, opened, ended>>

\* livenessLoop of the camp client asks, and goes on.
CampRebind ==
  /\ Camp \in served
  /\ RebindEphemeral
  /\ UNCHANGED engine

\* The signal to end reaches main.
Shutdown ==
  /\ pc["main"] = "up"
  /\ Goto("main", "stop")
  /\ overlapped' = rebinding
  /\ UNCHANGED <<engine, took, idx, wired, triggers, faults, startFailed>>

\* main waits two seconds for each service's worker, and returns.
Exit ==
  /\ pc["main"] = "gone"
  /\ Goto("main", "exited")
  /\ UNCHANGED <<engine, took, idx, wired, engineBudgets>>

ThreadStep(t) ==
  \/ StartUp(t) \/ ServiceUp(t)
  \/ StopBegin(t) \/ StopClose(t) \/ StopWait(t) \/ StopReset(t) \/ ServiceDown(t)

EngineStep ==
  \/ \E t \in Threads : ThreadStep(t)
  \/ \E i \in Async : LateUp(i)
  \/ \E s \in Sessions : PunchRebind(s)
  \/ \E s \in Sessions, w \in Workers : WorkerEnd(s, w)
  \/ CampRebind \/ Shutdown \/ Exit

EngineNext == ~exited /\ EngineStep

EngineSpec == EngineInit /\ [][EngineNext]_engineVars

\* Threads run, and a worker whose context is cancelled ends.  The end of the
\* process, rebinds and faults need not come.
EngineFairness ==
  /\ \A t \in Threads : WF_engineVars(ThreadStep(t) /\ ~exited)
  /\ \A s \in Sessions, w \in Workers : WF_engineVars(WorkerEnd(s, w) /\ ~exited)
  /\ \A i \in Async : WF_engineVars(LateUp(i) /\ ~exited)

EngineFairSpec == EngineSpec /\ EngineFairness

-----------------------------------------------------------------------------

Quiet == pc["main"] \in {"up", "gone", "exited"} /\ ~rebinding

\* Every variable holds what its Go counterpart can hold; no service outside the
\* registry is brought up or down.
EngineTypeOK ==
  /\ {engineUp, startFailed, overlapped} \subseteq BOOLEAN
  /\ started \in 0..(Triggers + 1) /\ cur \in 0..started
  /\ opened \in [Sessions -> SUBSET Handles]
  /\ worker \in [Sessions -> SUBSET Workers]
  /\ ended \subseteq 1..started
  /\ pc \in [Threads -> {"start", "starting", "up", "off", "stop", "close",
                         "wait", "reset", "stopping", "gone", "exited"}]
  /\ took \in [Threads -> 0..started]
  /\ idx \in [Threads -> 0..(Services + 1)]
  /\ served \subseteq 1..Services /\ pending \subseteq Async
  /\ triggers \in 0..Triggers /\ faults \in 0..Faults

\* Restarts do not pile up: as long as the process is not ending, the socket,
\* device, routes and workers of every session but the current one are gone
\* once Stop has reset the engine.
OldSessionsAreGone ==
  Serving =>
    \A s \in 1..started : s # cur => opened[s] = {} /\ worker[s] = {}

\* When Start and Stop have returned, an engine that runs has its services up:
\* an OnStarted that a rebind has overtaken does not leave them down, and one
\* that does not start costs that service only.
RunningIsServed ==
  Quiet /\ Serving /\ engineUp /\ pending = {}
    => Cardinality((1..Services) \ served) <= Faults - faults

\* A process that ends while no rebind is under way leaves nothing open and no
\* service up, except one whose start was still to come.  A restart that failed
\* breaks this: what the OnStarted it had overtaken brought up stays up, for
\* the last Stop finds nothing running.
CleanExit ==
  exited /\ ~overlapped /\ ~startFailed =>
    /\ ~engineUp
    /\ \A s \in Sessions : opened[s] = {}
    /\ served \subseteq Async

\* Restarts leave neither too much nor too little: no rest of an old session
\* while the engine goes on, all services with it, nothing once it has ended.
RestartsAreClean == OldSessionsAreGone /\ RunningIsServed /\ CleanExit

\* As long as no start fails, an engine that was started comes back after every
\* rebind.
ComesBack == []<>(engineUp \/ started = 0 \/ startFailed \/ ~Serving)
=============================================================================
