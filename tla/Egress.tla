-------------------------------- MODULE Egress --------------------------------
(***************************************************************************)
(* services/tunnel/egress: what a node changes in its system to forward    *)
(* traffic of the camp to the internet (the forwarding switch, the packet  *)
(* filter's engine, NAT rules), the file by which the next process undoes  *)
(* what a dead one left, and the targets that handlers of "resolve" add.   *)
(* Every call to the system is a step.  Each process has a pid of its own, *)
(* and follows the death of the last one.  A reboot, which clears file and *)
(* changes alike, is left out.                                             *)
(***************************************************************************)
EXTENDS Naturals, Sequences

CONSTANTS
  Pids,         \* processes 1..Pids
  NatTargets,   \* addresses that leave by another interface; 0 is none
  Resolves,     \* bound: answers to "resolve" that need a rule
  EgressFaults  \* bound: crashes, and calls to the system that fail

ASSUME EgressAssumption == Pids \in Nat /\ Resolves \in Nat /\ EgressFaults \in Nat /\ 0 \notin NatTargets

VARIABLES
  original,   \* the forwarding switch as the administrator left it
  forwarding, tokens, \* the switch, the engine's tokens that are held
  nat,        \* the targets of the rules installed, or NoRules
  stateFile,  \* egressStatePath: what the process that wrote it has to undo
  at,         \* where each process is
  rolling,    \* the next call of its roll-back
  undo,       \* egress.state; what a process undoes
  targets,    \* egress.targets
  installs,   \* the rules each process is about to install for a handler
  unrecorded, \* history: the processes killed before they had written the file,
              \* and those that could not write it
  excuses,    \* history: calls that failed, rules installed late or out of order
  resolves, egressFaults

system == <<forwarding, tokens, nat, stateFile>>
handlers == <<targets, installs, resolves>>
history == <<unrecorded, excuses>>
egressVars == <<original, system, at, rolling, undo, handlers, history, egressFaults>>

Processes == 1..Pids
Switch == {0, 1}
NoRules == {0}
NoState == [pid |-> 0, old |-> 0, token |-> FALSE]
States == [pid : Processes, old : Switch, token : BOOLEAN] \cup {NoState}
Opening == {"sweep", "read", "enable", "filter", "nat", "write"}
Places == {"new", "down", "sweeping", "up", "closing", "gone"} \cup Opening
Alive(p) == at[p] \notin {"new", "gone"}

EgressInit ==
  /\ original \in Switch /\ forwarding = original
  /\ tokens = {} /\ nat = NoRules /\ stateFile = NoState
  /\ at = [p \in Processes |-> "new"] /\ rolling = [p \in Processes |-> 1]
  /\ undo = [p \in Processes |-> NoState]
  /\ targets = [p \in Processes |-> {}] /\ installs = [p \in Processes |-> {}]
  /\ unrecorded = {} /\ excuses = {}
  /\ resolves = Resolves /\ egressFaults = EgressFaults

Move(p, from, to) == at[p] = from /\ at' = [at EXCEPT ![p] = to]
Fault == egressFaults > 0 /\ egressFaults' = egressFaults - 1
Excuse(why) == excuses' = excuses \cup {why}

-----------------------------------------------------------------------------
(* openEgress.                                                             *)

Launch(p) ==
  /\ Move(p, "new", "down")
  /\ \A q \in Processes : q < p => at[q] = "gone"
  /\ UNCHANGED <<original, rolling, system, undo, handlers, history, egressFaults>>

\* Service.Start.
Open(p) ==
  /\ Move(p, "down", "sweep")
  /\ UNCHANGED <<original, rolling, system, undo, handlers, history, egressFaults>>

\* sweepEgressLeftover: the file is there, and its process is not.
Leftover == stateFile # NoState /\ ~Alive(stateFile.pid)

Sweep(p) ==
  /\ Move(p, "sweep", IF Leftover THEN "sweeping" ELSE "read")
  /\ undo' = [undo EXCEPT ![p] = IF Leftover THEN stateFile ELSE NoState]
  /\ UNCHANGED <<original, rolling, system, handlers, history, egressFaults>>

\* GetIPForwarding.
ReadForwarding(p) ==
  /\ Move(p, "read", "enable")
  /\ undo' = [undo EXCEPT ![p] = [pid |-> p, old |-> forwarding, token |-> FALSE]]
  /\ UNCHANGED <<original, rolling, system, handlers, history, egressFaults>>

\* SetIPForwarding.
EnableForwarding(p) ==
  /\ Move(p, "enable", "filter")
  /\ forwarding' = 1
  /\ UNCHANGED <<original, rolling, tokens, nat, stateFile, undo, handlers, history, egressFaults>>

\* EnableFilterEngine: a token on macOS, nothing on Linux; or what was changed
\* is changed back and the node goes without egress.
EnableFilter(p) ==
  \/ /\ Move(p, "filter", "nat")
     /\ \E token \in BOOLEAN :
          /\ undo' = [undo EXCEPT ![p].token = token]
          /\ tokens' = IF token THEN tokens \cup {p} ELSE tokens
     /\ UNCHANGED <<original, rolling, forwarding, nat, stateFile, handlers, history, egressFaults>>
  \/ /\ Move(p, "filter", "down") /\ Fault
     /\ forwarding' = undo[p].old
     /\ UNCHANGED <<original, rolling, tokens, nat, stateFile, undo, handlers, history>>

\* InstallNAT, likewise.
InstallNat(p) ==
  \/ /\ Move(p, "nat", "write")
     /\ nat' = {}
     /\ UNCHANGED <<original, rolling, forwarding, tokens, stateFile, undo, handlers, history, egressFaults>>
  \/ /\ Move(p, "nat", "down") /\ Fault
     /\ tokens' = tokens \ {p} /\ forwarding' = undo[p].old
     /\ UNCHANGED <<original, rolling, nat, stateFile, undo, handlers, history>>

\* writeEgressState, last of all; that it fails is only logged.
WriteState(p) ==
  /\ Move(p, "write", "up")
  /\ \/ stateFile' = undo[p] /\ UNCHANGED <<unrecorded, egressFaults>>
     \/ Fault /\ unrecorded' = unrecorded \cup {p} /\ UNCHANGED stateFile
  /\ UNCHANGED <<original, rolling, forwarding, tokens, nat, undo, handlers, excuses>>

-----------------------------------------------------------------------------
(* Rolling back: close, and the rest of the sweep, in the same order.      *)

\* Faulty variant: the file goes first.
UndoOrderFileFirst == <<"file", "nat", "token", "forwarding">>

\* The file goes last, so that a crash leaves it.
UndoOrder == <<"nat", "token", "forwarding", "file">>

Close(p) ==
  /\ Move(p, "up", "closing")
  /\ targets' = [targets EXCEPT ![p] = {}]
  /\ UNCHANGED <<original, rolling, system, undo, installs, resolves, history, egressFaults>>

\* One call; the next follows even if it fails.
Undone(p, u) ==
  /\ nat' = IF u = "nat" THEN NoRules ELSE nat
  /\ tokens' = IF u = "token" /\ undo[p].token THEN tokens \ {undo[p].pid} ELSE tokens
  /\ forwarding' = IF u = "forwarding" THEN undo[p].old ELSE forwarding
  /\ stateFile' = IF u = "file" THEN NoState ELSE stateFile

RollBack(p) ==
  LET u == UndoOrder[rolling[p]] IN
  /\ IF rolling[p] < Len(UndoOrder)
     THEN /\ at[p] \in {"sweeping", "closing"}
          /\ rolling' = [rolling EXCEPT ![p] = @ + 1] /\ UNCHANGED <<at, undo>>
     ELSE /\ Move(p, "sweeping", "read") \/ Move(p, "closing", "down")
          /\ rolling' = [rolling EXCEPT ![p] = 1]
          /\ undo' = [undo EXCEPT ![p] = NoState]
  /\ \/ Undone(p, u) /\ UNCHANGED <<excuses, egressFaults>>
     \/ Fault /\ Excuse("failed") /\ UNCHANGED system
  /\ UNCHANGED <<original, handlers, unrecorded>>

-----------------------------------------------------------------------------
(* ensureTargets, in handlers that may outlive the egress.                 *)

\* The targets without a rule yet.
Untargeted(p) == NatTargets \ targets[p]

\* The handler of "resolve" reads the egress, and under that one's lock a target
\* is added; the rules to be installed are all of them.
EnsureTargets(p, t) ==
  /\ at[p] = "up" /\ t \in Untargeted(p)
  /\ resolves > 0 /\ resolves' = resolves - 1
  /\ targets' = [targets EXCEPT ![p] = @ \cup {t}]
  /\ installs' = [installs EXCEPT ![p] = @ \cup {targets[p] \cup {t}}]
  /\ UNCHANGED <<original, rolling, system, at, undo, history, egressFaults>>

\* Faulty variant: rules are added to those that are there.
RulesAdded(rules) == rules \cup nat

\* InstallNAT replaces all rules at once.
Rules(rules) == rules

\* The rest, without the lock: an older set may land after a newer one, and any
\* after the rules were removed.
InstallTargets(p) ==
  \E rules \in installs[p] :
    /\ installs' = [installs EXCEPT ![p] = @ \ {rules}]
    /\ \/ /\ nat' = Rules(rules)
          /\ excuses' = excuses \cup (IF at[p] = "up" /\ rules \subseteq targets[p] THEN {} ELSE {"late"})
                                \cup (IF nat \subseteq rules THEN {} ELSE {"overtaken"})
          /\ UNCHANGED egressFaults
       \/ Fault /\ Excuse("failed") /\ UNCHANGED nat
    /\ UNCHANGED <<original, rolling, forwarding, tokens, stateFile, at, undo, targets>>
    /\ UNCHANGED <<unrecorded, resolves>>

-----------------------------------------------------------------------------

\* What a process had in memory.
Forgotten(p) ==
  /\ undo' = [undo EXCEPT ![p] = NoState] /\ rolling' = [rolling EXCEPT ![p] = 1]
  /\ targets' = [targets EXCEPT ![p] = {}] /\ installs' = [installs EXCEPT ![p] = {}]

\* A process is killed: one that has changed anything and not said so in the
\* file leaves it for good.
Crash(p) ==
  /\ Fault /\ Alive(p)
  /\ at' = [at EXCEPT ![p] = "gone"]
  /\ Forgotten(p)
  /\ unrecorded' = unrecorded \cup (IF at[p] \in {"filter", "nat", "write"} THEN {p} ELSE {})
  /\ UNCHANGED <<original, system, resolves, excuses>>

Quit(p) ==
  /\ Move(p, "down", "gone")
  /\ Forgotten(p)
  /\ UNCHANGED <<original, system, resolves, history, egressFaults>>

EgressNext ==
  \E p \in Processes :
    \/ Launch(p) \/ Open(p) \/ Sweep(p) \/ ReadForwarding(p) \/ EnableForwarding(p)
    \/ EnableFilter(p) \/ InstallNat(p) \/ WriteState(p) \/ Close(p)
    \/ RollBack(p)
    \/ \E t \in NatTargets : EnsureTargets(p, t)
    \/ InstallTargets(p) \/ Crash(p) \/ Quit(p)

EgressSpec == EgressInit /\ [][EgressNext]_egressVars

-----------------------------------------------------------------------------

\* Every variable holds what its Go counterpart can hold, and the system's state
\* is one of those the calls can make.
EgressTypeOK ==
  /\ {original, forwarding} \subseteq Switch /\ tokens \subseteq Processes
  /\ nat = NoRules \/ nat \subseteq NatTargets
  /\ stateFile \in States /\ undo \in [Processes -> States]
  /\ at \in [Processes -> Places] /\ rolling \in [Processes -> 1..Len(UndoOrder)]
  /\ targets \in [Processes -> SUBSET NatTargets]
  /\ installs \in [Processes -> SUBSET SUBSET NatTargets]
  /\ unrecorded \subseteq Processes /\ excuses \subseteq {"failed", "late", "overtaken"}
  /\ resolves \in 0..Resolves /\ egressFaults \in 0..EgressFaults

\* Crashes while egress is up, while it is closed and while a leftover is swept
\* do not make a process take its predecessor's forwarding for the original: the
\* value that will be restored is the administrator's, as long as none was killed
\* before it had written its file and no call that restores fails.  And even then
\* a switch that the administrator had on is never turned off.
OriginalIsKept ==
  /\ unrecorded = {} /\ "failed" \notin excuses
       => /\ stateFile # NoState => stateFile.old = original
          /\ \A p \in Processes : Alive(p) /\ undo[p] # NoState => undo[p].old = original
  /\ original = 1 => forwarding = 1

\* When egress is down everywhere and there is no file, the engine is held by none
\* but processes killed before they had written their file; and without such a
\* process, the switch and the rules are as they were found.  (Unless a call
\* failed, or rules were installed after they had been removed.)
LeavesAsFound ==
  /\ excuses \subseteq {"overtaken"} /\ stateFile = NoState
  /\ \A p \in Processes : at[p] \in {"new", "down", "gone"} /\ installs[p] = {}
  => /\ tokens \subseteq unrecorded
     /\ unrecorded = {} => forwarding = original /\ nat = NoRules

\* While egress is up and no handler is under way, each target that was ever
\* asked for has its rule and no other has, whatever earlier processes left,
\* unless an install failed, or installs have overtaken each other or a close.
TargetsAreRouted ==
  excuses = {}
    => \A p \in Processes : at[p] = "up" /\ installs[p] = {} => nat = targets[p]

\* What egress changes in the system is what it was asked for while it is up, and
\* undone when it is down, by this process or by the next.  What a process changes
\* before it has written its file, which is the last of its steps, nothing undoes
\* when it is killed there, in spite of "All changes are persisted [...] before
\* they happen": the parts above say what holds even then.
ChangesAreAccountedFor == OriginalIsKept /\ LeavesAsFound /\ TargetsAreRouted
===============================================================================
