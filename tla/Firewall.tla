------------------------------- MODULE Firewall -------------------------------
(***************************************************************************)
(* services/firewall: the filter on the tunnel that lets in only the       *)
(* helper's own ports and those the user allows, the file by which the     *)
(* next process removes the filter of a dead one, and the handler that     *)
(* changes the user's ports, which keeps no lock while it saves and        *)
(* applies them.  Each process has a pid of its own.  What peers allow,    *)
(* which is only shown, is left out.                                       *)
(***************************************************************************)
EXTENDS Naturals, Sequences

CONSTANTS
  FwCamps,   \* camps, each with a tunnel of its own
  UserPorts, \* the ports a user may allow
  Anchors,   \* bound: times the filter is opened
  Settings,  \* bound: changes of the user's ports
  FwFaults   \* bound: crashes, and calls that fail

ASSUME FirewallAssumption ==
  Anchors \in Nat /\ Settings \in Nat /\ FwFaults \in Nat /\ 0 \notin FwCamps /\ 0 \notin UserPorts

VARIABLES
  filter,    \* the rules in the system
  fwFile,    \* the pid in the state file, 0 without one
  allowList, \* each camp's list in its configuration
  fwPid,     \* the process
  anchors,   \* those opened: anchorState
  anchor,    \* Service.anchor
  fwCamp,    \* Service.campID
  phase, closing, \* where Start or Stop is; the next call of close
  setting,   \* where each SetUserPorts is
  mishaps,   \* history: what has happened that nothing covers
  fwFaults

kernel == <<filter, fwFile>>
anchorVars == <<anchors, anchor, fwCamp>>
fwVars == <<kernel, allowList, fwPid, anchorVars, phase, closing, setting, mishaps, fwFaults>>

NoFilter == [camp |-> 0, ports |-> {}]
NoSetting == [step |-> "none", of |-> 0, camp |-> 0, list |-> {}]
Finished == [NoSetting EXCEPT !.step = "done"]
Lists == SUBSET UserPorts

FirewallInit ==
  /\ filter = NoFilter /\ fwFile = 0
  /\ allowList = [c \in FwCamps |-> {}]
  /\ fwPid = 1 /\ anchors = <<>> /\ anchor = 0 /\ fwCamp = 0
  /\ phase = "down" /\ closing = 1
  /\ setting = [h \in 1..Settings |-> NoSetting]
  /\ mishaps = {} /\ fwFaults = FwFaults

\* A handler that is under way.
Busy == {h \in 1..Settings : setting[h].step \notin {"none", "done"}}
Mishap(why) == mishaps' = mishaps \cup {why}
FwFails == fwFaults > 0 /\ fwFaults' = fwFaults - 1
\* Start and Stop beside a handler, or a handler beside another or beside them.
Overlap(beside) == IF beside THEN Mishap("overlap") ELSE UNCHANGED mishaps

-----------------------------------------------------------------------------
(* Start, which has the mutex to its end.                                  *)

\* mergeRules; 0 stands for the helper's own ports.
Merged(list) == {0} \cup list

\* sweepLeftover: the file names a process that is gone.
LeftBehind == fwFile \notin {0, fwPid}

\* openAnchor up to the sweep, whose two calls a crash would only repeat.
OpenAnchor(c) ==
  /\ phase = "down" /\ phase' = "opening"
  /\ Len(anchors) < Anchors
  /\ anchors' = Append(anchors, [camp |-> c, ports |-> Merged(allowList[c])])
  /\ fwCamp' = c
  /\ filter' = IF LeftBehind THEN NoFilter ELSE filter
  /\ fwFile' = IF LeftBehind THEN 0 ELSE fwFile
  /\ Overlap(Busy # {})
  /\ UNCHANGED <<allowList, fwPid, anchor, closing, setting, fwFaults>>

\* InstallFirewall takes the place of what is there; or Start fails.
InstallAnchor ==
  /\ phase = "opening"
  /\ \/ phase' = "written" /\ filter' = anchors[Len(anchors)] /\ UNCHANGED fwFaults
     \/ phase' = "down" /\ FwFails /\ UNCHANGED filter
  /\ UNCHANGED <<fwFile, allowList, fwPid, anchorVars, closing, setting, mishaps>>

\* writeAnchorState; that it fails is only logged.
WriteAnchor ==
  /\ phase = "written" /\ phase' = "up"
  /\ anchor' = Len(anchors)
  /\ \/ fwFile' = fwPid /\ UNCHANGED <<mishaps, fwFaults>>
     \/ FwFails /\ Mishap("unrecorded") /\ UNCHANGED fwFile
  /\ UNCHANGED <<filter, allowList, fwPid, anchors, fwCamp, closing, setting>>

-----------------------------------------------------------------------------
(* Stop, which closes without the mutex.                                   *)

StopAnchor ==
  /\ phase = "up" /\ phase' = "closing"
  /\ anchor' = 0
  /\ Overlap(Busy # {})
  /\ UNCHANGED <<kernel, allowList, fwPid, anchors, fwCamp, closing, setting, fwFaults>>

\* The file goes last, even if the rules did not.
CloseOrder == <<"filter", "file">>

CloseAnchor ==
  /\ phase = "closing"
  /\ phase' = IF closing = Len(CloseOrder) THEN "down" ELSE "closing"
  /\ closing' = IF closing = Len(CloseOrder) THEN 1 ELSE closing + 1
  /\ \/ /\ filter' = IF CloseOrder[closing] = "filter" THEN NoFilter ELSE filter
        /\ fwFile' = IF CloseOrder[closing] = "file" THEN 0 ELSE fwFile
        /\ UNCHANGED <<mishaps, fwFaults>>
     \/ FwFails /\ Mishap("failed") /\ UNCHANGED kernel
  /\ UNCHANGED <<allowList, fwPid, anchorVars, setting>>

-----------------------------------------------------------------------------
(* SetUserPorts.                                                           *)

Proceed(h, from, to) ==
  /\ setting[h].step = from
  /\ setting' = [setting EXCEPT ![h] = IF to = "done" THEN Finished ELSE [@ EXCEPT !.step = to]]

\* Camp and anchor are read under the mutex; the camp outlives the anchor.
SetUserPorts(h, list) ==
  /\ setting[h].step = "none" /\ (\A g \in 1..(h - 1) : setting[g].step # "none")
  /\ phase \notin {"opening", "written"} /\ fwCamp # 0
  /\ setting' = [setting EXCEPT ![h] =
       [step |-> "save", of |-> anchor, camp |-> fwCamp, list |-> list]]
  /\ Overlap(Busy # {} \/ phase = "closing")
  /\ UNCHANGED <<kernel, allowList, fwPid, anchorVars, phase, closing, fwFaults>>

\* UpdateCamp; with no anchor that is all.
SavePorts(h) ==
  /\ Proceed(h, "save", IF setting[h].of = 0 THEN "done" ELSE "apply")
  /\ allowList' = [allowList EXCEPT ![setting[h].camp] = setting[h].list]
  /\ UNCHANGED <<kernel, fwPid, anchorVars, phase, closing, mishaps, fwFaults>>

\* Faulty variant: ports are only ever added.
AppliedAlso(h) == anchors[setting[h].of].ports \cup Merged(setting[h].list)

Applied(h) == Merged(setting[h].list)

\* apply: the anchor's list is set ...
ApplyPorts(h) ==
  /\ Proceed(h, "apply", "install")
  /\ anchors' = [anchors EXCEPT ![setting[h].of].ports = Applied(h)]
  /\ UNCHANGED <<kernel, allowList, fwPid, anchor, fwCamp, phase, closing, mishaps, fwFaults>>

\* ... and whatever it holds by now is installed; a failure ends the handler.
InstallPorts(h) ==
  /\ \/ Proceed(h, "install", "record") /\ filter' = anchors[setting[h].of]
        /\ UNCHANGED <<mishaps, fwFaults>>
     \/ Proceed(h, "install", "done") /\ FwFails /\ Mishap("failed") /\ UNCHANGED filter
  /\ UNCHANGED <<fwFile, allowList, fwPid, anchorVars, phase, closing>>

RecordPorts(h) ==
  /\ Proceed(h, "record", "done")
  /\ \/ fwFile' = fwPid /\ UNCHANGED <<mishaps, fwFaults>>
     \/ FwFails /\ Mishap("unrecorded") /\ UNCHANGED fwFile
  /\ UNCHANGED <<filter, allowList, fwPid, anchorVars, phase, closing>>

-----------------------------------------------------------------------------

\* The process is killed: rules that are in and not yet in the file stay.
FwCrash ==
  /\ FwFails
  /\ fwPid' = fwPid + 1
  /\ anchor' = 0 /\ fwCamp' = 0 /\ phase' = "down" /\ closing' = 1
  /\ setting' = [h \in 1..Settings |-> IF h \in Busy THEN Finished ELSE setting[h]]
  /\ IF phase = "written" THEN Mishap("unrecorded") ELSE UNCHANGED mishaps
  /\ UNCHANGED <<kernel, allowList, anchors>>

FirewallNext ==
  \/ \E c \in FwCamps : OpenAnchor(c)
  \/ InstallAnchor \/ WriteAnchor \/ StopAnchor \/ CloseAnchor
  \/ \E h \in 1..Settings :
       \/ \E list \in Lists : SetUserPorts(h, list)
       \/ SavePorts(h) \/ ApplyPorts(h) \/ InstallPorts(h) \/ RecordPorts(h)
  \/ FwCrash

FirewallSpec == FirewallInit /\ [][FirewallNext]_fwVars

-----------------------------------------------------------------------------

\* Every variable holds what its Go counterpart can hold, and the helper's own
\* ports are among those every installed filter lets in.
FirewallTypeOK ==
  /\ filter \in {NoFilter} \cup [camp : FwCamps, ports : {{0} \cup l : l \in Lists}]
  /\ fwPid \in 1..(FwFaults + 1) /\ fwFile \in 0..fwPid
  /\ allowList \in [FwCamps -> Lists] /\ fwCamp \in {0} \cup FwCamps
  /\ Len(anchors) <= Anchors /\ anchor \in 0..Len(anchors)
  /\ phase \in {"down", "opening", "written", "up", "closing"} /\ closing \in 1..Len(CloseOrder)
  /\ \A h \in 1..Settings : setting[h].of \in 0..Len(anchors) /\ setting[h].list \in Lists
  /\ mishaps \subseteq {"overlap", "unrecorded", "failed"} /\ fwFaults \in 0..FwFaults

\* While the firewall is up and nobody changes it, the filter is the one of the
\* open camp's tunnel and lets in what its saved list says, across changes,
\* crashes, restarts and camp switches, as long as no change of the ports
\* overlapped another or a Start or Stop, and none failed.
FilterIsWhatWasSaved ==
  phase = "up" /\ Busy = {} /\ mishaps \subseteq {"unrecorded"}
    => filter = [camp |-> fwCamp, ports |-> Merged(allowList[fwCamp])]

\* With the firewall down, rules are in the system only together with the file
\* of a process that is gone, by which the next one removes them, unless a
\* process died, or failed, between rules and file, or was changing the ports
\* beside a Start or Stop.
LeftoverIsRecorded ==
  phase = "down" /\ Busy = {} /\ mishaps = {} /\ filter # NoFilter => LeftBehind

\* The rules in the system are those that were saved while the firewall is up,
\* and none, or such as the next process removes, while it is not.
FilterIsAccountedFor == FilterIsWhatWasSaved /\ LeftoverIsRecorded
===============================================================================
