---------------------------- MODULE ReplicatedLog ----------------------------
(***************************************************************************)
(* What the frame log promises, with no network in sight.  Every author    *)
(* owns one append-only log per scope; a replica's copy of that log is     *)
(* always a prefix of it and only ever gets longer, one entry at a time.   *)
(* FrameSync (the code of source/helper/db) is shown to implement this.    *)
(***************************************************************************)
EXTENDS Naturals, Sequences

CONSTANTS
  Replica,   \* the peers; each is also the author of its own logs
  Scope,     \* the independent logs of one camp
  Entry      \* what a log holds

VARIABLES
  log,       \* log[s][a]: what author a has written in scope s
  copy       \* copy[n][s][a]: replica n's copy of that log

vars == <<log, copy>>

Init ==
  /\ log = [s \in Scope |-> [a \in Replica |-> <<>>]]
  /\ copy = [n \in Replica |-> [s \in Scope |-> [a \in Replica |-> <<>>]]]

\* The author writes an entry; its own copy has it at once.
Write(a, s) ==
  /\ \E x \in Entry : log' = [log EXCEPT ![s][a] = Append(@, x)]
  /\ copy' = [copy EXCEPT ![a][s][a] = log'[s][a]]

\* A replica learns the next entry it lacks of one author's log.
Learn(n, s, a) ==
  LET next == Len(copy[n][s][a]) + 1 IN
  /\ next <= Len(log[s][a])
  /\ copy' = [copy EXCEPT ![n][s][a] = Append(@, log[s][a][next])]
  /\ UNCHANGED log

Next ==
  \E n \in Replica, s \in Scope :
    \/ Write(n, s)
    \/ \E a \in Replica : Learn(n, s, a)

Spec == Init /\ [][Next]_vars
=============================================================================
