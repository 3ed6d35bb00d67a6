----------------------------- MODULE FrameBackup -----------------------------
(***************************************************************************)
(* FrameSync with Service.Dump and Service.Import, used as DB.md says they *)
(* are for: backup, sharing the whole database, a new device.  A device    *)
(* that lost its database comes up with the same identity and an empty     *)
(* store, so its author may number frames it no longer knows of again.     *)
(***************************************************************************)
EXTENDS FrameSync

VARIABLES
  dumps,      \* dumps[n]: the frames of the last dump peer n has made
  imports,    \* imports being applied, frame by frame
  recovered   \* the peers that lost their database (a history variable)

allVars == <<vars, dumps, imports, recovered>>

BackupInit ==
  /\ Init
  /\ dumps = [n \in Node |-> {}]
  /\ imports = {}
  /\ recovered = {}

\* Service.Dump: every scope, read under the service lock.
Dump(n) ==
  /\ dumps' = [dumps EXCEPT ![n] = Stored(n)]
  /\ UNCHANGED <<vars, imports, recovered>>

\* The database of peer n is lost; the identity is not.
Lose(n) ==
  /\ faults < MaxFaults
  /\ faults' = faults + 1
  /\ store' = [store EXCEPT ![n] = [s \in Scope |-> [a \in Node |-> <<>>]]]
  /\ clock' = [clock EXCEPT ![n] = 0]
  /\ pending' = {g \in pending : g.at # n}
  /\ requests' = {q \in requests : n \notin {q.at, q.peer}}
  /\ replies' = {r \in replies : r.at # n}
  /\ imports' = {i \in imports : i.at # n}
  /\ recovered' = recovered \cup {n}
  /\ UNCHANGED <<pushes, minted, dumps>>

\* Service.Import starts on a dump, our own or the one of another peer.
Import(n, m) ==
  /\ dumps[m] \ Stored(n) # {}
  /\ \A i \in imports : i.at # n
  /\ imports' = imports \cup {[at |-> n, todo |-> dumps[m]]}
  /\ UNCHANGED <<vars, dumps, recovered>>

\* What Import goes on with after frame f: errors are skipped.
RestOfImport(n, f, frames) == frames \ {f}

\* One iteration of Import: per scope in the order of applyInOrder.
ImportNext(i) ==
  \E f \in i.todo :
    /\ IsFirst(f, {g \in i.todo : g.scope = f.scope})
    /\ Apply(i.at, f)
    /\ LET rest == RestOfImport(i.at, f, i.todo) IN
       imports' = (imports \ {i}) \cup
                  (IF rest = {} THEN {} ELSE {[i EXCEPT !.todo = rest]})
    /\ UNCHANGED <<pushes, pending, requests, replies, minted, faults, dumps, recovered>>

\* A restart also ends the import of the peer.
RestartWithImport(n) ==
  /\ Restart(n)
  /\ imports' = {i \in imports : i.at # n}
  /\ UNCHANGED <<dumps, recovered>>

BackupNext ==
  \/ /\ \/ \E n \in Node, s \in Scope : Commit(n, s)
        \/ \E m \in pushes : DeliverPush(m)
        \/ \E g \in pending : GapPull(g)
        \/ \E n, p \in Node, s \in Scope : TickPull(n, p, s)
        \/ \E q \in requests : Answer(q) \/ Fail(q)
        \/ \E r \in replies : ApplyNext(r)
     /\ UNCHANGED <<dumps, imports, recovered>>
  \/ \E n \in Node : Dump(n) \/ Lose(n) \/ RestartWithImport(n)
  \/ \E n, m \in Node : Import(n, m)
  \/ \E i \in imports : ImportNext(i)

BackupSpec == BackupInit /\ [][BackupNext]_allVars

-----------------------------------------------------------------------------
(* Properties.                                                             *)

\* Losing a database forks at most the logs of its owner: the frames of an
\* author that never lost its own are the same everywhere, imports included.
HealthyAuthorsDoNotFork ==
  \A n \in Node, a \in Node \ recovered, s \in Scope :
    PrefixOf(store[n][s][a], store[a][s][a])

\* A frame that is stored stays where it is: whatever is imported, pulled or
\* pushed, a chain changes by growing, until its database is lost as a whole.
IsLost(n) == n \in recovered /\ Stored(n) = {}

ChainsOnlyGrow ==
  [][\A n \in Node :
       \/ IsLost(n)'
       \/ \A s \in Scope, a \in Node : PrefixOf(store[n][s][a], store'[n][s][a])]_allVars
=============================================================================
