---------------------------------- MODULE Pki ----------------------------------
(***************************************************************************)
(* services/pki: the CAs of the peers of a camp, as a poller discovers     *)
(* them and as the user installs them in, and removes them from, the trust *)
(* store of the system.  Memory is keyed by fingerprint, the directory by  *)
(* the name a peer has given itself, which another may have, too, and the  *)
(* trust store by the common name, which all CAs of a camp have in common. *)
(* A peer's CA changes when its files are lost.                            *)
(*                                                                         *)
(* A CA is <<peer, generation>>; this node's own is Mine.  A name is the   *)
(* number of the first peer that has it.  At first each peer's CA is known *)
(* and none of them is installed.                                          *)
(***************************************************************************)
EXTENDS Naturals, FiniteSets

CONSTANTS
  CaTotal,    \* the peers of the camp are 1..CaTotal
  PkiChanges  \* bound: clicks of the user, starts, new CAs of peers

ASSUME PkiAssumption == CaTotal \in Nat \ {0} /\ PkiChanges \in Nat

VARIABLES
  generation, \* of a peer's CA
  called,     \* the name of a peer
  known,      \* the CAs in memory
  flagged,    \* those of them with Installed set
  file,       \* per name: the CA in its file, if there is one
  trusted,    \* the CAs of f2f in the trust store
  turn,       \* the peer pollOnce is at
  fetched,    \* its answer
  adding,     \* where InstallPeerCA is, for what entry
  removing,   \* what RemovePeerCA is removing
  clicked,    \* the peers a CA of which the user wanted installed
  pkiChanges

memory == <<known, flagged>>
caFiles == <<file, trusted>>
others == <<generation, called>>
tasks == <<turn, fetched, adding, removing>>
pkiVars == <<others, memory, caFiles, tasks, clicked, pkiChanges>>

CaPeers == 1..CaTotal
Mine == <<0, 0>>
NoCa == <<0, 1>>
Cas == CaPeers \X (0..PkiChanges)
NotAdding == [at |-> "idle", ca |-> NoCa, cert |-> NoCa]
CurrentCa(p) == <<p, generation[p]>>

\* The file of the peer that has the CA: of its name.
FileOf(c) == called[c[1]]

PkiChange == pkiChanges > 0 /\ pkiChanges' = pkiChanges - 1

PkiInit ==
  /\ generation = [p \in CaPeers |-> 0]
  /\ called \in [CaPeers -> CaPeers]
  /\ \A p \in CaPeers : called[p] <= p /\ called[called[p]] = called[p]
  /\ known = {<<p, 0>> : p \in CaPeers} /\ flagged = {}
  /\ file = [n \in CaPeers |-> IF called[n] = n THEN <<n, 0>> ELSE NoCa]
  /\ trusted = {Mine}
  /\ turn = 1 /\ fetched = NoCa /\ adding = NotAdding /\ removing = NoCa
  /\ clicked = {}
  /\ pkiChanges = PkiChanges

-----------------------------------------------------------------------------
(* Starts.                                                                 *)

\* The peer loses ca.crt or ca.key, and makes a new CA at its start.
NewCa(p) ==
  /\ PkiChange
  /\ generation' = [generation EXCEPT ![p] = @ + 1]
  /\ UNCHANGED <<called, memory, caFiles, tasks, clicked>>

\* loadPeerCAs: what the directory has.
Loaded == {file[n] : n \in CaPeers} \ {NoCa}

\* Start: this node's CA is trusted, and the directory is added to the memory,
\* which is empty if it is the process that has started.
PkiStart(process) ==
  /\ PkiChange
  /\ trusted' = trusted \cup {Mine}
  /\ known' = Loaded \cup (IF process THEN {} ELSE known)
  /\ flagged' = (Loaded \cap trusted) \cup (IF process THEN {} ELSE flagged \ Loaded)
  /\ IF process
     THEN turn' = 1 /\ fetched' = NoCa /\ removing' = NoCa
          /\ adding' = NotAdding
     ELSE UNCHANGED tasks
  /\ UNCHANGED <<others, file, clicked>>

-----------------------------------------------------------------------------
(* The poller.                                                             *)

\* fetchCACert, of one peer after the other.
FetchCa ==
  /\ fetched = NoCa
  /\ fetched' = CurrentCa(turn)
  /\ UNCHANGED <<others, memory, caFiles, turn, adding, removing, clicked, pkiChanges>>

\* Faulty variant: a peer is known by its name.
SeenByName(c) == \E k \in known : k[1] = c[1]

Seen(c) == c \in known

TrustAfterDiscovery == trusted

\* discover: the file of the peer's name becomes that of the new CA.
Discover ==
  /\ fetched # NoCa
  /\ fetched' = NoCa /\ turn' = (turn % CaTotal) + 1
  /\ IF Seen(fetched) THEN UNCHANGED <<memory, caFiles>>
     ELSE /\ file' = [file EXCEPT ![FileOf(fetched)] = fetched]
          /\ known' = known \cup {fetched}
          /\ flagged' = flagged \cup (trusted \cap {fetched})
          /\ trusted' = TrustAfterDiscovery
  /\ UNCHANGED <<others, adding, removing, clicked, pkiChanges>>

-----------------------------------------------------------------------------
(* The user.                                                               *)

\* InstallPeerCA: the entry is looked up by fingerprint, the file by name, and it
\* may hold the CA of another.
InstallBegin(c) ==
  /\ PkiChange
  /\ adding.at = "idle" /\ c \in known \ flagged
  /\ clicked' = clicked \cup {c[1]}
  /\ adding' = IF file[FileOf(c)] = NoCa THEN adding
               ELSE [at |-> "prompt", ca |-> c, cert |-> file[FileOf(c)]]
  /\ UNCHANGED <<others, memory, caFiles, turn, fetched, removing>>

\* TrustStoreAdd, which may fail: the user declines.
InstallTrust(accepted) ==
  /\ adding.at = "prompt"
  /\ adding' = IF accepted THEN [adding EXCEPT !.at = "trusted"] ELSE NotAdding
  /\ trusted' = IF accepted THEN trusted \cup {adding.cert} ELSE trusted
  /\ UNCHANGED <<others, memory, file, turn, fetched, removing, clicked, pkiChanges>>

InstallEnd ==
  /\ adding.at = "trusted"
  /\ adding' = NotAdding
  /\ known' = known \cup {adding.ca} /\ flagged' = flagged \cup {adding.ca}
  /\ UNCHANGED <<others, caFiles, turn, fetched, removing, clicked, pkiChanges>>

RemoveCa(c) ==
  /\ PkiChange
  /\ removing = NoCa /\ c \in known
  /\ known' = known \ {c} /\ flagged' = flagged \ {c} /\ removing' = c
  /\ UNCHANGED <<others, caFiles, turn, fetched, adding, clicked>>

\* TrustStoreRemove: every CA of f2f goes (Linux), every CA of that common name
\* (Windows), or none if it is the name of several (macOS).
TrustLeft == {{}} \cup (IF Cardinality(trusted) > 1 THEN {trusted} ELSE {})

RemoveCaEnd ==
  /\ removing # NoCa
  /\ file' = [file EXCEPT ![FileOf(removing)] = NoCa]
  /\ trusted' \in TrustLeft
  /\ removing' = NoCa
  /\ UNCHANGED <<others, memory, turn, fetched, adding, clicked, pkiChanges>>

PkiNext ==
  \/ \E p \in CaPeers : NewCa(p)
  \/ \E b \in BOOLEAN : PkiStart(b) \/ InstallTrust(b)
  \/ FetchCa \/ Discover \/ InstallEnd \/ RemoveCaEnd
  \/ \E c \in Cas : InstallBegin(c) \/ RemoveCa(c)

PkiSpec == PkiInit /\ [][PkiNext]_pkiVars

\* Every peer is polled every 30 s.
PkiFairness == WF_pkiVars(FetchCa) /\ WF_pkiVars(Discover)

-----------------------------------------------------------------------------

\* Every variable holds what its Go counterpart can hold; only what is known is
\* flagged as installed.
PkiTypeOK ==
  /\ generation \in [CaPeers -> 0..PkiChanges] /\ called \in [CaPeers -> CaPeers]
  /\ known \subseteq Cas /\ flagged \subseteq known
  /\ file \in [CaPeers -> Cas \cup {NoCa}]
  /\ trusted \subseteq Cas \cup {Mine}
  /\ turn \in CaPeers
  /\ {fetched, removing, adding.ca, adding.cert} \subseteq Cas \cup {NoCa}
  /\ adding.at \in {"idle", "prompt", "trusted"}
  /\ clicked \subseteq CaPeers
  /\ pkiChanges \in 0..PkiChanges

\* Discovery never touches the trust store: whose CA is trusted was clicked, it or
\* another of the same name, also when an answer, a start or a removal comes while
\* the user is being asked.  Where names are shared the file has the CA of the one
\* that was discovered last, and that is trusted, whoever was clicked.
OnlyClickedTrusted ==
  \A c \in trusted : c = Mine \/ \E p \in clicked : called[p] = FileOf(c)

\* The CA a peer has now comes to be offered, whichever were there before.
CurrentIsKnown == \A p \in CaPeers : <>[](CurrentCa(p) \in known)
===============================================================================
