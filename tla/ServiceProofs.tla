----------------------------- MODULE ServiceProofs -----------------------------
(***************************************************************************)
(* Proofs about the services and the files they keep: for each of them the *)
(* invariant of its own specification, and from these what holds in the    *)
(* instance that has them all; for any values of the constants.            *)
(***************************************************************************)
EXTENDS MCServices, FiniteSetTheorems, SequenceTheorems, NatOrder, TLAPS

-----------------------------------------------------------------------------
(* Drop.                                                                   *)

\* What loops are about to add again was there, and so was asked for.
DropInv ==
  /\ DropTypeOK /\ NeverUnasked
  /\ loop.step \in {"drop", "add"} => asked

LEMMA DropInitInv == DropInit => DropInv
<1> SUFFICES ASSUME DropInit PROVE DropInv
  OBVIOUS
<1>1. source \in [online : BOOLEAN, seeds : BOOLEAN, file : BOOLEAN]
  BY DEF DropInit
<1>2. client \in BOOLEAN /\ ghost \in BOOLEAN /\ referenced \in BOOLEAN /\ asked \in BOOLEAN
  BY DEF DropInit
<1>3. loop \in Plans /\ loop.step = "idle"
  BY DEF DropInit, Looking, Plans
<1> QED
  BY <1>1, <1>2, <1>3, DropAssumption DEF DropInit, DropInv, DropTypeOK, NeverUnasked

LEMMA DropFacts ==
  ASSUME DropInv
  PROVE  /\ client \in BOOLEAN /\ restore \in {"done", "due", "known", "unknown"} /\ ghost \in BOOLEAN
         /\ referenced \in BOOLEAN /\ asked \in BOOLEAN
         /\ loading \subseteq Downloads /\ \A d, e \in loading : d = e
         /\ dropDisk \in {"none", "part", "full"}
         /\ loop \in Plans
         /\ catalog \in {"unpolled", "lists", "lacks"} /\ poll \in {"none", "lists", "lacks"}
         /\ source \in [online : BOOLEAN, seeds : BOOLEAN, file : BOOLEAN]
         /\ changes \in 0..Changes /\ misses \in 0..Misses
         /\ Changes \in Nat /\ Misses \in Nat
         /\ loading # {} \/ dropDisk # "none" => asked
         /\ loop.step \in {"drop", "add"} => asked
BY DropAssumption DEF DropInv, DropTypeOK, NeverUnasked

\* What is made of one download is one download.
LEMMA OneDownload ==
  ASSUME DropInv
  PROVE  /\ Lost \subseteq Downloads /\ \A d, e \in Lost : d = e
         /\ Lost # {} => loading # {}
         /\ \A b \in BOOLEAN : /\ DownloadAdded(b) \subseteq Downloads
                               /\ \A d, e \in DownloadAdded(b) : d = e
         /\ \A d \in Downloads, b \in BOOLEAN :
              [d EXCEPT !.fed = b] \in Downloads
         /\ \A d \in Downloads :
              /\ [d EXCEPT !.fed = TRUE] \in Downloads /\ [d EXCEPT !.info = TRUE] \in Downloads
              /\ [d EXCEPT !.done = TRUE] \in Downloads
         /\ DownloadAdded(TRUE) \subseteq Downloads /\ \A d, e \in DownloadAdded(TRUE) : d = e
<1> USE DropFacts
<1>1. /\ \A d \in Downloads, b \in BOOLEAN : [d EXCEPT !.fed = b] \in Downloads
      /\ \A d \in Downloads :
           /\ [d EXCEPT !.fed = TRUE] \in Downloads /\ [d EXCEPT !.info = TRUE] \in Downloads
           /\ [d EXCEPT !.done = TRUE] \in Downloads
  BY DEF Downloads
<1>2. Lost \subseteq Downloads /\ (\A d, e \in Lost : d = e) /\ (Lost # {} => loading # {})
  BY <1>1 DEF Lost
<1>3. ASSUME NEW b \in BOOLEAN
      PROVE  DownloadAdded(b) \subseteq Downloads /\ \A d, e \in DownloadAdded(b) : d = e
  <2>1. [info |-> FALSE, done |-> FALSE, fed |-> b, known |-> b] \in Downloads
    BY DEF Downloads
  <2>2. \A d \in Downloads : [d EXCEPT !.fed = @ \/ b, !.known = b] \in Downloads
    BY DEF Downloads
  <2> QED
    BY <2>1, <2>2 DEF DownloadAdded
<1>4. DownloadAdded(TRUE) \subseteq Downloads /\ \A d, e \in DownloadAdded(TRUE) : d = e
  BY <1>3
<1> QED
  BY <1>1, <1>2, <1>3, <1>4

LEMMA DropStepInv == DropInv /\ [DropNext]_dropVars => DropInv'
<1> SUFFICES ASSUME DropInv, [DropNext]_dropVars PROVE DropInv'
  OBVIOUS
<1>o. /\ Lost \subseteq Downloads /\ \A d, e \in Lost : d = e
      /\ Lost # {} => loading # {}
      /\ \A b \in BOOLEAN : /\ DownloadAdded(b) \subseteq Downloads
                            /\ \A d, e \in DownloadAdded(b) : d = e
      /\ \A d \in Downloads, b \in BOOLEAN :
           [d EXCEPT !.fed = b] \in Downloads
      /\ \A d \in Downloads :
           /\ [d EXCEPT !.fed = TRUE] \in Downloads /\ [d EXCEPT !.info = TRUE] \in Downloads
           /\ [d EXCEPT !.done = TRUE] \in Downloads
      /\ DownloadAdded(TRUE) \subseteq Downloads /\ \A d, e \in DownloadAdded(TRUE) : d = e
  BY OneDownload
<1> USE DropFacts
<1> USE DEF DropInv, DropTypeOK, NeverUnasked, Change, ours, theirs, polled
<1>0. \A step \in {"idle", "retire", "drop", "add"}, b \in BOOLEAN :
        [step |-> step, known |-> b] \in Plans
  BY DEF Plans
<1>1. CASE ShareFile
  <2>1. source' \in [online : BOOLEAN, seeds : BOOLEAN, file : BOOLEAN] /\ referenced' \in BOOLEAN
    BY <1>1 DEF ShareFile
  <2> QED
    BY <1>1, <2>1 DEF ShareFile
<1>2. CASE Unshare
  <2>1. source' \in [online : BOOLEAN, seeds : BOOLEAN, file : BOOLEAN] /\ referenced' \in BOOLEAN
    BY <1>2 DEF Unshare
  <2> QED
    BY <1>2, <2>1 DEF Unshare
<1>3. CASE SourceToggles
  <2>1. loading' \subseteq Downloads /\ (\A d, e \in loading' : d = e) /\ (loading' # {} => loading # {})
    BY <1>3, <1>o DEF SourceToggles
  <2>2. source' \in [online : BOOLEAN, seeds : BOOLEAN, file : BOOLEAN]
    BY <1>3 DEF SourceToggles
  <2> QED
    BY <1>3, <2>1, <2>2 DEF SourceToggles
<1>4. CASE PollAsk
  BY <1>4 DEF PollAsk, ListedFiles
<1>5. CASE PollStore
  BY <1>5 DEF PollStore, Stored
<1>6. CASE AddDownload
  <2>1. loading' \subseteq Downloads /\ \A d, e \in loading' : d = e
    BY <1>6, <1>o DEF AddDownload
  <2>2. /\ asked' = TRUE /\ changes' \in 0..Changes
        /\ UNCHANGED <<client, dropDisk, restore, loop, ghost, source, referenced, catalog, poll, misses>>
    BY <1>6 DEF AddDownload
  <2>3. DropTypeOK'
    BY <2>1, <2>2
  <2> QED
    BY <2>2, <2>3
<1>7. CASE RemoveDownload
  BY <1>7 DEF RemoveDownload
<1>8. CASE DeleteFile
  BY <1>8 DEF DeleteFile
<1>9. CASE GetInfo
  <2>0. PICK d \in loading : loading' = {[d EXCEPT !.info = TRUE]}
    BY <1>9 DEF GetInfo
  <2>2. d \in Downloads /\ asked
    OBVIOUS
  <2>3. [d EXCEPT !.info = TRUE] \in Downloads
    BY <1>o, <2>2
  <2> DEFINE new == [d EXCEPT !.info = TRUE]
  <2>4. new \in Downloads /\ loading' = {new}
    BY <2>0, <2>3
  <2> HIDE DEF new
  <2>1. loading' \subseteq Downloads /\ \A e, f \in loading' : e = f
    BY <2>4
  <2> QED
    BY <1>9, <2>1, <2>2 DEF GetInfo
<1>10. CASE GetBytes
  <2>0. PICK d \in loading : loading' = {[d EXCEPT !.done = TRUE]}
    BY <1>10 DEF GetBytes
  <2>2. d \in Downloads /\ asked
    OBVIOUS
  <2>3. [d EXCEPT !.done = TRUE] \in Downloads
    BY <1>o, <2>2
  <2> DEFINE new == [d EXCEPT !.done = TRUE]
  <2>4. new \in Downloads /\ loading' = {new}
    BY <2>0, <2>3
  <2> HIDE DEF new
  <2>1. loading' \subseteq Downloads /\ \A e, f \in loading' : e = f
    BY <2>4
  <2> QED
    BY <1>10, <2>1, <2>2 DEF GetBytes
<1>11. CASE MissDial
  <2>1. loading' \subseteq Downloads /\ (\A d, e \in loading' : d = e) /\ loading # {}
    BY <1>11, <1>o DEF MissDial
  <2> QED
    BY <1>11, <2>1 DEF MissDial
<1>12. CASE Nudge
  <2>1. loading' \subseteq Downloads /\ (\A d, e \in loading' : d = e) /\ loading # {}
    BY <1>12, <1>o DEF Nudge
  <2> QED
    BY <1>12, <2>1 DEF Nudge
<1>13. CASE Refeed
  <2>1. PICK d \in loading :
          \/ /\ loop' = [step |-> "retire", known |-> FALSE] \/ loop' = [step |-> "drop", known |-> d.known]
             /\ UNCHANGED loading
          \/ loading' = {[d EXCEPT !.fed = source.online]} /\ UNCHANGED loop
    BY <1>13 DEF Refeed
  <2>2. d \in Downloads /\ d.known \in BOOLEAN /\ source.online \in BOOLEAN /\ asked
    BY DEF Downloads
  <2>3. [d EXCEPT !.fed = source.online] \in Downloads
    BY <2>2, <1>o
  <2>4. loading' \subseteq Downloads /\ (\A e, f \in loading' : e = f)
    BY <2>1, <2>3
  <2>5. loop' \in Plans
    BY <1>0, <2>1, <2>2
  <2> QED
    BY <1>13, <2>2, <2>4, <2>5 DEF Refeed
<1>14. CASE RefeedAct
  <2>1. loop.known \in BOOLEAN
    BY DEF Plans
  <2>2. loading' \subseteq Downloads /\ (\A d, e \in loading' : d = e)
        /\ (loading' # {} => asked)
    BY <1>14, <2>1, <1>o DEF RefeedAct
  <2>3. loop' \in Plans /\ (loop'.step \in {"drop", "add"} => asked)
    <3>1. CASE loop' = Looking
      BY <1>0, <3>1 DEF Looking
    <3>2. CASE loop.step = "drop" /\ loop' = [loop EXCEPT !.step = "add"]
      <4>1. loop' \in Plans
        BY <3>2 DEF Plans
      <4>2. asked
        BY <3>2
      <4> QED
        BY <4>1, <4>2
    <3> QED
      BY <1>14, <3>1, <3>2 DEF RefeedAct
  <2> QED
    BY <1>14, <2>2, <2>3 DEF RefeedAct
<1>15. CASE GhostRefeed
  BY <1>15 DEF GhostRefeed
<1>16. CASE Prune
  BY <1>16 DEF Prune
<1>17. CASE DropStop
  <2>1. ghost' \in BOOLEAN
    BY <1>17 DEF DropStop
  <2>2. loop' \in Plans /\ loop'.step \in {"retire", "idle"}
    BY <1>0, <1>17 DEF DropStop, Looking
  <2>3. /\ client' = FALSE /\ loading' = {} /\ restore' = "done" /\ changes' \in 0..Changes
        /\ UNCHANGED <<dropDisk, asked, source, referenced, catalog, poll, misses>>
    BY <1>17 DEF DropStop
  <2>4. DropTypeOK'
    BY <2>1, <2>2, <2>3
  <2> QED
    BY <2>2, <2>3, <2>4
<1>18. CASE DropStart
  BY <1>18 DEF DropStart
<1>19. CASE Restore
  <2>1. loading' \subseteq Downloads /\ (\A d, e \in loading' : d = e)
        /\ (loading' # {} => asked)
    BY <1>19, <1>o DEF Restore, Restorable
  <2> QED
    BY <1>19, <2>1 DEF Restore
<1>21. CASE RestoreBegin
  BY <1>21 DEF RestoreBegin
<1>20. CASE UNCHANGED dropVars
  BY <1>20 DEF dropVars
<1> QED
  BY <1>1, <1>2, <1>3, <1>4, <1>5, <1>6, <1>7, <1>8, <1>9, <1>10, <1>11, <1>12, <1>13, <1>14,
     <1>15, <1>16, <1>17, <1>18, <1>19, <1>20, <1>21 DEF DropNext

-----------------------------------------------------------------------------
(* DNS.                                                                    *)

\* Once a removal has changed the config, and nobody had the name, nobody comes to
\* have it while the memory is still to be changed, and nobody after.
DnsInv ==
  /\ DnsTypeOK /\ RemovedStaysAway
  /\ dropped = "half" => removingName
  /\ dropped # "no" => ~dnsStored /\ NothingUnderWay

LEMMA DnsInitInv == DnsInit => DnsInv
<1> SUFFICES ASSUME DnsInit PROVE DnsInv
  OBVIOUS
<1>1. /\ server \in BOOLEAN /\ published \in BOOLEAN /\ allowed \in BOOLEAN /\ online \in BOOLEAN
      /\ mirror \in BOOLEAN /\ dnsStored \in BOOLEAN /\ heard \in BOOLEAN
      /\ own \in BOOLEAN /\ backend \in BOOLEAN /\ removingName \in BOOLEAN
  BY DEF DnsInit
<1> QED
  BY <1>1, DnsAssumption DEF DnsInit, DnsInv, DnsTypeOK, RemovedStaysAway

LEMMA DnsStepInv == DnsInv /\ [DnsNext]_dnsVars => DnsInv'
<1> SUFFICES ASSUME DnsInv, [DnsNext]_dnsVars PROVE DnsInv'
  OBVIOUS
<1>0. /\ server \in BOOLEAN /\ published \in BOOLEAN /\ allowed \in BOOLEAN /\ online \in BOOLEAN
      /\ mirror \in BOOLEAN /\ dnsStored \in BOOLEAN /\ heard \in BOOLEAN
      /\ own \in BOOLEAN /\ backend \in BOOLEAN /\ removingName \in BOOLEAN
      /\ seed \in {{}, {TRUE}, {FALSE}} /\ dropped \in {"no", "half", "yes"}
      /\ polling \in {"idle", "store", "mirror"}
      /\ health \in {{}, {TRUE}, {FALSE}} /\ probe \in {{}, {TRUE}, {FALSE}}
      /\ dnsChanges \in 0..DnsChanges /\ DnsChanges \in Nat
  BY DnsAssumption DEF DnsInv, DnsTypeOK
<1> USE DEF DnsNext, dnsVars, DnsChange, peerSide, userSide, mirrored, ownSide, PeerChanges,
    FetchDomains, StoreDomains, MirrorDomains, RemovePeerDomain, RemoveMirrored, SetMyDomains,
    BackendChanges, Dial, Stamp, DnsStop, SeedRead, DnsStart
<1>1. /\ dnsChanges' \in 0..DnsChanges
      /\ polling' \in {"idle", "store", "mirror"}
      /\ health' \in {{}, {TRUE}, {FALSE}} /\ probe' \in {{}, {TRUE}, {FALSE}}
      /\ seed' \in {{}, {TRUE}, {FALSE}}
  <2>1. {backend} \in {{TRUE}, {FALSE}} /\ {dnsStored} \in {{TRUE}, {FALSE}}
    BY <1>0
  <2>2. /\ probe' \in {probe, {}, {backend}} /\ health' \in {health, {}, probe}
        /\ seed' \in {seed, {}, {dnsStored}}
    BY <1>0 DEF Stamped
  <2>3. dnsChanges' \in 0..DnsChanges /\ polling' \in {"idle", "store", "mirror"}
    BY <1>0
  <2> QED
    BY <1>0, <2>1, <2>2, <2>3
<1>2. /\ server' \in BOOLEAN /\ published' \in BOOLEAN /\ allowed' \in BOOLEAN
      /\ online' \in BOOLEAN /\ own' \in BOOLEAN /\ backend' \in BOOLEAN
  BY <1>0
<1>3. /\ mirror' \in BOOLEAN /\ dnsStored' \in BOOLEAN /\ heard' \in BOOLEAN
      /\ removingName' \in BOOLEAN /\ dropped' \in {"no", "half", "yes"}
  <2>1. mirror' \in BOOLEAN /\ dnsStored' \in BOOLEAN
    <3>1. CASE DnsStart
      <4>1. mirror' = (TRUE \in seed) /\ UNCHANGED dnsStored
        BY <3>1 DEF Seeded
      <4> QED
        BY <1>0, <4>1
    <3>2. CASE MirrorDomains \/ RemoveMirrored
      BY <1>0, <3>2 DEF Upsert
    <3>3. CASE StoreDomains \/ RemovePeerDomain
      BY <1>0, <3>3 DEF StoredAfterDrop
    <3>4. CASE UNCHANGED <<mirror, dnsStored>>
      BY <1>0, <3>4
    <3> QED
      BY <3>1, <3>2, <3>3, <3>4
  <2>2. heard' \in BOOLEAN
    BY <1>0 DEF Visible
  <2>3. removingName' \in BOOLEAN
    BY <1>0
  <2>4. dropped' \in {dropped, "no", "half", "yes"}
    BY <1>0
  <2> QED
    BY <1>0, <2>1, <2>2, <2>3, <2>4
<1>4. /\ dropped' = "half" => removingName'
      /\ dropped' # "no" => ~dnsStored' /\ NothingUnderWay'
      /\ dropped' = "yes" => ~mirror'
  <2>0. /\ dropped = "yes" => ~mirror
        /\ dropped = "half" => removingName
        /\ dropped # "no" => ~dnsStored /\ ~online /\ polling = "idle" /\ TRUE \notin seed
    BY DEF DnsInv, RemovedStaysAway, NothingUnderWay
  <2>1. CASE PeerChanges
    <3>1. /\ UNCHANGED <<mirror, dnsStored, polling, seed, removingName>>
          /\ dropped' = "no" \/ UNCHANGED <<online, dropped>>
      BY <2>1
    <3>2. CASE dropped' = "no"
      BY <3>2
    <3>3. CASE UNCHANGED <<online, dropped>>
      BY <2>0, <3>1, <3>3 DEF NothingUnderWay
    <3> QED
      BY <3>1, <3>2, <3>3
  <2>2. CASE RemovePeerDomain
    <3>1. /\ ~dnsStored' /\ removingName'
          /\ dropped' = IF NothingUnderWay THEN "half" ELSE "no"
          /\ UNCHANGED <<online, polling, seed>>
      BY <2>2 DEF StoredAfterDrop
    <3> QED
      BY <3>1 DEF NothingUnderWay
  <2>3. CASE RemoveMirrored
    <3>1. /\ ~mirror' /\ UNCHANGED <<online, polling, seed, dnsStored>>
          /\ dropped' = IF dropped = "half" THEN "yes" ELSE dropped
      BY <2>3
    <3> QED
      BY <1>0, <2>0, <3>1 DEF NothingUnderWay
  <2>4. CASE FetchDomains \/ StoreDomains \/ MirrorDomains
    <3>1. /\ dropped' = dropped /\ (online \/ polling # "idle")
      BY <2>4
    <3> QED
      BY <2>0, <3>1
  <2>5. CASE SeedRead
    <3>1. /\ seed' = {dnsStored} /\ UNCHANGED <<online, polling, mirror, dnsStored, removingName, dropped>>
      BY <2>5
    <3>2. ~dnsStored => TRUE \notin seed'
      BY <1>0, <3>1
    <3> QED
      BY <2>0, <3>1, <3>2 DEF NothingUnderWay
  <2>6. CASE DnsStart
    <3>1. /\ seed' = {} /\ (mirror' <=> TRUE \in seed)
          /\ UNCHANGED <<online, polling, dnsStored, removingName, dropped>>
      BY <2>6 DEF Seeded
    <3> QED
      BY <2>0, <3>1 DEF NothingUnderWay
  <2>7. CASE SetMyDomains \/ BackendChanges \/ Dial \/ Stamp \/ DnsStop \/ UNCHANGED dnsVars
    <3>1. UNCHANGED <<online, mirror, dnsStored, polling, seed, removingName, dropped>>
      BY <2>7
    <3> QED
      BY <2>0, <3>1 DEF NothingUnderWay
  <2> QED
    BY <2>1, <2>2, <2>3, <2>4, <2>5, <2>6, <2>7
<1> QED
  BY <1>1, <1>2, <1>3, <1>4, ZenonT(30) DEF DnsInv, DnsTypeOK, RemovedStaysAway

-----------------------------------------------------------------------------
(* PKI.                                                                    *)

\* A file has a CA of a peer of that name, so that the one the user is being asked
\* about, or has just agreed to, is of a peer with the name of one that was clicked.
Asked(n) == \E p \in clicked : called[p] = n

PkiInv ==
  /\ PkiTypeOK /\ OnlyClickedTrusted
  /\ \A n \in CaPeers : file[n] = NoCa \/ FileOf(file[n]) = n
  /\ adding \in [at : {"idle", "prompt", "trusted"}, ca : Cas \cup {NoCa}, cert : Cas \cup {NoCa}]
  /\ adding.at # "idle" =>
       adding.ca \in Cas /\ adding.cert \in Cas /\ Asked(FileOf(adding.cert))
  /\ \A p \in CaPeers : generation[p] + pkiChanges <= PkiChanges

LEMMA PkiFacts ==
  ASSUME PkiInv
  PROVE  /\ generation \in [CaPeers -> 0..PkiChanges] /\ called \in [CaPeers -> CaPeers]
         /\ known \subseteq Cas /\ flagged \subseteq known
         /\ file \in [CaPeers -> Cas \cup {NoCa}]
         /\ trusted \subseteq Cas \cup {Mine}
         /\ turn \in CaPeers
         /\ fetched \in Cas \cup {NoCa} /\ removing \in Cas \cup {NoCa}
         /\ clicked \subseteq CaPeers
         /\ pkiChanges \in 0..PkiChanges /\ PkiChanges \in Nat /\ CaTotal \in Nat \ {0}
         /\ adding \in [at : {"idle", "prompt", "trusted"}, ca : Cas \cup {NoCa}, cert : Cas \cup {NoCa}]
BY PkiAssumption DEF PkiInv, PkiTypeOK

LEMMA CaFacts == /\ NoCa \notin Cas /\ Mine \notin Cas
                 /\ \A c \in Cas : c[1] \in CaPeers /\ c = <<c[1], c[2]>>
BY PkiAssumption DEF NoCa, Mine, Cas, CaPeers

LEMMA PkiInitInv == PkiInit => PkiInv
<1> SUFFICES ASSUME PkiInit PROVE PkiInv
  OBVIOUS
<1>1. \A p \in CaPeers : <<p, 0>> \in Cas /\ <<p, 0>>[1] = p
  BY PkiAssumption DEF Cas
<1>2. NotAdding \in [at : {"idle", "prompt", "trusted"}, ca : Cas \cup {NoCa}, cert : Cas \cup {NoCa}]
      /\ NotAdding.at = "idle" /\ NotAdding.ca = NoCa /\ NotAdding.cert = NoCa
  BY DEF NotAdding
<1>3. 1 \in CaPeers
  BY PkiAssumption DEF CaPeers
<1>4. PkiTypeOK
  BY <1>1, <1>2, <1>3, PkiAssumption DEF PkiInit, PkiTypeOK
<1>5. \A n \in CaPeers : file[n] = NoCa \/ FileOf(file[n]) = n
  BY DEF PkiInit, FileOf
<1> QED
  BY <1>1, <1>2, <1>4, <1>5, PkiAssumption DEF PkiInit, PkiInv, OnlyClickedTrusted

LEMMA PkiStepInv == PkiInv /\ [PkiNext]_pkiVars => PkiInv'
<1> SUFFICES ASSUME PkiInv, [PkiNext]_pkiVars PROVE PkiInv'
  OBVIOUS
<1> USE PkiFacts, CaFacts
<1> USE DEF others
<1>u. called' = called => \A c : FileOf(c)' = FileOf(c)
  BY DEF FileOf
<1>a. called' = called /\ clicked \subseteq clicked' => \A n : Asked(n) => Asked(n)'
  BY DEF Asked
<1>t. \A c \in trusted : c = Mine \/ Asked(FileOf(c))
  BY DEF PkiInv, OnlyClickedTrusted, Asked
<1>c. called' = called /\ clicked \subseteq clicked' /\ trusted' \subseteq trusted \cup {Mine} => OnlyClickedTrusted'
  BY <1>u, <1>a, <1>t DEF OnlyClickedTrusted, Asked
<1>0. NotAdding \in [at : {"idle", "prompt", "trusted"}, ca : Cas \cup {NoCa}, cert : Cas \cup {NoCa}]
      /\ NotAdding.at = "idle" /\ NotAdding.ca = NoCa /\ NotAdding.cert = NoCa
  BY DEF NotAdding
<1>1. ASSUME NEW p \in CaPeers, NewCa(p) PROVE PkiInv'
  <2>1. /\ pkiChanges > 0 /\ pkiChanges' = pkiChanges - 1
        /\ generation' = [generation EXCEPT ![p] = @ + 1]
        /\ UNCHANGED <<called, known, flagged, file, trusted, turn, fetched, adding, removing, clicked>>
    BY <1>1 DEF NewCa, PkiChange, memory, caFiles, tasks
  <2>2. \A q \in CaPeers : generation'[q] + pkiChanges' <= PkiChanges /\ generation'[q] \in Nat
    BY <2>1 DEF PkiInv
  <2>3. generation' \in [CaPeers -> 0..PkiChanges]
    BY <2>1, <2>2
  <2> QED
    BY <2>1, <2>2, <2>3, <1>u, <1>a, <1>c DEF PkiInv, PkiTypeOK
<1>2. ASSUME NEW process \in BOOLEAN, PkiStart(process) PROVE PkiInv'
  <2>1. /\ pkiChanges > 0 /\ pkiChanges' = pkiChanges - 1
        /\ trusted' = trusted \cup {Mine}
        /\ known' = Loaded \cup (IF process THEN {} ELSE known)
        /\ flagged' = (Loaded \cap trusted) \cup (IF process THEN {} ELSE flagged \ Loaded)
        /\ UNCHANGED <<called, generation, file, clicked>>
    BY <1>2 DEF PkiStart, PkiChange
  <2>2. \/ turn' = 1 /\ fetched' = NoCa /\ removing' = NoCa /\ adding' = NotAdding
        \/ UNCHANGED <<turn, fetched, removing, adding>>
    BY <1>2 DEF PkiStart, tasks
  <2>3. Loaded \subseteq Cas
    BY DEF Loaded
  <2>4. known' \subseteq Cas /\ flagged' \subseteq known' /\ trusted' \subseteq Cas \cup {Mine}
    BY <2>1, <2>3
  <2>5. turn' \in CaPeers
    BY <2>2, SMTT(30) DEF CaPeers
  <2> QED
    BY <1>0, <2>1, <2>2, <2>4, <2>5, <1>u, <1>a, <1>c DEF PkiInv, PkiTypeOK
<1>3. ASSUME NEW accepted \in BOOLEAN, InstallTrust(accepted) PROVE PkiInv'
  <2>1. /\ adding.at = "prompt"
        /\ adding' = IF accepted THEN [adding EXCEPT !.at = "trusted"] ELSE NotAdding
        /\ trusted' = IF accepted THEN trusted \cup {adding.cert} ELSE trusted
        /\ UNCHANGED <<called, generation, known, flagged, file, turn, fetched, removing, clicked, pkiChanges>>
    BY <1>3 DEF InstallTrust, memory
  <2>2. adding.ca \in Cas /\ adding.cert \in Cas /\ Asked(FileOf(adding.cert))
    BY <2>1 DEF PkiInv
  <2>3. CASE accepted
    <3>1. /\ adding' \in [at : {"idle", "prompt", "trusted"}, ca : Cas \cup {NoCa}, cert : Cas \cup {NoCa}]
          /\ adding'.ca = adding.ca /\ adding'.cert = adding.cert /\ adding'.at = "trusted"
      BY <2>1, <2>3
    <3>2. OnlyClickedTrusted'
      BY <1>u, <1>a, <1>t, <2>1, <2>2, <2>3 DEF OnlyClickedTrusted, Asked
    <3> QED
      BY <2>1, <2>2, <2>3, <3>1, <3>2, <1>u, <1>a DEF PkiInv, PkiTypeOK
  <2>4. CASE ~accepted
    BY <1>0, <2>1, <2>4, <1>u, <1>a, <1>c DEF PkiInv, PkiTypeOK
  <2> QED
    BY <2>3, <2>4
<1>4. CASE FetchCa
  <2>1. CurrentCa(turn) \in Cas
    BY DEF CurrentCa, Cas
  <2>2. /\ fetched' = CurrentCa(turn)
        /\ UNCHANGED <<called, generation, known, flagged, file, trusted, turn, adding, removing, clicked, pkiChanges>>
    BY <1>4 DEF FetchCa, memory, caFiles
  <2> QED
    BY <2>1, <2>2, <1>u, <1>a, <1>c DEF PkiInv, PkiTypeOK
<1>5. CASE Discover
  <2>1. /\ fetched \in Cas /\ fetched' = NoCa /\ turn' = (turn % CaTotal) + 1
        /\ \/ UNCHANGED <<known, flagged, file>>
           \/ /\ file' = [file EXCEPT ![FileOf(fetched)] = fetched]
              /\ known' = known \cup {fetched}
              /\ flagged' = flagged \cup (trusted \cap {fetched})
        /\ UNCHANGED <<called, generation, trusted, adding, removing, clicked, pkiChanges>>
    BY <1>5 DEF Discover, memory, caFiles, TrustAfterDiscovery
  <2>2. turn' \in CaPeers
    BY <2>1, SMTT(30) DEF CaPeers
  <2>3. file' \in [CaPeers -> Cas \cup {NoCa}]
        /\ \A n \in CaPeers : file'[n] = NoCa \/ FileOf(file'[n]) = n
    BY <2>1 DEF PkiInv, FileOf
  <2>4. known' \subseteq Cas /\ flagged' \subseteq known'
    BY <2>1
  <2> QED
    BY <2>1, <2>2, <2>3, <2>4, <1>u, <1>a, <1>c DEF PkiInv, PkiTypeOK
<1>6. CASE InstallEnd
  <2>1. /\ adding.at = "trusted" /\ adding' = NotAdding
        /\ known' = known \cup {adding.ca} /\ flagged' = flagged \cup {adding.ca}
        /\ UNCHANGED <<called, generation, file, trusted, turn, fetched, removing, clicked, pkiChanges>>
    BY <1>6 DEF InstallEnd, caFiles
  <2> QED
    BY <1>0, <2>1, <1>u, <1>a, <1>c DEF PkiInv, PkiTypeOK
<1>7. CASE RemoveCaEnd
  <2>1. /\ removing \in Cas /\ removing' = NoCa
        /\ file' = [file EXCEPT ![FileOf(removing)] = NoCa]
        /\ trusted' \subseteq trusted
        /\ UNCHANGED <<called, generation, known, flagged, turn, fetched, adding, clicked, pkiChanges>>
    BY <1>7 DEF RemoveCaEnd, TrustLeft, memory
  <2> QED
    BY <2>1, <1>u, <1>a, <1>c DEF PkiInv, PkiTypeOK
<1>8. ASSUME NEW c \in Cas, InstallBegin(c) PROVE PkiInv'
  <2> DEFINE asking == [at |-> "prompt", ca |-> c, cert |-> file[FileOf(c)]]
  <2>1. /\ pkiChanges > 0 /\ pkiChanges' = pkiChanges - 1
        /\ adding.at = "idle" /\ clicked' = clicked \cup {c[1]}
        /\ adding' = IF file[FileOf(c)] = NoCa THEN adding ELSE asking
        /\ UNCHANGED <<called, generation, known, flagged, file, trusted, turn, fetched, removing>>
    BY <1>8 DEF InstallBegin, PkiChange, memory, caFiles
  <2>2. file[FileOf(c)] # NoCa =>
          /\ file[FileOf(c)] \in Cas /\ FileOf(file[FileOf(c)]) = FileOf(c)
          /\ asking \in [at : {"idle", "prompt", "trusted"}, ca : Cas \cup {NoCa}, cert : Cas \cup {NoCa}]
    <3>1. FileOf(c) \in CaPeers
      BY DEF FileOf
    <3> QED
      BY <3>1 DEF PkiInv
  <2>4. Asked(FileOf(c))'
    BY <2>1, <1>u DEF Asked, FileOf
  <2>3. asking.ca = c /\ asking.cert = file[FileOf(c)] /\ asking.at = "prompt"
    OBVIOUS
  <2> HIDE DEF asking
  <2> QED
    BY <2>1, <2>2, <2>3, <2>4, <1>u, <1>a, <1>c DEF PkiInv, PkiTypeOK
<1>9. ASSUME NEW c \in Cas, RemoveCa(c) PROVE PkiInv'
  <2>1. /\ pkiChanges > 0 /\ pkiChanges' = pkiChanges - 1
        /\ known' = known \ {c} /\ flagged' = flagged \ {c} /\ removing' = c
        /\ UNCHANGED <<called, generation, file, trusted, turn, fetched, adding, clicked>>
    BY <1>9 DEF RemoveCa, PkiChange, caFiles
  <2> QED
    BY <2>1, <1>u, <1>a, <1>c DEF PkiInv, PkiTypeOK
<1>10. CASE UNCHANGED pkiVars
  BY <1>10, <1>u, <1>a, <1>c DEF pkiVars, memory, caFiles, tasks, PkiInv, PkiTypeOK
<1> QED
  BY <1>1, <1>2, <1>3, <1>4, <1>5, <1>6, <1>7, <1>8, <1>9, <1>10 DEF PkiNext

-----------------------------------------------------------------------------
(* Calls.                                                                  *)

\* Call c is where it can be reached: it is the host's, or was closed or lost.
Tracked(c) == c = call \/ c \in closed \/ c \in stray

\* Whoever is about to be put into a call is put into one that is tracked, and
\* a closed one is empty.
CallsInv ==
  /\ CallsTypeOK /\ NobodyInLostCall
  /\ \A h \in joining : h.who \in Everyone /\ Tracked(h.of)
  /\ \A c \in creating : Tracked(c)
  /\ \A h \in clearing : h.of \in closed
  /\ \A c \in closed : people[c] = {} \/ c \in stray

LEMMA CallsFacts ==
  ASSUME CallsInv
  PROVE  /\ call \in 0..madeCalls /\ madeCalls \in 0..MaxCalls /\ MaxCalls \in Nat
         /\ creating \subseteq 1..madeCalls /\ Cardinality(creating) <= 1
         /\ people \in [CallIds -> SUBSET Everyone] /\ closed \subseteq 1..madeCalls
         /\ \A h \in joining : h.of \in 1..madeCalls
         /\ \A h \in leaving : h.of \in 1..madeCalls
         /\ \A h \in clearing : h.of \in 1..madeCalls
         /\ engine \in {"up", "stopping", "down"}
         /\ reply \in 0..madeCalls /\ remoteCall \in 0..madeCalls
         /\ 1..madeCalls \subseteq CallIds
BY CallsAssumption DEF CallsInv, CallsTypeOK, CallIds

LEMMA HandleIs == \A p, c : Handle(p, c).who = p /\ Handle(p, c).of = c
BY DEF Handle

LEMMA CallsInitInv == CallsInit => CallsInv
BY CallsAssumption, FS_EmptySet, SMT
   DEF CallsInit, CallsInv, CallsTypeOK, NobodyInLostCall, Everyone, CallIds

\* What the end of a call by whichever of its handlers keeps.
LEMMA EndKeeps ==
  ASSUME CallsInv, NEW w, NEW c \in 1..madeCalls, Ended(w, c),
         UNCHANGED <<call, madeCalls, creating, joining, reply, remoteCall, stray>>,
         leaving' \subseteq leaving, engine' \in {"up", "stopping", "down"}
  PROVE  CallsInv'
<1> USE CallsFacts, HandleIs
<1>1. /\ people' = [people EXCEPT ![c] = {}] /\ closed' = closed \cup {c}
      /\ clearing' = clearing \cup {Handle(w, c)}
  BY DEF Ended, SfuClosed
<1>2. CallsTypeOK'
  BY <1>1 DEF CallsTypeOK
<1>3. NobodyInLostCall' /\ \A d \in closed' : people'[d] = {} \/ d \in stray'
  BY <1>1 DEF CallsInv, NobodyInLostCall
<1> QED
  BY <1>1, <1>2, <1>3 DEF CallsInv, Tracked

LEMMA CallsStepInv == CallsInv /\ [CallsNext]_callVars => CallsInv'
<1> SUFFICES ASSUME CallsInv, [CallsNext]_callVars PROVE CallsInv'
  OBVIOUS
<1> USE CallsFacts, HandleIs
<1> USE DEF hosting, sfus, callHandlers, discovery, callHistory
<1>1. CASE Create
  <2> DEFINE c == madeCalls + 1
  <2>1. /\ creating = {} /\ call = 0 /\ c \in CallIds
        /\ call' = c /\ madeCalls' = c /\ creating' = {c}
        /\ UNCHANGED <<people, closed, joining, leaving, clearing, engine, reply, remoteCall, stray>>
    BY <1>1 DEF Create, NobodyCreates
  <2>2. Cardinality({c}) = 1
    BY FS_Singleton
  <2>3. c \in 1..c /\ c \in 0..MaxCalls /\ 1..madeCalls \subseteq 1..c /\ 0..madeCalls \subseteq 0..c
    BY <2>1 DEF CallIds
  <2> HIDE DEF c
  <2>4. CallsTypeOK'
    BY <2>1, <2>2, <2>3 DEF CallsTypeOK
  <2>5. NobodyInLostCall'
    BY <2>1 DEF CallsInv, NobodyInLostCall, CallIds
  <2> QED
    BY <2>1, <2>4, <2>5 DEF CallsInv, Tracked
<1>2. CASE CreateEnd
  <2>1. PICK c \in creating :
          /\ \/ Joined(c, Host) /\ UNCHANGED <<call, closed>>
             \/ people' = SfuClosed(c) /\ closed' = closed \cup {c} /\ Cleared(c)
          /\ creating' = creating \ {c}
          /\ UNCHANGED <<madeCalls, joining, leaving, clearing, engine, reply, remoteCall>>
    BY <1>2 DEF CreateEnd
  <2>2. c \in CallIds /\ c \in 1..madeCalls /\ Host \in Everyone
    BY DEF Everyone
  <2>3. creating' = {}
    <3>1. IsFiniteSet(1..madeCalls)
      BY FS_Interval
    <3>2. IsFiniteSet(creating) /\ Cardinality(creating) \in Nat
      BY <3>1, FS_Subset, FS_CardinalityType
    <3>3. IsFiniteSet(creating \ {c}) /\ Cardinality(creating \ {c}) = Cardinality(creating) - 1
      BY <3>2, FS_RemoveElement
    <3>4. Cardinality(creating \ {c}) = 0
      BY <3>2, <3>3, FS_CardinalityType
    <3> QED
      BY <2>1, <3>3, <3>4, FS_EmptySet
  <2>4. CASE Joined(c, Host) /\ UNCHANGED <<call, closed>>
    <3>1. /\ people' = [people EXCEPT ![c] = @ \cup {Host}]
          /\ stray' = IF c \in closed THEN stray \cup {c} ELSE stray
      BY <2>4 DEF Joined
    <3>2. CallsTypeOK'
      <4>1. people' \in [CallIds -> SUBSET Everyone]
        BY <2>2, <3>1
      <4>2. creating' \subseteq 1..madeCalls /\ Cardinality(creating') <= 1
        BY <2>3, FS_EmptySet
      <4> QED
        BY <2>1, <2>4, <4>1, <4>2 DEF CallsTypeOK
    <3>3. Tracked(c)
      BY DEF CallsInv
    <3>4. NobodyInLostCall' /\ \A d \in closed' : people'[d] = {} \/ d \in stray'
      BY <2>2, <2>4, <3>1, <3>3 DEF CallsInv, NobodyInLostCall, Tracked
    <3> QED
      BY <2>1, <2>3, <2>4, <3>1, <3>2, <3>4 DEF CallsInv, Tracked
  <2>5. CASE people' = SfuClosed(c) /\ closed' = closed \cup {c} /\ Cleared(c)
    <3>1. /\ people' = [people EXCEPT ![c] = {}] /\ closed' = closed \cup {c} /\ call' = 0
          /\ stray' = IF call \in {0, c} THEN stray ELSE stray \cup {call}
      BY <2>5 DEF SfuClosed, Cleared
    <3>2. CallsTypeOK'
      <4>1. people' \in [CallIds -> SUBSET Everyone] /\ closed' \subseteq 1..madeCalls
        BY <2>2, <3>1
      <4>2. creating' \subseteq 1..madeCalls /\ Cardinality(creating') <= 1
        BY <2>3, FS_EmptySet
      <4> QED
        BY <2>1, <3>1, <4>1, <4>2 DEF CallsTypeOK
    <3>3. NobodyInLostCall' /\ \A d \in closed' : people'[d] = {} \/ d \in stray'
      BY <2>2, <3>1 DEF CallsInv, NobodyInLostCall
    <3> QED
      BY <2>1, <2>3, <3>1, <3>2, <3>3 DEF CallsInv, Tracked
  <2> QED
    BY <2>1, <2>4, <2>5
<1>3. CASE Clear
  <2>1. PICK h \in clearing :
          /\ call' = 0 /\ stray' = IF call \in {0, h.of} THEN stray ELSE stray \cup {call}
          /\ clearing' = clearing \ {h}
          /\ UNCHANGED <<madeCalls, creating, people, closed, joining, leaving, engine, reply, remoteCall>>
    BY <1>3 DEF Clear, Cleared
  <2>2. CallsTypeOK'
    BY <2>1 DEF CallsTypeOK
  <2>3. NobodyInLostCall'
    BY <2>1 DEF CallsInv, NobodyInLostCall
  <2> QED
    BY <2>1, <2>2, <2>3 DEF CallsInv, Tracked
<1>4. CASE End
  <2>1. call \in 1..madeCalls
    BY <1>4 DEF End
  <2> QED
    BY <1>4, <2>1, EndKeeps DEF End
<1>5. CASE Stopping
  <2>1. CASE call # 0
    <3>1. call \in 1..madeCalls
      BY <2>1
    <3> QED
      BY <1>5, <2>1, <3>1, EndKeeps DEF Stopping
  <2>2. CASE call = 0
    <3>1. /\ engine' = "stopping"
          /\ UNCHANGED <<call, madeCalls, creating, people, closed, joining, leaving, clearing,
                         reply, remoteCall, stray>>
      BY <1>5, <2>2 DEF Stopping
    <3>2. CallsTypeOK'
      BY <3>1 DEF CallsTypeOK
    <3> QED
      BY <3>1, <3>2 DEF CallsInv, NobodyInLostCall, Tracked
  <2> QED
    BY <2>1, <2>2
<1>6. CASE Stopped \/ StartEngine \/ ReachChanges \/ AskCall \/ StoreCalls
  <2>1. /\ engine' \in {"up", "stopping", "down"}
        /\ reply' \in 0..madeCalls /\ remoteCall' \in 0..madeCalls
        /\ UNCHANGED <<call, madeCalls, creating, people, closed, joining, leaving, clearing, stray>>
    BY <1>6 DEF Stopped, StartEngine, ReachChanges, AskCall, Answered, StoreCalls, Found
  <2> QED
    BY <2>1 DEF CallsInv, CallsTypeOK, NobodyInLostCall, Tracked
<1>7. ASSUME NEW p \in Callers, Join(p) PROVE CallsInv'
  <2>1. /\ call \in 1..madeCalls /\ joining' = joining \cup {Handle(p, call)}
        /\ UNCHANGED <<call, madeCalls, creating, people, closed, leaving, clearing, engine,
                       reply, remoteCall, stray>>
    BY <1>7 DEF Join
  <2>2. CallsTypeOK'
    BY <2>1 DEF CallsTypeOK
  <2>3. \A h \in joining' : h.who \in Everyone /\ Tracked(h.of)'
    BY <2>1 DEF CallsInv, Everyone, Tracked
  <2> QED
    BY <2>1, <2>2, <2>3 DEF CallsInv, NobodyInLostCall, Tracked
<1>8. CASE JoinEnd
  <2>1. PICK h \in joining :
          /\ people' = [people EXCEPT ![h.of] = @ \cup {h.who}]
          /\ stray' = IF h.of \in closed THEN stray \cup {h.of} ELSE stray
          /\ joining' = joining \ {h}
          /\ UNCHANGED <<call, madeCalls, creating, closed, leaving, clearing, engine, reply, remoteCall>>
    BY <1>8 DEF JoinEnd, Joined
  <2>2. h.of \in CallIds /\ h.who \in Everyone /\ Tracked(h.of)
    BY DEF CallsInv
  <2>3. CallsTypeOK'
    BY <2>1, <2>2 DEF CallsTypeOK
  <2>4. NobodyInLostCall' /\ \A d \in closed' : people'[d] = {} \/ d \in stray'
    BY <2>1, <2>2 DEF CallsInv, NobodyInLostCall, Tracked
  <2> QED
    BY <2>1, <2>3, <2>4 DEF CallsInv, Tracked
<1>9. ASSUME NEW p \in Everyone, Leave(p) PROVE CallsInv'
  <2>1. call \in 1..madeCalls
    BY <1>9 DEF Leave
  <2>2. CASE p = Host
    BY <1>9, <2>1, <2>2, EndKeeps DEF Leave
  <2>3. CASE p # Host
    <3>1. /\ people' = [people EXCEPT ![call] = @ \ {p}]
          /\ leaving' = leaving \cup {Handle(p, call)}
          /\ UNCHANGED <<call, madeCalls, creating, closed, joining, clearing, engine,
                         reply, remoteCall, stray>>
      BY <1>9, <2>3 DEF Leave
    <3>2. CallsTypeOK'
      BY <2>1, <3>1 DEF CallsTypeOK
    <3>3. NobodyInLostCall' /\ \A d \in closed' : people'[d] = {} \/ d \in stray'
      BY <2>1, <3>1 DEF CallsInv, NobodyInLostCall
    <3> QED
      BY <3>1, <3>2, <3>3 DEF CallsInv, Tracked
  <2> QED
    BY <2>2, <2>3
<1>10. CASE LeaveEnd
  <2>1. PICK h \in leaving :
          /\ leaving' = leaving \ {h}
          /\ IF NobodyLeft(h.of) THEN Ended(h.who, h.of) ELSE UNCHANGED <<people, closed, clearing>>
          /\ UNCHANGED <<call, madeCalls, creating, joining, engine, reply, remoteCall, stray>>
    BY <1>10 DEF LeaveEnd
  <2>2. CASE NobodyLeft(h.of)
    BY <2>1, <2>2, EndKeeps
  <2>3. CASE ~NobodyLeft(h.of)
    <3>1. /\ UNCHANGED <<people, closed, clearing>> /\ leaving' \subseteq leaving
      BY <2>1, <2>3
    <3>2. CallsTypeOK'
      BY <2>1, <3>1 DEF CallsTypeOK
    <3> QED
      BY <2>1, <3>1, <3>2 DEF CallsInv, NobodyInLostCall, Tracked
  <2> QED
    BY <2>2, <2>3
<1>11. ASSUME NEW p \in Everyone, NEW c \in CallIds, SfuDrops(c, p) PROVE CallsInv'
  <2>1. /\ people' = [people EXCEPT ![c] = @ \ {p}] /\ people[c] # {}
        /\ UNCHANGED <<call, madeCalls, creating, closed, joining, leaving, clearing, engine,
                       reply, remoteCall, stray>>
    BY <1>11 DEF SfuDrops
  <2>2. CallsTypeOK'
    BY <2>1 DEF CallsTypeOK
  <2>3. NobodyInLostCall' /\ \A d \in closed' : people'[d] = {} \/ d \in stray'
    BY <2>1 DEF CallsInv, NobodyInLostCall
  <2> QED
    BY <2>1, <2>2, <2>3 DEF CallsInv, Tracked
<1>12. CASE UNCHANGED callVars
  BY <1>12 DEF callVars, CallsInv, CallsTypeOK, NobodyInLostCall, Tracked
<1> QED
  BY <1>1, <1>2, <1>3, <1>4, <1>5, <1>6, <1>7, <1>8, <1>9, <1>10, <1>11, <1>12 DEF CallsNext

\* Whoever creates, joins, leaves and ends calls at once, nobody stays in a call
\* that the host has let go of, but in one that was joined after its end or that
\* the end of another took the host's hold of (calls.go).
THEOREM NobodyLost == CallsSpec => []NobodyInLostCall
<1>1. CallsInv => NobodyInLostCall
  BY DEF CallsInv
<1> QED
  BY CallsInitInv, CallsStepInv, <1>1, PTL DEF CallsSpec

-----------------------------------------------------------------------------
(* Tunnel.                                                                 *)

\* An addition that has its id, and the session that is not excused.
Pending(a) == adds[a].step \in {"route", "insert"}
Session == Device /\ ~overtaken

\* In such a session an id is given once: no two of the entries listed, taken out
\* and pending have the same, and the next is higher than all.
IdsAreOwn ==
  Session =>
    /\ \A e \in intercepts \cup victims : e.id <= nextID
    /\ \A e \in intercepts, f \in victims : e.id # f.id
    /\ \A a \in Additions : Pending(a) =>
         /\ adds[a].entry.id <= nextID
         /\ \A e \in intercepts \cup victims : e.id # adds[a].entry.id
         /\ \A b \in Additions : Pending(b) /\ b # a => adds[b].entry.id # adds[a].entry.id

\* The routes go with the utun; and the restored zone finds an id.
RoutesGoWithUtun == (~Device => routes = {}) /\ (phase = "reset" => nextID <= MaxIds)

TunnelInv == TunnelTypeOK /\ RoutesHaveOneOwner /\ IdsAreOwn /\ RoutesGoWithUtun

LEMMA TunnelFacts ==
  ASSUME TunnelInv
  PROVE  /\ intercepts \subseteq Entries /\ todo \subseteq Entries /\ victims \subseteq Entries
         /\ \A e, f \in intercepts : e.id = f.id => e = f
         /\ nextID \in 0..(MaxIds + 1) /\ stored \in BOOLEAN
         /\ routes \subseteq Addresses /\ pins \in [Specs -> SUBSET Addresses]
         /\ adds \in [Additions -> Activities] /\ ticker \in Activities
         /\ unpinned \subseteq Specs /\ forgetting \in BOOLEAN
         /\ phase \in Phases /\ overtaken \in BOOLEAN
         /\ answer \in [Specs -> Addresses] /\ link \in BOOLEAN /\ turns \in 0..Turns
         /\ MaxIds \in Nat \ {0} /\ Turns \in Nat
BY TunnelAssumption DEF TunnelInv, TunnelTypeOK

\* What the union of addresses says of each of them.
LEMMA RoutedByOne ==
  ASSUME NEW R, NEW H
  PROVE  R = UNION {e.at : e \in H} <=> \A a : a \in R <=> \E e \in H : a \in e.at
OBVIOUS

LEMMA EntryIs ==
  /\ \A e \in Entries : e.id \in 0..(MaxIds + 1) /\ e.spec \in Specs /\ e.at \subseteq Addresses
  /\ \A i \in 0..(MaxIds + 1), s \in Specs, as \in SUBSET Addresses :
       [id |-> i, spec |-> s, at |-> as] \in Entries
BY DEF Entries

LEMMA ActivityIs ==
  /\ \A a \in Activities : a.entry \in Entries
  /\ Idle \in Activities /\ Idle.step = "idle"
BY TunnelAssumption DEF At, Activities, Entries, Idle, Specs

LEMMA MovesIs ==
  ASSUME adds \in [Additions -> Activities], NEW a \in Additions, NEW to \in Activities,
         Moves(a, to)
  PROVE  /\ adds' \in [Additions -> Activities] /\ adds'[a] = to
         /\ \A b \in Additions : b # a => adds'[b] = adds[b]
BY DEF Moves

LEMMA ProceedsIs ==
  ASSUME adds \in [Additions -> Activities], NEW a \in Additions,
         NEW step \in {"idle", "ask", "route", "insert", "pin", "store"}, Proceeds(a, step)
  PROVE  /\ adds' \in [Additions -> Activities]
         /\ adds'[a].step = step /\ adds'[a].entry = adds[a].entry
         /\ \A b \in Additions : b # a => adds'[b] = adds[b]
<1> DEFINE to == [adds[a] EXCEPT !.step = step]
<1>1. to \in Activities /\ to.step = step /\ to.entry = adds[a].entry
  BY DEF Activities
<1>2. Moves(a, to)
  BY DEF Proceeds
<1> HIDE DEF to
<1> QED
  BY <1>1, <1>2, MovesIs

LEMMA PinnedIs ==
  ASSUME TunnelInv, NEW a \in Activities PROVE Pinned(a.entry) \in [Specs -> SUBSET Addresses]
BY TunnelFacts, EntryIs, ActivityIs DEF Pinned

\* The entries listed are of one id each, if a new one takes the place of its own.
LEMMA WithIs ==
  ASSUME TunnelInv, NEW e \in Entries
  PROVE  /\ With(e) \subseteq Entries
         /\ \A f, g \in With(e) : f.id = g.id => f = g
BY TunnelFacts DEF With

LEMMA TunnelInitInv == TunnelInit => TunnelInv
<1> SUFFICES ASSUME TunnelInit PROVE TunnelInv
  OBVIOUS
<1> DEFINE zone == [id |-> 1, spec |-> "zone", at |-> {}]
<1>1. zone \in Entries /\ zone.id = 1 /\ zone.at = {}
  BY TunnelAssumption DEF Entries, Specs
<1>2. intercepts = {zone} /\ adds = [a \in Additions |-> Idle]
  BY DEF TunnelInit
<1> HIDE DEF zone
<1>3. TunnelTypeOK
  <2>1. stored \in BOOLEAN /\ link \in BOOLEAN /\ forgetting \in BOOLEAN /\ overtaken \in BOOLEAN
    BY DEF TunnelInit
  <2>2. pins \in [Specs -> SUBSET Addresses] /\ adds \in [Additions -> Activities]
    BY <1>2, ActivityIs DEF TunnelInit
  <2> QED
    BY <1>1, <1>2, <2>1, <2>2, ActivityIs, TunnelAssumption DEF TunnelInit, TunnelTypeOK, Phases
<1>4. \A a \in Additions : adds[a].step = "idle"
  BY <1>2, ActivityIs
<1>5. Holders = {zone} /\ routes = {} /\ victims = {}
  BY <1>2, <1>4 DEF Holders, TunnelInit
<1>6. RoutesHaveOneOwner
  BY <1>1, <1>5 DEF RoutesHaveOneOwner
<1>7. IdsAreOwn /\ RoutesGoWithUtun
  BY <1>1, <1>2, <1>4, <1>5 DEF IdsAreOwn, RoutesGoWithUtun, Pending, TunnelInit
<1> QED
  BY <1>3, <1>6, <1>7 DEF TunnelInv

-----------------------------------------------------------------------------
\* A step that leaves entries, ids and routes; an addition may give up its id.
LEMMA RoutesStay ==
  ASSUME TunnelInv, UNCHANGED <<intercepts, victims, nextID, routes, phase, overtaken>>,
         \A a \in Additions :
           /\ adds'[a].step = "insert" <=> adds[a].step = "insert"
           /\ Pending(a)' => Pending(a) /\ adds'[a].entry = adds[a].entry
  PROVE  RoutesHaveOneOwner' /\ IdsAreOwn' /\ RoutesGoWithUtun'
<1>1. Session' = Session /\ Device' = Device
  BY DEF Session, Device
<1>2. Holders' = Holders
  BY DEF Holders, Pending
<1>3. RoutesHaveOneOwner'
  BY <1>1, <1>2 DEF TunnelInv, RoutesHaveOneOwner, Session
<1>4. IdsAreOwn'
  BY <1>1 DEF TunnelInv, IdsAreOwn
<1> QED
  BY <1>1, <1>3, <1>4 DEF TunnelInv, RoutesGoWithUtun

LEMMA AddBeginInv == ASSUME TunnelInv, AddBegin \/ QueryBegin PROVE TunnelInv'
<1> USE TunnelFacts, ActivityIs
<1>1. PICK a \in Additions, to \in Activities :
        /\ adds[a] = Idle /\ to.step = "ask" /\ Moves(a, to)
        /\ UNCHANGED <<intercepts, nextID, routes, stored, pins, ticker, todo, victims, unpinned,
                       forgetting, phase, overtaken, answer, link, turns>>
  <2>1. /\ At("ask", 0, "zone", {}) \in Activities /\ At("ask", 0, "zone", {}).step = "ask"
        /\ At("ask", 0, "sub", {}) \in Activities /\ At("ask", 0, "sub", {}).step = "ask"
    <3>1. "zone" \in Specs /\ "sub" \in Specs /\ {} \in SUBSET Addresses /\ 0 \in 0..(MaxIds + 1)
      BY DEF Specs
    <3> QED
      BY <3>1 DEF At, Activities, Entries
  <2>2. CASE AddBegin
    BY <2>1, <2>2 DEF AddBegin, Additions, names, shown, round, removal, life, exitPeer
  <2>3. CASE QueryBegin
    BY <2>1, <2>3 DEF QueryBegin, Additions, names, shown, round, removal, life, exitPeer
  <2> QED
    BY <2>2, <2>3
<1>2. /\ adds' \in [Additions -> Activities] /\ adds'[a] = to
      /\ \A b \in Additions : b # a => adds'[b] = adds[b]
  BY <1>1, MovesIs
<1>3. TunnelTypeOK'
  BY <1>1, <1>2 DEF TunnelTypeOK
<1>4. RoutesHaveOneOwner' /\ IdsAreOwn' /\ RoutesGoWithUtun'
  BY <1>1, <1>2, RoutesStay DEF Pending
<1> QED
  BY <1>3, <1>4 DEF TunnelInv

LEMMA NumberInv == ASSUME TunnelInv, NEW a \in Additions, Number(a) PROVE TunnelInv'
<1> USE TunnelFacts, ActivityIs, EntryIs
<1>1. /\ adds[a].step = "ask"
      /\ UNCHANGED <<intercepts, routes, stored, pins, ticker, todo, victims, unpinned,
                     forgetting, phase, overtaken, answer, link, turns>>
  BY DEF Number, shown, round, removal, life, exitPeer
<1>2. CASE Moves(a, Idle) /\ UNCHANGED nextID
  <2>1. /\ adds' \in [Additions -> Activities] /\ adds'[a] = Idle
        /\ \A b \in Additions : b # a => adds'[b] = adds[b]
    BY <1>2, MovesIs
  <2>2. TunnelTypeOK'
    BY <1>1, <1>2, <2>1 DEF TunnelTypeOK
  <2> QED
    BY <1>1, <1>2, <2>1, <2>2, RoutesStay DEF Pending, TunnelInv
<1>3. ASSUME nextID < MaxIds, nextID' = nextID + 1,
             Moves(a, At("route", nextID + 1, Sought(a), {answer[Sought(a)]}))
      PROVE  TunnelInv'
  <2> DEFINE to == At("route", nextID + 1, Sought(a), {answer[Sought(a)]})
  <2>1. /\ to \in Activities /\ to.step = "route" /\ to.entry.id = nextID + 1
        /\ nextID + 1 \in 0..(MaxIds + 1)
    <3>1. Sought(a) \in Specs /\ {answer[Sought(a)]} \in SUBSET Addresses
      BY DEF Sought, Specs
    <3>2. nextID + 1 \in 0..(MaxIds + 1)
      BY <1>3
    <3> QED
      BY <3>1, <3>2 DEF At, Activities, Entries
  <2> HIDE DEF to
  <2>2. /\ adds' \in [Additions -> Activities] /\ adds'[a] = to
        /\ \A b \in Additions : b # a => adds'[b] = adds[b]
    BY <1>3, <2>1, MovesIs DEF to
  <2>3. TunnelTypeOK'
    BY <1>1, <1>3, <2>1, <2>2 DEF TunnelTypeOK
  <2>4. Holders' = Holders /\ Device' = Device /\ Session' = Session
    BY <1>1, <2>1, <2>2 DEF Holders, Device, Session
  <2>5. RoutesHaveOneOwner'
    BY <1>1, <2>4 DEF TunnelInv, RoutesHaveOneOwner, Session
  <2>6. IdsAreOwn'
    <3> SUFFICES ASSUME Session PROVE IdsAreOwn'
      BY <2>4 DEF IdsAreOwn
    <3>1. /\ \A e \in intercepts \cup victims : e.id \in Nat /\ e.id <= nextID
          /\ \A e \in intercepts, f \in victims : e.id # f.id
          /\ \A b \in Additions : Pending(b) =>
               /\ adds[b].entry.id \in Nat /\ adds[b].entry.id <= nextID
               /\ \A e \in intercepts \cup victims : e.id # adds[b].entry.id
               /\ \A c \in Additions : Pending(c) /\ c # b => adds[c].entry.id # adds[b].entry.id
      BY DEF TunnelInv, IdsAreOwn
    <3>2. \A b \in Additions : b # a => Pending(b)' = Pending(b) /\ adds'[b].entry = adds[b].entry
      BY <2>2 DEF Pending
    <3>3. adds'[a].entry.id = nextID + 1 /\ nextID \in Nat /\ nextID' = nextID + 1
      BY <1>3, <2>1, <2>2
    <3>4. \A b \in Additions : Pending(b)' =>
            /\ adds'[b].entry.id <= nextID'
            /\ \A e \in intercepts \cup victims : e.id # adds'[b].entry.id
      BY <3>1, <3>2, <3>3
    <3>5. \A b, c \in Additions : Pending(b)' /\ Pending(c)' /\ c # b
            => adds'[c].entry.id # adds'[b].entry.id
      BY <3>1, <3>2, <3>3
    <3>6. \A e \in intercepts \cup victims : e.id <= nextID'
      BY <3>1, <3>3
    <3> QED
      BY <1>1, <3>1, <3>4, <3>5, <3>6 DEF IdsAreOwn
  <2>7. RoutesGoWithUtun'
    BY <1>1, <1>3, <2>4 DEF TunnelInv, RoutesGoWithUtun
  <2> QED
    BY <2>3, <2>5, <2>6, <2>7 DEF TunnelInv
<1> QED
  <2>1. Resolved(Sought(a)) \in {{}, {answer[Sought(a)]}}
    BY DEF Resolved
  <2> QED
    BY <1>2, <1>3, <2>1 DEF Number

LEMMA RouteInv == ASSUME TunnelInv, NEW a \in Additions, Route(a) PROVE TunnelInv'
<1> USE TunnelFacts, ActivityIs, EntryIs
<1> DEFINE e == adds[a].entry
<1>1. /\ adds[a].step = "route" /\ e \in Entries
      /\ UNCHANGED <<intercepts, nextID, stored, pins, ticker, todo, victims, unpinned,
                     forgetting, phase, overtaken, answer, link, turns>>
  BY DEF Route, shown, round, removal, life, exitPeer
<1>2. CASE Moves(a, Idle) /\ UNCHANGED routes
  <2>1. /\ adds' \in [Additions -> Activities] /\ adds'[a] = Idle
        /\ \A b \in Additions : b # a => adds'[b] = adds[b]
    BY <1>2, MovesIs
  <2>2. TunnelTypeOK'
    BY <1>1, <1>2, <2>1 DEF TunnelTypeOK
  <2> QED
    BY <1>1, <1>2, <2>1, <2>2, RoutesStay DEF Pending, TunnelInv
<1>3. ASSUME Device, e.at \cap routes = {}, routes' = routes \cup e.at, Proceeds(a, "insert")
      PROVE  TunnelInv'
  <2>1. /\ adds' \in [Additions -> Activities] /\ adds'[a].step = "insert" /\ adds'[a].entry = e
        /\ \A b \in Additions : b # a => adds'[b] = adds[b]
    BY <1>3, ProceedsIs
  <2>2. e.at \subseteq Addresses
    BY <1>1
  <2> HIDE DEF e
  <2>3. TunnelTypeOK'
    BY <1>1, <1>3, <2>1, <2>2 DEF TunnelTypeOK
  <2>4. Device' = Device /\ Session' = Session
    BY <1>1 DEF Device, Session
  <2>5. Holders' = Holders \cup {e}
    BY <1>1, <2>1 DEF Holders
  <2>6. RoutesHaveOneOwner'
    <3> SUFFICES ASSUME Session PROVE RoutesHaveOneOwner'
      BY <2>4 DEF RoutesHaveOneOwner, Session
    <3>1. /\ routes = UNION {f.at : f \in Holders}
          /\ \A f, g \in Holders : f # g => f.at \cap g.at = {}
      BY DEF TunnelInv, RoutesHaveOneOwner, Session
    <3>2. \A x : x \in routes <=> \E f \in Holders : x \in f.at
      BY <3>1, RoutedByOne
    <3>3. \A x : x \in routes' <=> \E f \in Holders' : x \in f.at
      BY <1>3, <2>5, <3>2
    <3>4. \A f, g \in Holders' : f # g => f.at \cap g.at = {}
      BY <1>3, <2>5, <3>1, <3>2
    <3> QED
      BY <3>3, <3>4, RoutedByOne DEF RoutesHaveOneOwner
  <2>7. IdsAreOwn'
    <3>1. \A b \in Additions : Pending(b)' = Pending(b) /\ (Pending(b) => adds'[b].entry = adds[b].entry)
      BY <1>1, <2>1 DEF Pending, e
    <3> QED
      BY <1>1, <2>4, <3>1 DEF TunnelInv, IdsAreOwn
  <2>8. RoutesGoWithUtun'
    BY <1>1, <1>3, <2>4 DEF TunnelInv, RoutesGoWithUtun
  <2> QED
    BY <2>3, <2>6, <2>7, <2>8 DEF TunnelInv
<1> QED
  BY <1>2, <1>3 DEF Route

LEMMA InsertInv == ASSUME TunnelInv, NEW a \in Additions, Insert(a) PROVE TunnelInv'
<1> USE TunnelFacts, ActivityIs, EntryIs
<1> DEFINE e == adds[a].entry
<1>1. /\ adds[a].step = "insert" /\ e \in Entries /\ intercepts' = With(e) /\ Proceeds(a, "pin")
      /\ UNCHANGED <<nextID, routes, stored, pins, ticker, todo, victims, unpinned,
                     forgetting, phase, overtaken, answer, link, turns>>
  BY DEF Insert, shown, round, removal, life, exitPeer
<1>2. /\ adds' \in [Additions -> Activities] /\ adds'[a].step = "pin" /\ adds'[a].entry = e
      /\ \A b \in Additions : b # a => adds'[b] = adds[b]
  BY <1>1, ProceedsIs
<1>3. intercepts' \subseteq Entries /\ \A f, g \in intercepts' : f.id = g.id => f = g
  BY <1>1, WithIs
<1>4. TunnelTypeOK'
  BY <1>1, <1>2, <1>3 DEF TunnelTypeOK
<1>5. Device' = Device /\ Session' = Session
  BY <1>1 DEF Device, Session
<1>6. RoutesGoWithUtun'
  BY <1>1, <1>5 DEF TunnelInv, RoutesGoWithUtun
<1>7. ASSUME Session PROVE RoutesHaveOneOwner' /\ IdsAreOwn'
  <2>1. /\ \A f \in intercepts \cup victims : f.id <= nextID
        /\ \A f \in intercepts, g \in victims : f.id # g.id
        /\ \A b \in Additions : Pending(b) =>
             /\ adds[b].entry.id <= nextID
             /\ \A f \in intercepts \cup victims : f.id # adds[b].entry.id
             /\ \A c \in Additions : Pending(c) /\ c # b => adds[c].entry.id # adds[b].entry.id
    BY <1>7 DEF TunnelInv, IdsAreOwn
  <2>2. Pending(a)
    BY <1>1 DEF Pending
  <2>3. intercepts' = intercepts \cup {e}
    BY <1>1, <2>1, <2>2 DEF With
  <2>4. Holders' = Holders
    BY <1>1, <1>2, <2>3 DEF Holders
  <2>5. RoutesHaveOneOwner'
    BY <1>1, <1>5, <2>4 DEF TunnelInv, RoutesHaveOneOwner, Session
  <2>6. \A b \in Additions : Pending(b)' => Pending(b) /\ b # a /\ adds'[b].entry = adds[b].entry
    BY <1>2 DEF Pending
  <2>7. e.id <= nextID /\ \A f \in intercepts \cup victims : f.id # e.id
    BY <2>1, <2>2
  <2>8. \A b \in Additions : Pending(b) /\ b # a => adds[b].entry.id # e.id
    BY <2>1, <2>2
  <2> HIDE DEF e
  <2>9. /\ \A f \in intercepts' \cup victims' : f.id <= nextID'
        /\ \A f \in intercepts', g \in victims' : f.id # g.id
    BY <1>1, <2>1, <2>3, <2>7
  <2>10. \A b \in Additions : Pending(b)' =>
           /\ adds'[b].entry.id <= nextID'
           /\ \A f \in intercepts' \cup victims' : f.id # adds'[b].entry.id
           /\ \A c \in Additions : Pending(c)' /\ c # b => adds'[c].entry.id # adds'[b].entry.id
    BY <1>1, <2>1, <2>3, <2>6, <2>8
  <2> QED
    BY <2>5, <2>9, <2>10 DEF IdsAreOwn
<1>8. ASSUME ~Session PROVE RoutesHaveOneOwner' /\ IdsAreOwn'
  BY <1>5, <1>8 DEF RoutesHaveOneOwner, IdsAreOwn, Session
<1> QED
  BY <1>4, <1>6, <1>7, <1>8 DEF TunnelInv

\* Steps that change pins, the config, the ticker or the world around.
LEMMA PinsInv ==
  ASSUME TunnelInv,
         \/ \E a \in Additions : Pin(a)
         \/ AddStore \/ RemovePin \/ RemoveStore \/ RefreshBegin \/ RefreshAsk \/ RefreshPin
         \/ AnswerChanges \/ LinkChanges
  PROVE  TunnelInv'
<1> USE TunnelFacts, ActivityIs
<1> USE DEF names, shown, removal, round, life, exitPeer
<1>1. CASE \E a \in Additions : Pin(a)
  <2>1. PICK a \in Additions :
          /\ adds[a].step = "pin" /\ pins' = Pinned(adds[a].entry)
          /\ Proceeds(a, "store") \/ Moves(a, Idle)
          /\ UNCHANGED <<intercepts, nextID, routes, stored, ticker, todo, victims, unpinned,
                         forgetting, phase, overtaken, answer, link, turns>>
    BY <1>1 DEF Pin
  <2>2. /\ adds' \in [Additions -> Activities] /\ adds'[a].step \in {"store", "idle"}
        /\ \A b \in Additions : b # a => adds'[b] = adds[b]
    BY <2>1, MovesIs, ProceedsIs
  <2>3. pins' \in [Specs -> SUBSET Addresses]
    BY <2>1, PinnedIs
  <2>4. TunnelTypeOK'
    BY <2>1, <2>2, <2>3 DEF TunnelTypeOK
  <2> QED
    BY <2>1, <2>2, <2>4, RoutesStay DEF Pending, TunnelInv
<1>2. CASE AddStore
  <2>1. "user" \in Additions
    BY DEF Additions
  <2>2. /\ adds["user"].step = "store" /\ stored' = (stored \/ Attached) /\ Moves("user", Idle)
        /\ UNCHANGED <<intercepts, nextID, routes, pins, ticker, todo, victims, unpinned,
                       forgetting, phase, overtaken, answer, link, turns>>
    BY <1>2 DEF AddStore
  <2>3. /\ adds' \in [Additions -> Activities] /\ adds'["user"].step = "idle"
        /\ \A b \in Additions : b # "user" => adds'[b] = adds[b]
    BY <2>1, <2>2, MovesIs
  <2>4. stored' \in BOOLEAN
    BY <2>2
  <2>5. TunnelTypeOK'
    BY <2>2, <2>3, <2>4 DEF TunnelTypeOK
  <2> QED
    BY <2>2, <2>3, <2>5, RoutesStay DEF Pending, TunnelInv
<1>3. CASE RemovePin
  <2>1. /\ UNCHANGED <<intercepts, nextID, routes, stored, adds, ticker, todo, victims,
                       forgetting, phase, overtaken, answer, link, turns>>
        /\ unpinned' = {} /\ pins' = [s \in Specs |-> IF s \in unpinned THEN {} ELSE pins[s]]
    BY <1>3 DEF RemovePin
  <2>2. pins' \in [Specs -> SUBSET Addresses]
    BY <2>1
  <2>3. TunnelTypeOK'
    BY <2>1, <2>2 DEF TunnelTypeOK
  <2> QED
    BY <2>1, <2>3, RoutesStay DEF Pending, TunnelInv
<1>4. CASE RemoveStore
  <2>1. /\ UNCHANGED <<intercepts, nextID, routes, pins, adds, ticker, todo, victims, unpinned,
                       phase, overtaken, answer, link, turns>>
        /\ stored' = FALSE /\ forgetting' = FALSE
    BY <1>4 DEF RemoveStore
  <2>2. TunnelTypeOK'
    BY <2>1 DEF TunnelTypeOK
  <2> QED
    BY <2>1, <2>2, RoutesStay DEF Pending, TunnelInv
<1>5. CASE RefreshBegin
  <2>1. /\ UNCHANGED <<intercepts, nextID, routes, stored, pins, adds, ticker, victims, unpinned,
                       forgetting, phase, overtaken, answer, link, turns>>
        /\ todo' = intercepts
    BY <1>5 DEF RefreshBegin, Round
  <2>2. TunnelTypeOK'
    BY <2>1 DEF TunnelTypeOK
  <2> QED
    BY <2>1, <2>2, RoutesStay DEF Pending, TunnelInv
<1>6. CASE RefreshAsk
  <2>1. PICK e \in todo :
          /\ todo' = todo \ {e}
          /\ ticker' = Idle \/ ticker' = At("ask", e.id, e.spec, {answer[e.spec]})
          /\ UNCHANGED <<intercepts, nextID, routes, stored, pins, adds, victims, unpinned,
                         forgetting, phase, overtaken, answer, link, turns>>
    BY <1>6 DEF RefreshAsk, Resolved
  <2>2. e.id \in 0..(MaxIds + 1) /\ e.spec \in Specs /\ {answer[e.spec]} \in SUBSET Addresses
    BY EntryIs
  <2>3. ticker' \in Activities
    BY <2>1, <2>2 DEF At, Activities, Entries
  <2>4. TunnelTypeOK'
    BY <2>1, <2>3 DEF TunnelTypeOK
  <2> QED
    BY <2>1, <2>4, RoutesStay DEF Pending, TunnelInv
<1>7. CASE RefreshPin
  <2>1. /\ UNCHANGED <<intercepts, nextID, routes, stored, adds, todo, victims, unpinned,
                       forgetting, phase, overtaken, answer, link, turns>>
        /\ pins' = Pinned(ticker.entry) /\ ticker' = Idle
    BY <1>7 DEF RefreshPin
  <2>2. pins' \in [Specs -> SUBSET Addresses]
    BY <2>1, PinnedIs
  <2>3. TunnelTypeOK'
    BY <2>1, <2>2 DEF TunnelTypeOK
  <2> QED
    BY <2>1, <2>3, RoutesStay DEF Pending, TunnelInv
<1>8. CASE AnswerChanges \/ LinkChanges
  <2>1. /\ UNCHANGED <<intercepts, nextID, routes, stored, pins, adds, ticker, todo, victims,
                       unpinned, forgetting, phase, overtaken>>
        /\ answer' \in [Specs -> Addresses] /\ turns' \in 0..Turns
    BY <1>8 DEF AnswerChanges, LinkChanges
  <2>2. link' \in BOOLEAN
    BY <1>8 DEF AnswerChanges, LinkChanges
  <2>3. TunnelTypeOK'
    BY <2>1, <2>2 DEF TunnelTypeOK
  <2> QED
    BY <2>1, <2>3, RoutesStay DEF Pending, TunnelInv
<1> QED
  BY <1>1, <1>2, <1>3, <1>4, <1>5, <1>6, <1>7, <1>8

LEMMA RemoveInv == ASSUME TunnelInv, RemoveBegin \/ RemoveRoutes PROVE TunnelInv'
<1> USE TunnelFacts, EntryIs
<1> USE DEF names, shown, removal, round, life, exitPeer
<1>1. UNCHANGED <<nextID, stored, pins, adds, ticker, todo, phase, overtaken, answer, link, turns>>
  BY DEF RemoveBegin, RemoveRoutes
<1>2. Device' = Device /\ Session' = Session /\ \A a \in Additions : Pending(a)' = Pending(a)
  BY <1>1 DEF Device, Session, Pending
<1>3. CASE RemoveBegin
  <2>1. PICK e \in intercepts :
          /\ victims = {} /\ victims' = Victims(e) /\ intercepts' = intercepts \ Victims(e)
          /\ forgetting' = (e.spec = "zone" /\ Attached)
          /\ UNCHANGED <<routes, unpinned>>
    BY <1>3 DEF RemoveBegin, Removing
  <2>2. Victims(e) \subseteq intercepts
    BY DEF Victims, Listed
  <2>3. intercepts' \cup victims' = intercepts \cup victims /\ forgetting' \in BOOLEAN
    BY <2>1, <2>2
  <2>4. Holders' = Holders
    BY <1>1, <2>3 DEF Holders
  <2>5. RoutesHaveOneOwner'
    BY <1>2, <2>1, <2>4 DEF TunnelInv, RoutesHaveOneOwner, Session
  <2>6. IdsAreOwn'
    BY <1>1, <1>2, <2>1, <2>2, <2>3 DEF TunnelInv, IdsAreOwn
  <2>7. RoutesGoWithUtun'
    BY <1>1, <1>2, <2>1 DEF TunnelInv, RoutesGoWithUtun
  <2>8. TunnelTypeOK'
    BY <1>1, <2>1, <2>2, <2>3 DEF TunnelTypeOK
  <2> QED
    BY <2>5, <2>6, <2>7, <2>8 DEF TunnelInv
<1>4. CASE \E v \in victims :
             /\ routes' = routes \ Freed(v)
             /\ victims' = victims \ {v} /\ unpinned' = {v.spec}
             /\ UNCHANGED <<intercepts, forgetting>>
  <2>1. PICK v \in victims :
          /\ routes' = routes \ v.at /\ victims' = victims \ {v} /\ unpinned' = {v.spec}
          /\ UNCHANGED <<intercepts, forgetting>>
    BY <1>4 DEF Freed
  <2>2. v \in Entries /\ v.spec \in Specs
    OBVIOUS
  <2>3. TunnelTypeOK'
    BY <1>1, <2>1, <2>2 DEF TunnelTypeOK
  <2>4. IdsAreOwn'
    BY <1>1, <1>2, <2>1 DEF TunnelInv, IdsAreOwn
  <2>5. RoutesGoWithUtun'
    BY <1>1, <1>2, <2>1 DEF TunnelInv, RoutesGoWithUtun
  <2>6. RoutesHaveOneOwner'
    <3> SUFFICES ASSUME Session PROVE RoutesHaveOneOwner'
      BY <1>2 DEF RoutesHaveOneOwner, Session
    <3>1. v \in Holders /\ Holders' = Holders \ {v}
      <4>1. v \notin intercepts
        BY DEF TunnelInv, IdsAreOwn
      <4>2. \A a \in Additions : adds[a].step = "insert" => adds[a].entry # v
        BY DEF TunnelInv, IdsAreOwn, Pending
      <4> QED
        BY <1>1, <2>1, <4>1, <4>2 DEF Holders
    <3>2. /\ \A a : a \in routes <=> \E e \in Holders : a \in e.at
          /\ \A e, f \in Holders : e # f => e.at \cap f.at = {}
      BY RoutedByOne DEF TunnelInv, RoutesHaveOneOwner, Session
    <3>3. \A a : a \in routes' <=> \E e \in Holders' : a \in e.at
      BY <2>1, <3>1, <3>2
    <3> QED
      BY <3>1, <3>2, <3>3, RoutedByOne DEF RoutesHaveOneOwner
  <2> QED
    BY <2>3, <2>4, <2>5, <2>6 DEF TunnelInv
<1>5. CASE /\ ~Table /\ victims' = {} /\ forgetting' = FALSE
           /\ UNCHANGED <<intercepts, routes, unpinned>>
  <2>1. /\ victims' = {} /\ forgetting' = FALSE
        /\ UNCHANGED <<intercepts, routes, unpinned>>
    BY <1>5
  <2>2. ~Device
    BY <1>5 DEF Device, Table
  <2>3. TunnelTypeOK'
    BY <1>1, <2>1 DEF TunnelTypeOK
  <2>4. RoutesHaveOneOwner' /\ IdsAreOwn'
    BY <1>2, <2>2 DEF RoutesHaveOneOwner, IdsAreOwn, Session
  <2>5. RoutesGoWithUtun'
    BY <1>1, <1>2, <2>1 DEF TunnelInv, RoutesGoWithUtun
  <2> QED
    BY <2>3, <2>4, <2>5 DEF TunnelInv
<1> QED
  BY <1>3, <1>4, <1>5 DEF RemoveRoutes

LEMMA RefreshRouteInv == ASSUME TunnelInv, RefreshRoute PROVE TunnelInv'
<1> USE TunnelFacts, ActivityIs, EntryIs
<1> DEFINE old == ticker.entry
           mine == Current(old.id)
           apart == routes \ UNION {e.at : e \in mine}
           taken == IF Device THEN old.at \ apart ELSE {}
           moved(e) == [e EXCEPT !.at = taken]
           next == {moved(e) : e \in mine}
<1>1. /\ intercepts' = (intercepts \ mine) \cup next
      /\ routes' = apart \cup UNION {e.at : e \in next}
      /\ ticker' = IF mine = {} THEN Idle ELSE At("pin", old.id, old.spec, taken)
      /\ UNCHANGED <<nextID, stored, pins, adds, todo, victims, unpinned, forgetting, phase,
                     overtaken, answer, link, turns>>
  BY DEF RefreshRoute, Reroute, shown, removal, life, exitPeer
<1>2. old \in Entries /\ mine \subseteq intercepts /\ \A e \in mine : e.id = old.id
  BY DEF Current
<1>3. /\ \A e \in intercepts : e.id = old.id => e \in mine
      /\ \A e, f \in mine : e = f
  BY <1>2 DEF Current
<1>4. taken \subseteq Addresses
  BY <1>2
<1>5. \A e \in mine : moved(e) \in Entries /\ moved(e).id = e.id /\ moved(e).at = taken
  BY <1>2, <1>4 DEF Entries
<1>6. \A a : a \in apart <=> a \in routes /\ \A e \in mine : a \notin e.at
  OBVIOUS
<1>7. ~Device => taken = {}
  OBVIOUS
<1>8. taken \cap apart = {}
  OBVIOUS
<1>9. ticker' \in Activities
  BY <1>1, <1>2, <1>4 DEF At, Activities, Entries
<1> HIDE DEF moved, taken, apart, mine, old
<1>10. /\ next \subseteq Entries
       /\ \A n \in next : n.id = old.id /\ n.at = taken
       /\ \A n, m \in next : n = m
       /\ next # {} => mine # {}
  BY <1>2, <1>3, <1>5
<1>11. \A a : a \in routes' <=> a \in apart \/ \E n \in next : a \in n.at
  BY <1>1
<1> HIDE DEF next
<1>12. TunnelTypeOK'
  <2>1. intercepts' \subseteq Entries /\ routes' \subseteq Addresses
    BY <1>1, <1>4, <1>6, <1>10, <1>11
  <2>2. \A e, f \in intercepts' : e.id = f.id => e = f
    BY <1>1, <1>3, <1>10
  <2> QED
    BY <1>1, <1>9, <2>1, <2>2 DEF TunnelTypeOK
<1>13. RoutesGoWithUtun'
  <2>1. ~Device => routes' = {}
    BY <1>6, <1>7, <1>10, <1>11 DEF TunnelInv, RoutesGoWithUtun
  <2> QED
    BY <1>1, <2>1 DEF TunnelInv, RoutesGoWithUtun, Device
<1>14. Session' = Session /\ \A a \in Additions : Pending(a)' = Pending(a)
  BY <1>1 DEF Device, Session, Pending
<1>15. CASE ~Session
  BY <1>12, <1>13, <1>14, <1>15 DEF TunnelInv, RoutesHaveOneOwner, IdsAreOwn, Session
<1>16. CASE Session
  <2> DEFINE rest == (Holders \ mine)
  <2>1. /\ \A e \in intercepts \cup victims : e.id <= nextID
        /\ \A e \in intercepts, f \in victims : e.id # f.id
        /\ \A a \in Additions : Pending(a) =>
             /\ adds[a].entry.id <= nextID
             /\ \A e \in intercepts \cup victims : e.id # adds[a].entry.id
             /\ \A b \in Additions : Pending(b) /\ b # a => adds[b].entry.id # adds[a].entry.id
    BY <1>16 DEF TunnelInv, IdsAreOwn
  <2>2. \A n \in next : \E e \in intercepts : e.id = n.id
    BY <1>2, <1>10
  <2>3. /\ \A e \in intercepts' \cup victims' : e.id <= nextID'
        /\ \A e \in intercepts', f \in victims' : e.id # f.id
    BY <1>1, <2>1, <2>2
  <2>4. \A a \in Additions : Pending(a) => \A e \in intercepts' \cup victims' : e.id # adds[a].entry.id
    BY <1>1, <2>1, <2>2
  <2>5. IdsAreOwn'
    BY <1>1, <1>14, <2>1, <2>3, <2>4 DEF IdsAreOwn
  <2>6. Holders' = rest \cup next /\ mine \subseteq Holders
    <3>1. \A e \in victims : e \notin mine
      BY <1>2, <2>1
    <3>2. \A a \in Additions : adds[a].step = "insert" => adds[a].entry \notin mine
      BY <1>2, <2>1 DEF Pending
    <3> QED
      BY <1>1, <1>2, <3>1, <3>2 DEF Holders
  <2>7. /\ \A a : a \in routes <=> \E e \in Holders : a \in e.at
        /\ \A e, f \in Holders : e # f => e.at \cap f.at = {}
    BY <1>16, RoutedByOne DEF TunnelInv, RoutesHaveOneOwner, Session
  <2>8. \A a : a \in apart <=> \E e \in rest : a \in e.at
    BY <1>6, <2>6, <2>7
  <2>9. \A a : a \in routes' <=> \E e \in Holders' : a \in e.at
    BY <1>11, <2>6, <2>8
  <2>10. \A e \in rest, n \in next : e.at \cap n.at = {}
    BY <1>8, <1>10, <2>8
  <2>11. \A e, f \in Holders' : e # f => e.at \cap f.at = {}
    BY <1>10, <2>6, <2>7, <2>10
  <2>12. RoutesHaveOneOwner'
    BY <2>9, <2>11, RoutedByOne DEF RoutesHaveOneOwner
  <2> QED
    BY <1>12, <1>13, <2>5, <2>12 DEF TunnelInv
<1> QED
  BY <1>15, <1>16

\* The restart: the routes go first, and a session that is not excused begins with
\* nothing listed, nothing under way and no route.
LEMMA RestartInv ==
  ASSUME TunnelInv,
         EngineClose \/ EngineGone \/ ServiceStop \/ EngineUp \/ ServiceStart \/ Fatal
  PROVE  TunnelInv'
<1> USE TunnelFacts, ActivityIs
<1> USE DEF names, Unmoved, round, removal, exitPeer, Phases
<1>1. CASE EngineClose
  <2>1. /\ UNCHANGED <<intercepts, nextID, pins, overtaken, stored, adds, ticker, todo, victims,
                       unpinned, forgetting, answer, link>>
        /\ phase' = "closing" /\ routes' = {} /\ turns' \in 0..Turns
    BY <1>1 DEF EngineClose
  <2>2. TunnelTypeOK'
    BY <2>1 DEF TunnelTypeOK
  <2> QED
    BY <2>1, <2>2 DEF TunnelInv, RoutesHaveOneOwner, IdsAreOwn, RoutesGoWithUtun, Session, Device
<1>2. CASE EngineGone
  <2>1. /\ UNCHANGED <<intercepts, nextID, routes, pins, overtaken, stored, adds, ticker, todo,
                       victims, unpinned, forgetting, answer, link, turns>>
        /\ phase = "closing" /\ phase' = "gone"
    BY <1>2 DEF EngineGone
  <2>2. TunnelTypeOK'
    BY <2>1 DEF TunnelTypeOK
  <2> QED
    BY <2>1, <2>2 DEF TunnelInv, RoutesHaveOneOwner, IdsAreOwn, RoutesGoWithUtun, Session, Device
<1>3. CASE ServiceStop
  <2>1. /\ UNCHANGED <<nextID, routes, overtaken, stored, adds, ticker, todo,
                       victims, unpinned, forgetting, answer, link, turns>>
        /\ phase = "gone" /\ phase' = "stopped" /\ intercepts' = {}
        /\ pins' = [s \in Specs |-> IF Listed(s) # {} THEN {} ELSE pins[s]]
    BY <1>3 DEF ServiceStop
  <2>2. pins' \in [Specs -> SUBSET Addresses]
    BY <2>1
  <2>3. TunnelTypeOK'
    BY <2>1, <2>2 DEF TunnelTypeOK
  <2> QED
    BY <2>1, <2>3 DEF TunnelInv, RoutesHaveOneOwner, IdsAreOwn, RoutesGoWithUtun, Session, Device
<1>4. CASE EngineUp
  <2>1. /\ UNCHANGED <<intercepts, nextID, routes, pins, stored, adds, ticker, todo,
                       victims, unpinned, forgetting, answer, link, turns>>
        /\ phase = "stopped" /\ phase' = "up" /\ overtaken' = UnderWay
    BY <1>4 DEF EngineUp
  <2>2. overtaken' \in BOOLEAN
    BY <2>1 DEF UnderWay
  <2>3. TunnelTypeOK'
    BY <2>1, <2>2 DEF TunnelTypeOK
  <2>4. routes = {}
    BY <2>1 DEF TunnelInv, RoutesGoWithUtun, Device
  <2>5. ASSUME ~overtaken'
        PROVE  intercepts' = {} /\ victims' = {} /\ \A a \in Additions : ~Pending(a)'
    BY <2>1, <2>5 DEF UnderWay, Pending
  <2>6. ASSUME ~overtaken' PROVE Holders' = {}
    BY <2>5, <2>6 DEF Holders, Pending
  <2>7. RoutesHaveOneOwner' /\ IdsAreOwn'
    BY <2>1, <2>4, <2>5, <2>6 DEF RoutesHaveOneOwner, IdsAreOwn, Session
  <2> QED
    BY <2>1, <2>3, <2>7 DEF TunnelInv, RoutesGoWithUtun, Device
<1>5. CASE ServiceStart
  <2>1. /\ UNCHANGED <<routes, pins, stored, adds, ticker, todo,
                       victims, unpinned, forgetting, answer, link, turns>>
        /\ phase = "up" /\ phase' = "reset" /\ overtaken' = (overtaken \/ UnderWay)
        /\ intercepts' = {} /\ nextID' = 0
    BY <1>5 DEF ServiceStart
  <2>2. overtaken' \in BOOLEAN
    BY <2>1
  <2>3. TunnelTypeOK'
    BY <2>1, <2>2 DEF TunnelTypeOK
  <2>4. ASSUME ~overtaken'
        PROVE  intercepts = {} /\ victims' = {} /\ \A a \in Additions : ~Pending(a)'
    BY <2>1, <2>4 DEF UnderWay, Pending
  <2>5. ASSUME ~overtaken' PROVE Holders = {} /\ Holders' = {}
    BY <2>1, <2>4, <2>5 DEF Holders, Pending
  <2>6. ASSUME ~overtaken' PROVE routes = {}
    BY <2>1, <2>5, <2>6 DEF TunnelInv, RoutesHaveOneOwner, Device
  <2>7. RoutesHaveOneOwner' /\ IdsAreOwn'
    BY <2>1, <2>4, <2>5, <2>6 DEF RoutesHaveOneOwner, IdsAreOwn, Session
  <2> QED
    BY <2>1, <2>3, <2>7 DEF TunnelInv, RoutesGoWithUtun, Device
<1>6. CASE Fatal
  <2>1. /\ UNCHANGED <<stored, overtaken, answer, link, turns>>
        /\ intercepts' = {} /\ nextID' = 0 /\ routes' = {} /\ phase' = "stopped"
        /\ pins' = [s \in Specs |-> {}] /\ adds' = [a \in Additions |-> Idle]
        /\ ticker' = Idle /\ todo' = {} /\ victims' = {} /\ unpinned' = {} /\ forgetting' = FALSE
    BY <1>6 DEF Fatal
  <2>2. pins' \in [Specs -> SUBSET Addresses] /\ adds' \in [Additions -> Activities]
    BY <2>1
  <2>0. /\ UNCHANGED <<stored, overtaken, answer, link, turns>>
        /\ intercepts' = {} /\ nextID' = 0 /\ routes' = {} /\ phase' = "stopped"
        /\ ticker' = Idle /\ todo' = {} /\ victims' = {} /\ unpinned' = {} /\ forgetting' = FALSE
        /\ 0 \in 0..(MaxIds + 1)
    BY <2>1
  <2>3. TunnelTypeOK'
    BY <2>0, <2>2 DEF TunnelTypeOK
  <2> QED
    BY <2>1, <2>3 DEF TunnelInv, RoutesHaveOneOwner, IdsAreOwn, RoutesGoWithUtun, Session, Device
<1> QED
  BY <1>1, <1>2, <1>3, <1>4, <1>5, <1>6

LEMMA RestoredInv == ASSUME TunnelInv, Restored PROVE TunnelInv'
<1> USE TunnelFacts
<1>1. /\ UNCHANGED <<routes, pins, stored, adds, ticker, todo, victims, unpinned, forgetting,
                     overtaken, answer, link, turns>>
      /\ phase = "reset" /\ phase' = "serving" /\ nextID <= MaxIds
  BY DEF Restored, Unmoved, round, removal, TunnelInv, RoutesGoWithUtun
<1>2. /\ Device /\ Device' /\ Session' = Session /\ phase' \in Phases
      /\ \A a \in Additions : Pending(a)' = Pending(a)
  BY <1>1 DEF Device, Session, Phases, Pending
<1>3. CASE ~stored
  <2>1. UNCHANGED <<nextID, intercepts>>
    BY <1>3 DEF Restored
  <2>2. TunnelTypeOK'
    BY <1>1, <1>2, <2>1 DEF TunnelTypeOK
  <2>3. Holders' = Holders
    BY <1>1, <2>1 DEF Holders
  <2>4. RoutesHaveOneOwner'
    BY <1>1, <1>2, <2>3 DEF TunnelInv, RoutesHaveOneOwner, Session
  <2>5. IdsAreOwn'
    BY <1>1, <1>2, <2>1 DEF TunnelInv, IdsAreOwn
  <2> QED
    BY <1>1, <1>2, <2>2, <2>4, <2>5 DEF TunnelInv, RoutesGoWithUtun
<1>4. CASE stored
  <2> DEFINE zone == [id |-> nextID + 1, spec |-> "zone", at |-> {}]
  <2>1. nextID' = nextID + 1 /\ intercepts' = With(zone) /\ nextID + 1 \in 0..(MaxIds + 1)
    BY <1>1, <1>4 DEF Restored
  <2>2. zone \in Entries /\ zone.id = nextID + 1 /\ zone.at = {}
    BY <2>1 DEF Entries, Specs
  <2> HIDE DEF zone
  <2>3. intercepts' \subseteq Entries /\ \A f, g \in intercepts' : f.id = g.id => f = g
    BY <2>1, <2>2, WithIs
  <2>4. TunnelTypeOK'
    BY <1>1, <1>2, <2>1, <2>3 DEF TunnelTypeOK
  <2>5. ASSUME Session PROVE RoutesHaveOneOwner' /\ IdsAreOwn'
    <3>1. /\ \A e \in intercepts \cup victims : e.id \in Nat /\ e.id <= nextID
          /\ \A e \in intercepts, f \in victims : e.id # f.id
          /\ \A a \in Additions : Pending(a) =>
               /\ adds[a].entry.id \in Nat /\ adds[a].entry.id <= nextID
               /\ \A e \in intercepts \cup victims : e.id # adds[a].entry.id
               /\ \A b \in Additions : Pending(b) /\ b # a => adds[b].entry.id # adds[a].entry.id
      BY <2>5, EntryIs, ActivityIs DEF TunnelInv, IdsAreOwn
    <3>2. intercepts' = intercepts \cup {zone}
      BY <2>1, <2>2, <3>1 DEF With
    <3>3. Holders' = Holders \cup {zone}
      BY <1>1, <3>2 DEF Holders
    <3>4. routes = UNION {e.at : e \in Holders} /\ \A e, f \in Holders : e # f => e.at \cap f.at = {}
      BY <2>5 DEF TunnelInv, RoutesHaveOneOwner, Session
    <3>5. RoutesHaveOneOwner'
      BY <1>1, <2>2, <3>3, <3>4 DEF RoutesHaveOneOwner
    <3>6. /\ \A e \in intercepts' \cup victims' : e.id <= nextID'
          /\ \A e \in intercepts', f \in victims' : e.id # f.id
      BY <1>1, <2>1, <2>2, <3>1, <3>2
    <3>7. \A a \in Additions : Pending(a) =>
            /\ adds[a].entry.id <= nextID'
            /\ \A e \in intercepts' \cup victims' : e.id # adds[a].entry.id
      BY <1>1, <2>1, <2>2, <3>1, <3>2
    <3> QED
      BY <1>1, <1>2, <3>1, <3>5, <3>6, <3>7 DEF IdsAreOwn
  <2>6. ASSUME ~Session PROVE RoutesHaveOneOwner' /\ IdsAreOwn'
    BY <1>2, <2>6 DEF RoutesHaveOneOwner, IdsAreOwn, Session
  <2> QED
    BY <1>1, <1>2, <2>4, <2>5, <2>6 DEF TunnelInv, RoutesGoWithUtun
<1> QED
  BY <1>3, <1>4

LEMMA TunnelStepInv == TunnelInv /\ [TunnelNext]_tunnelVars => TunnelInv'
<1> SUFFICES ASSUME TunnelInv, [TunnelNext]_tunnelVars PROVE TunnelInv'
  OBVIOUS
<1>1. CASE TunnelNext
  BY <1>1, AddBeginInv, NumberInv, RouteInv, InsertInv, PinsInv, RemoveInv, RefreshRouteInv,
     RestartInv, RestoredInv DEF TunnelNext
<1>2. CASE UNCHANGED tunnelVars
  <2>1. UNCHANGED <<intercepts, nextID, routes, stored, pins, adds, ticker, todo, victims, unpinned,
                    forgetting, phase, overtaken, answer, link, turns>>
    BY <1>2 DEF tunnelVars, names, shown, round, removal, life, exitPeer
  <2>2. TunnelTypeOK'
    BY <2>1 DEF TunnelInv, TunnelTypeOK
  <2> QED
    BY <2>1, <2>2, RoutesStay DEF Pending, TunnelInv
<1> QED
  BY <1>1, <1>2

\* However adding, resolving, removing and refreshing overlap between their steps
\* with each other and with restarts of the engine, which wait for none of them
\* and number the intercepts anew: while the utun is open each route is of one
\* intercept, listed or on its way in or out, and there are no others
\* (services/tunnel).  Excused is the session that began while an addition or a
\* removal of an earlier one was between its steps; a round of the ticker is not.
THEOREM OneOwner == TunnelSpec => []RoutesHaveOneOwner
<1>1. TunnelInv => RoutesHaveOneOwner
  BY DEF TunnelInv
<1> QED
  BY TunnelInitInv, TunnelStepInv, <1>1, PTL DEF TunnelSpec

-----------------------------------------------------------------------------
(* OIDC.                                                                   *)

OidcTyped ==
  /\ registry \in [Apps -> Rows] /\ torn \in BOOLEAN
  /\ edits \subseteq [app : Apps, row : {"locked", "open", "deleted"}, rows : {registry}]
  /\ sessions \in [SignIns -> {"none", "open", "asked", "gone"}]
  /\ appOf \in [SignIns -> Apps]
  /\ finishing \subseteq [session : SignIns, code : {0} \cup CodeIds]
  /\ codes \in [CodeIds -> {0} \cup SignIns] /\ signedIn \in [CodeIds -> {0} \cup SignIns]
  /\ taking \subseteq [code : CodeIds, request : {1, 2}]
  /\ given \in [CodeIds -> {0, 1}]
  /\ refused \subseteq SignIns /\ orphaned \subseteq CodeIds

\* The edit that has the file has read what is there, and no edit is about an
\* app that was deleted.
OneEditAtATime ==
  /\ \A e, f \in edits : e = f
  /\ \A e \in edits : registry[e.app] # "deleted"
  /\ registry = saved

\* A code is there to be taken, or taken by one request, or has given its token,
\* or none of these.
OneTokenPerCode ==
  /\ \A c \in CodeIds :
       /\ codes[c] \in {0, signedIn[c]}
       /\ codes[c] # 0 \/ signedIn[c] = 0 => given[c] = 0
  /\ \A t \in taking : codes[t.code] = 0 /\ given[t.code] = 0 /\ signedIn[t.code] # 0
  /\ \A t, u \in taking : t.code = u.code => t = u

\* A code is minted by a handler that deletes the session after it, and a session
\* that was refused was gone before any such handler had begun.
CodesAreFinished ==
  /\ \A f \in finishing :
       sessions[f.session] # "none" /\ (f.code # 0 => signedIn[f.code] = f.session)
  /\ \A c \in CodeIds : signedIn[c] # 0 =>
       \/ sessions[signedIn[c]] = "gone"
       \/ sessions[signedIn[c]] # "none" /\ \E f \in finishing : f.session = signedIn[c] /\ f.code = c
  /\ \A s \in refused : sessions[s] = "gone" /\ \A f \in finishing : f.session # s
  /\ RefusedGivesNoCode

\* What was orphaned stays so: the app of a code does not change, nor does it return.
OrphansAreOfDeleted ==
  \A c \in orphaned :
    signedIn[c] # 0 /\ registry[appOf[signedIn[c]]] = "deleted" /\ given[c] = 0

OidcInv ==
  OidcTyped /\ OneEditAtATime /\ OneTokenPerCode /\ CodesAreFinished /\ OrphansAreOfDeleted

LEMMA OidcFacts ==
  ASSUME OidcInv
  PROVE  /\ registry \in [Apps -> Rows] /\ torn \in BOOLEAN
         /\ edits \subseteq [app : Apps, row : {"locked", "open", "deleted"}, rows : {registry}]
         /\ sessions \in [SignIns -> {"none", "open", "asked", "gone"}]
         /\ appOf \in [SignIns -> Apps]
         /\ finishing \subseteq [session : SignIns, code : {0} \cup CodeIds]
         /\ codes \in [CodeIds -> {0} \cup SignIns] /\ signedIn \in [CodeIds -> {0} \cup SignIns]
         /\ taking \subseteq [code : CodeIds, request : {1, 2}]
         /\ given \in [CodeIds -> {0, 1}]
         /\ refused \subseteq SignIns /\ orphaned \subseteq CodeIds
         /\ 0 \notin SignIns /\ 0 \notin CodeIds
         /\ Rows = {"none", "locked", "open", "deleted"} /\ Registered = {"locked", "open"}
BY DEF OidcInv, OidcTyped, SignIns, CodeIds, Rows, Registered

LEMMA FinishIs == \A s, c : Finish(s, c).session = s /\ Finish(s, c).code = c
BY DEF Finish

LEMMA OidcInitInv == OidcInit => OidcInv
<1> SUFFICES ASSUME OidcInit PROVE OidcInv
  OBVIOUS
<1>1. OidcTyped
  BY DEF OidcInit, OidcTyped, Rows
<1> QED
  BY <1>1 DEF OidcInit, OidcInv, OneEditAtATime, OneTokenPerCode, CodesAreFinished,
     RefusedGivesNoCode, OrphansAreOfDeleted

\* An edit begins.
LEMMA EditKeeps ==
  ASSUME OidcInv, NEW a \in Apps, NEW row \in {"locked", "open", "deleted"},
         registry[a] # "deleted", EditStore(a, row)
  PROVE  OidcInv'
<1> USE OidcFacts
<1> DEFINE e == [app |-> a, row |-> row, rows |-> registry]
<1>1. /\ edits = {} /\ edits' = edits \cup {e}
      /\ UNCHANGED <<registry, torn, saved, sessions, appOf, finishing, codes, signedIn, taking,
                     given, refused, orphaned>>
  BY DEF EditStore, StoreFree, ceremony, grants, oidcHistory
<1>2. e \in [app : Apps, row : {"locked", "open", "deleted"}, rows : {registry}] /\ e.app = a
  OBVIOUS
<1> HIDE DEF e
<1>3. OidcTyped'
  BY <1>1, <1>2 DEF OidcTyped
<1>4. OneEditAtATime'
  BY <1>1, <1>2 DEF OidcInv, OneEditAtATime
<1> QED
  BY <1>1, <1>3, <1>4
     DEF OidcInv, OneTokenPerCode, CodesAreFinished, RefusedGivesNoCode, OrphansAreOfDeleted

LEMMA OidcStepInv == OidcInv /\ [OidcNext]_oidcVars => OidcInv'
<1> SUFFICES ASSUME OidcInv, [OidcNext]_oidcVars PROVE OidcInv'
  OBVIOUS
<1> USE OidcFacts, FinishIs
<1> USE DEF store, ceremony, grants, oidcHistory
<1>1. ASSUME NEW a \in Apps, CreateApp(a) \/ SetChannels(a) \/ DeleteApp(a) PROVE OidcInv'
  <2>1. PICK row \in {"locked", "open", "deleted"} : registry[a] # "deleted" /\ EditStore(a, row)
    BY <1>1 DEF CreateApp, SetChannels, DeleteApp
  <2> QED
    BY <2>1, EditKeeps
<1>2. ASSUME NEW e \in edits, Truncate(e) PROVE OidcInv'
  <2>1. /\ torn' = TRUE
        /\ UNCHANGED <<registry, saved, edits, sessions, appOf, finishing, codes, signedIn, taking,
                       given, refused, orphaned>>
    BY <1>2 DEF Truncate
  <2> QED
    BY <2>1 DEF OidcInv, OidcTyped, OneEditAtATime, OneTokenPerCode, CodesAreFinished,
       RefusedGivesNoCode, OrphansAreOfDeleted
<1>3. ASSUME NEW e \in edits, Save(e) PROVE OidcInv'
  <2>1. /\ registry' = [e.rows EXCEPT ![e.app] = e.row] /\ torn' = FALSE
        /\ saved' = [saved EXCEPT ![e.app] = e.row]
        /\ edits' = edits \ {e}
        /\ orphaned' = orphaned \cup {c \in CodeIds :
                           e.row = "deleted" /\ codes[c] # 0 /\ appOf[codes[c]] = e.app}
        /\ UNCHANGED <<sessions, appOf, finishing, codes, signedIn, taking, given, refused>>
    BY <1>3 DEF Save
  <2>2. e.rows = registry /\ e.app \in Apps /\ e.row \in {"locked", "open", "deleted"}
        /\ edits' = {} /\ registry = saved /\ registry[e.app] # "deleted"
    BY <2>1 DEF OidcInv, OneEditAtATime
  <2>3. registry' \in [Apps -> Rows]
    BY <2>1, <2>2
  <2>4. OidcTyped'
    BY <2>1, <2>2, <2>3 DEF OidcTyped
  <2>5. OneEditAtATime'
    BY <2>1, <2>2 DEF OneEditAtATime
  <2>6. \A a \in Apps : registry[a] = "deleted" => registry'[a] = "deleted"
    BY <2>1, <2>2
  <2>7. OrphansAreOfDeleted'
    <3> SUFFICES ASSUME NEW c \in orphaned'
                 PROVE  signedIn[c] # 0 /\ registry'[appOf[signedIn[c]]] = "deleted" /\ given[c] = 0
      BY <2>1 DEF OrphansAreOfDeleted
    <3>1. CASE c \in orphaned
      BY <2>6, <3>1 DEF OidcInv, OrphansAreOfDeleted
    <3>2. CASE c \notin orphaned
      <4>1. c \in CodeIds /\ e.row = "deleted" /\ codes[c] # 0 /\ appOf[codes[c]] = e.app
        BY <2>1, <3>2
      <4>2. codes[c] = signedIn[c] /\ given[c] = 0
        BY <4>1 DEF OidcInv, OneTokenPerCode
      <4> QED
        BY <2>1, <2>2, <4>1, <4>2
    <3> QED
      BY <3>1, <3>2
  <2> QED
    BY <2>1, <2>4, <2>5, <2>7
       DEF OidcInv, OneTokenPerCode, CodesAreFinished, RefusedGivesNoCode
<1>4. ASSUME NEW s \in SignIns, Authorize(s) PROVE OidcInv'
  <2>1. /\ sessions[s] = "none" /\ sessions' = [sessions EXCEPT ![s] = "open"]
        /\ \E a \in Apps : appOf' = [appOf EXCEPT ![s] = a]
        /\ UNCHANGED <<registry, torn, saved, edits, finishing, codes, signedIn, taking, given,
                       refused, orphaned>>
    BY <1>4 DEF Authorize
  <2>2. \A c \in CodeIds : signedIn[c] # s
    BY <2>1 DEF OidcInv, CodesAreFinished
  <2>3. OidcTyped'
    BY <2>1 DEF OidcTyped
  <2>4. CodesAreFinished'
    BY <2>1, <2>2 DEF OidcInv, CodesAreFinished, RefusedGivesNoCode
  <2>5. OrphansAreOfDeleted'
    BY <2>1, <2>2 DEF OidcInv, OrphansAreOfDeleted
  <2> QED
    BY <2>1, <2>3, <2>4, <2>5 DEF OidcInv, OneEditAtATime, OneTokenPerCode
<1>5. ASSUME NEW s \in SignIns, Begin(s) PROVE OidcInv'
  <2>1. /\ sessions[s] = "open" /\ sessions' = [sessions EXCEPT ![s] = "asked"]
        /\ UNCHANGED <<registry, torn, saved, edits, appOf, finishing, codes, signedIn, taking, given,
                       refused, orphaned>>
    BY <1>5 DEF Begin
  <2>2. OidcTyped'
    BY <2>1 DEF OidcTyped
  <2>3. CodesAreFinished'
    BY <2>1 DEF OidcInv, CodesAreFinished, RefusedGivesNoCode
  <2> QED
    BY <2>1, <2>2, <2>3 DEF OidcInv, OneEditAtATime, OneTokenPerCode, OrphansAreOfDeleted
<1>6. ASSUME NEW s \in SignIns, CancelSignIn(s) PROVE OidcInv'
  <2>1. /\ sessions[s] \in {"open", "asked"} /\ sessions' = [sessions EXCEPT ![s] = "gone"]
        /\ refused' = IF \E f \in finishing : f.session = s THEN refused ELSE refused \cup {s}
        /\ UNCHANGED <<registry, torn, saved, edits, appOf, finishing, codes, signedIn, taking, given,
                       orphaned>>
    BY <1>6 DEF CancelSignIn, WithoutSession
  <2>2. OidcTyped'
    BY <2>1 DEF OidcTyped
  <2>3. s \in refused' => \A c \in CodeIds : signedIn[c] # s
    BY <2>1 DEF OidcInv, CodesAreFinished
  <2>4. CodesAreFinished'
    BY <2>1, <2>3 DEF OidcInv, CodesAreFinished, RefusedGivesNoCode
  <2> QED
    BY <2>1, <2>2, <2>4 DEF OidcInv, OneEditAtATime, OneTokenPerCode, OrphansAreOfDeleted
<1>7. ASSUME NEW s \in SignIns, FinishBegin(s) PROVE OidcInv'
  <2>1. /\ sessions[s] = "asked" /\ finishing' = finishing \cup {Finish(s, 0)}
        /\ UNCHANGED <<registry, torn, saved, edits, sessions, appOf, codes, signedIn, taking, given,
                       refused, orphaned>>
    BY <1>7 DEF FinishBegin
  <2>2. Finish(s, 0) \in [session : SignIns, code : {0} \cup CodeIds]
    BY DEF Finish
  <2>3. OidcTyped'
    BY <2>1, <2>2 DEF OidcTyped
  <2>4. CodesAreFinished'
    BY <2>1 DEF OidcInv, CodesAreFinished, RefusedGivesNoCode
  <2> QED
    BY <2>1, <2>3, <2>4 DEF OidcInv, OneEditAtATime, OneTokenPerCode, OrphansAreOfDeleted
<1>8. ASSUME NEW s \in SignIns, FinishFails(s) PROVE OidcInv'
  <2>1. /\ finishing' = finishing \ {Finish(s, 0)}
        /\ UNCHANGED <<registry, torn, saved, edits, sessions, appOf, codes, signedIn, taking, given,
                       refused, orphaned>>
    BY <1>8 DEF FinishFails
  <2>2. \A f \in finishing : f.code # 0 => f \in finishing'
    BY <2>1
  <2>3. OidcTyped'
    BY <2>1 DEF OidcTyped
  <2>4. CodesAreFinished'
    BY <2>1, <2>2 DEF OidcInv, CodesAreFinished, RefusedGivesNoCode
  <2> QED
    BY <2>1, <2>3, <2>4 DEF OidcInv, OneEditAtATime, OneTokenPerCode, OrphansAreOfDeleted
<1>9. ASSUME NEW s \in SignIns, NEW c \in CodeIds, IssueCode(s, c) PROVE OidcInv'
  <2>1. /\ Finish(s, 0) \in finishing /\ signedIn[c] = 0
        /\ codes' = [codes EXCEPT ![c] = s] /\ signedIn' = [signedIn EXCEPT ![c] = s]
        /\ finishing' = (finishing \ {Finish(s, 0)}) \cup {Finish(s, c)}
        /\ orphaned' = IF registry[appOf[s]] = "deleted" THEN orphaned \cup {c} ELSE orphaned
        /\ UNCHANGED <<registry, torn, saved, edits, sessions, appOf, taking, given, refused>>
    BY <1>9 DEF IssueCode
  <2>2. Finish(s, c) \in [session : SignIns, code : {0} \cup CodeIds]
    BY DEF Finish
  <2>3. sessions[s] # "none" /\ s \notin refused /\ s # 0
    BY <2>1 DEF OidcInv, CodesAreFinished
  <2>4. given[c] = 0 /\ \A t \in taking : t.code # c
    BY <2>1 DEF OidcInv, OneTokenPerCode
  <2>5. \A f \in finishing : f.code # 0 => f \in finishing' /\ f.code # c
    BY <2>1, <2>3 DEF OidcInv, CodesAreFinished
  <2>6. OidcTyped'
    BY <2>1, <2>2 DEF OidcTyped
  <2>7. OneTokenPerCode'
    BY <2>1, <2>4 DEF OidcInv, OneTokenPerCode
  <2>8. CodesAreFinished'
    <3>1. \A f \in finishing' :
            sessions'[f.session] # "none" /\ (f.code # 0 => signedIn'[f.code] = f.session)
      BY <2>1, <2>3, <2>5 DEF OidcInv, CodesAreFinished
    <3>2. ASSUME NEW d \in CodeIds, signedIn'[d] # 0
          PROVE  \/ sessions'[signedIn'[d]] = "gone"
                 \/ /\ sessions'[signedIn'[d]] # "none"
                    /\ \E f \in finishing' : f.session = signedIn'[d] /\ f.code = d
      <4>1. CASE d = c
        BY <2>1, <2>3, <4>1
      <4>2. CASE d # c
        BY <2>1, <2>5, <3>2, <4>2 DEF OidcInv, CodesAreFinished
      <4> QED
        BY <4>1, <4>2
    <3>3. \A r \in refused' : sessions'[r] = "gone" /\ \A f \in finishing' : f.session # r
      BY <2>1, <2>3 DEF OidcInv, CodesAreFinished
    <3>4. RefusedGivesNoCode'
      BY <2>1, <2>3 DEF OidcInv, CodesAreFinished, RefusedGivesNoCode
    <3> QED
      BY <3>1, <3>2, <3>3, <3>4 DEF CodesAreFinished
  <2>9. OrphansAreOfDeleted'
    BY <2>1, <2>3, <2>4 DEF OidcInv, OrphansAreOfDeleted
  <2> QED
    BY <2>1, <2>6, <2>7, <2>8, <2>9 DEF OidcInv, OneEditAtATime
<1>10. ASSUME NEW f \in finishing, FinishEnd(f) PROVE OidcInv'
  <2>1. /\ f.code # 0 /\ f.session \in SignIns
        /\ sessions' = [sessions EXCEPT ![f.session] = "gone"]
        /\ finishing' = finishing \ {f}
        /\ UNCHANGED <<registry, torn, saved, edits, appOf, codes, signedIn, taking, given,
                       refused, orphaned>>
    BY <1>10 DEF FinishEnd
  <2>2. OidcTyped'
    BY <2>1 DEF OidcTyped
  <2>3. \A c \in CodeIds : signedIn[c] # 0 =>
          \/ sessions'[signedIn[c]] = "gone"
          \/ /\ sessions'[signedIn[c]] # "none"
             /\ \E g \in finishing' : g.session = signedIn[c] /\ g.code = c
    BY <2>1 DEF OidcInv, CodesAreFinished
  <2>4. CodesAreFinished'
    BY <2>1, <2>3 DEF OidcInv, CodesAreFinished, RefusedGivesNoCode
  <2> QED
    BY <2>1, <2>2, <2>4 DEF OidcInv, OneEditAtATime, OneTokenPerCode, OrphansAreOfDeleted
<1>11. ASSUME NEW c \in CodeIds, TakeCode(c) PROVE OidcInv'
  <2>1. PICK r \in {1, 2} :
          /\ codes[c] # 0 /\ codes' = [codes EXCEPT ![c] = 0]
          /\ taking' = taking \cup {[code |-> c, request |-> r]}
          /\ UNCHANGED <<registry, torn, saved, edits, sessions, appOf, finishing, signedIn, given,
                         refused, orphaned>>
    BY <1>11 DEF TakeCode, CodeTaken
  <2> DEFINE t == [code |-> c, request |-> r]
  <2>2. t \in [code : CodeIds, request : {1, 2}] /\ t.code = c
    OBVIOUS
  <2>3. taking' = taking \cup {t}
    BY <2>1
  <2> HIDE DEF t
  <2>4. signedIn[c] # 0 /\ given[c] = 0 /\ \A u \in taking : u.code # c
    BY <2>1 DEF OidcInv, OneTokenPerCode
  <2>5. OidcTyped'
    BY <2>1, <2>2, <2>3 DEF OidcTyped
  <2>6. OneTokenPerCode'
    BY <2>1, <2>2, <2>3, <2>4 DEF OidcInv, OneTokenPerCode
  <2> QED
    BY <2>1, <2>5, <2>6 DEF OidcInv, OneEditAtATime, CodesAreFinished, RefusedGivesNoCode,
       OrphansAreOfDeleted
<1>12. ASSUME NEW c \in CodeIds, CodeExpires(c) PROVE OidcInv'
  <2>1. /\ codes' = [codes EXCEPT ![c] = 0]
        /\ UNCHANGED <<registry, torn, saved, edits, sessions, appOf, finishing, signedIn, taking,
                       given, refused, orphaned>>
    BY <1>12 DEF CodeExpires
  <2>2. OidcTyped'
    BY <2>1 DEF OidcTyped
  <2>3. OneTokenPerCode'
    BY <2>1 DEF OidcInv, OneTokenPerCode
  <2> QED
    BY <2>1, <2>2, <2>3 DEF OidcInv, OneEditAtATime, CodesAreFinished, RefusedGivesNoCode,
       OrphansAreOfDeleted
<1>13. ASSUME NEW t \in taking, GiveToken(t) PROVE OidcInv'
  <2>1. /\ registry[appOf[signedIn[t.code]]] \in Registered /\ t.code \in CodeIds
        /\ given' = [given EXCEPT ![t.code] = @ + 1]
        /\ taking' = taking \ {t}
        /\ UNCHANGED <<registry, torn, saved, edits, sessions, appOf, finishing, codes, signedIn,
                       refused, orphaned>>
    BY <1>13 DEF GiveToken, StillKnown, Known
  <2>2. codes[t.code] = 0 /\ given[t.code] = 0 /\ signedIn[t.code] # 0
        /\ \A u \in taking' : u.code # t.code
    BY <2>1 DEF OidcInv, OneTokenPerCode
  <2>3. given' = [given EXCEPT ![t.code] = 1]
    BY <2>1, <2>2
  <2>4. OidcTyped'
    BY <2>1, <2>3 DEF OidcTyped
  <2>5. OneTokenPerCode'
    BY <2>1, <2>2, <2>3 DEF OidcInv, OneTokenPerCode
  <2>6. t.code \notin orphaned
    BY <2>1 DEF OidcInv, OrphansAreOfDeleted
  <2>7. OrphansAreOfDeleted'
    BY <2>1, <2>3, <2>6 DEF OidcInv, OrphansAreOfDeleted
  <2> QED
    BY <2>1, <2>4, <2>5, <2>7 DEF OidcInv, OneEditAtATime, CodesAreFinished, RefusedGivesNoCode
<1>14. ASSUME NEW t \in taking, RefuseToken(t) PROVE OidcInv'
  <2>1. /\ taking' = taking \ {t}
        /\ UNCHANGED <<registry, torn, saved, edits, sessions, appOf, finishing, codes, signedIn,
                       given, refused, orphaned>>
    BY <1>14 DEF RefuseToken
  <2> QED
    BY <2>1 DEF OidcInv, OidcTyped, OneEditAtATime, OneTokenPerCode, CodesAreFinished,
       RefusedGivesNoCode, OrphansAreOfDeleted
<1>15. CASE OidcCrash
  <2>1. /\ edits' = {} /\ finishing' = {} /\ taking' = {}
        /\ sessions' = [s \in SignIns |-> IF sessions[s] = "none" THEN "none" ELSE "gone"]
        /\ codes' = [c \in CodeIds |-> 0]
        /\ UNCHANGED <<registry, torn, saved, appOf, signedIn, given, refused, orphaned>>
    BY <1>15 DEF OidcCrash
  <2>2. OidcTyped'
    BY <2>1 DEF OidcTyped
  <2>3. OneTokenPerCode'
    BY <2>1 DEF OidcInv, OneTokenPerCode
  <2>4. CodesAreFinished'
    BY <2>1 DEF OidcInv, CodesAreFinished, RefusedGivesNoCode
  <2> QED
    BY <2>1, <2>2, <2>3, <2>4 DEF OidcInv, OneEditAtATime, OrphansAreOfDeleted
<1>16. CASE UNCHANGED oidcVars
  BY <1>16 DEF oidcVars, OidcInv, OidcTyped, OneEditAtATime, OneTokenPerCode, CodesAreFinished,
     RefusedGivesNoCode, OrphansAreOfDeleted
<1> QED
  BY <1>1, <1>2, <1>3, <1>4, <1>5, <1>6, <1>7, <1>8, <1>9, <1>10, <1>11, <1>12, <1>13, <1>14,
     <1>15, <1>16 DEF OidcNext

\* Between the steps of its handlers the provider lets go of its locks; yet each
\* code gives one token at most, none after its app was deleted, a refused
\* sign-in gives no code, and no edit of the registry is lost (services/oidc).
THEOREM SignInsSound == OidcSpec => []SignInsAreSound
<1>1. OidcInv => SignInsAreSound
  <2> SUFFICES ASSUME OidcInv PROVE SignInsAreSound
    OBVIOUS
  <2>1. TokenOnce
    BY OidcFacts DEF TokenOnce
  <2> QED
    BY <2>1 DEF OidcInv, OneEditAtATime, CodesAreFinished, OrphansAreOfDeleted, SignInsAreSound,
       DeletedAppGetsNoToken, RegistryIsWhatWasSaved
<1> QED
  BY OidcInitInv, OidcStepInv, <1>1, PTL DEF OidcSpec

-----------------------------------------------------------------------------
(* Egress.                                                                 *)

Changing == {"filter", "nat", "write"}
TokenOf(u) == IF u.token THEN {u.pid} ELSE {}

\* One process after the other.
OneProcess == \A p, q \in Processes : p < q /\ at[q] # "new" => at[p] = "gone"

\* What a process has in memory, by where it is.
InMemory ==
  \A p \in Processes :
    /\ at[p] \notin {"sweeping", "closing"} => rolling[p] = 1
    /\ ~Alive(p) => undo[p] = NoState
    /\ at[p] \in {"enable"} \cup Changing => undo[p] # NoState /\ undo[p].pid = p
    /\ at[p] \in {"up", "closing", "sweeping"} => undo[p] # NoState
    /\ at[p] # "up" => targets[p] = {}

\* All that was to be undone was, and what is left of it: the tokens but of the
\* processes that had not written their file, and if there are none, the switch.
Recordable == "failed" \notin excuses
Held == tokens \ unrecorded
ValueIs(old) == unrecorded = {} => old = original

\* The file has what a process that is gone or has egress up has changed ...
FileIsTrue ==
  stateFile # NoState =>
    /\ ValueIs(stateFile.old) /\ Held \subseteq TokenOf(stateFile)
    /\ at[stateFile.pid] \in {"up", "closing", "gone"}

\* ... without one nothing is changed, unless a process is just changing it ...
NoFileNoChange ==
  stateFile = NoState /\ (\A p \in Processes : at[p] \notin Changing) =>
    ValueIs(forwarding) /\ Held = {}

\* ... and the one that lives knows what it or its predecessor has changed.
Knows(p) ==
  /\ undo[p] # NoState => ValueIs(undo[p].old)
  /\ at[p] \in {"read", "enable"} \cup Changing => stateFile = NoState
  /\ at[p] \in {"nat", "write"} => Held \subseteq TokenOf(undo[p])
  /\ at[p] = "filter" => Held = {}
  /\ at[p] \in {"up", "closing", "sweeping"} =>
       stateFile = undo[p] \/ (p \in unrecorded /\ stateFile = NoState)
  /\ at[p] \in {"closing", "sweeping"} =>
       (rolling[p] > 2 => Held = {}) /\ (rolling[p] > 3 => ValueIs(forwarding))

Recorded ==
  Recordable =>
    FileIsTrue /\ NoFileNoChange /\ \A p \in Processes : Alive(p) => Knows(p)

\* A switch that was on stays on, whatever is recorded.
OnIsKept ==
  original = 1 =>
    /\ forwarding = 1 /\ (stateFile # NoState => stateFile.old = 1)
    /\ \A p \in Processes : undo[p] # NoState => undo[p].old = 1

\* The rules go first.
RulesRecorded ==
  excuses \subseteq {"overtaken"} /\ unrecorded = {} =>
    /\ stateFile = NoState /\ (\A p \in Processes : at[p] # "write") => nat = NoRules
    /\ \A p \in Processes :
         at[p] \in {"closing", "sweeping"} /\ rolling[p] > 1 => nat = NoRules

\* The rules of all targets are there, or about to be.
RulesFollow ==
  excuses = {} =>
    \A p \in Processes :
      /\ at[p] = "write" => nat = {}
      /\ at[p] = "up" => nat \subseteq targets[p] /\ (nat = targets[p] \/ targets[p] \in installs[p])

EgressInv ==
  EgressTypeOK /\ OneProcess /\ InMemory /\ Recorded /\ RulesRecorded /\ RulesFollow

LEMMA UndoOrderIs ==
  /\ Len(UndoOrder) = 4
  /\ UndoOrder[1] = "nat" /\ UndoOrder[2] = "token"
  /\ UndoOrder[3] = "forwarding" /\ UndoOrder[4] = "file"
BY DEF UndoOrder

LEMMA EgressFacts ==
  ASSUME EgressInv
  PROVE  /\ original \in Switch /\ forwarding \in Switch /\ tokens \subseteq Processes
         /\ nat = NoRules \/ nat \subseteq NatTargets
         /\ stateFile \in States /\ undo \in [Processes -> States]
         /\ at \in [Processes -> Places] /\ rolling \in [Processes -> 1..4]
         /\ targets \in [Processes -> SUBSET NatTargets]
         /\ installs \in [Processes -> SUBSET SUBSET NatTargets]
         /\ excuses \subseteq {"failed", "late", "overtaken"} /\ unrecorded \subseteq Processes
         /\ resolves \in 0..Resolves /\ egressFaults \in 0..EgressFaults
         /\ Resolves \in Nat /\ EgressFaults \in Nat
         /\ \A p \in Processes : p \in Nat /\ p # 0
BY EgressAssumption, UndoOrderIs DEF EgressInv, EgressTypeOK, Processes

LEMMA StatesAre ==
  /\ NoState \in States
  /\ \A u \in States : u # NoState => u.pid \in Processes /\ u.old \in Switch /\ u.token \in BOOLEAN
  /\ \A u \in States, b \in BOOLEAN : u # NoState =>
       /\ [u EXCEPT !.token = b] \in States /\ [u EXCEPT !.token = b] # NoState
       /\ [u EXCEPT !.token = b].pid = u.pid /\ [u EXCEPT !.token = b].old = u.old
       /\ [u EXCEPT !.token = b].token = b
  /\ \A p \in Processes, o \in Switch :
       /\ [pid |-> p, old |-> o, token |-> FALSE] \in States
       /\ [pid |-> p, old |-> o, token |-> FALSE] # NoState
<1>1. \A p \in Processes : p # 0
  BY DEF Processes
<1> QED
  BY <1>1 DEF States, NoState

\* While one process lives the others are gone, or have not been started.
LEMMA OneAlive ==
  ASSUME EgressInv, NEW p \in Processes, Alive(p)
  PROVE  \A q \in Processes : q # p => at[q] \in {"new", "gone"} /\ ~Alive(q)
<1> SUFFICES ASSUME NEW q \in Processes, q # p PROVE at[q] \in {"new", "gone"}
  BY DEF Alive
<1>1. CASE q < p
  BY <1>1 DEF EgressInv, OneProcess, Alive
<1>2. CASE p < q
  BY <1>2 DEF EgressInv, OneProcess, Alive
<1> QED
  BY <1>1, <1>2, EgressFacts

LEMMA Moved ==
  ASSUME EgressInv, NEW p \in Processes, Alive(p), NEW to \in Places \ {"new"},
         at' = [at EXCEPT ![p] = to]
  PROVE  /\ OneProcess' /\ at'[p] = to /\ at' \in [Processes -> Places]
         /\ \A q \in Processes : q # p => at'[q] = at[q] /\ at'[q] \in {"new", "gone"}
<1>1. /\ at'[p] = to /\ at' \in [Processes -> Places]
      /\ \A q \in Processes : q # p => at'[q] = at[q] /\ at'[q] \in {"new", "gone"}
  BY EgressFacts, OneAlive
<1>2. \A q, r \in Processes : q < r /\ at'[r] # "new" => at'[q] = "gone"
  BY <1>1, EgressFacts DEF EgressInv, OneProcess, Alive
<1> QED
  BY <1>1, <1>2 DEF OneProcess

LEMMA PlacesAre ==
  /\ "down" \in Places \ {"new"} /\ "sweeping" \in Places \ {"new"} /\ "up" \in Places \ {"new"}
  /\ "closing" \in Places \ {"new"} /\ "gone" \in Places \ {"new"} /\ "sweep" \in Places \ {"new"}
  /\ "read" \in Places \ {"new"} /\ "enable" \in Places \ {"new"} /\ "filter" \in Places \ {"new"}
  /\ "nat" \in Places \ {"new"} /\ "write" \in Places \ {"new"}
BY DEF Places, Opening

LEMMA Killed ==
  ASSUME EgressInv, NEW p \in Processes, Alive(p), at' = [at EXCEPT ![p] = "gone"]
  PROVE  /\ OneProcess' /\ at'[p] = "gone" /\ at' \in [Processes -> Places]
         /\ \A q \in Processes : q # p => at'[q] = at[q]
BY Moved, PlacesAre

LEMMA EgressInitInv == EgressInit => EgressInv
<1> SUFFICES ASSUME EgressInit PROVE EgressInv
  OBVIOUS
<1>1. EgressTypeOK
  BY EgressAssumption, UndoOrderIs, StatesAre DEF EgressInit, EgressTypeOK, Places, Switch
<1>2. OneProcess /\ InMemory
  BY DEF EgressInit, OneProcess, InMemory, Changing
<1>3. Recorded /\ RulesRecorded /\ RulesFollow
  BY DEF EgressInit, Held, ValueIs, Recorded, FileIsTrue, NoFileNoChange, Alive, RulesRecorded, RulesFollow, history
<1> QED
  BY <1>1, <1>2, <1>3 DEF EgressInv

LEMMA EgressMoveInv ==
  ASSUME EgressInv, NEW p \in Processes,
         Open(p) \/ ReadForwarding(p) \/ EnableForwarding(p) \/ Close(p) \/ Quit(p)
  PROVE  EgressInv'
<1> USE EgressFacts, StatesAre
<1>1. CASE Open(p)
  <2>0. Move(p, "down", "sweep")
        /\ UNCHANGED <<original, rolling, system, undo, handlers, history, egressFaults>>
    BY <1>1 DEF Open
  <2>1. /\ at[p] = "down" /\ at' = [at EXCEPT ![p] = "sweep"]
        /\ UNCHANGED <<original, forwarding, tokens, nat, stateFile, rolling, undo, targets, installs, unrecorded, excuses, resolves, egressFaults>>
    BY <2>0, ZenonT(30) DEF Move, system, handlers, history
  <2>2. Alive(p) /\ \A q \in Processes : q # p => at[q] \in {"new", "gone"}
    BY <2>1, OneAlive DEF Alive
  <2>3. /\ OneProcess' /\ at'[p] = "sweep" /\ at' \in [Processes -> Places]
        /\ \A q \in Processes : q # p => at'[q] = at[q]
    BY <2>1, <2>2, Moved, PlacesAre, ZenonT(30)
  <2>4. EgressTypeOK'
    BY <2>1, <2>3, UndoOrderIs DEF EgressTypeOK
  <2>5. InMemory'
    BY <2>1, <2>2, <2>3 DEF EgressInv, InMemory, Alive, Changing
  <2>6. Recorded'
    BY <2>1, <2>2, <2>3 DEF EgressInv, InMemory, Recorded, Recordable, FileIsTrue, NoFileNoChange,
       Knows, Held, ValueIs, TokenOf, Changing, Alive
  <2>7. RulesRecorded'
    BY <2>1, <2>2, <2>3 DEF EgressInv, InMemory, Recorded, Recordable, Knows, RulesRecorded, Changing, Alive
  <2>8. RulesFollow'
    BY <2>1, <2>2, <2>3 DEF EgressInv, InMemory, RulesFollow
  <2> QED
    BY <2>3, <2>4, <2>5, <2>6, <2>7, <2>8 DEF EgressInv
<1>2. CASE ReadForwarding(p)
  <2>1. /\ at[p] = "read" /\ at' = [at EXCEPT ![p] = "enable"]
        /\ undo' = [undo EXCEPT ![p] = [pid |-> p, old |-> forwarding, token |-> FALSE]]
        /\ UNCHANGED <<original, forwarding, tokens, nat, stateFile, rolling, targets, installs, unrecorded, excuses, resolves, egressFaults>>
    BY <1>2 DEF ReadForwarding, Move, system, handlers, history
  <2>2. Alive(p) /\ \A q \in Processes : q # p => at[q] \in {"new", "gone"}
    BY <2>1, OneAlive DEF Alive
  <2>3. /\ OneProcess' /\ at'[p] = "enable" /\ at' \in [Processes -> Places]
        /\ \A q \in Processes : q # p => at'[q] = at[q]
    BY <2>1, <2>2, Moved, PlacesAre, ZenonT(30)
  <2>4. EgressTypeOK'
    BY <2>1, <2>3, UndoOrderIs DEF EgressTypeOK
  <2>5. InMemory'
    BY <2>1, <2>2, <2>3 DEF EgressInv, InMemory, Alive, Changing
  <2>6. Recorded'
    BY <2>1, <2>2, <2>3 DEF EgressInv, InMemory, Recorded, Recordable, FileIsTrue, NoFileNoChange,
       Knows, Held, ValueIs, TokenOf, Changing, Alive
  <2>7. RulesRecorded'
    BY <2>1, <2>2, <2>3 DEF EgressInv, InMemory, Recorded, Recordable, Knows, RulesRecorded, Changing, Alive
  <2>8. RulesFollow'
    BY <2>1, <2>2, <2>3 DEF EgressInv, InMemory, RulesFollow
  <2> QED
    BY <2>3, <2>4, <2>5, <2>6, <2>7, <2>8 DEF EgressInv
<1>3. CASE EnableForwarding(p)
  <2>1. /\ at[p] = "enable" /\ at' = [at EXCEPT ![p] = "filter"]
        /\ forwarding' = 1
        /\ UNCHANGED <<original, tokens, nat, stateFile, rolling, undo, targets, installs, unrecorded, excuses, resolves, egressFaults>>
    BY <1>3 DEF EnableForwarding, Move, system, handlers, history
  <2>2. Alive(p) /\ \A q \in Processes : q # p => at[q] \in {"new", "gone"}
    BY <2>1, OneAlive DEF Alive
  <2>3. /\ OneProcess' /\ at'[p] = "filter" /\ at' \in [Processes -> Places]
        /\ \A q \in Processes : q # p => at'[q] = at[q]
    BY <2>1, <2>2, Moved, PlacesAre, ZenonT(30)
  <2>4. EgressTypeOK'
    BY <2>1, <2>3, UndoOrderIs DEF EgressTypeOK, Switch
  <2>5. InMemory'
    BY <2>1, <2>2, <2>3 DEF EgressInv, InMemory, Alive, Changing
  <2>6. Recorded'
    BY <2>1, <2>2, <2>3 DEF EgressInv, InMemory, Recorded, Recordable, FileIsTrue, NoFileNoChange,
       Knows, Held, ValueIs, TokenOf, Changing, Alive
  <2>7. RulesRecorded'
    BY <2>1, <2>2, <2>3 DEF EgressInv, InMemory, Recorded, Recordable, Knows, RulesRecorded, Changing, Alive
  <2>8. RulesFollow'
    BY <2>1, <2>2, <2>3 DEF EgressInv, InMemory, RulesFollow
  <2> QED
    BY <2>3, <2>4, <2>5, <2>6, <2>7, <2>8 DEF EgressInv
<1>4. CASE Close(p)
  <2>1. /\ at[p] = "up" /\ at' = [at EXCEPT ![p] = "closing"]
        /\ targets' = [targets EXCEPT ![p] = {}]
        /\ UNCHANGED <<original, forwarding, tokens, nat, stateFile, rolling, undo, installs, unrecorded, excuses, resolves, egressFaults>>
    BY <1>4 DEF Close, Move, system, handlers, history
  <2>2. Alive(p) /\ \A q \in Processes : q # p => at[q] \in {"new", "gone"}
    BY <2>1, OneAlive DEF Alive
  <2>3. /\ OneProcess' /\ at'[p] = "closing" /\ at' \in [Processes -> Places]
        /\ \A q \in Processes : q # p => at'[q] = at[q]
    BY <2>1, <2>2, Moved, PlacesAre, ZenonT(30)
  <2>4. EgressTypeOK'
    BY <2>1, <2>3, UndoOrderIs DEF EgressTypeOK
  <2>5. InMemory'
    BY <2>1, <2>2, <2>3 DEF EgressInv, InMemory, Alive, Changing
  <2>6. Recorded'
    BY <2>1, <2>2, <2>3 DEF EgressInv, InMemory, Recorded, Recordable, FileIsTrue, NoFileNoChange,
       Knows, Held, ValueIs, TokenOf, Changing, Alive
  <2>7. RulesRecorded'
    BY <2>1, <2>2, <2>3 DEF EgressInv, InMemory, Recorded, Recordable, Knows, RulesRecorded, Changing, Alive
  <2>8. RulesFollow'
    BY <2>1, <2>2, <2>3 DEF EgressInv, InMemory, RulesFollow
  <2> QED
    BY <2>3, <2>4, <2>5, <2>6, <2>7, <2>8 DEF EgressInv
<1>5. CASE Quit(p)
  <2>1. /\ at[p] = "down" /\ at' = [at EXCEPT ![p] = "gone"]
        /\ undo' = [undo EXCEPT ![p] = NoState] /\ rolling' = [rolling EXCEPT ![p] = 1]
        /\ targets' = [targets EXCEPT ![p] = {}] /\ installs' = [installs EXCEPT ![p] = {}]
        /\ UNCHANGED <<original, forwarding, tokens, nat, stateFile, unrecorded, excuses, resolves, egressFaults>>
    BY <1>5 DEF Quit, Move, system, handlers, history, Forgotten
  <2>2. Alive(p) /\ \A q \in Processes : q # p => at[q] \in {"new", "gone"}
    BY <2>1, OneAlive DEF Alive
  <2>3. /\ OneProcess' /\ at'[p] = "gone" /\ at' \in [Processes -> Places]
        /\ \A q \in Processes : q # p => at'[q] = at[q]
    BY <2>1, <2>2, Killed
  <2>4. EgressTypeOK'
    BY <2>1, <2>3, UndoOrderIs DEF EgressTypeOK
  <2>5. InMemory'
    BY <2>1, <2>2, <2>3 DEF EgressInv, InMemory, Alive, Changing
  <2>6. Recorded'
    BY <2>1, <2>2, <2>3 DEF EgressInv, InMemory, Recorded, Recordable, FileIsTrue, NoFileNoChange,
       Knows, Held, ValueIs, TokenOf, Changing, Alive
  <2>7. RulesRecorded'
    BY <2>1, <2>2, <2>3 DEF EgressInv, InMemory, Recorded, Recordable, Knows, RulesRecorded, Changing, Alive
  <2>8. RulesFollow'
    BY <2>1, <2>2, <2>3 DEF EgressInv, InMemory, RulesFollow
  <2> QED
    BY <2>3, <2>4, <2>5, <2>6, <2>7, <2>8 DEF EgressInv
<1> QED
  BY <1>1, <1>2, <1>3, <1>4, <1>5

LEMMA EgressOpenInv ==
  ASSUME EgressInv, NEW p \in Processes, EnableFilter(p) \/ InstallNat(p) \/ WriteState(p)
  PROVE  EgressInv'
<1> USE EgressFacts, StatesAre
<1> USE DEF Move, Fault, Excuse, system, handlers, history
<1>0. at[p] \in {"filter", "nat", "write"} => undo[p] # NoState /\ undo[p].pid = p /\ undo[p].old \in Switch
  BY DEF EgressInv, InMemory, Changing
<1>1. ASSUME NEW token \in BOOLEAN, Move(p, "filter", "nat"),
             undo' = [undo EXCEPT ![p].token = token],
             tokens' = IF token THEN tokens \cup {p} ELSE tokens,
             UNCHANGED <<original, rolling, forwarding, nat, stateFile, handlers, history, egressFaults>>
      PROVE  EgressInv'
  <2>1. /\ at[p] = "filter" /\ at' = [at EXCEPT ![p] = "nat"]
        /\ undo' = [undo EXCEPT ![p] = [undo[p] EXCEPT !.token = token]]
        /\ tokens' = IF token THEN tokens \cup {p} ELSE tokens
        /\ UNCHANGED <<original, forwarding, nat, stateFile, rolling, targets, installs, unrecorded, excuses, resolves, egressFaults>>
    BY <1>1
  <2>2. Alive(p) /\ \A q \in Processes : q # p => at[q] \in {"new", "gone"}
    BY <2>1, OneAlive DEF Alive
  <2>3. /\ OneProcess' /\ at'[p] = "nat" /\ at' \in [Processes -> Places]
        /\ \A q \in Processes : q # p => at'[q] = at[q]
    BY <2>1, <2>2, Moved, PlacesAre, ZenonT(30)
  <2>9. undo'[p] \in States /\ undo'[p] # NoState /\ undo'[p].pid = p /\ undo'[p].old = undo[p].old
        /\ undo'[p].token = token
        /\ undo' \in [Processes -> States] /\ \A q \in Processes : q # p => undo'[q] = undo[q]
    BY <1>0, <2>1
  <2>4. EgressTypeOK'
    BY <2>1, <2>3, UndoOrderIs, <2>9 DEF EgressTypeOK
  <2>5. InMemory'
    BY <1>0, <2>1, <2>2, <2>3, <2>9 DEF EgressInv, InMemory, Alive, Changing
  <2>6. Recorded'
    BY <1>0, <2>1, <2>2, <2>3, <2>9 DEF EgressInv, InMemory, Recorded, Recordable, FileIsTrue, NoFileNoChange,
       Knows, Held, ValueIs, TokenOf, Changing, Alive
  <2>7. RulesRecorded'
    BY <1>0, <2>1, <2>2, <2>3, <2>9 DEF EgressInv, InMemory, Recorded, Recordable, Knows, RulesRecorded, Changing, Alive
  <2>8. RulesFollow'
    BY <1>0, <2>1, <2>2, <2>3, <2>9 DEF EgressInv, InMemory, RulesFollow
  <2> QED
    BY <2>3, <2>4, <2>5, <2>6, <2>7, <2>8 DEF EgressInv
<1>2. ASSUME Move(p, "filter", "down"), Fault, forwarding' = undo[p].old,
             UNCHANGED <<original, rolling, tokens, nat, stateFile, undo, handlers, history>>
      PROVE  EgressInv'
  <2>1. /\ at[p] = "filter" /\ at' = [at EXCEPT ![p] = "down"]
        /\ egressFaults > 0 /\ egressFaults' = egressFaults - 1
        /\ forwarding' = undo[p].old
        /\ UNCHANGED <<original, tokens, nat, stateFile, rolling, undo, targets, installs, unrecorded, excuses, resolves>>
    BY <1>2
  <2>2. Alive(p) /\ \A q \in Processes : q # p => at[q] \in {"new", "gone"}
    BY <2>1, OneAlive DEF Alive
  <2>3. /\ OneProcess' /\ at'[p] = "down" /\ at' \in [Processes -> Places]
        /\ \A q \in Processes : q # p => at'[q] = at[q]
    BY <2>1, <2>2, Moved, PlacesAre, ZenonT(30)
  <2>4. EgressTypeOK'
    BY <2>1, <2>3, UndoOrderIs, <1>0 DEF EgressTypeOK
  <2>5. InMemory'
    BY <2>1, <2>2, <2>3 DEF EgressInv, InMemory, Alive, Changing
  <2>6. Recorded'
    BY <2>1, <2>2, <2>3 DEF EgressInv, InMemory, Recorded, Recordable, FileIsTrue, NoFileNoChange,
       Knows, Held, ValueIs, TokenOf, Changing, Alive
  <2>7. RulesRecorded'
    BY <2>1, <2>2, <2>3 DEF EgressInv, InMemory, Recorded, Recordable, Knows, RulesRecorded, Changing, Alive
  <2>8. RulesFollow'
    BY <2>1, <2>2, <2>3 DEF EgressInv, InMemory, RulesFollow
  <2> QED
    BY <2>3, <2>4, <2>5, <2>6, <2>7, <2>8 DEF EgressInv
<1>3. ASSUME Move(p, "nat", "write"), nat' = {},
             UNCHANGED <<original, rolling, forwarding, tokens, stateFile, undo, handlers, history, egressFaults>>
      PROVE  EgressInv'
  <2>1. /\ at[p] = "nat" /\ at' = [at EXCEPT ![p] = "write"]
        /\ nat' = {}
        /\ UNCHANGED <<original, forwarding, tokens, stateFile, rolling, undo, targets, installs, unrecorded, excuses, resolves, egressFaults>>
    BY <1>3
  <2>2. Alive(p) /\ \A q \in Processes : q # p => at[q] \in {"new", "gone"}
    BY <2>1, OneAlive DEF Alive
  <2>3. /\ OneProcess' /\ at'[p] = "write" /\ at' \in [Processes -> Places]
        /\ \A q \in Processes : q # p => at'[q] = at[q]
    BY <2>1, <2>2, Moved, PlacesAre, ZenonT(30)
  <2>4. EgressTypeOK'
    BY <2>1, <2>3, UndoOrderIs DEF EgressTypeOK
  <2>5. InMemory'
    BY <2>1, <2>2, <2>3 DEF EgressInv, InMemory, Alive, Changing
  <2>6. Recorded'
    BY <2>1, <2>2, <2>3 DEF EgressInv, InMemory, Recorded, Recordable, FileIsTrue, NoFileNoChange,
       Knows, Held, ValueIs, TokenOf, Changing, Alive
  <2>7. RulesRecorded'
    BY <2>1, <2>2, <2>3 DEF EgressInv, InMemory, Recorded, Recordable, Knows, RulesRecorded, Changing, Alive
  <2>8. RulesFollow'
    BY <2>1, <2>2, <2>3 DEF EgressInv, InMemory, RulesFollow
  <2> QED
    BY <2>3, <2>4, <2>5, <2>6, <2>7, <2>8 DEF EgressInv
<1>4. ASSUME Move(p, "nat", "down"), Fault, tokens' = tokens \ {p}, forwarding' = undo[p].old,
             UNCHANGED <<original, rolling, nat, stateFile, undo, handlers, history>>
      PROVE  EgressInv'
  <2>1. /\ at[p] = "nat" /\ at' = [at EXCEPT ![p] = "down"]
        /\ egressFaults > 0 /\ egressFaults' = egressFaults - 1
        /\ tokens' = tokens \ {p} /\ forwarding' = undo[p].old
        /\ UNCHANGED <<original, nat, stateFile, rolling, undo, targets, installs, unrecorded, excuses, resolves>>
    BY <1>4
  <2>2. Alive(p) /\ \A q \in Processes : q # p => at[q] \in {"new", "gone"}
    BY <2>1, OneAlive DEF Alive
  <2>3. /\ OneProcess' /\ at'[p] = "down" /\ at' \in [Processes -> Places]
        /\ \A q \in Processes : q # p => at'[q] = at[q]
    BY <2>1, <2>2, Moved, PlacesAre, ZenonT(30)
  <2>4. EgressTypeOK'
    BY <2>1, <2>3, UndoOrderIs, <1>0 DEF EgressTypeOK
  <2>5. InMemory'
    BY <1>0, <2>1, <2>2, <2>3 DEF EgressInv, InMemory, Alive, Changing
  <2>6. Recorded'
    BY <1>0, <2>1, <2>2, <2>3 DEF EgressInv, InMemory, Recorded, Recordable, FileIsTrue, NoFileNoChange,
       Knows, Held, ValueIs, TokenOf, Changing, Alive
  <2>7. RulesRecorded'
    BY <1>0, <2>1, <2>2, <2>3 DEF EgressInv, InMemory, Recorded, Recordable, Knows, RulesRecorded, Changing, Alive
  <2>8. RulesFollow'
    BY <1>0, <2>1, <2>2, <2>3 DEF EgressInv, InMemory, RulesFollow
  <2> QED
    BY <2>3, <2>4, <2>5, <2>6, <2>7, <2>8 DEF EgressInv
<1>5. ASSUME Move(p, "write", "up"), stateFile' = undo[p],
             UNCHANGED <<original, rolling, forwarding, tokens, nat, undo, handlers, history, egressFaults>>
      PROVE  EgressInv'
  <2>1. /\ at[p] = "write" /\ at' = [at EXCEPT ![p] = "up"]
        /\ stateFile' = undo[p]
        /\ UNCHANGED <<original, forwarding, tokens, nat, rolling, undo, targets, installs, unrecorded, excuses, resolves, egressFaults>>
    BY <1>5
  <2>2. Alive(p) /\ \A q \in Processes : q # p => at[q] \in {"new", "gone"}
    BY <2>1, OneAlive DEF Alive
  <2>3. /\ OneProcess' /\ at'[p] = "up" /\ at' \in [Processes -> Places]
        /\ \A q \in Processes : q # p => at'[q] = at[q]
    BY <2>1, <2>2, Moved, PlacesAre, ZenonT(30)
  <2>4. EgressTypeOK'
    BY <2>1, <2>3, UndoOrderIs DEF EgressTypeOK
  <2>5. InMemory'
    BY <1>0, <2>1, <2>2, <2>3 DEF EgressInv, InMemory, Alive, Changing
  <2>6. Recorded'
    BY <1>0, <2>1, <2>2, <2>3 DEF EgressInv, InMemory, Recorded, Recordable, FileIsTrue, NoFileNoChange,
       Knows, Held, ValueIs, TokenOf, Changing, Alive
  <2>7. RulesRecorded'
    BY <1>0, <2>1, <2>2, <2>3 DEF EgressInv, InMemory, Recorded, Recordable, Knows, RulesRecorded, Changing, Alive
  <2>8. RulesFollow'
    BY <1>0, <2>1, <2>2, <2>3 DEF EgressInv, InMemory, RulesFollow
  <2> QED
    BY <2>3, <2>4, <2>5, <2>6, <2>7, <2>8 DEF EgressInv
<1>6. ASSUME Move(p, "write", "up"), Fault, unrecorded' = unrecorded \cup {p},
             UNCHANGED <<original, rolling, forwarding, tokens, nat, stateFile, undo, handlers, excuses>>
      PROVE  EgressInv'
  <2>1. /\ at[p] = "write" /\ at' = [at EXCEPT ![p] = "up"]
        /\ egressFaults > 0 /\ egressFaults' = egressFaults - 1
        /\ unrecorded' = unrecorded \cup {p} /\ unrecorded' # {}
        /\ UNCHANGED <<original, forwarding, tokens, nat, stateFile, rolling, undo, targets, installs, excuses, resolves>>
    BY <1>6
  <2>2. Alive(p) /\ \A q \in Processes : q # p => at[q] \in {"new", "gone"}
    BY <2>1, OneAlive DEF Alive
  <2>3. /\ OneProcess' /\ at'[p] = "up" /\ at' \in [Processes -> Places]
        /\ \A q \in Processes : q # p => at'[q] = at[q]
    BY <2>1, <2>2, Moved, PlacesAre, ZenonT(30)
  <2>4. EgressTypeOK'
    BY <2>1, <2>3, UndoOrderIs DEF EgressTypeOK
  <2>5. InMemory'
    BY <2>1, <2>2, <2>3 DEF EgressInv, InMemory, Alive, Changing
  <2>6. Recorded'
    BY <2>1, <2>2, <2>3 DEF EgressInv, InMemory, Recorded, Recordable, FileIsTrue, NoFileNoChange,
       Knows, Held, ValueIs, TokenOf, Changing, Alive
  <2>7. RulesRecorded'
    BY <2>1, <2>2, <2>3 DEF EgressInv, InMemory, Recorded, Recordable, Knows, RulesRecorded, Changing, Alive
  <2>8. RulesFollow'
    BY <2>1, <2>2, <2>3 DEF EgressInv, InMemory, RulesFollow
  <2> QED
    BY <2>3, <2>4, <2>5, <2>6, <2>7, <2>8 DEF EgressInv
<1> QED
  BY <1>1, <1>2, <1>3, <1>4, <1>5, <1>6 DEF EnableFilter, InstallNat, WriteState

\* A roll-back is one of four calls, the last of which ends it; or the call fails.
LEMMA RollBackIs ==
  ASSUME EgressInv, NEW p \in Processes, RollBack(p)
  PROVE  /\ UNCHANGED <<original, targets, installs, resolves, unrecorded>>
         /\ \/ /\ at[p] \in {"sweeping", "closing"} /\ rolling[p] \in 1..3
               /\ rolling' = [rolling EXCEPT ![p] = @ + 1] /\ UNCHANGED <<at, undo>>
            \/ /\ rolling[p] = 4
               /\ \/ at[p] = "sweeping" /\ at' = [at EXCEPT ![p] = "read"]
                  \/ at[p] = "closing" /\ at' = [at EXCEPT ![p] = "down"]
               /\ rolling' = [rolling EXCEPT ![p] = 1]
               /\ undo' = [undo EXCEPT ![p] = NoState]
         /\ \/ /\ nat' = IF rolling[p] = 1 THEN NoRules ELSE nat
               /\ tokens' = IF rolling[p] = 2 /\ undo[p].token THEN tokens \ {undo[p].pid} ELSE tokens
               /\ forwarding' = IF rolling[p] = 3 THEN undo[p].old ELSE forwarding
               /\ stateFile' = IF rolling[p] = 4 THEN NoState ELSE stateFile
               /\ UNCHANGED <<excuses, egressFaults>>
            \/ /\ egressFaults > 0 /\ egressFaults' = egressFaults - 1
               /\ excuses' = excuses \cup {"failed"}
               /\ UNCHANGED <<nat, tokens, forwarding, stateFile>>
<1> USE EgressFacts, UndoOrderIs
<1>1. rolling[p] \in 1..4
  OBVIOUS
<1>2. /\ (UndoOrder[rolling[p]] = "nat") <=> rolling[p] = 1
      /\ (UndoOrder[rolling[p]] = "token") <=> rolling[p] = 2
      /\ (UndoOrder[rolling[p]] = "forwarding") <=> rolling[p] = 3
      /\ (UndoOrder[rolling[p]] = "file") <=> rolling[p] = 4
  BY <1>1
<1>3. /\ UNCHANGED <<original, targets, installs, resolves, unrecorded>>
      /\ \/ Undone(p, UndoOrder[rolling[p]]) /\ UNCHANGED <<excuses, egressFaults>>
         \/ Fault /\ Excuse("failed") /\ UNCHANGED <<forwarding, tokens, nat, stateFile>>
  BY DEF RollBack, handlers, system
<1>4. \/ /\ at[p] \in {"sweeping", "closing"} /\ rolling[p] \in 1..3
         /\ rolling' = [rolling EXCEPT ![p] = @ + 1] /\ UNCHANGED <<at, undo>>
      \/ /\ rolling[p] = 4
         /\ \/ at[p] = "sweeping" /\ at' = [at EXCEPT ![p] = "read"]
            \/ at[p] = "closing" /\ at' = [at EXCEPT ![p] = "down"]
         /\ rolling' = [rolling EXCEPT ![p] = 1]
         /\ undo' = [undo EXCEPT ![p] = NoState]
  BY <1>1 DEF RollBack, Move
<1> QED
  BY <1>2, <1>3, <1>4 DEF Undone, Fault, Excuse

LEMMA EgressRollBackInv ==
  ASSUME EgressInv, NEW p \in Processes, RollBack(p)
  PROVE  EgressInv'
<1> USE EgressFacts, StatesAre
<1>1. at[p] \in {"sweeping", "closing"} /\ Alive(p)
      /\ \A q \in Processes : q # p => at[q] \in {"new", "gone"}
  <2>1. at[p] \in {"sweeping", "closing"} /\ Alive(p)
    BY RollBackIs DEF Alive
  <2> QED
    BY <2>1, OneAlive
<1>2. undo[p] # NoState
  BY <1>1 DEF EgressInv, InMemory
<1>8. Recordable => /\ stateFile = undo[p] \/ (p \in unrecorded /\ stateFile = NoState)
                    /\ ValueIs(undo[p].old) /\ Held \subseteq TokenOf(undo[p])
                    /\ (rolling[p] > 2 => Held = {}) /\ (rolling[p] > 3 => ValueIs(forwarding))
  <2> SUFFICES ASSUME Recordable
      PROVE /\ stateFile = undo[p] \/ (p \in unrecorded /\ stateFile = NoState)
            /\ ValueIs(undo[p].old) /\ Held \subseteq TokenOf(undo[p])
            /\ (rolling[p] > 2 => Held = {}) /\ (rolling[p] > 3 => ValueIs(forwarding))
    OBVIOUS
  <2>1. Knows(p) /\ FileIsTrue /\ NoFileNoChange
    BY <1>1 DEF EgressInv, Recorded
  <2>2. \A q \in Processes : at[q] \notin Changing
    BY <1>1 DEF Changing
  <2>3. stateFile = NoState => Held = {}
    BY <2>1, <2>2 DEF NoFileNoChange
  <2> QED
    BY <1>1, <1>2, <2>1, <2>3 DEF Knows, FileIsTrue
<1>3. undo[p].old \in Switch
  <2>1. undo[p] \in States /\ NoState.old = 0
    BY DEF NoState
  <2> QED
    BY <2>1 DEF Switch
<1>4. tokens' \subseteq tokens /\ forwarding' \in Switch /\ (nat' = nat \/ nat' = NoRules)
      /\ stateFile' \in {stateFile, NoState} /\ egressFaults' \in 0..EgressFaults
      /\ excuses' \subseteq {"failed", "late", "overtaken"}
      /\ excuses \subseteq excuses'
      /\ UNCHANGED <<original, targets, installs, resolves, unrecorded>>
  BY <1>3, RollBackIs
<1>5. Recordable' => /\ Recordable
                     /\ nat' = IF rolling[p] = 1 THEN NoRules ELSE nat
                     /\ Held' \subseteq Held /\ (rolling[p] > 1 => Held' = {})
                     /\ IF rolling[p] = 3 THEN ValueIs(forwarding)' ELSE forwarding' = forwarding
                     /\ stateFile' = IF rolling[p] = 4 THEN NoState ELSE stateFile
                     /\ excuses' = excuses
  <2> SUFFICES ASSUME Recordable'
      PROVE /\ Recordable
            /\ nat' = IF rolling[p] = 1 THEN NoRules ELSE nat
            /\ Held' \subseteq Held /\ (rolling[p] > 1 => Held' = {})
            /\ IF rolling[p] = 3 THEN ValueIs(forwarding)' ELSE forwarding' = forwarding
            /\ stateFile' = IF rolling[p] = 4 THEN NoState ELSE stateFile
            /\ excuses' = excuses
    OBVIOUS
  <2>1. Recordable
    BY <1>4 DEF Recordable
  <2>2. /\ nat' = IF rolling[p] = 1 THEN NoRules ELSE nat
        /\ tokens' = IF rolling[p] = 2 /\ undo[p].token THEN tokens \ {undo[p].pid} ELSE tokens
        /\ forwarding' = IF rolling[p] = 3 THEN undo[p].old ELSE forwarding
        /\ stateFile' = IF rolling[p] = 4 THEN NoState ELSE stateFile
        /\ excuses' = excuses
    BY RollBackIs DEF Recordable
  <2>3. Held' \subseteq Held /\ (rolling[p] > 1 => Held' = {})
    BY <1>4, <1>8, <2>1, <2>2 DEF TokenOf, Held
  <2>4. rolling[p] = 3 => ValueIs(forwarding)'
    BY <1>4, <1>8, <2>1, <2>2 DEF ValueIs
  <2> QED
    BY <2>1, <2>2, <2>3, <2>4
<1>6. CASE rolling[p] \in 1..3 /\ rolling' = [rolling EXCEPT ![p] = @ + 1] /\ UNCHANGED <<at, undo>>
  <2>1. /\ rolling' \in [Processes -> 1..4] /\ rolling'[p] = rolling[p] + 1
        /\ \A q \in Processes : q # p => rolling'[q] = rolling[q]
    BY <1>6
  <2>2. EgressTypeOK'
    BY <1>4, <1>6, <2>1, UndoOrderIs DEF EgressTypeOK
  <2>3. OneProcess' /\ InMemory'
    BY <1>1, <1>4, <1>6, <2>1 DEF EgressInv, OneProcess, InMemory, Alive, Changing
  <2>4. Recorded'
    BY <1>1, <1>2, <1>8, <1>4, <1>5, <1>6, <2>1 DEF EgressInv, Recorded, FileIsTrue,
       NoFileNoChange, Knows, Held, ValueIs, TokenOf, Changing, Alive
  <2>5. RulesRecorded'
    BY <1>1, <1>4, <1>5, <1>6, <2>1 DEF EgressInv, RulesRecorded, Recordable
  <2>6. RulesFollow'
    BY <1>1, <1>6 DEF EgressInv, RulesFollow
  <2> QED
    BY <2>2, <2>3, <2>4, <2>5, <2>6 DEF EgressInv
<1>7. CASE /\ rolling[p] = 4 /\ rolling' = [rolling EXCEPT ![p] = 1]
           /\ undo' = [undo EXCEPT ![p] = NoState]
           /\ at' = [at EXCEPT ![p] = "read"] \/ at' = [at EXCEPT ![p] = "down"]
  <2>1. /\ OneProcess' /\ at'[p] \in {"read", "down"} /\ at' \in [Processes -> Places]
        /\ \A q \in Processes : q # p => at'[q] = at[q]
    BY <1>1, <1>7, Moved DEF Places, Opening
  <2>2. EgressTypeOK'
    BY <1>4, <1>7, <2>1, UndoOrderIs DEF EgressTypeOK
  <2>3. InMemory'
    BY <1>1, <1>4, <1>7, <2>1 DEF EgressInv, InMemory, Alive, Changing
  <2>4. Recorded'
    BY <1>1, <1>2, <1>8, <1>4, <1>5, <1>7, <2>1 DEF EgressInv, Recorded, FileIsTrue,
       NoFileNoChange, Knows, Held, ValueIs, TokenOf, Changing, Alive
  <2>5. RulesRecorded'
    BY <1>1, <1>4, <1>5, <1>7, <2>1 DEF EgressInv, RulesRecorded, Recordable
  <2>6. RulesFollow'
    BY <1>1, <2>1 DEF EgressInv, RulesFollow
  <2> QED
    BY <2>1, <2>2, <2>3, <2>4, <2>5, <2>6 DEF EgressInv
<1> QED
  BY <1>6, <1>7, RollBackIs

LEMMA EgressSweepInv ==
  ASSUME EgressInv, NEW p \in Processes, Sweep(p)
  PROVE  EgressInv'
<1> USE EgressFacts, StatesAre
<1> DEFINE to == IF Leftover THEN "sweeping" ELSE "read"
           found == IF Leftover THEN stateFile ELSE NoState
<1>1. /\ at[p] = "sweep" /\ at' = [at EXCEPT ![p] = to]
      /\ undo' = [undo EXCEPT ![p] = found]
      /\ UNCHANGED <<original, rolling, forwarding, tokens, nat, stateFile, targets, installs,
                     resolves, unrecorded, excuses, egressFaults>>
  BY DEF Sweep, Move, system, handlers, history
<1>2. Alive(p) /\ \A q \in Processes : q # p => at[q] \in {"new", "gone"}
  BY <1>1, OneAlive DEF Alive
<1>3. found \in States /\ (Leftover => found = stateFile /\ stateFile # NoState)
      /\ (~Leftover => found = NoState) /\ to \in {"sweeping", "read"}
      /\ (to = "sweeping" <=> Leftover)
  BY DEF Leftover
<1>4. Recordable /\ ~Leftover => stateFile = NoState
  <2> SUFFICES ASSUME Recordable, ~Leftover, stateFile # NoState PROVE FALSE
    OBVIOUS
  <2>1. stateFile.pid \in Processes /\ Alive(stateFile.pid)
    BY DEF Leftover
  <2>2. stateFile.pid = p
    BY <1>2, <2>1, OneAlive
  <2> QED
    BY <1>1, <2>2 DEF EgressInv, Recorded, FileIsTrue
<1> HIDE DEF to, found
<1>5. /\ OneProcess' /\ at'[p] = to /\ at' \in [Processes -> Places]
      /\ \A q \in Processes : q # p => at'[q] = at[q]
  <2>1. to \in Places \ {"new"}
    BY <1>3, PlacesAre
  <2> QED
    BY <1>1, <1>2, <2>1, Moved, ZenonT(30)
<1>6. EgressTypeOK'
  BY <1>1, <1>3, <1>5, UndoOrderIs DEF EgressTypeOK
<1>7. InMemory'
  BY <1>1, <1>2, <1>3, <1>5 DEF EgressInv, InMemory, Alive, Changing
<1>8. Recorded'
  <2> SUFFICES ASSUME Recordable PROVE FileIsTrue' /\ NoFileNoChange' /\ \A q \in Processes : Alive(q)' => Knows(q)'
    BY <1>1 DEF Recorded, Recordable
  <2>1. FileIsTrue /\ NoFileNoChange /\ rolling[p] = 1
    BY <1>1 DEF EgressInv, Recorded, InMemory
  <2>2. FileIsTrue'
    BY <1>1, <1>2, <1>5, <2>1 DEF FileIsTrue, Held, ValueIs, TokenOf
  <2>3. NoFileNoChange'
    BY <1>1, <1>2, <2>1 DEF NoFileNoChange, Held, ValueIs, Changing
  <2>4. Knows(p)'
    BY <1>1, <1>3, <1>4, <1>5, <2>1 DEF Knows, FileIsTrue, Held, ValueIs, Changing
  <2> QED
    BY <1>2, <1>5, <2>2, <2>3, <2>4 DEF Alive
<1>9. RulesRecorded'
  BY <1>1, <1>2, <1>3, <1>5 DEF EgressInv, InMemory, RulesRecorded
<1>10. RulesFollow'
  BY <1>1, <1>2, <1>3, <1>5 DEF EgressInv, RulesFollow
<1> QED
  BY <1>5, <1>6, <1>7, <1>8, <1>9, <1>10 DEF EgressInv

LEMMA EgressRulesInv ==
  ASSUME EgressInv, NEW p \in Processes,
         (\E t \in NatTargets : EnsureTargets(p, t)) \/ InstallTargets(p)
  PROVE  EgressInv'
<1> USE EgressFacts, StatesAre
<1>1. ASSUME NEW t \in NatTargets, EnsureTargets(p, t) PROVE EgressInv'
  <2> DEFINE new == targets[p] \cup {t}
  <2>1. /\ at[p] = "up" /\ resolves > 0 /\ resolves' = resolves - 1
        /\ targets' = [targets EXCEPT ![p] = new]
        /\ installs' = [installs EXCEPT ![p] = @ \cup {new}]
        /\ UNCHANGED <<original, rolling, forwarding, tokens, nat, stateFile, at, undo, unrecorded, excuses,
                       egressFaults>>
    BY <1>1 DEF EnsureTargets, Untargeted, system, history
  <2>2. new \in SUBSET NatTargets /\ targets[p] \subseteq new
    OBVIOUS
  <2> HIDE DEF new
  <2>3. \A q \in Processes : q # p => at[q] \in {"new", "gone"}
    BY <2>1, OneAlive DEF Alive
  <2>4. EgressTypeOK'
    BY <2>1, <2>2, UndoOrderIs DEF EgressTypeOK
  <2>5. OneProcess' /\ InMemory'
    BY <2>1 DEF EgressInv, OneProcess, InMemory, Alive, Changing
  <2>6. Recorded'
    BY <2>1 DEF EgressInv, Recorded, Recordable, FileIsTrue, NoFileNoChange, Knows, Held, ValueIs, TokenOf, Alive
  <2>7. RulesRecorded'
    BY <2>1 DEF EgressInv, RulesRecorded
  <2>8. RulesFollow'
    BY <2>1, <2>2, <2>3 DEF EgressInv, RulesFollow
  <2> QED
    BY <2>4, <2>5, <2>6, <2>7, <2>8 DEF EgressInv
<1>2. CASE InstallTargets(p)
  <2>1. PICK rules \in installs[p] :
          /\ installs' = [installs EXCEPT ![p] = @ \ {rules}]
          /\ \/ /\ nat' = rules
                /\ excuses' = excuses \cup (IF at[p] = "up" /\ rules \subseteq targets[p] THEN {} ELSE {"late"})
                                      \cup (IF nat \subseteq rules THEN {} ELSE {"overtaken"})
                /\ UNCHANGED egressFaults
             \/ /\ egressFaults > 0 /\ egressFaults' = egressFaults - 1
                /\ excuses' = excuses \cup {"failed"} /\ UNCHANGED nat
          /\ UNCHANGED <<original, rolling, forwarding, tokens, stateFile, at, undo, targets, unrecorded, resolves>>
    BY <1>2 DEF InstallTargets, Rules, Fault, Excuse
  <2>2. /\ rules \in SUBSET NatTargets /\ excuses \subseteq excuses'
        /\ excuses' \subseteq {"failed", "late", "overtaken"}
        /\ egressFaults' \in 0..EgressFaults
        /\ nat' = nat \/ nat' = rules
    BY <2>1
  <2>3. "failed" \notin excuses' /\ "late" \notin excuses' =>
          nat' = rules /\ at[p] = "up" /\ rules \subseteq targets[p]
          /\ (excuses' = {} => nat \subseteq rules)
    BY <2>1
  <2>4. EgressTypeOK'
    BY <2>1, <2>2, UndoOrderIs DEF EgressTypeOK
  <2>5. OneProcess' /\ InMemory'
    BY <2>1 DEF EgressInv, OneProcess, InMemory, Alive, Changing
  <2>6. Recorded'
    BY <2>1, <2>2 DEF EgressInv, Recorded, Recordable, FileIsTrue, NoFileNoChange, Knows, Held, ValueIs, TokenOf, Alive
  <2>7. RulesRecorded'
    <3> SUFFICES ASSUME excuses' \subseteq {"overtaken"}, unrecorded' = {}
                 PROVE  /\ stateFile' # NoState
                        /\ \A q \in Processes : at'[q] \notin {"closing", "sweeping"}
      BY DEF RulesRecorded
    <3>1. at[p] = "up" /\ Recordable
      BY <2>2, <2>3 DEF Recordable
    <3>2. stateFile # NoState
      BY <2>1, <3>1 DEF EgressInv, InMemory, Recorded, Knows, Alive
    <3> QED
      BY <2>1, <3>1, <3>2, OneAlive DEF Alive
  <2>8. RulesFollow'
    <3> SUFFICES ASSUME excuses' = {}, NEW q \in Processes
                 PROVE  /\ at'[q] = "write" => nat' = {}
                        /\ at'[q] = "up" => /\ nat' \subseteq targets'[q]
                                            /\ nat' = targets'[q] \/ targets'[q] \in installs'[q]
      BY DEF RulesFollow
    <3>1. /\ nat' = rules /\ at[p] = "up" /\ rules \subseteq targets[p] /\ nat \subseteq rules
          /\ excuses = {}
      BY <2>2, <2>3
    <3>2. nat = targets[p] \/ targets[p] \in installs[p]
      BY <3>1 DEF EgressInv, RulesFollow
    <3>3. q # p => at[q] \in {"new", "gone"}
      BY <3>1, OneAlive DEF Alive
    <3>4. CASE q # p
      BY <2>1, <3>3, <3>4
    <3>5. CASE q = p
      <4>1. at'[q] = "up" /\ targets'[q] = targets[p] /\ installs'[q] = installs[p] \ {rules}
        BY <2>1, <3>1, <3>5
      <4>2. rules = targets[p] \/ targets[p] \in installs[p] \ {rules}
        BY <3>1, <3>2
      <4> QED
        BY <3>1, <4>1, <4>2
    <3> QED
      BY <3>4, <3>5
  <2> QED
    BY <2>4, <2>5, <2>6, <2>7, <2>8 DEF EgressInv
<1> QED
  BY <1>1, <1>2

\* The next process is started, or the one that lives is killed.
LEMMA EgressLifeInv ==
  ASSUME EgressInv, NEW p \in Processes, Launch(p) \/ Crash(p)
  PROVE  EgressInv'
<1> USE EgressFacts, StatesAre
<1>1. CASE Launch(p)
  <2>1. /\ at[p] = "new" /\ at' = [at EXCEPT ![p] = "down"]
        /\ \A q \in Processes : q < p => at[q] = "gone"
        /\ UNCHANGED <<original, rolling, forwarding, tokens, nat, stateFile, undo, targets, installs,
                       resolves, unrecorded, excuses, egressFaults>>
    BY <1>1 DEF Launch, Move, system, handlers, history
  <2>2. \A q \in Processes : q # p => at'[q] = at[q] /\ at[q] \in {"new", "gone"}
    <3>1. \A q \in Processes : p < q => at[q] = "new"
      BY <2>1 DEF EgressInv, OneProcess
    <3>2. \A q \in Processes : q # p => q < p \/ p < q
      OBVIOUS
    <3>3. \A q \in Processes : q # p => at'[q] = at[q]
      BY <2>1
    <3> QED
      BY <2>1, <3>1, <3>2, <3>3
  <2>3. at'[p] = "down" /\ at' \in [Processes -> Places]
    BY <2>1 DEF Places
  <2>4. OneProcess'
    BY <2>1, <2>2, <2>3 DEF EgressInv, OneProcess
  <2>5. EgressTypeOK'
    BY <2>1, <2>3, UndoOrderIs DEF EgressTypeOK
  <2>6. InMemory'
    BY <2>1, <2>2, <2>3 DEF EgressInv, InMemory, Alive, Changing
  <2>7. Recorded'
    BY <2>1, <2>2, <2>3 DEF EgressInv, InMemory, Recorded, Recordable, FileIsTrue, NoFileNoChange,
       Knows, Held, ValueIs, TokenOf, Changing, Alive
  <2>8. RulesRecorded' /\ RulesFollow'
    BY <2>1, <2>2, <2>3 DEF EgressInv, RulesRecorded, RulesFollow
  <2> QED
    BY <2>4, <2>5, <2>6, <2>7, <2>8 DEF EgressInv
<1>2. CASE Crash(p)
  <2>1. /\ Alive(p) /\ at' = [at EXCEPT ![p] = "gone"]
        /\ egressFaults > 0 /\ egressFaults' = egressFaults - 1
        /\ undo' = [undo EXCEPT ![p] = NoState] /\ rolling' = [rolling EXCEPT ![p] = 1]
        /\ targets' = [targets EXCEPT ![p] = {}] /\ installs' = [installs EXCEPT ![p] = {}]
        /\ unrecorded' = unrecorded \cup (IF at[p] \in Changing THEN {p} ELSE {})
        /\ UNCHANGED <<original, forwarding, tokens, nat, stateFile, resolves, excuses>>
    BY <1>2 DEF Crash, Fault, Forgotten, Excuse, Changing, system
  <2>2. \A q \in Processes : q # p => at[q] \in {"new", "gone"}
    BY <2>1, OneAlive
  <2>4. /\ OneProcess' /\ at'[p] = "gone" /\ at' \in [Processes -> Places]
        /\ \A q \in Processes : q # p => at'[q] = at[q]
    BY <2>1, Killed, ZenonT(30)
  <2>5. EgressTypeOK'
    BY <2>1, <2>4, UndoOrderIs DEF EgressTypeOK
  <2>6. InMemory'
    BY <2>1, <2>2, <2>4 DEF EgressInv, InMemory, Alive, Changing
  <2>7. Recorded'
    <3> SUFFICES ASSUME Recordable
                 PROVE  FileIsTrue' /\ NoFileNoChange'
      <4>1. \A q \in Processes : ~Alive(q)'
        BY <2>2, <2>4 DEF Alive
      <4> QED
        BY <2>1, <4>1 DEF Recorded, Recordable
    <3>1. FileIsTrue /\ NoFileNoChange /\ Knows(p)
      BY <2>1 DEF EgressInv, Recorded
    <3>2. Held' \subseteq Held /\ (unrecorded' = {} => unrecorded = {})
      BY <2>1 DEF Held
    <3>3. FileIsTrue'
      BY <2>1, <2>4, <3>1, <3>2 DEF FileIsTrue, ValueIs, TokenOf
    <3>4. CASE at[p] \notin Changing
      <4>1. \A q \in Processes : at[q] \notin Changing
        BY <2>2, <3>4 DEF Changing
      <4> QED
        BY <2>1, <3>1, <3>2, <3>3, <4>1 DEF NoFileNoChange, ValueIs
    <3>5. CASE at[p] \in Changing
      <4>1. undo[p] # NoState /\ undo[p].pid = p
        BY <3>5 DEF EgressInv, InMemory
      <4>2. Held \subseteq TokenOf(undo[p]) \/ Held = {}
        BY <3>1, <3>5 DEF Knows, Changing
      <4>3. Held' = {} /\ unrecorded' # {}
        BY <2>1, <3>2, <3>5, <4>1, <4>2 DEF TokenOf, Held
      <4> QED
        BY <3>3, <4>3 DEF NoFileNoChange, ValueIs
    <3> QED
      BY <3>4, <3>5
  <2>8. RulesRecorded'
    BY <2>1, <2>2, <2>4 DEF EgressInv, RulesRecorded, Changing
  <2>9. RulesFollow'
    BY <2>1, <2>2, <2>4 DEF EgressInv, RulesFollow
  <2> QED
    BY <2>4, <2>5, <2>6, <2>7, <2>8, <2>9 DEF EgressInv
<1> QED
  BY <1>1, <1>2

LEMMA EgressStepInv == EgressInv /\ [EgressNext]_egressVars => EgressInv'
<1> SUFFICES ASSUME EgressInv, [EgressNext]_egressVars PROVE EgressInv'
  OBVIOUS
<1>1. CASE EgressNext
  BY <1>1, EgressMoveInv, EgressOpenInv, EgressRollBackInv, EgressSweepInv, EgressRulesInv,
     EgressLifeInv DEF EgressNext
<1>2. CASE UNCHANGED egressVars
  <2>0. UNCHANGED <<original, forwarding, tokens, nat, stateFile, at, rolling, undo, targets,
                    installs, unrecorded, excuses, resolves, egressFaults>>
    BY <1>2 DEF egressVars, system, handlers, history
  <2>1. EgressTypeOK' /\ OneProcess' /\ InMemory'
    BY <2>0 DEF EgressInv, EgressTypeOK, OneProcess, InMemory, Alive
  <2>2. Recorded'
    BY <2>0 DEF EgressInv, Recorded, Recordable, FileIsTrue, NoFileNoChange, Knows, Held, ValueIs,
       TokenOf, Alive
  <2>3. RulesRecorded' /\ RulesFollow'
    BY <2>0 DEF EgressInv, RulesRecorded, RulesFollow
  <2> QED
    BY <2>1, <2>2, <2>3 DEF EgressInv
<1> QED
  BY <1>1, <1>2

\* Every switch that is set is one that was read, or is on.
LEMMA OnStaysOn == EgressInv /\ OnIsKept /\ [EgressNext]_egressVars => OnIsKept'
<1> SUFFICES ASSUME EgressInv, OnIsKept, [EgressNext]_egressVars, original' = 1
             PROVE  /\ forwarding' = 1 /\ (stateFile' # NoState => stateFile'.old = 1)
                    /\ \A p \in Processes : undo'[p] # NoState => undo'[p].old = 1
  BY DEF OnIsKept
<1>1. original = 1
  <2>1. UNCHANGED egressVars => original' = original
    BY DEF egressVars
  <2>2. ASSUME NEW p \in Processes, Launch(p) PROVE original' = original
    BY <2>2 DEF Launch
  <2>3. ASSUME NEW p \in Processes, Open(p) PROVE original' = original
    BY <2>3 DEF Open
  <2>4. ASSUME NEW p \in Processes, Sweep(p) PROVE original' = original
    BY <2>4 DEF Sweep
  <2>5. ASSUME NEW p \in Processes, ReadForwarding(p) PROVE original' = original
    BY <2>5 DEF ReadForwarding
  <2>6. ASSUME NEW p \in Processes, EnableForwarding(p) PROVE original' = original
    BY <2>6 DEF EnableForwarding
  <2>7. ASSUME NEW p \in Processes, EnableFilter(p) PROVE original' = original
    BY <2>7 DEF EnableFilter
  <2>8. ASSUME NEW p \in Processes, InstallNat(p) PROVE original' = original
    BY <2>8 DEF InstallNat
  <2>9. ASSUME NEW p \in Processes, WriteState(p) PROVE original' = original
    BY <2>9 DEF WriteState
  <2>10. ASSUME NEW p \in Processes, Close(p) PROVE original' = original
    BY <2>10 DEF Close
  <2>11. ASSUME NEW p \in Processes, RollBack(p) PROVE original' = original
    BY <2>11 DEF RollBack
  <2>12. ASSUME NEW p \in Processes, InstallTargets(p) PROVE original' = original
    BY <2>12 DEF InstallTargets
  <2>13. ASSUME NEW p \in Processes, Crash(p) PROVE original' = original
    BY <2>13 DEF Crash
  <2>14. ASSUME NEW p \in Processes, Quit(p) PROVE original' = original
    BY <2>14 DEF Quit
  <2>15. ASSUME NEW p \in Processes, NEW t \in NatTargets, EnsureTargets(p, t)
        PROVE original' = original
    BY <2>15 DEF EnsureTargets, Untargeted
  <2> QED
    BY <2>1, <2>2, <2>3, <2>4, <2>5, <2>6, <2>7, <2>8, <2>9, <2>10, <2>11, <2>12, <2>13, <2>14, <2>15 DEF EgressNext
<1>9. \/ UNCHANGED <<forwarding, stateFile, undo>>
      \/ \E p \in Processes :
           \/ Sweep(p) \/ ReadForwarding(p) \/ Crash(p) \/ Quit(p)
           \/ EnableFilter(p) \/ InstallNat(p) \/ EnableForwarding(p)
           \/ WriteState(p) \/ RollBack(p)
  <2>1. UNCHANGED egressVars => UNCHANGED <<forwarding, stateFile, undo>>
    BY DEF egressVars, system
  <2>2. ASSUME NEW p \in Processes, Launch(p) PROVE UNCHANGED <<forwarding, stateFile, undo>>
    BY <2>2 DEF Launch, system
  <2>3. ASSUME NEW p \in Processes, Open(p) PROVE UNCHANGED <<forwarding, stateFile, undo>>
    BY <2>3 DEF Open, system
  <2>4. ASSUME NEW p \in Processes, Close(p) PROVE UNCHANGED <<forwarding, stateFile, undo>>
    BY <2>4 DEF Close, system
  <2>5. ASSUME NEW p \in Processes, InstallTargets(p) PROVE UNCHANGED <<forwarding, stateFile, undo>>
    BY <2>5 DEF InstallTargets, system
  <2>6. ASSUME NEW p \in Processes, NEW t \in NatTargets, EnsureTargets(p, t)
        PROVE UNCHANGED <<forwarding, stateFile, undo>>
    BY <2>6 DEF EnsureTargets, Untargeted, system
  <2> QED
    BY <2>1, <2>2, <2>3, <2>4, <2>5, <2>6 DEF EgressNext
<1> USE EgressFacts, StatesAre
<1> USE DEF Move, Fault, Excuse, Forgotten, system, handlers, history
<1>2. /\ forwarding = 1 /\ (stateFile # NoState => stateFile.old = 1)
      /\ \A p \in Processes : undo[p] # NoState => undo[p].old = 1
  BY <1>1 DEF OnIsKept
<1>3. CASE UNCHANGED <<forwarding, stateFile, undo>>
  BY <1>2, <1>3
<1>4. ASSUME NEW p \in Processes, Sweep(p) \/ ReadForwarding(p) \/ Crash(p) \/ Quit(p) PROVE
        /\ UNCHANGED <<forwarding, stateFile>>
        /\ \E u \in States : undo' = [undo EXCEPT ![p] = u] /\ (u # NoState => u.old = 1)
  BY <1>2, <1>4 DEF Sweep, ReadForwarding, Crash, Quit
<1>5. ASSUME NEW p \in Processes, EnableFilter(p) PROVE
        /\ forwarding' \in {forwarding, undo[p].old} /\ UNCHANGED stateFile
        /\ \E u \in States : undo' = [undo EXCEPT ![p] = u] /\ u # NoState /\ u.old = 1
        /\ undo[p] # NoState
  <2>1. undo[p] # NoState
    BY <1>5 DEF EnableFilter, EgressInv, InMemory, Changing
  <2>2. undo[p] = [undo EXCEPT ![p] = undo[p]][p] /\ undo = [undo EXCEPT ![p] = undo[p]]
    OBVIOUS
  <2>3. CASE \E token \in BOOLEAN : undo' = [undo EXCEPT ![p].token = token]
    <3>1. PICK token \in BOOLEAN : undo' = [undo EXCEPT ![p] = [undo[p] EXCEPT !.token = token]]
      BY <2>3
    <3>2. [undo[p] EXCEPT !.token = token] \in States /\ [undo[p] EXCEPT !.token = token] # NoState
          /\ [undo[p] EXCEPT !.token = token].old = undo[p].old
      BY <2>1
    <3>3. forwarding' \in {forwarding, undo[p].old} /\ UNCHANGED stateFile
      BY <1>5 DEF EnableFilter
    <3> QED
      BY <1>2, <2>1, <3>1, <3>2, <3>3
  <2>4. CASE UNCHANGED undo
    <3>1. forwarding' \in {forwarding, undo[p].old} /\ UNCHANGED stateFile
      BY <1>5 DEF EnableFilter
    <3> QED
      BY <1>2, <2>1, <2>2, <2>4, <3>1
  <2> QED
    BY <1>5, <2>3, <2>4 DEF EnableFilter
<1>6. ASSUME NEW p \in Processes, InstallNat(p) \/ EnableForwarding(p) PROVE
        /\ forwarding' = 1 /\ UNCHANGED <<stateFile, undo>>
  BY <1>2, <1>6 DEF InstallNat, EnableForwarding, EgressInv, InMemory, Changing
<1>7. ASSUME NEW p \in Processes, WriteState(p) PROVE
        /\ stateFile' \in {stateFile, undo[p]} /\ UNCHANGED <<forwarding, undo>>
  BY <1>7 DEF WriteState
<1>8. ASSUME NEW p \in Processes, RollBack(p) PROVE
        /\ forwarding' \in {forwarding, undo[p].old} /\ undo[p] # NoState
        /\ stateFile' \in {stateFile, NoState}
        /\ undo' = undo \/ undo' = [undo EXCEPT ![p] = NoState]
  BY <1>8, RollBackIs DEF EgressInv, InMemory
<1> QED
  BY <1>2, <1>3, <1>4, <1>5, <1>6, <1>7, <1>8, <1>9

\* What egress has changed in the system is undone by the process that did, or by
\* the next one if it was killed, to what the administrator had; the engine is
\* released by all but the processes killed before they had written their file;
\* a switch that was on is never turned off; and the rules are those of the
\* targets asked for (services/tunnel/egress).  Excused are, for switch and rules,
\* the kills before the file was written, and calls that fail.
THEOREM ChangesAccounted == EgressSpec => []ChangesAreAccountedFor
<1>1. EgressInv /\ OnIsKept => ChangesAreAccountedFor
  <2> SUFFICES ASSUME EgressInv, OnIsKept PROVE ChangesAreAccountedFor
    OBVIOUS
  <2>1. OriginalIsKept
    BY DEF EgressInv, OnIsKept, Recorded, Recordable, FileIsTrue, Knows, ValueIs, OriginalIsKept
  <2>2. LeavesAsFound
    <3> SUFFICES ASSUME excuses \subseteq {"overtaken"}, stateFile = NoState,
                        \A p \in Processes : at[p] \in {"new", "down", "gone"} /\ installs[p] = {}
                 PROVE  /\ tokens \subseteq unrecorded
                        /\ unrecorded = {} => forwarding = original /\ nat = NoRules
      BY DEF LeavesAsFound
    <3>1. ValueIs(forwarding) /\ Held = {}
      BY DEF EgressInv, Recorded, Recordable, NoFileNoChange, Changing
    <3> QED
      BY <3>1 DEF EgressInv, Held, ValueIs, RulesRecorded
  <2>3. TargetsAreRouted
    <3> SUFFICES ASSUME excuses = {}, NEW p \in Processes, at[p] = "up", installs[p] = {}
                 PROVE  nat = targets[p]
      BY DEF TargetsAreRouted
    <3> QED
      BY DEF EgressInv, RulesFollow
  <2> QED
    BY <2>1, <2>2, <2>3 DEF ChangesAreAccountedFor
<1>2. EgressInit => OnIsKept
  BY DEF EgressInit, OnIsKept
<1> QED
  BY EgressInitInv, EgressStepInv, OnStaysOn, <1>1, <1>2, PTL DEF EgressSpec

-----------------------------------------------------------------------------
(* The SFU.                                                                *)

\* Types of what decides about senders; who is a member has a connection made for
\* his address.
SfuTyped ==
  /\ joins \in 0..MaxJoins /\ who \in [Conns -> Ips \cup {None}]
  /\ \A c \in 1..joins : who[c] \in Ips
  /\ member \in [Ips -> 0..joins]
  /\ \A ip \in Ips : member[ip] # None => who[member[ip]] = ip
  /\ open \subseteq 1..joins /\ late \subseteq 1..joins
  /\ tracks \subseteq 1..joins
  /\ flow \in [Conns -> {"none", "listed", "first", "live", "ended", "over"}]
  /\ senders \in [Conns -> [Conns -> Nat]]

\* A connection is not forwarded before it has published its track.
NotSentEarly ==
  /\ \A c \in Conns : c > joins => flow[c] = "none"
  /\ \A c \in tracks : flow[c] # "none"
  /\ \A c, d \in Conns : flow[d] = "none" => senders[c][d] = 0

SfuInv == SfuTyped /\ NotSentEarly /\ EveryoneIsSent /\ NotSentToSelf

LEMMA SfuFacts ==
  ASSUME SfuInv
  PROVE  /\ joins \in 0..MaxJoins /\ MaxJoins \in Nat /\ Conns = 1..MaxJoins /\ None = 0
         /\ who \in [Conns -> Ips \cup {None}]
         /\ \A c \in 1..joins : who[c] \in Ips /\ c \in Conns /\ c # None
         /\ member \in [Ips -> 0..joins]
         /\ \A ip \in Ips : member[ip] # None =>
              who[member[ip]] = ip /\ member[ip] \in 1..joins
         /\ open \subseteq 1..joins /\ late \subseteq 1..joins /\ tracks \subseteq 1..joins
         /\ flow \in [Conns -> {"none", "listed", "first", "live", "ended", "over"}]
         /\ senders \in [Conns -> [Conns -> Nat]]
<1>1. joins \in 0..MaxJoins /\ MaxJoins \in Nat /\ Conns = 1..MaxJoins /\ None = 0
  BY SfuAssumption DEF SfuInv, SfuTyped, Conns, None
<1>2. \A c \in 1..joins : who[c] \in Ips /\ c \in Conns /\ c # None
  BY <1>1 DEF SfuInv, SfuTyped
<1>3. /\ who \in [Conns -> Ips \cup {None}] /\ member \in [Ips -> 0..joins]
      /\ open \subseteq 1..joins /\ late \subseteq 1..joins /\ tracks \subseteq 1..joins
      /\ flow \in [Conns -> {"none", "listed", "first", "live", "ended", "over"}]
      /\ senders \in [Conns -> [Conns -> Nat]]
  BY DEF SfuInv, SfuTyped
<1>4. ASSUME NEW ip \in Ips, member[ip] # None
      PROVE  who[member[ip]] = ip /\ member[ip] \in 1..joins
  <2>1. member[ip] \in 0..joins
    BY <1>3
  <2>2. who[member[ip]] = ip
    BY <1>4 DEF SfuInv, SfuTyped
  <2> QED
    BY <1>1, <1>4, <2>1, <2>2
<1> QED
  BY <1>1, <1>2, <1>3, <1>4

LEMMA PresentAre ==
  ASSUME SfuInv
  PROVE  /\ \A c : c \in Present <=> c \in 1..joins /\ member[who[c]] = c
         /\ \A c \in Present : c \in Conns /\ who[c] \in Ips
         /\ \A ip : Others(ip) \subseteq Present
BY SfuFacts DEF Present, Others

\* Only senders of the connection that goes, or of its track, are removed.
LEMMA RemovedIs ==
  ASSUME SfuInv, NEW c \in 1..joins
  PROVE  /\ Removed(c) \in [Conns -> [Conns -> Nat]]
         /\ \A d, e \in Conns :
              /\ Removed(c)[d][e] \in {0, senders[d][e]}
              /\ d # c /\ e # c => Removed(c)[d][e] = senders[d][e]
<1> USE SfuFacts
<1>1. Nothing \in [Conns -> Nat] /\ \A d \in Conns : Nothing[d] = 0
  BY DEF Nothing
<1>2. \A d \in Conns : Removed(c)[d] \in {Nothing, senders[d], [senders[d] EXCEPT ![c] = 0]}
  BY DEF Removed
<1>3. \A d \in Conns : d # c => Removed(c)[d] \in {senders[d], [senders[d] EXCEPT ![c] = 0]}
  BY DEF Removed
<1>4. \A d \in Conns : [senders[d] EXCEPT ![c] = 0] \in [Conns -> Nat]
                       /\ \A e \in Conns : [senders[d] EXCEPT ![c] = 0][e] = IF e = c THEN 0 ELSE senders[d][e]
  OBVIOUS
<1>5. Removed(c) \in [Conns -> [Conns -> Nat]]
  <2>1. \A d \in Conns : Removed(c)[d] \in [Conns -> Nat]
    <3> SUFFICES ASSUME NEW d \in Conns PROVE Removed(c)[d] \in [Conns -> Nat]
      OBVIOUS
    <3>1. senders[d] \in [Conns -> Nat] /\ [senders[d] EXCEPT ![c] = 0] \in [Conns -> Nat]
      BY <1>4
    <3> QED
      BY <1>1, <1>2, <3>1
  <2>2. Removed(c) = [d \in Conns |-> Removed(c)[d]]
    BY DEF Removed
  <2> QED
    BY <2>1, <2>2
<1>6. \A d, e \in Conns : Removed(c)[d][e] \in {0, senders[d][e]}
  <2> SUFFICES ASSUME NEW d \in Conns, NEW e \in Conns
               PROVE  Removed(c)[d][e] \in {0, senders[d][e]}
    OBVIOUS
  <2>1. CASE Removed(c)[d] = Nothing
    BY <1>1, <2>1
  <2>2. CASE Removed(c)[d] = senders[d]
    BY <2>2
  <2>3. CASE Removed(c)[d] = [senders[d] EXCEPT ![c] = 0]
    BY <1>4, <2>3
  <2> QED
    BY <1>2, <2>1, <2>2, <2>3
<1>7. \A d, e \in Conns : d # c /\ e # c => Removed(c)[d][e] = senders[d][e]
  BY <1>3, <1>4, ZenonT(30)
<1> QED
  BY <1>5, <1>6, <1>7

LEMMA SfuInitInv == SfuInit => SfuInv
<1> SUFFICES ASSUME SfuInit PROVE SfuInv
  OBVIOUS
<1>1. Nothing \in [Conns -> Nat] /\ \A d \in Conns : Nothing[d] = 0
  BY DEF Nothing
<1>2. SfuTyped
  BY <1>1, SfuAssumption DEF SfuInit, SfuTyped, None, Conns
<1>3. NotSentEarly /\ EveryoneIsSent /\ NotSentToSelf
  BY <1>1 DEF SfuInit, NotSentEarly, EveryoneIsSent, NotSentToSelf, Present, None
<1> QED
  BY <1>2, <1>3 DEF SfuInv

\* A participant joins: the connection it may replace takes nothing of others along.
LEMMA SfuJoinInv == ASSUME SfuInv, AddParticipant PROVE SfuInv'
<1> USE SfuFacts
<1> DEFINE c == joins + 1
<1>1. PICK ip \in Ips : LET old == member[ip] IN
        /\ member' = [member EXCEPT ![ip] = c]
        /\ who' = [who EXCEPT ![c] = ip]
        /\ open' = (open \ {old}) \cup {c}
        /\ senders' = [(IF old = None THEN senders ELSE Removed(old))
                         EXCEPT ![c] = [d \in Conns |-> IF d \in Others(ip) \cap tracks
                                                        THEN 1 ELSE 0]]
  BY DEF AddParticipant
<1>2. joins < MaxJoins /\ joins' = c /\ UNCHANGED <<late, tracks, flow>>
  BY DEF AddParticipant
<1> DEFINE old == member[ip]
           base == IF old = None THEN senders ELSE Removed(old)
           sent == [d \in Conns |-> IF d \in Others(ip) \cap tracks THEN 1 ELSE 0]
<1>3. /\ base \in [Conns -> [Conns -> Nat]]
      /\ \A d, e \in Conns : /\ base[d][e] \in {0, senders[d][e]}
                             /\ d # old /\ e # old => base[d][e] = senders[d][e]
  <2>1. CASE old = None
    BY <2>1
  <2>2. CASE old # None
    <3>1. old \in 1..joins /\ base = Removed(old)
      BY <2>2
    <3> HIDE DEF old, base
    <3> QED
      BY <3>1, RemovedIs, SMTT(30)
  <2> QED
    BY <2>1, <2>2
<1>4. /\ sent \in [Conns -> Nat]
      /\ \A d \in Conns : sent[d] = IF d \in Others(ip) \cap tracks THEN 1 ELSE 0
  OBVIOUS
<1>5. /\ member' = [member EXCEPT ![ip] = c] /\ who' = [who EXCEPT ![c] = ip]
      /\ open' \subseteq open \cup {c} /\ senders' = [base EXCEPT ![c] = sent]
  BY <1>1
<1>6. c \in Conns /\ c \notin 1..joins /\ c \in Nat /\ c # None /\ old \in 0..joins
      /\ 1..joins \subseteq 1..c /\ c \in 1..c /\ 0..joins \subseteq 0..c
      /\ \A d \in 1..c : d = c \/ d \in 1..joins
  BY <1>2
<1> HIDE DEF c, old, base, sent
<1>7. /\ senders' \in [Conns -> [Conns -> Nat]]
      /\ \A e \in Conns : senders'[c][e] = sent[e]
      /\ \A d, e \in Conns : d # c => senders'[d][e] = base[d][e]
  BY <1>3, <1>4, <1>5, <1>6
<1>8. /\ \A d \in 1..joins : who'[d] = who[d] /\ d # c
      /\ who'[c] = ip /\ member'[ip] = c
      /\ \A i \in Ips : i # ip => member'[i] = member[i]
  BY <1>5, <1>6
<1>9. SfuTyped'
  <2>1. who' \in [Conns -> Ips \cup {None}] /\ member' \in [Ips -> 0..c]
    BY <1>5, <1>6
  <2>2. /\ joins' \in 0..MaxJoins /\ open' \subseteq 1..c /\ late' \subseteq 1..c /\ tracks' \subseteq 1..c
        /\ flow' \in [Conns -> {"none", "listed", "first", "live", "ended", "over"}]
    BY <1>2, <1>5, <1>6
  <2>3. \A d \in 1..c : who'[d] \in Ips
    BY <1>6, <1>8
  <2>4. \A i \in Ips : member'[i] # None => who'[member'[i]] = i
    BY <1>8
  <2> QED
    BY <1>2, <1>7, <2>1, <2>2, <2>3, <2>4 DEF SfuTyped
<1>10. \A d \in Present' : d = c \/ (d \in Present /\ d # old)
  <2> SUFFICES ASSUME NEW d \in Present', d # c PROVE d \in Present /\ d # old
    OBVIOUS
  <2>1. PICK i \in Ips : member'[i] = d /\ d \in Conns
    BY DEF Present
  <2>2. i # ip /\ member[i] = d
    BY <1>8, <2>1
  <2>3. d # None /\ who[d] = i
    BY <2>1, <2>2
  <2> QED
    BY <2>1, <2>2, <2>3 DEF Present, old
<1>11. \A d \in Conns : senders[d][c] = 0 /\ flow[c] = "none" /\ c \notin tracks
  BY <1>6 DEF SfuInv, NotSentEarly
<1>12. NotSentEarly'
  <2>1. \A d \in Conns : d > joins' => flow'[d] = "none"
    BY <1>2, <1>6 DEF SfuInv, NotSentEarly
  <2>2. \A d, e \in Conns : flow'[e] = "none" => senders'[d][e] = 0
    <3> SUFFICES ASSUME NEW d \in Conns, NEW e \in Conns, flow[e] = "none"
                 PROVE  senders'[d][e] = 0
      BY <1>2
    <3>1. e \notin tracks /\ senders[d][e] = 0
      BY DEF SfuInv, NotSentEarly
    <3>2. CASE d = c
      BY <1>4, <1>7, <3>1, <3>2
    <3>3. CASE d # c
      <4>1. senders'[d][e] = base[d][e] /\ base[d][e] \in {0, senders[d][e]}
        BY <1>3, <1>7, <3>3
      <4> QED
        BY <3>1, <4>1
    <3> QED
      BY <3>2, <3>3
  <2> QED
    BY <1>2, <2>1, <2>2 DEF SfuInv, NotSentEarly
<1>13. ASSUME NEW d \in Present', NEW e \in Present', who'[d] # who'[e], e \in tracks',
              flow'[e] \in {"first", "live"}
       PROVE  senders'[d][e] > 0
  <2>1. e \in Present /\ e # old /\ e \in tracks /\ e \in Conns /\ who'[e] = who[e]
    BY <1>2, <1>8, <1>10, <1>11, <1>13, PresentAre
  <2>2. CASE d = c
    <3>1. e \in Others(ip)
      BY <1>8, <1>13, <2>1, <2>2 DEF Others
    <3> QED
      BY <1>4, <1>7, <2>1, <2>2, <3>1
  <2>3. CASE d # c
    <3>1. d \in Present /\ d # old /\ d \in Conns /\ who'[d] = who[d]
      BY <1>8, <1>10, <2>3, PresentAre
    <3>2. senders[d][e] > 0
      BY <1>2, <1>13, <2>1, <3>1 DEF SfuInv, EveryoneIsSent
    <3> QED
      BY <1>3, <1>7, <2>1, <2>3, <3>1, <3>2, SMTT(30)
  <2> QED
    BY <2>2, <2>3
<1>14. ASSUME NEW d \in Present', NEW e \in Conns, senders'[d][e] > 0
       PROVE  who'[d] # who'[e]
  <2>1. CASE d = c
    <3>1. e \in Others(ip)
      BY <1>4, <1>7, <1>14, <2>1
    <3>2. e \in 1..joins /\ who[e] # ip
      BY <3>1, PresentAre DEF Others
    <3> QED
      BY <1>8, <2>1, <3>2
  <2>2. CASE d # c
    <3>1. d \in Present /\ d \in 1..joins
      BY <1>10, <2>2, PresentAre
    <3>2. d \in Conns /\ senders'[d][e] = base[d][e] /\ base[d][e] \in {0, senders[d][e]}
      BY <1>3, <1>7, <2>2, <3>1
    <3>3. senders[d][e] > 0
      BY <1>14, <3>2
    <3>4. e # c
      BY <1>11, <3>2, <3>3
    <3>5. who[d] # who[e] /\ who'[e] = who[e]
      BY <1>5, <1>6, <3>1, <3>3, <3>4 DEF SfuInv, NotSentToSelf
    <3> QED
      BY <1>8, <3>1, <3>5
  <2> QED
    BY <2>1, <2>2
<1> QED
  BY <1>9, <1>12, <1>13, <1>14 DEF SfuInv, EveryoneIsSent, NotSentToSelf

LEMMA SfuRemoveInv ==
  ASSUME SfuInv, NEW ip \in Ips, Remove(ip), late' \subseteq late,
         UNCHANGED <<joins, who, tracks, flow>>
  PROVE  SfuInv'
<1> USE SfuFacts
<1> DEFINE c == member[ip]
<1>1. CASE c = None
  <2>1. UNCHANGED <<member, open, senders>>
    BY <1>1 DEF Remove
  <2>2. Present' = Present
    BY <2>1 DEF Present
  <2> QED
    BY <2>1, <2>2, ZenonT(30) DEF SfuInv, SfuTyped, NotSentEarly, EveryoneIsSent, NotSentToSelf
<1>2. CASE c # None
  <2>1. /\ member' = [member EXCEPT ![ip] = None] /\ open' = open \ {c} /\ senders' = Removed(c)
        /\ c \in 1..joins /\ c = member[ip]
    BY <1>2 DEF Remove
  <2> HIDE DEF c
  <2>2. /\ senders' \in [Conns -> [Conns -> Nat]]
        /\ \A d, e \in Conns : /\ senders'[d][e] \in {0, senders[d][e]}
                               /\ d # c /\ e # c => senders'[d][e] = senders[d][e]
    <3>1. c \in 1..joins
      BY <2>1
    <3>2. /\ Removed(c) \in [Conns -> [Conns -> Nat]]
          /\ \A d, e \in Conns : /\ Removed(c)[d][e] \in {0, senders[d][e]}
                                 /\ d # c /\ e # c => Removed(c)[d][e] = senders[d][e]
      BY <3>1, RemovedIs
    <3> QED
      BY <2>1, <3>2
  <2>3. /\ member' \in [Ips -> 0..joins] /\ member'[ip] = None
        /\ \A i \in Ips : i # ip => member'[i] = member[i]
    BY <2>1
  <2>4. \A d \in Present' : d \in Present /\ d # c
    <3> SUFFICES ASSUME NEW d \in Present' PROVE d \in Present /\ d # c
      OBVIOUS
    <3>1. PICK i \in Ips : member'[i] = d /\ d \in Conns
      BY DEF Present
    <3>2. i # ip /\ member[i] = d /\ d # None
      BY <2>3, <3>1
    <3>3. who[d] = i /\ who[c] = ip
      BY <1>2, <2>1, <3>2
    <3> QED
      BY <3>1, <3>2, <3>3 DEF Present
  <2>5. SfuTyped'
    BY <2>1, <2>2, <2>3 DEF SfuTyped
  <2>6. NotSentEarly'
    BY <2>2 DEF SfuInv, NotSentEarly
  <2>7. EveryoneIsSent'
    BY <2>2, <2>4, PresentAre DEF SfuInv, EveryoneIsSent
  <2>8. NotSentToSelf'
    <3> SUFFICES ASSUME NEW d \in Present', NEW e \in Conns, senders'[d][e] > 0
                 PROVE  who[d] # who[e]
      BY DEF NotSentToSelf
    <3>1. d \in Present /\ d \in Conns /\ senders'[d][e] \in {0, senders[d][e]}
      BY <2>2, <2>4, PresentAre
    <3>2. senders[d][e] > 0
      BY <3>1
    <3> QED
      BY <3>1, <3>2 DEF SfuInv, NotSentToSelf
  <2> QED
    BY <2>5, <2>6, <2>7, <2>8 DEF SfuInv
<1> QED
  BY <1>1, <1>2

LEMMA SfuStepInv == SfuInv /\ [SfuNext]_sfuVars => SfuInv'
<1> SUFFICES ASSUME SfuInv, [SfuNext]_sfuVars PROVE SfuInv'
  OBVIOUS
<1> USE SfuFacts
<1> USE DEF sfuPeers, sfuTracks, sfuSignals
<1>1. CASE LeaveCall
  BY <1>1, SfuRemoveInv DEF LeaveCall
<1>2. CASE ConnFailed
  <2>1. PICK c \in late : late' = late \ {c} /\ Remove(who[c]) /\ UNCHANGED <<joins, who, tracks, flow>>
    BY <1>2 DEF ConnFailed
  <2>2. who[c] \in Ips
    OBVIOUS
  <2> QED
    BY <2>1, <2>2, SfuRemoveInv
<1>3. CASE ConnFails \/ FirstOffer \/ TimerFires \/ UNCHANGED sfuVars
  <2>1. late' \subseteq 1..joins /\ UNCHANGED <<joins, who, member, open, tracks, flow, senders>>
    BY <1>3 DEF ConnFails, FirstOffer, TimerFires, sfuVars
  <2>2. Present' = Present
    BY <2>1 DEF Present
  <2> QED
    BY <2>1, <2>2, ZenonT(30) DEF SfuInv, SfuTyped, NotSentEarly, EveryoneIsSent, NotSentToSelf
<1>4. CASE TrackArrives \/ FirstPacket \/ TrackEnds
  <2>1. PICK c \in Conns, to \in {"listed", "live", "over", "ended"} :
          /\ flow' = [flow EXCEPT ![c] = to]
          /\ \/ flow[c] = "none" /\ c \in open /\ to = "listed" /\ tracks' = tracks \cup {c}
             \/ flow[c] = "first" /\ to = "live" /\ tracks' = tracks
             \/ to \in {"over", "ended"} /\ flow[c] \in {"first", "live"} /\ tracks' = tracks \ {c}
          /\ UNCHANGED <<joins, who, member, open, late, senders>>
    BY <1>4 DEF TrackArrives, FirstPacket, TrackEnds
  <2>2. Present' = Present
    BY <2>1 DEF Present
  <2>3. SfuTyped'
    BY <2>1 DEF SfuTyped
  <2>4. NotSentEarly'
    BY <2>1 DEF SfuInv, NotSentEarly
  <2>5. EveryoneIsSent'
    BY <2>1, <2>2, PresentAre, SMTT(30) DEF SfuInv, EveryoneIsSent
  <2>6. NotSentToSelf'
    BY <2>1, <2>2 DEF SfuInv, NotSentToSelf
  <2> QED
    BY <2>3, <2>4, <2>5, <2>6 DEF SfuInv
<1>5. CASE Forward
  <2>1. PICK c \in Conns :
          /\ flow[c] = "listed" /\ flow' = [flow EXCEPT ![c] = "first"]
          /\ senders' = [d \in Conns |-> IF d \in Others(who[c])
                                         THEN [senders[d] EXCEPT ![c] = @ + 1] ELSE senders[d]]
          /\ UNCHANGED <<joins, who, member, open, late, tracks>>
    BY <1>5 DEF Forward, Receivers
  <2>2. Present' = Present
    BY <2>1 DEF Present
  <2>3. /\ senders' \in [Conns -> [Conns -> Nat]]
        /\ \A d, e \in Conns :
             senders'[d][e] = IF e = c /\ d \in Others(who[c]) THEN senders[d][e] + 1 ELSE senders[d][e]
    BY <2>1, SMTT(30)
  <2>4. SfuTyped'
    BY <2>1, <2>3 DEF SfuTyped
  <2>5. NotSentEarly'
    BY <2>1, <2>3 DEF SfuInv, NotSentEarly
  <2>6. EveryoneIsSent'
    <3> SUFFICES ASSUME NEW d \in Present, NEW e \in Present, who[d] # who[e], e \in tracks,
                        flow'[e] \in {"first", "live"}
                 PROVE  senders'[d][e] > 0
      BY <2>1, <2>2 DEF EveryoneIsSent
    <3>1. d \in Conns /\ e \in Conns /\ senders[d][e] \in Nat
      BY PresentAre
    <3>2. CASE e = c
      <4>1. d \in Others(who[c])
        BY <3>2 DEF Others
      <4> QED
        BY <2>3, <3>1, <3>2, <4>1
    <3>3. CASE e # c
      <4>1. senders[d][e] > 0
        BY <2>1, <3>1, <3>3 DEF SfuInv, EveryoneIsSent
      <4> QED
        BY <2>3, <3>1, <3>3, <4>1
    <3> QED
      BY <3>2, <3>3
  <2>7. NotSentToSelf'
    <3> SUFFICES ASSUME NEW d \in Present, NEW e \in Conns, senders'[d][e] > 0
                 PROVE  who[d] # who[e]
      BY <2>1, <2>2 DEF NotSentToSelf
    <3>1. d \in Conns
      BY PresentAre
    <3>2. CASE e = c /\ d \in Others(who[c])
      BY <3>2 DEF Others
    <3>3. CASE ~(e = c /\ d \in Others(who[c]))
      <4>1. senders[d][e] > 0
        BY <2>3, <3>1, <3>3
      <4> QED
        BY <4>1 DEF SfuInv, NotSentToSelf
    <3> QED
      BY <3>2, <3>3
  <2> QED
    BY <2>4, <2>5, <2>6, <2>7 DEF SfuInv
<1>6. CASE Unforward
  <2>1. PICK c \in Conns :
          /\ flow[c] = "ended" /\ flow' = [flow EXCEPT ![c] = "over"]
          /\ LET affected == {d \in Others(who[c]) : senders[d][c] > 0}
             IN senders' = [d \in Conns |-> IF d \in affected
                              THEN [senders[d] EXCEPT ![c] = @ - 1] ELSE senders[d]]
          /\ UNCHANGED <<joins, who, member, open, late, tracks>>
    BY <1>6 DEF Unforward
  <2> DEFINE affected == {d \in Others(who[c]) : senders[d][c] > 0}
  <2>2. Present' = Present
    BY <2>1 DEF Present
  <2>3. /\ senders' \in [Conns -> [Conns -> Nat]]
        /\ \A d, e \in Conns : /\ e # c => senders'[d][e] = senders[d][e]
                               /\ senders'[d][e] <= senders[d][e]
    <3>1. senders' = [d \in Conns |-> IF d \in affected
                        THEN [senders[d] EXCEPT ![c] = senders[d][c] - 1] ELSE senders[d]]
      BY <2>1
    <3>2. ASSUME NEW d \in Conns
          PROVE  /\ senders'[d] \in [Conns -> Nat]
                 /\ \A e \in Conns : /\ e # c => senders'[d][e] = senders[d][e]
                                     /\ senders'[d][e] <= senders[d][e]
      <4>1. senders[d] \in [Conns -> Nat]
        OBVIOUS
      <4>2. CASE d \in affected
        <5>1. senders[d][c] \in Nat /\ senders[d][c] > 0
          BY <4>1, <4>2
        <5>2. senders[d][c] - 1 \in Nat /\ senders[d][c] - 1 <= senders[d][c]
          BY <5>1
        <5>3. senders'[d] = [senders[d] EXCEPT ![c] = senders[d][c] - 1]
          BY <3>1, <4>2
        <5>4. \A e \in Conns : senders'[d][e] = IF e = c THEN senders[d][c] - 1 ELSE senders[d][e]
          BY <4>1, <5>3
        <5>5. senders'[d] \in [Conns -> Nat]
          BY <4>1, <5>2, <5>3
        <5>6. \A e \in Conns : senders[d][e] <= senders[d][e]
          BY <4>1
        <5> QED
          BY <5>2, <5>4, <5>5, <5>6
      <4>3. CASE d \notin affected
        <5>1. senders'[d] = senders[d]
          BY <3>1, <4>3
        <5> QED
          BY <4>1, <5>1
      <4> QED
        BY <4>2, <4>3
    <3>3. senders' = [d \in Conns |-> senders'[d]]
      BY <3>1
    <3>4. senders' \in [Conns -> [Conns -> Nat]]
      BY <3>2, <3>3
    <3> QED
      BY <3>2, <3>4
  <2> HIDE DEF affected
  <2>4. SfuTyped'
    BY <2>1, <2>3 DEF SfuTyped
  <2>5. NotSentEarly'
    <3>1. \A d, e \in Conns : flow'[e] = "none" => senders'[d][e] = 0
      <4> SUFFICES ASSUME NEW d \in Conns, NEW e \in Conns, flow'[e] = "none"
                   PROVE  senders'[d][e] = 0
        OBVIOUS
      <4>1. e # c /\ flow[e] = "none"
        BY <2>1
      <4> QED
        BY <2>3, <4>1 DEF SfuInv, NotSentEarly
    <3>2. \A d \in Conns : d > joins' => flow'[d] = "none"
      BY <2>1 DEF SfuInv, NotSentEarly
    <3>3. \A d \in tracks' : flow'[d] # "none"
      BY <2>1 DEF SfuInv, NotSentEarly
    <3> QED
      BY <3>1, <3>2, <3>3 DEF NotSentEarly
  <2>6. EveryoneIsSent'
    <3> SUFFICES ASSUME NEW d \in Present, NEW e \in Present, who[d] # who[e], e \in tracks,
                        flow'[e] \in {"first", "live"}
                 PROVE  senders'[d][e] > 0
      BY <2>1, <2>2 DEF EveryoneIsSent
    <3>1. d \in Conns /\ e \in Conns /\ e # c /\ flow'[e] = flow[e]
      BY <2>1, PresentAre
    <3>2. senders[d][e] > 0
      BY <3>1 DEF SfuInv, EveryoneIsSent
    <3> QED
      BY <2>3, <3>1, <3>2
  <2>7. NotSentToSelf'
    <3> SUFFICES ASSUME NEW d \in Present, NEW e \in Conns, senders'[d][e] > 0
                 PROVE  who[d] # who[e]
      BY <2>1, <2>2, ZenonT(30) DEF NotSentToSelf
    <3>1. d \in Conns
      BY PresentAre
    <3>2. senders[d][e] \in Nat /\ senders'[d][e] \in Nat /\ senders'[d][e] <= senders[d][e]
      <4>1. senders[d] \in [Conns -> Nat] /\ senders'[d] \in [Conns -> Nat]
        BY <2>3, <3>1
      <4> QED
        BY <2>3, <3>1, <4>1
    <3>3. senders[d][e] > 0
      BY <3>2, SMTT(30)
    <3> QED
      BY <3>3 DEF SfuInv, NotSentToSelf
  <2> QED
    BY <2>4, <2>5, <2>6, <2>7 DEF SfuInv
<1> QED
  BY <1>1, <1>2, <1>3, <1>4, <1>5, <1>6, SfuJoinInv DEF SfuNext

\* In whatever order participants join, are replaced by a reload, leave, fail,
\* and begin and end their tracks, each is sent all that the others publish and
\* nothing of his own (sfu.go).
THEOREM EachIsSentTheOthers == SfuSpec => []SentToAllOthers
<1>1. SfuInv => SentToAllOthers
  BY DEF SfuInv, SentToAllOthers
<1> QED
  BY SfuInitInv, SfuStepInv, <1>1, PTL DEF SfuSpec

\* The sum over the connections is defined, and of up to two of each at most twice
\* their number.
LEMMA SumIsSmall ==
  ASSUME NEW f \in [Conns -> 0..2]
  PROVE  Sum(f) \in 0..(2 * MaxJoins)
<1> USE SfuAssumption
<1>0. MaxJoins \in 0..MaxJoins
  OBVIOUS
<1> DEFINE Sums(n, g) == g = [k \in 0..n |-> IF k = 0 THEN 0 ELSE f[k] + g[k - 1]]
           Bad == {n \in 0..MaxJoins : ~\E g \in [0..n -> Nat] : Sums(n, g) /\ g[n] <= 2 * n}
<1>1. Bad = {}
  <2> SUFFICES ASSUME Bad # {} PROVE FALSE
    OBVIOUS
  <2>0. Bad \in SUBSET Nat
    OBVIOUS
  <2>1. PICK n \in Bad : \A m \in Bad : n <= m
    BY <2>0, LeastOfNats
  <2>2. CASE n = 0
    <3> DEFINE g == [k \in 0..n |-> 0]
    <3>1. g \in [0..n -> Nat] /\ Sums(n, g) /\ g[n] <= 2 * n
      BY <2>2
    <3> QED
      BY <2>1, <3>1
  <2>3. CASE n # 0
    <3>1. n \in 1..MaxJoins /\ n - 1 \in 0..MaxJoins /\ n - 1 \in Nat /\ ~(n <= n - 1)
      BY <2>3
    <3>2. n - 1 \notin Bad
      BY <2>1, <3>1
    <3>3. PICK h \in [0..(n - 1) -> Nat] : Sums(n - 1, h) /\ h[n - 1] <= 2 * (n - 1)
      BY <3>1, <3>2
    <3>4. f[n] \in 0..2
      BY <3>1 DEF Conns
    <3> DEFINE g == [k \in 0..n |-> IF k = n THEN f[n] + h[n - 1] ELSE h[k]]
    <3>5. \A k \in 0..n : k = n \/ k \in 0..(n - 1)
      BY <3>1
    <3>6. g \in [0..n -> Nat]
      BY <3>1, <3>4, <3>5
    <3>7. g[n] = f[n] + h[n - 1] /\ g[n] <= 2 * n
      BY <3>1, <3>3, <3>4
    <3>8. \A k \in 0..n : g[k] = IF k = 0 THEN 0 ELSE f[k] + g[k - 1]
      <4> SUFFICES ASSUME NEW k \in 0..n PROVE g[k] = IF k = 0 THEN 0 ELSE f[k] + g[k - 1]
        OBVIOUS
      <4>1. CASE k = n
        <5>1. n - 1 \in 0..n /\ n - 1 # n
          BY <3>1
        <5> QED
          BY <3>1, <3>7, <4>1, <5>1
      <4>2. CASE k # n
        <5>1. k \in 0..(n - 1) /\ (k # 0 => k - 1 \in 0..n /\ k - 1 # n)
          BY <3>1, <4>2
        <5>2. h[k] = IF k = 0 THEN 0 ELSE f[k] + h[k - 1]
          BY <3>3, <5>1
        <5> QED
          BY <4>2, <5>1, <5>2
      <4> QED
        BY <4>1, <4>2
    <3>9. Sums(n, g)
      BY <3>8
    <3> QED
      BY <2>1, <3>1, <3>6, <3>7, <3>9
  <2> QED
    BY <2>2, <2>3
<1>2. PICK g \in [0..MaxJoins -> Nat] : Sums(MaxJoins, g) /\ g[MaxJoins] <= 2 * MaxJoins
  <2>1. MaxJoins \notin Bad
    BY <1>1, Zenon
  <2> QED
    BY <1>0, <2>1
<1> DEFINE sum == CHOOSE s : Sums(MaxJoins, s)
<1>3. Sums(MaxJoins, sum)
  BY <1>2
<1>4. Sum(f) = sum[MaxJoins]
  BY DEF Sum
<1>5. sum = g
  <2> DEFINE Differ == {k \in 0..MaxJoins : sum[k] # g[k]}
  <2>1. Differ = {}
    <3> SUFFICES ASSUME Differ # {} PROVE FALSE
      OBVIOUS
    <3>1. Differ \in SUBSET Nat
      OBVIOUS
    <3>2. PICK k \in Differ : \A l \in Differ : k <= l
      BY <3>1, LeastOfNats
    <3> HIDE DEF sum
    <3>3. k # 0 /\ k \in 0..MaxJoins
      BY <1>2, <1>3, <3>2
    <3>4. k - 1 \in 0..MaxJoins /\ ~(k <= k - 1)
      BY <3>3
    <3>5. sum[k - 1] = g[k - 1]
      BY <3>2, <3>4
    <3> QED
      BY <1>2, <1>3, <3>2, <3>3, <3>5
  <2> HIDE DEF sum
  <2>2. \A k \in 0..MaxJoins : sum[k] = g[k]
    BY <2>1
  <2> QED
    BY <1>2, <1>3, <2>2
<1> QED
  <2>1. Sum(f) = g[MaxJoins]
    BY <1>4, <1>5, Zenon
  <2>2. g[MaxJoins] \in Nat
    BY <1>0
  <2> HIDE DEF Sums, sum
  <2> QED
    BY <1>2, <2>1, <2>2, SfuAssumption

\* The other types of the SFU: each member's connection is open, and nothing else is;
\* a track is sent once as long as it is not forwarded, and twice at most.
SfuTypes ==
  /\ fails \in 0..MaxFails
  /\ \A ip \in Ips : member[ip] # None => member[ip] \in open
  /\ open \subseteq Present
  /\ \A c, d \in Conns :
       senders[c][d] <= 2 /\ (flow[d] \in {"none", "listed"} => senders[c][d] <= 1)
  /\ timers \in [Ips -> 0..joins]
  /\ mlines \in [Conns -> 0..(2 * MaxJoins)]

\* What the types say of one connection and one track.
LEMMA SentOnceOrTwice ==
  ASSUME SfuInv, SfuTypes, NEW d \in Conns, NEW e \in Conns
  PROVE  /\ senders[d] \in [Conns -> Nat] /\ senders[d][e] \in Nat /\ senders[d][e] <= 2
         /\ flow[e] \in {"none", "listed"} => senders[d][e] <= 1
<1>1. senders[d] \in [Conns -> Nat] /\ senders[d][e] \in Nat
  BY SfuFacts
<1>2. senders[d][e] <= 2 /\ (flow[e] \in {"none", "listed"} => senders[d][e] <= 1)
  BY Zenon DEF SfuTypes
<1> QED
  BY <1>1, <1>2

\* A timer is set for a connection that was made.
LEMMA RenegotiateIs ==
  ASSUME SfuInv, SfuTypes, NEW cs, cs \subseteq 1..joins
  PROVE  Renegotiate(cs) \in [Ips -> 0..joins]
<1> USE SfuFacts
<1> SUFFICES ASSUME NEW ip \in Ips
             PROVE  (IF \E c \in cs : who[c] = ip
                     THEN CHOOSE c \in cs : who[c] = ip ELSE timers[ip]) \in 0..joins
  BY DEF Renegotiate
<1>1. CASE \E c \in cs : who[c] = ip
  <2>1. (CHOOSE c \in cs : who[c] = ip) \in cs
    BY <1>1
  <2>2. cs \subseteq 0..joins
    OBVIOUS
  <2> QED
    BY <1>1, <2>1, <2>2, Zenon
<1>2. CASE ~\E c \in cs : who[c] = ip
  <2>1. timers[ip] \in 0..joins
    BY DEF SfuTypes
  <2> QED
    BY <1>2, <2>1, Zenon
<1> QED
  BY <1>1, <1>2

\* Whose participant is removed has no connection open; the others' stay.
LEMMA SfuTypesRemove ==
  ASSUME SfuInv, SfuTypes, NEW ip \in Ips, Remove(ip),
         UNCHANGED <<joins, who, tracks, flow, fails>>
  PROVE  SfuTypes'
<1> USE SfuFacts
<1> DEFINE c == member[ip]
<1>1. CASE c = None
  <2>1. UNCHANGED <<member, open, senders, timers, mlines>>
    BY <1>1 DEF Remove
  <2> QED
    BY <2>1 DEF SfuTypes, Present
<1>2. CASE c # None
  <2>1. /\ member' = [member EXCEPT ![ip] = None] /\ open' = open \ {c} /\ senders' = Removed(c)
        /\ timers' = Renegotiate(Others(ip)) /\ mlines' = [mlines EXCEPT ![c] = 0]
        /\ c \in 1..joins /\ c = member[ip]
    BY <1>2 DEF Remove
  <2> HIDE DEF c
  <2>2. \A d, e \in Conns : senders'[d][e] \in {0, senders[d][e]}
    BY <2>1, RemovedIs
  <2>3. timers' \in [Ips -> 0..joins]
    BY <2>1, RenegotiateIs, PresentAre
  <2>4. \A i \in Ips : member'[i] = IF i = ip THEN None ELSE member[i]
    BY <2>1
  <2>5. \A i \in Ips : member'[i] # None => member'[i] \in open'
    <3> SUFFICES ASSUME NEW i \in Ips, i # ip, member[i] # None PROVE member[i] \in open'
      BY <2>4
    <3>1. who[member[i]] = i /\ who[c] = ip
      BY <1>2, <2>1
    <3> QED
      BY <2>1, <3>1 DEF SfuTypes
  <2>6. open' \subseteq Present'
    <3> SUFFICES ASSUME NEW d \in open, d # c PROVE d \in Present'
      BY <2>1
    <3>1. d \in Conns /\ \E i \in Ips : member[i] = d
      BY DEF SfuTypes, Present
    <3>2. PICK i \in Ips : member[i] = d
      BY <3>1
    <3>3. i # ip /\ member'[i] = d
      BY <2>1, <2>4, <3>2
    <3> QED
      BY <3>1, <3>3 DEF Present
  <2>7. mlines' \in [Conns -> 0..(2 * MaxJoins)]
    BY <2>1 DEF SfuTypes
  <2>8. \A d, e \in Conns :
          senders'[d][e] <= 2 /\ (flow'[e] \in {"none", "listed"} => senders'[d][e] <= 1)
    <3> SUFFICES ASSUME NEW d \in Conns, NEW e \in Conns
                 PROVE  /\ senders'[d][e] <= 2
                        /\ flow[e] \in {"none", "listed"} => senders'[d][e] <= 1
      OBVIOUS
    <3>1. senders'[d][e] \in {0, senders[d][e]}
      BY <2>2
    <3> QED
      BY <3>1 DEF SfuTypes
  <2> QED
    BY <2>3, <2>5, <2>6, <2>7, <2>8 DEF SfuTypes
<1> QED
  BY <1>1, <1>2

\* A join replaces the connection of its own address only.
LEMMA SfuTypesJoin == ASSUME SfuInv, SfuTypes, AddParticipant PROVE SfuTypes'
<1> USE SfuFacts
<1> DEFINE c == joins + 1
<1>1. PICK ip \in Ips : LET old == member[ip] IN
        /\ member' = [member EXCEPT ![ip] = c]
        /\ open' = (open \ {old}) \cup {c}
        /\ mlines' = IF old = None THEN mlines ELSE [mlines EXCEPT ![old] = 0]
        /\ senders' = [(IF old = None THEN senders ELSE Removed(old))
                         EXCEPT ![c] = [d \in Conns |-> IF d \in Others(ip) \cap tracks
                                                        THEN 1 ELSE 0]]
  BY DEF AddParticipant
<1>2. joins < MaxJoins /\ joins' = c /\ UNCHANGED <<fails, tracks, flow, timers>>
  BY DEF AddParticipant
<1> DEFINE old == member[ip]
           base == IF old = None THEN senders ELSE Removed(old)
           sent == [d \in Conns |-> IF d \in Others(ip) \cap tracks THEN 1 ELSE 0]
<1>3. /\ base \in [Conns -> [Conns -> Nat]]
      /\ \A d, e \in Conns : base[d][e] \in {0, senders[d][e]}
  <2>1. CASE old = None
    BY <2>1
  <2>2. CASE old # None
    <3>1. old \in 1..joins /\ base = Removed(old)
      BY <2>2
    <3> HIDE DEF old, base
    <3> QED
      BY <3>1, RemovedIs, SMTT(30)
  <2> QED
    BY <2>1, <2>2
<1>4. \A d \in Conns : sent[d] \in {0, 1}
  OBVIOUS
<1>5. /\ member' = [member EXCEPT ![ip] = c] /\ open' = (open \ {old}) \cup {c}
      /\ senders' = [base EXCEPT ![c] = sent] /\ old = member[ip]
      /\ mlines' = IF old = None THEN mlines ELSE [mlines EXCEPT ![old] = 0]
  BY <1>1
<1>6. /\ c \in Conns /\ c \notin 1..joins /\ c # None /\ 0..joins \subseteq 0..c
      /\ old \in 0..joins
  BY <1>2
<1> HIDE DEF c, old, base, sent
<1>7. \A d, e \in Conns : senders'[d][e] = IF d = c THEN sent[e] ELSE base[d][e]
  BY <1>3, <1>5, <1>6
<1>8. \A d, e \in Conns :
        senders'[d][e] <= 2 /\ (flow'[e] \in {"none", "listed"} => senders'[d][e] <= 1)
  <2> SUFFICES ASSUME NEW d \in Conns, NEW e \in Conns
               PROVE  senders'[d][e] <= 2 /\ (flow[e] \in {"none", "listed"} => senders'[d][e] <= 1)
    BY <1>2
  <2>1. CASE d = c
    <3>1. senders'[d][e] = sent[e] /\ sent[e] \in {0, 1}
      BY <1>4, <1>7, <2>1
    <3> QED
      BY <3>1
  <2>2. CASE d # c
    <3>1. senders'[d][e] \in {0, senders[d][e]}
      BY <1>3, <1>7, <2>2
    <3> QED
      BY <3>1 DEF SfuTypes
  <2> QED
    BY <2>1, <2>2
<1>9. \A i \in Ips : member'[i] = IF i = ip THEN c ELSE member[i]
  BY <1>5
<1>10. \A i \in Ips : member'[i] # None => member'[i] \in open'
  <2> SUFFICES ASSUME NEW i \in Ips, i # ip, member[i] # None PROVE member[i] \in open'
    BY <1>5, <1>9
  <2>1. who[member[i]] = i /\ (old # None => who[old] = ip)
    BY <1>5
  <2> QED
    BY <1>5, <2>1 DEF SfuTypes
<1>11. open' \subseteq Present'
  <2>1. c \in Present'
    BY <1>6, <1>9 DEF Present
  <2> SUFFICES ASSUME NEW d \in open, d # old PROVE d \in Present'
    BY <1>5, <2>1
  <2>2. d \in Conns /\ \E i \in Ips : member[i] = d
    BY DEF SfuTypes, Present
  <2>3. PICK i \in Ips : member[i] = d
    BY <2>2
  <2>4. i # ip /\ member'[i] = d
    BY <1>5, <1>9, <2>3
  <2> QED
    BY <2>2, <2>4 DEF Present
<1>12. timers' \in [Ips -> 0..c]
  BY <1>2, <1>6 DEF SfuTypes
<1>13. mlines' \in [Conns -> 0..(2 * MaxJoins)]
  BY <1>5 DEF SfuTypes
<1> QED
  BY <1>2, <1>8, <1>10, <1>11, <1>12, <1>13 DEF SfuTypes

\* Forwarding is what sends a track a second time, and happens once.
LEMMA SfuTypesStep == SfuInv /\ SfuTypes /\ [SfuNext]_sfuVars => SfuTypes'
<1> SUFFICES ASSUME SfuInv, SfuTypes, [SfuNext]_sfuVars PROVE SfuTypes'
  OBVIOUS
<1> USE SfuFacts
<1> USE DEF sfuPeers, sfuTracks, sfuSignals
<1>1. CASE LeaveCall
  BY <1>1, SfuTypesRemove DEF LeaveCall
<1>2. CASE ConnFailed
  <2>1. PICK c \in late : Remove(who[c]) /\ UNCHANGED <<joins, who, tracks, flow, fails>>
    BY <1>2 DEF ConnFailed
  <2>2. who[c] \in Ips
    OBVIOUS
  <2> QED
    BY <2>1, <2>2, SfuTypesRemove
<1>3. CASE ConnFails \/ UNCHANGED sfuVars
  <2>1. fails' \in 0..MaxFails
    BY <1>3, SfuAssumption DEF ConnFails, sfuVars, SfuTypes
  <2>2. UNCHANGED <<joins, who, member, open, flow, senders, timers, mlines>>
    BY <1>3 DEF ConnFails, sfuVars
  <2> QED
    BY <2>1, <2>2 DEF SfuTypes, Present
<1>4. CASE TrackArrives \/ FirstPacket \/ TrackEnds
  <2>1. PICK c \in Conns, to \in {"listed", "live", "over", "ended"} :
          /\ flow' = [flow EXCEPT ![c] = to]
          /\ to = "listed" => flow[c] = "none"
          /\ UNCHANGED <<joins, who, member, open, fails, senders, timers, mlines>>
    BY <1>4 DEF TrackArrives, FirstPacket, TrackEnds
  <2>2. \A e \in Conns : flow'[e] \in {"none", "listed"} => flow[e] \in {"none", "listed"}
    BY <2>1
  <2> QED
    BY <2>1, <2>2 DEF SfuTypes, Present
<1>5. CASE Forward
  <2>1. PICK c \in Conns :
          /\ flow[c] = "listed" /\ flow' = [flow EXCEPT ![c] = "first"]
          /\ senders' = [d \in Conns |-> IF d \in Others(who[c])
                                         THEN [senders[d] EXCEPT ![c] = @ + 1] ELSE senders[d]]
          /\ timers' = Renegotiate(Others(who[c]))
          /\ UNCHANGED <<joins, who, member, open, fails, tracks, mlines>>
    BY <1>5 DEF Forward, Receivers
  <2>2. \A d, e \in Conns :
          senders'[d][e] = IF e = c /\ d \in Others(who[c]) THEN senders[d][e] + 1 ELSE senders[d][e]
    BY <2>1, SMTT(30)
  <2>3. timers' \in [Ips -> 0..joins]
    BY <2>1, RenegotiateIs, PresentAre
  <2>4. ASSUME NEW d \in Conns, NEW e \in Conns
        PROVE  senders'[d][e] <= 2 /\ (flow'[e] \in {"none", "listed"} => senders'[d][e] <= 1)
    <3>1. /\ senders[d][e] \in Nat /\ senders[d][e] <= 2
          /\ flow[e] \in {"none", "listed"} => senders[d][e] <= 1
      BY SentOnceOrTwice
    <3>2. CASE e = c
      <4>1. flow[e] = "listed" /\ flow'[e] = "first"
        BY <2>1, <3>2
      <4>2. senders'[d][e] \in {senders[d][e], senders[d][e] + 1}
        BY <2>2
      <4> QED
        BY <3>1, <4>1, <4>2
    <3>3. CASE e # c
      <4>1. flow'[e] = flow[e] /\ senders'[d][e] = senders[d][e]
        BY <2>1, <2>2, <3>3
      <4> QED
        BY <3>1, <4>1
    <3> QED
      BY <3>2, <3>3
  <2> QED
    BY <2>1, <2>3, <2>4 DEF SfuTypes, Present
<1>6. CASE Unforward
  <2>1. PICK c \in Conns :
          /\ flow[c] = "ended" /\ flow' = [flow EXCEPT ![c] = "over"]
          /\ LET affected == {d \in Others(who[c]) : senders[d][c] > 0}
             IN /\ senders' = [d \in Conns |-> IF d \in affected
                                 THEN [senders[d] EXCEPT ![c] = @ - 1] ELSE senders[d]]
                /\ timers' = Renegotiate(affected)
          /\ UNCHANGED <<joins, who, member, open, fails, tracks, mlines>>
    BY <1>6 DEF Unforward
  <2> DEFINE affected == {d \in Others(who[c]) : senders[d][c] > 0}
  <2>2. /\ senders' = [d \in Conns |-> IF d \in affected
                         THEN [senders[d] EXCEPT ![c] = senders[d][c] - 1] ELSE senders[d]]
        /\ timers' = Renegotiate(affected) /\ affected \subseteq 1..joins
    BY <2>1, PresentAre
  <2> HIDE DEF affected
  <2>3. timers' \in [Ips -> 0..joins]
    BY <2>2, RenegotiateIs
  <2>4. ASSUME NEW d \in Conns, NEW e \in Conns
        PROVE  senders'[d][e] <= 2 /\ (flow'[e] \in {"none", "listed"} => senders'[d][e] <= 1)
    <3>1. /\ senders[d] \in [Conns -> Nat] /\ senders[d][e] \in Nat /\ senders[d][e] <= 2
          /\ flow[e] \in {"none", "listed"} => senders[d][e] <= 1
      BY SentOnceOrTwice
    <3>2. senders'[d][e] \in {senders[d][e], senders[d][e] - 1}
      <4>1. CASE d \in affected
        <5>1. senders'[d] = [senders[d] EXCEPT ![c] = senders[d][c] - 1]
          BY <2>2, <4>1
        <5> QED
          BY <3>1, <5>1
      <4>2. CASE d \notin affected
        BY <2>2, <4>2
      <4> QED
        BY <4>1, <4>2
    <3>3. flow'[e] \in {"none", "listed"} => flow[e] \in {"none", "listed"}
      BY <2>1
    <3> QED
      BY <3>1, <3>2, <3>3
  <2> QED
    BY <2>1, <2>3, <2>4 DEF SfuTypes, Present
<1>7. CASE FirstOffer
  <2>1. PICK c \in Present :
          /\ mlines' = [mlines EXCEPT ![c] = 1] /\ timers' = Renegotiate(Unserved(c, 1))
          /\ UNCHANGED <<joins, who, member, open, fails, flow, senders>>
    BY <1>7 DEF FirstOffer
  <2>2. Unserved(c, 1) \subseteq 1..joins
    BY PresentAre DEF Unserved
  <2>3. timers' \in [Ips -> 0..joins]
    BY <2>1, <2>2, RenegotiateIs
  <2>4. mlines' \in [Conns -> 0..(2 * MaxJoins)]
    <3>1. MaxJoins > 0
      BY PresentAre
    <3>2. 1 \in 0..(2 * MaxJoins)
      BY <3>1
    <3> QED
      BY <2>1, <3>2 DEF SfuTypes
  <2> QED
    BY <2>1, <2>3, <2>4 DEF SfuTypes, Present
<1>8. CASE TimerFires
  <2>1. PICK ip \in Ips :
          /\ timers[ip] # None
          /\ \/ timers' = [timers EXCEPT ![ip] = None] /\ UNCHANGED mlines
             \/ \E c \in Present :
                  /\ mlines' = [mlines EXCEPT ![c] = Larger(@, Sum(senders[timers[ip]]))]
                  /\ timers' = [timers EXCEPT
                                   ![ip] = IF Unserved(c, mlines'[c]) = {} THEN None ELSE c]
    BY <1>8 DEF TimerFires
  <2>2. UNCHANGED <<joins, who, member, open, fails, flow, senders>>
    BY <1>8 DEF TimerFires
  <2>3. timers \in [Ips -> 0..joins] /\ timers[ip] \in Conns
        /\ mlines \in [Conns -> 0..(2 * MaxJoins)]
    <3>1. timers \in [Ips -> 0..joins] /\ mlines \in [Conns -> 0..(2 * MaxJoins)]
      BY DEF SfuTypes
    <3>2. timers[ip] \in 1..joins
      BY <2>1, <3>1
    <3> QED
      BY <3>1, <3>2
  <2>4. senders[timers[ip]] \in [Conns -> 0..2]
    <3>1. senders[timers[ip]] \in [Conns -> Nat]
      BY <2>3
    <3>2. \A d \in Conns : senders[timers[ip]][d] \in 0..2
      <4> SUFFICES ASSUME NEW d \in Conns PROVE senders[timers[ip]][d] \in 0..2
        OBVIOUS
      <4>1. senders[timers[ip]][d] \in Nat /\ senders[timers[ip]][d] <= 2
        BY <2>3, SentOnceOrTwice
      <4> DEFINE n == senders[timers[ip]][d]
      <4> HIDE DEF n
      <4>2. n \in Nat /\ n <= 2 => n \in 0..2
        OBVIOUS
      <4> QED
        BY <4>1, <4>2 DEF n
    <3> QED
      BY <3>1, <3>2
  <2>5. Sum(senders[timers[ip]]) \in 0..(2 * MaxJoins)
    BY <2>4, SumIsSmall
  <2>6. /\ timers' \in [Ips -> 0..joins]
        /\ mlines' \in [Conns -> 0..(2 * MaxJoins)]
    <3>1. CASE timers' = [timers EXCEPT ![ip] = None] /\ UNCHANGED mlines
      <4>1. None \in 0..joins
        OBVIOUS
      <4> QED
        BY <2>3, <3>1, <4>1
    <3>2. ASSUME NEW c \in Present,
                 mlines' = [mlines EXCEPT ![c] = Larger(@, Sum(senders[timers[ip]]))],
                 timers' = [timers EXCEPT ![ip] = IF Unserved(c, mlines'[c]) = {} THEN None ELSE c]
          PROVE  timers' \in [Ips -> 0..joins] /\ mlines' \in [Conns -> 0..(2 * MaxJoins)]
      <4>1. c \in Conns /\ c \in 0..joins /\ None \in 0..joins
        BY PresentAre
      <4>2. Larger(mlines[c], Sum(senders[timers[ip]])) \in 0..(2 * MaxJoins)
        BY <2>3, <2>5, <4>1 DEF Larger
      <4> QED
        BY <2>3, <3>2, <4>1, <4>2
    <3> QED
      BY <2>1, <3>1, <3>2
  <2> QED
    BY <2>2, <2>6 DEF SfuTypes, Present
<1> QED
  BY <1>1, <1>2, <1>3, <1>4, <1>5, <1>6, <1>7, <1>8, SfuTypesJoin DEF SfuNext

LEMMA SfuTypesInit == SfuInit => SfuTypes
<1> SUFFICES ASSUME SfuInit PROVE SfuTypes
  OBVIOUS
<1>1. \A d \in Conns : Nothing[d] = 0
  BY DEF Nothing
<1> QED
  BY <1>1, SfuAssumption DEF SfuInit, SfuTypes, None, Conns, Present

LEMMA SfuIsTyped == SfuInv /\ SfuTypes => SfuTypeOK
<1> SUFFICES ASSUME SfuInv, SfuTypes PROVE SfuTypeOK
  OBVIOUS
<1>1. senders \in [Conns -> [Conns -> 0..2]]
  <2>1. \A c \in Conns : senders[c] \in [Conns -> 0..2]
    <3> SUFFICES ASSUME NEW c \in Conns PROVE senders[c] \in [Conns -> 0..2]
      OBVIOUS
    <3>1. senders[c] \in [Conns -> Nat]
      BY SfuFacts
    <3>2. \A d \in Conns : senders[c][d] \in 0..2
      BY <3>1 DEF SfuTypes
    <3> QED
      BY <3>1, <3>2
  <2> QED
    BY <2>1, SfuFacts
<1> QED
  BY <1>1, SfuFacts DEF SfuTypeOK, SfuTypes

-----------------------------------------------------------------------------
(* Secrets.                                                                *)

Statements == {"nothing", "migrate", "repoint", "entries", "envs", "vault", "read"}

SecretsTyped ==
  /\ vaults \subseteq Nat \ {0}
  /\ envs \in [EnvSet -> [vault : Nat, shared : BOOLEAN]]
  /\ \A e \in EnvSet : envs[e] # Absent => envs[e].vault # 0 /\ e <= madeIds.envs
  /\ entries \in [SecretSet -> {Gone, 0} \cup EnvSet]
  /\ madeIds \in [vaults : Nat, envs : Nat, secrets : Nat] /\ madeIds.envs <= EnvIds
  /\ statement \in [do : Statements, of : Nat, todo : SUBSET Nat]

\* What is being deleted goes from the inside out: no secret is left when its
\* environment goes, and no environment when its vault does.
DeletesInsideOut ==
  /\ statement.do \in {"entries", "envs"} =>
       /\ statement.todo \subseteq EnvSet
       /\ statement.of # 0 => EnvsOf(statement.of) \subseteq statement.todo
  /\ statement.do = "envs" => EntriesOf(statement.todo) = {}
  /\ statement.do = "vault" /\ statement.of # 0 => EnvsOf(statement.of) = {}

\* A store migrates before it is opened, and then has no old column.
MigratesFirst ==
  /\ statement.do \in {"migrate", "repoint"} => ~opened /\ statement.todo \subseteq vaults
  /\ statement.do = "repoint" => statement.of \in EnvSet /\ envs[statement.of] # Absent
  /\ statement.do \in {"entries", "envs", "vault", "read"} => opened
  /\ opened => ~legacyColumn

\* Where a secret without an environment waits for one: its vault has none yet
\* and is still to be looked at, or has just got it.
Waits(v) ==
  /\ v \in vaults
  /\ \/ statement.do = "nothing" /\ EnvsOf(v) = {}
     \/ statement.do \in {"migrate", "repoint"} /\ v \in statement.todo /\ EnvsOf(v) = {}
     \/ statement.do = "repoint" /\ v = envs[statement.of].vault

NothingIsLost ==
  \A s \in SecretSet :
    entries[s] = 0 /\ legacyVault[s] \notin cutShort => legacyColumn /\ Waits(legacyVault[s])

\* What has been read of the tree is that of what is shown now.
ReadSoFar ==
  statement.do = "read" =>
    /\ statement.todo \subseteq ShownEnvs(statement.of = 1)
    /\ tree = TreeOf(ShownEnvs(statement.of = 1) \ statement.todo)

SecretsInv ==
  /\ SecretsTyped /\ NothingOrphaned /\ DeletesInsideOut /\ MigratesFirst /\ NothingIsLost
  /\ ReadSoFar

LEMMA SecretsFacts ==
  /\ VaultIds \in Nat /\ EnvIds \in Nat /\ SecretIds \in Nat
  /\ EnvSet = 1..EnvIds /\ Gone \notin EnvSet /\ Gone # 0 /\ 0 \notin EnvSet
  /\ Absent.vault = 0 /\ Absent \in [vault : Nat, shared : BOOLEAN]
  /\ \A v \in Nat, shared \in BOOLEAN :
       /\ Environment(v, shared) \in [vault : Nat, shared : BOOLEAN]
       /\ Environment(v, shared).vault = v
       /\ v # 0 => Environment(v, shared) # Absent
BY SecretsAssumption DEF EnvSet, Gone, Absent, Environment

LEMMA SecretsInitInv == SecretsInit => SecretsInv
<1> SUFFICES ASSUME SecretsInit PROVE SecretsInv
  OBVIOUS
<1> USE SecretsFacts
<1>1. /\ vaults \subseteq {1, 2} /\ envs = [e \in EnvSet |-> Absent] /\ statement = Free
      /\ \A s \in SecretSet : entries[s] = IF legacyVault[s] = 0 THEN Gone ELSE 0
      /\ entries \in [SecretSet -> {Gone, 0} \cup EnvSet] /\ opened = FALSE
  <2>1. vaults \subseteq {1, 2}
    BY DEF SecretsInit
  <2>2. entries = [s \in SecretSet |-> IF legacyVault[s] = 0 THEN Gone ELSE 0]
    BY DEF SecretsInit
  <2>3. /\ entries \in [SecretSet -> {Gone, 0} \cup EnvSet]
        /\ \A s \in SecretSet : entries[s] = IF legacyVault[s] = 0 THEN Gone ELSE 0
    BY <2>2
  <2> QED
    BY <2>1, <2>3 DEF SecretsInit
<1>2. Free \in [do : Statements, of : Nat, todo : SUBSET Nat] /\ Free.do = "nothing"
  BY DEF Free, Statements
<1>3. \A e \in EnvSet : envs[e] = Absent
  BY <1>1
<1>4. SecretsTyped
  <2>1. Cardinality({s \in SecretSet : legacyVault[s] # 0}) \in Nat
    <3>1. IsFiniteSet(1..SecretIds)
      BY FS_Interval
    <3>2. {s \in SecretSet : legacyVault[s] # 0} \subseteq 1..SecretIds
      BY DEF SecretSet
    <3> QED
      BY <3>1, <3>2, FS_Subset, FS_CardinalityType
  <2>2. Cardinality(vaults) \in Nat
    <3>1. \A k \in Nat : IsFiniteSet(1..k)
      BY FS_Interval
    <3>2. vaults \subseteq 1..2 /\ 2 \in Nat
      BY <1>1
    <3> QED
      BY <3>1, <3>2, FS_Subset, FS_CardinalityType, Zenon
  <2>3. madeIds \in [vaults : Nat, envs : Nat, secrets : Nat] /\ madeIds.envs = 0
    BY <2>1, <2>2 DEF SecretsInit
  <2> QED
    BY <1>1, <1>2, <1>3, <2>3 DEF SecretsTyped
<1>5. NothingOrphaned
  BY <1>1, <1>3 DEF NothingOrphaned
<1>6. NothingIsLost
  <2> SUFFICES ASSUME NEW s \in SecretSet, entries[s] = 0
               PROVE  legacyColumn /\ Waits(legacyVault[s])
    BY DEF NothingIsLost
  <2>1. legacyVault[s] # 0
    BY <1>1
  <2>2. legacyVault[s] \in vaults /\ legacyColumn
    <3>1. vaults = {1, 2} /\ legacyVault \in [SecretSet -> 0..2]
      BY <2>1 DEF SecretsInit
    <3>2. vaults # {}
      BY <3>1
    <3>3. legacyColumn
      BY <3>2 DEF SecretsInit
    <3> QED
      BY <2>1, <3>1, <3>3
  <2>3. EnvsOf(legacyVault[s]) = {}
    BY <1>3, <2>1 DEF EnvsOf
  <2> QED
    BY <1>1, <1>2, <2>2, <2>3 DEF Waits
<1> QED
  BY <1>1, <1>2, <1>4, <1>5, <1>6 DEF SecretsInv, DeletesInsideOut, MigratesFirst, ReadSoFar

\* A step that touches no table, while the statement was none or is a read.
LEMMA TablesStay ==
  ASSUME UNCHANGED <<tables, legacy, lateRows>>
  PROVE  /\ NothingOrphaned => NothingOrphaned'
         /\ \A v : EnvsOf(v)' = EnvsOf(v)
         /\ \A es : EntriesOf(es)' = EntriesOf(es)
         /\ \A all : ShownEnvs(all)' = ShownEnvs(all)
         /\ \A es : TreeOf(es)' = TreeOf(es)
BY DEF tables, legacy, lateRows, NothingOrphaned, EnvsOf, EntriesOf, ShownEnvs, TreeOf

LEMMA TreeOfBoth == \A A, B : TreeOf(A) \cup TreeOf(B) = TreeOf(A \cup B)
<1> SUFFICES ASSUME NEW A, NEW B PROVE TreeOf(A) \cup TreeOf(B) = TreeOf(A \cup B)
  OBVIOUS
<1> DEFINE Row(e) == [env |-> e, entries |-> EntriesOf({e})]
<1>1. /\ TreeOf(A) = {Row(e) : e \in A} /\ TreeOf(B) = {Row(e) : e \in B}
      /\ TreeOf(A \cup B) = {Row(e) : e \in A \cup B}
  BY DEF TreeOf
<1> HIDE DEF Row
<1> QED
  BY <1>1

LEMMA OpenStoreInv == ASSUME SecretsInv, OpenStore PROVE SecretsInv'
<1> USE SecretsFacts
<1>1. /\ ~opened /\ statement = Free /\ statement' = [do |-> "migrate", of |-> 0, todo |-> vaults]
      /\ UNCHANGED <<vaults, envs, entries, legacyVault, legacyColumn, legacyShare, madeIds, opened,
                     tree, lateEnvs, lateSecrets, cutShort>>
  BY DEF OpenStore, Goes, MutexFree, tables, legacy, lateRows
<1>2. /\ NothingOrphaned' /\ \A v : EnvsOf(v)' = EnvsOf(v)
  BY <1>1, TablesStay DEF SecretsInv, tables, legacy, lateRows
<1>3. statement.do = "nothing" /\ statement'.do = "migrate" /\ statement'.todo = vaults
  BY <1>1 DEF Free
<1>4. SecretsTyped'
  BY <1>1 DEF SecretsInv, SecretsTyped, Statements
<1>5. NothingIsLost'
  <2> SUFFICES ASSUME NEW s \in SecretSet, entries[s] = 0, legacyVault[s] \notin cutShort
               PROVE  (legacyColumn /\ Waits(legacyVault[s]))'
    BY <1>1 DEF NothingIsLost
  <2>1. legacyColumn /\ legacyVault[s] \in vaults /\ EnvsOf(legacyVault[s]) = {}
    BY <1>3 DEF SecretsInv, NothingIsLost, Waits
  <2> QED
    BY <1>1, <1>2, <1>3, <2>1 DEF Waits
<1> QED
  BY <1>1, <1>2, <1>3, <1>4, <1>5 DEF SecretsInv, DeletesInsideOut, MigratesFirst, ReadSoFar

LEMMA MigrateVaultInv == ASSUME SecretsInv, MigrateVault PROVE SecretsInv'
<1> USE SecretsFacts
<1>1. PICK v \in statement.todo :
        IF EnvsOf(v) = {}
        THEN LET e == madeIds.envs + 1 IN
             /\ e \in EnvSet
             /\ envs' = [envs EXCEPT ![e] = Environment(v, v \in legacyShare)]
             /\ madeIds' = [madeIds EXCEPT !.envs = e]
             /\ Goes("repoint", e, statement.todo \ {v})
        ELSE /\ Goes("migrate", 0, statement.todo \ {v})
             /\ UNCHANGED <<envs, madeIds>>
  BY DEF MigrateVault, Unmigrated
<1>2. /\ statement.do = "migrate" /\ ~opened /\ statement.todo \subseteq vaults
      /\ UNCHANGED <<vaults, entries, legacyVault, legacyColumn, legacyShare, opened, tree, lateEnvs,
                     lateSecrets, cutShort>>
  BY DEF MigrateVault, SecretsInv, MigratesFirst, legacy, lateRows
<1>3. v \in vaults /\ v \in Nat \ {0} /\ statement.todo \subseteq Nat
  BY <1>2 DEF SecretsInv, SecretsTyped
<1>4. ASSUME NEW s \in SecretSet, entries[s] = 0, legacyVault[s] \notin cutShort
      PROVE  legacyColumn /\ legacyVault[s] \in statement.todo /\ EnvsOf(legacyVault[s]) = {}
  BY <1>2, <1>4 DEF SecretsInv, NothingIsLost, Waits
<1>5. CASE EnvsOf(v) # {}
  <2>1. /\ statement' = [do |-> "migrate", of |-> 0, todo |-> statement.todo \ {v}]
        /\ UNCHANGED <<envs, madeIds>>
    BY <1>1, <1>5 DEF Goes
  <2>2. NothingOrphaned' /\ \A w : EnvsOf(w)' = EnvsOf(w)
    BY <1>2, <2>1, TablesStay DEF SecretsInv, tables, legacy, lateRows
  <2>3. SecretsTyped'
    BY <1>2, <1>3, <2>1 DEF SecretsInv, SecretsTyped, Statements
  <2>4. NothingIsLost'
    <3> SUFFICES ASSUME NEW s \in SecretSet, entries[s] = 0, legacyVault[s] \notin cutShort
                 PROVE  (legacyColumn /\ Waits(legacyVault[s]))'
      BY <1>2 DEF NothingIsLost
    <3>1. legacyColumn /\ legacyVault[s] \in statement.todo \ {v} /\ EnvsOf(legacyVault[s]) = {}
      BY <1>4, <1>5
    <3> QED
      BY <1>2, <2>1, <2>2, <3>1 DEF Waits
  <2> QED
    BY <1>2, <2>1, <2>2, <2>3, <2>4 DEF SecretsInv, DeletesInsideOut, MigratesFirst, ReadSoFar
<1>6. CASE EnvsOf(v) = {}
  <2> DEFINE e == madeIds.envs + 1
  <2>1. /\ e \in EnvSet /\ envs' = [envs EXCEPT ![e] = Environment(v, v \in legacyShare)]
        /\ madeIds' = [madeIds EXCEPT !.envs = e]
        /\ statement' = [do |-> "repoint", of |-> e, todo |-> statement.todo \ {v}]
    BY <1>1, <1>6 DEF Goes
  <2>2. e \in Nat /\ e <= EnvIds
    BY <2>1
  <2>3. /\ madeIds \in [vaults : Nat, envs : Nat, secrets : Nat]
        /\ envs \in [EnvSet -> [vault : Nat, shared : BOOLEAN]]
        /\ \A d \in EnvSet : envs[d] # Absent => d <= madeIds.envs
    BY DEF SecretsInv, SecretsTyped
  <2>4. madeIds' \in [vaults : Nat, envs : Nat, secrets : Nat] /\ madeIds'.envs = e
    BY <2>1, <2>2, <2>3
  <2> DEFINE shared == v \in legacyShare
  <2>0. shared \in BOOLEAN
    BY SMT
  <2> HIDE DEF shared
  <2>5. /\ envs' \in [EnvSet -> [vault : Nat, shared : BOOLEAN]]
        /\ envs'[e] # Absent /\ envs'[e].vault = v
        /\ \A d \in EnvSet : d # e => envs'[d] = envs[d]
    <3>1. envs' = [envs EXCEPT ![e] = Environment(v, shared)]
      BY <2>1 DEF shared
    <3>2. /\ Environment(v, shared) \in [vault : Nat, shared : BOOLEAN]
          /\ Environment(v, shared).vault = v /\ Environment(v, shared) # Absent
      BY <1>3, <2>0
    <3> QED
      BY <2>1, <2>3, <3>1, <3>2
  <2> HIDE DEF e
  <2>6. SecretsTyped'
    <3>1. \A d \in EnvSet : envs'[d] # Absent => envs'[d].vault # 0 /\ d <= e
      <4> SUFFICES ASSUME NEW d \in EnvSet, envs'[d] # Absent PROVE envs'[d].vault # 0 /\ d <= e
        OBVIOUS
      <4>1. CASE d = e
        BY <1>3, <2>2, <2>5, <4>1
      <4>2. CASE d # e
        <5>1. envs[d] # Absent /\ envs'[d] = envs[d]
          BY <2>5, <4>2
        <5>2. envs[d].vault # 0 /\ d <= madeIds.envs
          BY <5>1 DEF SecretsInv, SecretsTyped
        <5>3. madeIds.envs <= e
          BY <2>3 DEF e
        <5> QED
          BY <2>2, <2>3, <5>1, <5>2, <5>3
      <4> QED
        BY <4>1, <4>2
    <3>2. statement' \in [do : Statements, of : Nat, todo : SUBSET Nat]
      BY <1>3, <2>1, <2>2 DEF Statements
    <3> QED
      BY <1>2, <2>2, <2>4, <2>5, <3>1, <3>2 DEF SecretsInv, SecretsTyped
  <2>7. NothingOrphaned'
    BY <1>2, <1>3, <2>1, <2>5 DEF SecretsInv, NothingOrphaned, SecretsTyped
  <2>8. \A w \in Nat : w # v => EnvsOf(w)' \subseteq EnvsOf(w)
    BY <2>5 DEF EnvsOf
  <2>9. NothingIsLost'
    <3> SUFFICES ASSUME NEW s \in SecretSet, entries[s] = 0, legacyVault[s] \notin cutShort
                 PROVE  (legacyColumn /\ Waits(legacyVault[s]))'
      BY <1>2 DEF NothingIsLost
    <3>1. legacyColumn /\ legacyVault[s] \in statement.todo /\ EnvsOf(legacyVault[s]) = {}
      BY <1>4
    <3>2. CASE legacyVault[s] = v
      BY <1>2, <1>3, <2>1, <2>5, <3>1, <3>2 DEF Waits
    <3>3. CASE legacyVault[s] # v
      BY <1>2, <1>3, <2>1, <2>8, <3>1, <3>3 DEF Waits
    <3> QED
      BY <3>2, <3>3
  <2> QED
    BY <1>2, <2>1, <2>5, <2>6, <2>7, <2>9 DEF SecretsInv, DeletesInsideOut, MigratesFirst, ReadSoFar
<1> QED
  BY <1>5, <1>6

LEMMA RepointInv == ASSUME SecretsInv, Repoint PROVE SecretsInv'
<1> USE SecretsFacts
<1>1. /\ statement.do = "repoint" /\ ~opened /\ statement.todo \subseteq vaults
      /\ statement.of \in EnvSet /\ envs[statement.of] # Absent
      /\ statement' = [do |-> "migrate", of |-> 0, todo |-> statement.todo]
      /\ entries' = [s \in SecretSet |->
           IF legacyColumn /\ entries[s] = 0 /\ legacyVault[s] = envs[statement.of].vault
           THEN statement.of ELSE entries[s]]
      /\ UNCHANGED <<vaults, envs, legacyVault, legacyColumn, legacyShare, madeIds, opened, tree,
                     lateEnvs, lateSecrets, cutShort>>
  BY DEF Repoint, Goes, SecretsInv, MigratesFirst, legacy, lateRows
<1>2. \A v : EnvsOf(v)' = EnvsOf(v)
  BY <1>1 DEF EnvsOf
<1>3. /\ entries' \in [SecretSet -> {Gone, 0} \cup EnvSet]
      /\ \A s \in SecretSet : entries'[s] = entries[s] \/ entries'[s] = statement.of
  BY <1>1 DEF SecretsInv, SecretsTyped
<1>4. SecretsTyped'
  BY <1>1, <1>3 DEF SecretsInv, SecretsTyped, Statements
<1>5. NothingOrphaned'
  BY <1>1, <1>3 DEF SecretsInv, NothingOrphaned
<1>6. NothingIsLost'
  <2> SUFFICES ASSUME NEW s \in SecretSet, entries'[s] = 0, legacyVault[s] \notin cutShort
               PROVE  (legacyColumn /\ Waits(legacyVault[s]))'
    BY <1>1 DEF NothingIsLost
  <2>1. entries[s] = 0
    BY <1>1, <1>3
  <2>2. legacyColumn /\ legacyVault[s] # envs[statement.of].vault
    BY <1>1, <2>1 DEF SecretsInv, NothingIsLost
  <2>3. legacyVault[s] \in statement.todo /\ legacyVault[s] \in vaults /\ EnvsOf(legacyVault[s]) = {}
    BY <1>1, <2>1, <2>2 DEF SecretsInv, NothingIsLost, Waits
  <2> QED
    BY <1>1, <1>2, <2>2, <2>3 DEF Waits
<1> QED
  BY <1>1, <1>4, <1>5, <1>6 DEF SecretsInv, DeletesInsideOut, MigratesFirst, ReadSoFar

LEMMA MigrateEndInv == ASSUME SecretsInv, MigrateEnd PROVE SecretsInv'
<1> USE SecretsFacts
<1>1. /\ statement.do = "migrate" /\ statement.todo = {} /\ ~legacyColumn' /\ legacyColumn' = FALSE
      /\ opened' = TRUE /\ statement' = Free /\ Free.do = "nothing"
      /\ Free \in [do : Statements, of : Nat, todo : SUBSET Nat]
      /\ UNCHANGED <<vaults, envs, entries, legacyVault, legacyShare, madeIds, tree, lateEnvs,
                     lateSecrets, cutShort>>
  BY DEF MigrateEnd, tables, lateRows, Free, Statements
<1>2. SecretsTyped'
  BY <1>1 DEF SecretsInv, SecretsTyped
<1>3. NothingOrphaned'
  BY <1>1 DEF SecretsInv, NothingOrphaned
<1>4. NothingIsLost'
  <2> SUFFICES ASSUME NEW s \in SecretSet, entries[s] = 0, legacyVault[s] \notin cutShort PROVE FALSE
    BY <1>1 DEF NothingIsLost
  <2> QED
    BY <1>1 DEF SecretsInv, NothingIsLost, Waits
<1> QED
  BY <1>1, <1>2, <1>3, <1>4 DEF SecretsInv, DeletesInsideOut, MigratesFirst, ReadSoFar

LEMMA CloseStoreInv == ASSUME SecretsInv, CloseStore PROVE SecretsInv'
<1> USE SecretsFacts
<1>1. /\ ~opened' /\ opened' = FALSE /\ statement' = Free /\ Free.do = "nothing"
      /\ Free \in [do : Statements, of : Nat, todo : SUBSET Nat]
      /\ cutShort' = cutShort \cup
           (IF statement.do = "repoint" /\ legacyColumn THEN {envs[statement.of].vault} ELSE {})
      /\ UNCHANGED <<vaults, envs, entries, legacyVault, legacyColumn, legacyShare, madeIds, lateEnvs,
                     lateSecrets>>
  BY DEF CloseStore, tables, legacy, lateRows, Free, Statements
<1>2. NothingOrphaned' /\ \A v : EnvsOf(v)' = EnvsOf(v)
  BY <1>1, TablesStay DEF SecretsInv, tables, legacy, lateRows
<1>3. SecretsTyped'
  BY <1>1 DEF SecretsInv, SecretsTyped
<1>4. NothingIsLost'
  <2> SUFFICES ASSUME NEW s \in SecretSet, entries[s] = 0, legacyVault[s] \notin cutShort'
               PROVE  (legacyColumn /\ Waits(legacyVault[s]))'
    BY <1>1 DEF NothingIsLost
  <2>1. /\ legacyVault[s] \notin cutShort
        /\ statement.do = "repoint" /\ legacyColumn => legacyVault[s] # envs[statement.of].vault
    BY <1>1
  <2>2. legacyColumn /\ legacyVault[s] \in vaults /\ EnvsOf(legacyVault[s]) = {}
    BY <2>1 DEF SecretsInv, NothingIsLost, Waits
  <2> QED
    BY <1>1, <1>2, <2>2 DEF Waits
<1> QED
  BY <1>1, <1>2, <1>3, <1>4 DEF SecretsInv, DeletesInsideOut, MigratesFirst, ReadSoFar

\* A request of the user finds the store opened and migrated.
LEMMA Requested ==
  ASSUME SecretsInv, UserChange
  PROVE  /\ opened /\ ~legacyColumn /\ statement = Free /\ Free.do = "nothing"
         /\ Free \in [do : Statements, of : Nat, todo : SUBSET Nat]
         /\ \A s \in SecretSet : entries[s] = 0 => legacyVault[s] \in cutShort
BY DEF UserChange, MutexFree, SecretsInv, MigratesFirst, NothingIsLost, Free, Statements

\* What is left to show of a request that is one statement.
LEMMA RequestKeeps ==
  ASSUME SecretsInv, UserChange, UNCHANGED <<legacyVault, legacyColumn, opened, statement, cutShort>>,
         SecretsTyped', NothingOrphaned',
         \A s \in SecretSet : entries'[s] = 0 => entries[s] = 0
  PROVE  SecretsInv'
<1>1. NothingIsLost'
  BY Requested DEF NothingIsLost
<1> QED
  BY <1>1, Requested DEF SecretsInv, DeletesInsideOut, MigratesFirst, ReadSoFar

LEMMA CreateVaultInv == ASSUME SecretsInv, CreateVault PROVE SecretsInv'
<1> USE SecretsFacts
<1>1. /\ UserChange /\ vaults' = vaults \cup {madeIds.vaults + 1}
      /\ madeIds' = [madeIds EXCEPT !.vaults = madeIds.vaults + 1]
      /\ UNCHANGED <<envs, entries, legacyVault, legacyColumn, opened, statement, lateEnvs,
                     lateSecrets, cutShort>>
  BY DEF CreateVault, legacy, lateRows
<1>2. SecretsTyped'
  <2>1. madeIds.vaults + 1 \in Nat \ {0}
    BY DEF SecretsInv, SecretsTyped
  <2> QED
    BY <1>1, <2>1 DEF SecretsInv, SecretsTyped
<1>3. NothingOrphaned'
  BY <1>1 DEF SecretsInv, NothingOrphaned
<1> QED
  BY <1>1, <1>2, <1>3, RequestKeeps

LEMMA CreateEnvInv == ASSUME SecretsInv, CreateEnv PROVE SecretsInv'
<1> USE SecretsFacts
<1> DEFINE e == madeIds.envs + 1
<1>1. PICK v \in 1..madeIds.vaults, shared \in BOOLEAN :
        /\ UserChange /\ e \in EnvSet /\ envs' = [envs EXCEPT ![e] = Environment(v, shared)]
        /\ lateEnvs' = lateEnvs \cup (IF v \in vaults THEN {} ELSE {e})
        /\ madeIds' = [madeIds EXCEPT !.envs = e]
        /\ UNCHANGED <<vaults, entries, legacyVault, legacyColumn, opened, statement, lateSecrets, cutShort>>
  BY DEF CreateEnv, legacy, lateRows
<1>2. /\ madeIds \in [vaults : Nat, envs : Nat, secrets : Nat]
      /\ envs \in [EnvSet -> [vault : Nat, shared : BOOLEAN]]
      /\ \A d \in EnvSet : envs[d] # Absent => envs[d].vault # 0 /\ d <= madeIds.envs
  BY DEF SecretsInv, SecretsTyped
<1>3. v \in Nat \ {0} /\ madeIds.envs \in Nat
  BY <1>1, <1>2
<1>4. /\ madeIds' \in [vaults : Nat, envs : Nat, secrets : Nat] /\ madeIds'.envs = e /\ e <= EnvIds
      /\ e \in Nat /\ madeIds.envs <= e
  BY <1>1, <1>2, <1>3
<1>5. /\ envs' \in [EnvSet -> [vault : Nat, shared : BOOLEAN]]
      /\ envs'[e] # Absent /\ envs'[e].vault = v
      /\ \A d \in EnvSet : d # e => envs'[d] = envs[d]
  BY <1>1, <1>2, <1>3
<1> HIDE DEF e
<1>6. SecretsTyped'
  <2>1. \A d \in EnvSet : envs'[d] # Absent => envs'[d].vault # 0 /\ d <= e
    <3> SUFFICES ASSUME NEW d \in EnvSet, envs'[d] # Absent PROVE envs'[d].vault # 0 /\ d <= e
      OBVIOUS
    <3>1. CASE d = e
      BY <1>3, <1>4, <1>5, <3>1
    <3>2. CASE d # e
      BY <1>2, <1>3, <1>4, <1>5, <3>2
    <3> QED
      BY <3>1, <3>2
  <2> QED
    BY <1>1, <1>4, <1>5, <2>1 DEF SecretsInv, SecretsTyped
<1>7. NothingOrphaned'
  <2>1. \A s \in SecretSet : entries[s] \in {Gone, 0} \cup EnvSet
    BY DEF SecretsInv, SecretsTyped
  <2> QED
    BY <1>1, <1>5, <2>1 DEF SecretsInv, NothingOrphaned
<1> QED
  BY <1>1, <1>6, <1>7, RequestKeeps

LEMMA AddSecretInv == ASSUME SecretsInv, AddSecret PROVE SecretsInv'
<1> USE SecretsFacts
<1> DEFINE s == madeIds.secrets + 1
<1>1. PICK e \in 1..madeIds.envs :
        /\ UserChange /\ s \in SecretSet /\ entries' = [entries EXCEPT ![s] = e]
        /\ lateSecrets' = lateSecrets \cup (IF envs[e] = Absent THEN {s} ELSE {})
        /\ madeIds' = [madeIds EXCEPT !.secrets = s]
        /\ UNCHANGED <<vaults, envs, legacyVault, legacyColumn, opened, statement, lateEnvs, cutShort>>
  BY DEF AddSecret, legacy, lateRows
<1>2. /\ madeIds \in [vaults : Nat, envs : Nat, secrets : Nat] /\ madeIds.envs <= EnvIds
      /\ entries \in [SecretSet -> {Gone, 0} \cup EnvSet]
  BY DEF SecretsInv, SecretsTyped
<1>3. e \in EnvSet /\ s \in Nat
  BY <1>1, <1>2
<1>4. /\ madeIds' \in [vaults : Nat, envs : Nat, secrets : Nat] /\ madeIds'.envs = madeIds.envs
      /\ entries' \in [SecretSet -> {Gone, 0} \cup EnvSet] /\ entries'[s] = e
      /\ \A t \in SecretSet : t # s => entries'[t] = entries[t]
  BY <1>1, <1>2, <1>3
<1> HIDE DEF s
<1>5. SecretsTyped'
  BY <1>1, <1>4 DEF SecretsInv, SecretsTyped
<1>6. NothingOrphaned'
  BY <1>1, <1>3, <1>4 DEF SecretsInv, NothingOrphaned
<1>7. \A t \in SecretSet : entries'[t] = 0 => entries[t] = 0
  BY <1>3, <1>4
<1> QED
  BY <1>1, <1>5, <1>6, <1>7, RequestKeeps

LEMMA DeleteSecretInv ==
  ASSUME SecretsInv, NEW s \in SecretSet, DeleteSecret(s) PROVE SecretsInv'
<1> USE SecretsFacts
<1>1. /\ UserChange /\ entries' = [entries EXCEPT ![s] = Gone]
      /\ UNCHANGED <<vaults, envs, legacyVault, legacyColumn, madeIds, opened, statement, lateEnvs,
                     lateSecrets, cutShort>>
  BY DEF DeleteSecret, legacy, lateRows
<1>2. /\ entries' \in [SecretSet -> {Gone, 0} \cup EnvSet] /\ entries'[s] = Gone
      /\ \A t \in SecretSet : t # s => entries'[t] = entries[t]
  BY <1>1 DEF SecretsInv, SecretsTyped
<1>3. SecretsTyped'
  BY <1>1, <1>2 DEF SecretsInv, SecretsTyped
<1>4. NothingOrphaned'
  BY <1>1, <1>2 DEF SecretsInv, NothingOrphaned
<1>5. \A t \in SecretSet : entries'[t] = 0 => entries[t] = 0
  BY <1>2
<1> QED
  BY <1>1, <1>3, <1>4, <1>5, RequestKeeps

LEMMA SetEnvChannelsInv ==
  ASSUME SecretsInv, NEW e \in EnvSet, SetEnvChannels(e) PROVE SecretsInv'
<1> USE SecretsFacts
<1>1. /\ UserChange /\ envs[e] # Absent /\ envs' = [envs EXCEPT ![e].shared = ~@]
      /\ UNCHANGED <<vaults, entries, legacyVault, legacyColumn, madeIds, opened, statement, lateEnvs,
                     lateSecrets, cutShort>>
  BY DEF SetEnvChannels, legacy, lateRows
<1>2. /\ envs \in [EnvSet -> [vault : Nat, shared : BOOLEAN]]
      /\ \A d \in EnvSet : envs[d] # Absent => envs[d].vault # 0
  BY DEF SecretsInv, SecretsTyped
<1>3. /\ envs' \in [EnvSet -> [vault : Nat, shared : BOOLEAN]]
      /\ envs'[e].vault = envs[e].vault
      /\ \A d \in EnvSet : d # e => envs'[d] = envs[d]
  <2> DEFINE other == ~envs[e].shared
  <2>1. other \in BOOLEAN
    BY Zenon
  <2> HIDE DEF other
  <2>2. envs' = [envs EXCEPT ![e].shared = other]
    BY <1>1 DEF other
  <2> QED
    BY <1>2, <2>1, <2>2
<1>4. envs'[e] # Absent
  BY <1>1, <1>2, <1>3
<1>5. SecretsTyped'
  <2>1. \A d \in EnvSet : envs'[d] # Absent => envs'[d].vault # 0 /\ d <= madeIds.envs
    BY <1>1, <1>3 DEF SecretsInv, SecretsTyped
  <2> QED
    BY <1>1, <1>3, <2>1 DEF SecretsInv, SecretsTyped
<1>6. NothingOrphaned'
  BY <1>1, <1>3, <1>4 DEF SecretsInv, NothingOrphaned
<1> QED
  BY <1>1, <1>5, <1>6, RequestKeeps

LEMMA BeginDeleteInv == ASSUME SecretsInv, BeginDelete PROVE SecretsInv'
<1> USE SecretsFacts
<1>1. /\ UserChange
      /\ \/ \E v \in vaults : Goes("entries", v, EnvsOf(v))
         \/ \E e \in EnvSet : envs[e] # Absent /\ Goes("entries", 0, {e})
      /\ UNCHANGED <<vaults, envs, entries, legacyVault, legacyColumn, legacyShare, madeIds, opened,
                     lateEnvs, lateSecrets, cutShort>>
  BY DEF BeginDelete, DeleteOrder, tables, legacy, lateRows
<1>2. PICK v \in Nat, es \in SUBSET EnvSet :
        /\ statement' = [do |-> "entries", of |-> v, todo |-> es]
        /\ v # 0 => EnvsOf(v) = es
  <2>1. ASSUME NEW v \in vaults, Goes("entries", v, EnvsOf(v))
        PROVE  \E w \in Nat, es \in SUBSET EnvSet :
                 statement' = [do |-> "entries", of |-> w, todo |-> es] /\ (w # 0 => EnvsOf(w) = es)
    <3>1. v \in Nat /\ EnvsOf(v) \in SUBSET EnvSet
      BY DEF EnvsOf, SecretsInv, SecretsTyped
    <3> QED
      BY <2>1, <3>1 DEF Goes
  <2>2. ASSUME NEW e \in EnvSet, Goes("entries", 0, {e})
        PROVE  \E w \in Nat, es \in SUBSET EnvSet :
                 statement' = [do |-> "entries", of |-> w, todo |-> es] /\ (w # 0 => EnvsOf(w) = es)
    BY <2>2 DEF Goes
  <2> QED
    BY <1>1, <2>1, <2>2
<1>3. NothingOrphaned' /\ \A w : EnvsOf(w)' = EnvsOf(w)
  BY <1>1, TablesStay DEF SecretsInv, tables, legacy, lateRows
<1>4. SecretsTyped'
  BY <1>1, <1>2 DEF SecretsInv, SecretsTyped, Statements
<1>5. NothingIsLost'
  BY <1>1, Requested DEF NothingIsLost
<1> QED
  BY <1>1, <1>2, <1>3, <1>4, <1>5, Requested
     DEF SecretsInv, DeletesInsideOut, MigratesFirst, ReadSoFar

LEMMA DeleteStepInv == ASSUME SecretsInv, DeleteStep PROVE SecretsInv'
<1> USE SecretsFacts
<1>1. /\ statement.do \in {"entries", "envs", "vault"}
      /\ entries' = [s \in SecretSet |->
           IF statement.do = "entries" /\ entries[s] \in statement.todo THEN Gone ELSE entries[s]]
      /\ envs' = [e \in EnvSet |->
           IF statement.do = "envs" /\ e \in statement.todo THEN Absent ELSE envs[e]]
      /\ vaults' = IF statement.do = "vault" THEN vaults \ {statement.of} ELSE vaults
      /\ statement.do = "entries" => statement' = [statement EXCEPT !.do = "envs"]
      /\ statement.do = "envs" => statement' = [statement EXCEPT !.do = "vault"]
      /\ statement.do = "vault" => statement' = Free
      /\ UNCHANGED <<legacyVault, legacyColumn, madeIds, opened, lateEnvs, lateSecrets, cutShort>>
  BY DEF DeleteStep, DeleteOrder, legacy, lateRows
<1>2. opened /\ ~legacyColumn /\ Free.do = "nothing"
      /\ Free \in [do : Statements, of : Nat, todo : SUBSET Nat]
      /\ statement \in [do : Statements, of : Nat, todo : SUBSET Nat]
  BY <1>1 DEF SecretsInv, SecretsTyped, MigratesFirst, Free, Statements
<1>3. ASSUME NEW d \in Statements
      PROVE  /\ [statement EXCEPT !.do = d] \in [do : Statements, of : Nat, todo : SUBSET Nat]
             /\ [statement EXCEPT !.do = d].do = d /\ [statement EXCEPT !.do = d].of = statement.of
             /\ [statement EXCEPT !.do = d].todo = statement.todo
  BY <1>2
<1>4. "envs" \in Statements /\ "vault" \in Statements
  BY DEF Statements
<1>5. /\ entries' \in [SecretSet -> {Gone, 0} \cup EnvSet]
      /\ \A s \in SecretSet : entries'[s] = entries[s] \/ entries'[s] = Gone
      /\ envs' \in [EnvSet -> [vault : Nat, shared : BOOLEAN]]
      /\ \A e \in EnvSet : envs'[e] = envs[e] \/ envs'[e] = Absent
  BY <1>1 DEF SecretsInv, SecretsTyped
<1>6. SecretsTyped'
  <2>1. statement' \in [do : Statements, of : Nat, todo : SUBSET Nat]
    BY <1>1, <1>2, <1>3, <1>4
  <2> QED
    BY <1>1, <1>5, <2>1 DEF SecretsInv, SecretsTyped
<1>7. NothingIsLost'
  BY <1>1, <1>2, <1>5 DEF SecretsInv, NothingIsLost
<1>8. CASE statement.do = "entries"
  <2>1. /\ statement'.do = "envs" /\ statement'.of = statement.of /\ statement'.todo = statement.todo
        /\ vaults' = vaults /\ envs' = envs
    <3>1. envs' = [e \in EnvSet |-> envs[e]]
      BY <1>1, <1>8
    <3>2. envs' = envs
      BY <3>1 DEF SecretsInv, SecretsTyped
    <3> QED
      BY <1>1, <1>3, <1>4, <1>8, <3>2
  <2>2. NothingOrphaned'
    BY <1>1, <1>5, <2>1 DEF SecretsInv, NothingOrphaned
  <2>3. statement.todo \subseteq EnvSet
    BY <1>8 DEF SecretsInv, DeletesInsideOut
  <2>4. EntriesOf(statement.todo)' = {}
    BY <1>1, <1>8, <2>1, <2>3 DEF EntriesOf
  <2>5. statement.of # 0 => EnvsOf(statement.of)' \subseteq statement.todo
    BY <1>8, <2>1 DEF SecretsInv, DeletesInsideOut, EnvsOf
  <2>6. DeletesInsideOut'
    BY <2>1, <2>3, <2>4, <2>5 DEF DeletesInsideOut
  <2> QED
    BY <1>1, <1>2, <1>6, <1>7, <2>1, <2>2, <2>6 DEF SecretsInv, MigratesFirst, ReadSoFar
<1>9. CASE statement.do = "envs"
  <2>1. /\ statement'.do = "vault" /\ statement'.of = statement.of /\ statement'.todo = statement.todo
        /\ vaults' = vaults /\ entries' = entries
    <3>1. entries' = [s \in SecretSet |-> entries[s]]
      BY <1>1, <1>9
    <3>2. entries' = entries
      BY <3>1 DEF SecretsInv, SecretsTyped
    <3> QED
      BY <1>1, <1>3, <1>4, <1>9, <3>2
  <2>2. EntriesOf(statement.todo) = {}
    BY <1>9 DEF SecretsInv, DeletesInsideOut
  <2>3. NothingOrphaned'
    <3>1. ASSUME NEW s \in SecretSet \ lateSecrets, entries[s] \notin {Gone, 0} PROVE envs'[entries[s]] # Absent
      <4>1. entries[s] \in EnvSet /\ envs[entries[s]] # Absent
        BY <3>1 DEF SecretsInv, SecretsTyped, NothingOrphaned
      <4>2. entries[s] \notin statement.todo
        BY <2>2 DEF EntriesOf
      <4> QED
        BY <1>1, <4>1, <4>2
    <3>2. \A e \in EnvSet \ lateEnvs : envs'[e] # Absent => envs'[e].vault \in vaults
      BY <1>5 DEF SecretsInv, NothingOrphaned
    <3> QED
      BY <1>1, <2>1, <3>1, <3>2 DEF NothingOrphaned
  <2>4. statement.of # 0 => EnvsOf(statement.of)' = {}
    <3> SUFFICES ASSUME statement.of # 0, NEW e \in EnvSet, envs'[e].vault = statement.of' PROVE FALSE
      BY <2>1 DEF EnvsOf
    <3>1. envs'[e] = envs[e] /\ e \notin statement.todo
      BY <1>1, <1>9, <2>1
    <3>2. e \in EnvsOf(statement.of)
      BY <2>1, <3>1 DEF EnvsOf
    <3> QED
      BY <1>9, <3>1, <3>2 DEF SecretsInv, DeletesInsideOut
  <2>5. DeletesInsideOut'
    BY <2>1, <2>4 DEF DeletesInsideOut
  <2> QED
    BY <1>1, <1>2, <1>6, <1>7, <2>1, <2>3, <2>5 DEF SecretsInv, MigratesFirst, ReadSoFar
<1>10. CASE statement.do = "vault"
  <2>1. /\ statement'.do = "nothing" /\ vaults' = vaults \ {statement.of}
        /\ entries' = entries /\ envs' = envs
    <3>1. entries' = [s \in SecretSet |-> entries[s]] /\ envs' = [e \in EnvSet |-> envs[e]]
      BY <1>1, <1>10
    <3>2. entries' = entries /\ envs' = envs
      BY <3>1 DEF SecretsInv, SecretsTyped
    <3> QED
      BY <1>1, <1>2, <1>10, <3>2
  <2>2. \A e \in EnvSet : envs[e] # Absent => envs[e].vault # statement.of
    <3> SUFFICES ASSUME NEW e \in EnvSet, envs[e] # Absent, envs[e].vault = statement.of PROVE FALSE
      OBVIOUS
    <3>1. statement.of # 0
      BY DEF SecretsInv, SecretsTyped
    <3>2. EnvsOf(statement.of) = {}
      BY <1>10, <3>1 DEF SecretsInv, DeletesInsideOut
    <3> QED
      BY <3>2 DEF EnvsOf
  <2>3. NothingOrphaned'
    BY <1>1, <2>1, <2>2 DEF SecretsInv, NothingOrphaned
  <2> QED
    BY <1>1, <1>2, <1>6, <1>7, <2>1, <2>3 DEF SecretsInv, DeletesInsideOut, MigratesFirst, ReadSoFar
<1> QED
  BY <1>1, <1>8, <1>9, <1>10

LEMMA ReadInv == ASSUME SecretsInv, BeginRead \/ ReadEnv \/ ReadEnd PROVE SecretsInv'
<1> USE SecretsFacts
<1>1. UNCHANGED <<vaults, envs, entries, legacyVault, legacyColumn, legacyShare, madeIds, opened,
                  lateEnvs, lateSecrets, cutShort>>
  BY DEF BeginRead, ReadEnv, ReadEnd, tables, legacy, lateRows
<1>2. /\ NothingOrphaned' /\ \A v : EnvsOf(v)' = EnvsOf(v)
      /\ \A all : ShownEnvs(all)' = ShownEnvs(all)
      /\ \A es : TreeOf(es)' = TreeOf(es)
  BY <1>1, TablesStay DEF SecretsInv, tables, legacy, lateRows
<1>3. CASE BeginRead
  <2>1. PICK all \in {0, 1} :
          /\ UserChange /\ tree' = {}
          /\ statement' = [do |-> "read", of |-> all, todo |-> ShownEnvs(all = 1)]
    BY <1>3 DEF BeginRead, Goes
  <2>2. ShownEnvs(all = 1) \subseteq EnvSet /\ EnvSet \subseteq Nat /\ TreeOf({}) = {}
    BY DEF ShownEnvs, TreeOf
  <2>3. SecretsTyped'
    BY <1>1, <2>1, <2>2 DEF SecretsInv, SecretsTyped, Statements
  <2>4. NothingIsLost'
    BY <1>1, <2>1, Requested DEF NothingIsLost
  <2>5. statement'.do = "read" /\ statement'.of = all /\ statement'.todo = ShownEnvs(all = 1)
    BY <2>1
  <2>6. ReadSoFar'
    <3>1. ShownEnvs(statement.of = 1)' = ShownEnvs(all = 1)
      BY <1>1, <2>5 DEF ShownEnvs
    <3>2. (ShownEnvs(statement.of = 1) \ statement.todo)' = {}
      BY <2>5, <3>1
    <3>3. TreeOf(ShownEnvs(statement.of = 1) \ statement.todo)' = {}
      BY <3>2 DEF TreeOf
    <3> QED
      BY <2>1, <2>5, <3>1, <3>3 DEF ReadSoFar
  <2> QED
    BY <1>1, <1>2, <2>1, <2>3, <2>4, <2>5, <2>6, Requested
       DEF SecretsInv, DeletesInsideOut, MigratesFirst
<1>4. CASE ReadEnv
  <2>1. PICK e \in statement.todo :
          /\ statement.do = "read" /\ tree' = tree \cup TreeOf({e})
          /\ statement' = [statement EXCEPT !.todo = statement.todo \ {e}]
    BY <1>4 DEF ReadEnv
  <2>2. /\ statement' \in [do : Statements, of : Nat, todo : SUBSET Nat] /\ statement'.do = "read"
        /\ statement'.of = statement.of /\ statement'.todo = statement.todo \ {e}
    BY <2>1 DEF SecretsInv, SecretsTyped
  <2>3. SecretsTyped'
    BY <1>1, <2>2 DEF SecretsInv, SecretsTyped
  <2>4. opened /\ ~legacyColumn
    BY <2>1 DEF SecretsInv, MigratesFirst
  <2>5. NothingIsLost'
    BY <1>1, <2>4 DEF SecretsInv, NothingIsLost
  <2>6. ReadSoFar'
    <3> DEFINE S == ShownEnvs(statement.of = 1)
    <3>1. statement.todo \subseteq S /\ tree = TreeOf(S \ statement.todo)
      BY <2>1 DEF SecretsInv, ReadSoFar
    <3>2. ShownEnvs(statement.of = 1)' = S
      BY <1>1, <2>2 DEF ShownEnvs
    <3> HIDE DEF S
    <3>3. (S \ statement.todo) \cup {e} = S \ statement'.todo
      BY <2>1, <2>2, <3>1
    <3>4. TreeOf(S \ statement.todo) \cup TreeOf({e}) = TreeOf((S \ statement.todo) \cup {e})
      BY TreeOfBoth
    <3>5. tree' = TreeOf(S \ statement'.todo)
      BY <2>1, <3>1, <3>3, <3>4
    <3>6. TreeOf(ShownEnvs(statement.of = 1) \ statement.todo)' = TreeOf(S \ statement'.todo)
      BY <1>1, <3>2 DEF TreeOf, EntriesOf
    <3> QED
      BY <2>2, <3>1, <3>2, <3>5, <3>6 DEF ReadSoFar
  <2> QED
    BY <1>1, <1>2, <2>2, <2>3, <2>4, <2>5, <2>6 DEF SecretsInv, DeletesInsideOut, MigratesFirst
<1>5. CASE ReadEnd
  <2>1. /\ statement.do = "read" /\ statement' = Free /\ Free.do = "nothing"
        /\ Free \in [do : Statements, of : Nat, todo : SUBSET Nat]
    BY <1>5 DEF ReadEnd, Free, Statements
  <2>2. opened /\ ~legacyColumn
    BY <2>1 DEF SecretsInv, MigratesFirst
  <2>3. NothingIsLost'
    BY <1>1, <2>2 DEF SecretsInv, NothingIsLost
  <2>4. SecretsTyped'
    BY <1>1, <2>1 DEF SecretsInv, SecretsTyped
  <2> QED
    BY <1>1, <1>2, <2>1, <2>2, <2>3, <2>4
       DEF SecretsInv, DeletesInsideOut, MigratesFirst, ReadSoFar
<1> QED
  BY <1>3, <1>4, <1>5

LEMMA SecretsStepInv == SecretsInv /\ [SecretsNext]_secretVars => SecretsInv'
<1> SUFFICES ASSUME SecretsInv, [SecretsNext]_secretVars PROVE SecretsInv'
  OBVIOUS
<1>1. CASE UNCHANGED secretVars
  BY <1>1
     DEF SecretsInv, SecretsTyped, NothingOrphaned, DeletesInsideOut, MigratesFirst, NothingIsLost,
         Waits, ReadSoFar, EnvsOf, EntriesOf, ShownEnvs, TreeOf, secretVars, tables, legacy, lateRows
<1> QED
  BY <1>1, OpenStoreInv, MigrateVaultInv, RepointInv, MigrateEndInv, CloseStoreInv, CreateVaultInv,
     CreateEnvInv, AddSecretInv, DeleteSecretInv, SetEnvChannelsInv, BeginDeleteInv, DeleteStepInv,
     ReadInv
     DEF SecretsNext

\* Over crashes between any two statements of a deletion or a migration
\* (services/secrets): no row is orphaned but those written late to what was
\* deleted; no secret of the old layout is lost but those of a vault for which a
\* crash came between the insert of its environment and the update of its secrets,
\* the one point where the migration is not safe; and the tree that is sent is
\* that of one moment.
THEOREM TablesDoAgree == SecretsSpec => []TablesAgree
<1>1. SecretsInv => TablesAgree
  <2> SUFFICES ASSUME SecretsInv PROVE TablesAgree
    OBVIOUS
  <2>1. NothingOrphaned
    BY DEF SecretsInv
  <2>2. MigrationKeepsSecrets
    BY DEF SecretsInv, MigratesFirst, NothingIsLost, MigrationKeepsSecrets
  <2>3. AnswersAreOfOneMoment
    <3> SUFFICES ASSUME statement.do = "read", statement.todo = {}
                 PROVE  tree = TreeOf(ShownEnvs(statement.of = 1))
      BY DEF AnswersAreOfOneMoment
    <3>1. ShownEnvs(statement.of = 1) \ statement.todo = ShownEnvs(statement.of = 1)
      OBVIOUS
    <3> QED
      BY <3>1 DEF SecretsInv, ReadSoFar
  <2> QED
    BY <2>1, <2>2, <2>3 DEF TablesAgree
<1> QED
  BY <1>1, SecretsInitInv, SecretsStepInv, PTL DEF SecretsSpec

\* The other types of the secrets: rows are of what was made, and what is read of
\* the tree is of environments.
SecretsTypes ==
  /\ vaults \cup legacyShare \subseteq 1..madeIds.vaults
  /\ \A e \in EnvSet : envs[e] # Absent => envs[e].vault \in 1..madeIds.vaults
  /\ \A s \in SecretSet : entries[s] \in {Gone} \cup 0..madeIds.envs
  /\ opened \in BOOLEAN /\ legacyColumn \in BOOLEAN
  /\ \A row \in tree : row.env \in EnvSet

LEMMA SecretsTypesInit == SecretsInit => SecretsTypes
<1> SUFFICES ASSUME SecretsInit PROVE SecretsTypes
  OBVIOUS
<1> USE SecretsFacts
<1>1. vaults \cup legacyShare \subseteq 1..Cardinality(vaults)
  <2>0. \A k \in Nat \ {0} : Cardinality(1..k) = k
    <3> SUFFICES ASSUME NEW k \in Nat \ {0} PROVE Cardinality(1..k) = k
      OBVIOUS
    <3>1. 1 \in Int /\ k \in Int /\ ~(1 > k) /\ k - 1 + 1 = k
      OBVIOUS
    <3> QED
      BY <3>1, FS_Interval
  <2>1. Cardinality({}) = 0 /\ Cardinality(1..2) = 2
    <3>1. Cardinality({}) = 0
      BY FS_EmptySet
    <3>2. 2 \in Nat \ {0}
      OBVIOUS
    <3> QED
      BY <2>0, <3>1, <3>2, Zenon
  <2>2. 1..2 = {1, 2} /\ 1..0 = {}
    OBVIOUS
  <2>3. legacyShare \subseteq vaults /\ vaults \in {{}, {1, 2}}
    BY DEF SecretsInit
  <2> QED
    BY <2>1, <2>2, <2>3
<1>2. madeIds.vaults = Cardinality(vaults) /\ madeIds.envs = 0
  BY DEF SecretsInit
<1>3. \A e \in EnvSet : envs[e] = Absent
  BY DEF SecretsInit
<1>4. \A s \in SecretSet : entries[s] \in {Gone, 0}
  BY DEF SecretsInit
<1>5. opened \in BOOLEAN /\ legacyColumn \in BOOLEAN /\ tree = {}
  BY DEF SecretsInit
<1> QED
  BY <1>1, <1>2, <1>3, <1>4, <1>5 DEF SecretsTypes

\* Ids are only added.
LEMMA MadeIdsGrow ==
  ASSUME SecretsInv, SecretsTypes, SecretsNext \/ UNCHANGED secretVars
  PROVE  /\ madeIds.vaults \in Nat /\ madeIds'.vaults \in Nat /\ madeIds.vaults <= madeIds'.vaults
         /\ madeIds.envs \in Nat /\ madeIds'.envs \in Nat /\ madeIds.envs <= madeIds'.envs
<1>1. madeIds \in [vaults : Nat, envs : Nat, secrets : Nat]
  BY DEF SecretsInv, SecretsTyped
<1>2. \/ madeIds' = madeIds
      \/ madeIds' = [madeIds EXCEPT !.vaults = madeIds.vaults + 1]
      \/ madeIds' = [madeIds EXCEPT !.envs = madeIds.envs + 1]
      \/ madeIds' = [madeIds EXCEPT !.secrets = madeIds.secrets + 1]
  BY DEF SecretsNext, OpenStore, MigrateVault, Repoint, MigrateEnd, CloseStore, CreateVault,
     CreateEnv, AddSecret, BeginDelete, DeleteStep, SetEnvChannels, DeleteSecret, BeginRead,
     ReadEnv, ReadEnd, secretVars
<1> QED
  BY <1>1, <1>2

\* A row is written for what was made, which ids only add to.
LEMMA SecretsTypesStep == SecretsInv /\ SecretsTypes /\ [SecretsNext]_secretVars => SecretsTypes'
<1> SUFFICES ASSUME SecretsInv, SecretsTypes, [SecretsNext]_secretVars PROVE SecretsTypes'
  OBVIOUS
<1> USE SecretsFacts, MadeIdsGrow
<1>0. /\ envs \in [EnvSet -> [vault : Nat, shared : BOOLEAN]]
      /\ entries \in [SecretSet -> {Gone, 0} \cup EnvSet]
      /\ madeIds \in [vaults : Nat, envs : Nat, secrets : Nat]
      /\ \A e \in EnvSet : envs[e] # Absent => e <= madeIds.envs
  BY DEF SecretsInv, SecretsTyped
<1>1. vaults' \cup legacyShare' \subseteq 1..madeIds'.vaults
  <2>1. legacyShare' = legacyShare
    BY DEF SecretsNext, OpenStore, MigrateVault, Repoint, MigrateEnd, CloseStore, CreateVault,
       CreateEnv, AddSecret, BeginDelete, DeleteStep, SetEnvChannels, DeleteSecret, BeginRead,
       ReadEnv, ReadEnd, secretVars, legacy
  <2>2. CASE CreateVault
    <3>1. /\ vaults' = vaults \cup {madeIds.vaults + 1}
          /\ madeIds' = [madeIds EXCEPT !.vaults = madeIds.vaults + 1]
      BY <2>2 DEF CreateVault
    <3>2. madeIds'.vaults = madeIds.vaults + 1
      BY <1>0, <3>1
    <3> QED
      BY <2>1, <3>1, <3>2 DEF SecretsTypes
  <2>3. CASE ~CreateVault
    <3>1. vaults' \subseteq vaults
      BY <2>3 DEF SecretsNext, OpenStore, MigrateVault, Repoint, MigrateEnd, CloseStore,
         CreateEnv, AddSecret, BeginDelete, DeleteStep, SetEnvChannels, DeleteSecret, BeginRead,
         ReadEnv, ReadEnd, secretVars, tables
    <3> QED
      BY <2>1, <3>1 DEF SecretsTypes
  <2> QED
    BY <2>2, <2>3
<1>2. \A e \in EnvSet : envs'[e] # Absent => envs'[e].vault \in 1..madeIds'.vaults
  <2> SUFFICES ASSUME NEW e \in EnvSet, envs'[e] # Absent
               PROVE  envs'[e].vault \in 1..madeIds.vaults
    OBVIOUS
  <2>0. envs[e] # Absent => envs[e].vault \in 1..madeIds.vaults
    BY DEF SecretsTypes
  <2>1. CASE MigrateVault
    <3>1. PICK v \in statement.todo, f \in EnvSet :
            \/ envs' = [envs EXCEPT ![f] = Environment(v, v \in legacyShare)]
            \/ envs' = envs /\ f = e
      BY <2>1 DEF MigrateVault
    <3>2. v \in vaults
      BY <2>1, <3>1 DEF MigrateVault, SecretsInv, MigratesFirst
    <3>3. v \in 1..madeIds.vaults /\ v \in Nat /\ (v \in legacyShare) \in BOOLEAN
      BY <3>2 DEF SecretsTypes
    <3>4. Environment(v, v \in legacyShare).vault = v
      BY DEF Environment
    <3> QED
      BY <1>0, <2>0, <3>1, <3>3, <3>4
  <2>2. CASE CreateEnv
    <3>1. PICK v \in 1..madeIds.vaults, shared \in BOOLEAN :
            envs' = [envs EXCEPT ![madeIds.envs + 1] = Environment(v, shared)]
      BY <2>2 DEF CreateEnv
    <3>2. Environment(v, shared).vault = v
      BY DEF Environment
    <3> QED
      BY <1>0, <2>0, <3>1, <3>2
  <2>3. ASSUME NEW f \in EnvSet, SetEnvChannels(f) PROVE envs'[e].vault \in 1..madeIds.vaults
    <3>1. envs' = [envs EXCEPT ![f].shared = ~@] /\ envs[f] # Absent
      BY <2>3 DEF SetEnvChannels
    <3>2. envs'[e].vault = envs[e].vault /\ (e # f => envs'[e] = envs[e])
      BY <1>0, <3>1
    <3> QED
      BY <2>0, <3>1, <3>2
  <2>4. CASE DeleteStep
    BY <2>0, <2>4 DEF DeleteStep
  <2>5. CASE UNCHANGED envs
    BY <2>0, <2>5
  <2> QED
    BY <2>1, <2>2, <2>3, <2>4, <2>5 DEF SecretsNext, OpenStore, Repoint, MigrateEnd, CloseStore,
       CreateVault, AddSecret, BeginDelete, DeleteSecret, BeginRead, ReadEnv, ReadEnd,
       secretVars, tables
<1>3. \A s \in SecretSet : entries'[s] \in {Gone} \cup 0..madeIds'.envs
  <2> SUFFICES ASSUME NEW s \in SecretSet PROVE entries'[s] \in {Gone} \cup 0..madeIds.envs
    OBVIOUS
  <2>0. entries[s] \in {Gone} \cup 0..madeIds.envs
    BY DEF SecretsTypes
  <2>1. CASE Repoint
    <3>1. statement.of \in EnvSet /\ envs[statement.of] # Absent
      BY <2>1 DEF Repoint, SecretsInv, MigratesFirst
    <3>2. statement.of \in 0..madeIds.envs
      BY <1>0, <3>1
    <3>3. entries'[s] \in {statement.of, entries[s]}
      BY <2>1 DEF Repoint
    <3> QED
      BY <2>0, <3>2, <3>3
  <2>2. CASE AddSecret
    <3>1. PICK e \in 1..madeIds.envs : entries' = [entries EXCEPT ![madeIds.secrets + 1] = e]
      BY <2>2 DEF AddSecret
    <3>2. entries'[s] \in {e, entries[s]} /\ e \in 0..madeIds.envs
      BY <1>0, <3>1
    <3> QED
      BY <2>0, <3>2
  <2>3. ASSUME NEW t \in SecretSet, DeleteSecret(t) PROVE entries'[s] \in {Gone, entries[s]}
    BY <1>0, <2>3 DEF DeleteSecret
  <2>4. CASE DeleteStep
    BY <2>0, <2>4 DEF DeleteStep
  <2>5. CASE UNCHANGED entries
    BY <2>0, <2>5
  <2> QED
    BY <2>0, <2>1, <2>2, <2>3, <2>4, <2>5 DEF SecretsNext, OpenStore, MigrateVault, MigrateEnd,
       CloseStore, CreateVault, CreateEnv, BeginDelete, SetEnvChannels, BeginRead, ReadEnv,
       ReadEnd, secretVars, tables
<1>4. opened' \in BOOLEAN /\ legacyColumn' \in BOOLEAN
  BY DEF SecretsTypes, SecretsNext, OpenStore, MigrateVault, Repoint, MigrateEnd, CloseStore,
     CreateVault, CreateEnv, AddSecret, BeginDelete, DeleteStep, SetEnvChannels, DeleteSecret,
     BeginRead, ReadEnv, ReadEnd, secretVars, legacy
<1>5. \A row \in tree' : row.env \in EnvSet
  <2>1. CASE ReadEnv
    <3>1. PICK e \in statement.todo : tree' = tree \cup TreeOf({e})
      BY <2>1 DEF ReadEnv
    <3>2. e \in EnvSet
      BY <2>1, <3>1 DEF ReadEnv, SecretsInv, ReadSoFar, ShownEnvs
    <3>3. \A row \in TreeOf({e}) : row.env = e
      BY DEF TreeOf
    <3> QED
      BY <3>1, <3>2, <3>3 DEF SecretsTypes
  <2>2. CASE ~ReadEnv
    <3>1. tree' \subseteq tree
      BY <2>2 DEF SecretsNext, OpenStore, MigrateVault, Repoint, MigrateEnd, CloseStore,
         CreateVault, CreateEnv, AddSecret, BeginDelete, DeleteStep, SetEnvChannels,
         DeleteSecret, BeginRead, ReadEnd, secretVars
    <3> QED
      BY <3>1 DEF SecretsTypes
  <2> QED
    BY <2>1, <2>2
<1> QED
  BY <1>1, <1>2, <1>3, <1>4, <1>5 DEF SecretsTypes

LEMMA SecretsAreTyped == SecretsInv /\ SecretsTypes => SecretsTypeOK
<1> SUFFICES ASSUME SecretsInv, SecretsTypes PROVE SecretsTypeOK
  OBVIOUS
<1>1. statement.do \in Statements /\ \A e \in EnvSet : envs[e] # Absent => e <= madeIds.envs
  BY DEF SecretsInv, SecretsTyped
<1> QED
  BY <1>1 DEF SecretsTypes, SecretsTypeOK, Statements

-----------------------------------------------------------------------------
(* Camps.                                                                  *)

\* What is left of a command, by the program it is of: a camp is added to the
\* list, newly created or joined ...
Add1 == <<"priv", "pub", "load", "config", "cache", "readList", "list">>
Add2 == <<"pub", "load", "config", "cache", "readList", "list">>
Add3 == <<"load", "config", "cache", "readList", "list">>
Add4 == <<"config", "cache", "readList", "list">>
Add5 == <<"cache", "readList", "list">>
Add6 == <<"readList", "list">>
Add7 == <<"list">>
\* ... or used ...
Use1 == <<"load", "readList", "touch">>
Use2 == <<"readList", "touch">>
Use3 == <<"touch">>
\* ... or forgotten ...
Forget1 == <<"rmCamp", "rmOldKey", "readList", "unlist">>
Forget2 == <<"rmOldKey", "readList", "unlist">>
Forget3 == <<"readList", "unlist">>
Forget4 == <<"unlist">>
\* ... or loaded to be started: its key is moved or made, and read ...
Load1 == <<"load", "migrate">>
Load2 == <<"migrate">>
Move1 == <<"priv", "pub", "rmOldKey", "key">>
Move2 == <<"pub", "rmOldKey", "key">>
Move3 == <<"rmOldKey", "key">>
Make1 == <<"priv", "pub", "key">>
Make2 == <<"pub", "key">>
ReadKey == <<"key">>
\* ... and its config is saved.
Save1 == <<"config", "cache">>
Save2 == <<"cache">>
AllDone == <<>>

KeyScripts == {Load1, Load2, Move1, Move2, Move3, Make1, Make2, ReadKey}
Using == {Use1, Use2, Use3}
Scripts == {Add1, Add2, Add3, Add4, Add5, Add6, Add7, Forget1, Forget2, Forget3, Forget4,
            Save1, Save2, AllDone} \cup KeyScripts \cup Using

\* Where the camp is in memory; a camp is new; new keys are being written; the key of
\* old is about to be copied, or half of it is, or it is; the helper is starting the camp.
WithLoaded == {Add4, Add5, Load2, Move1, Move2, Move3, Make1, Make2, ReadKey, Save1, Save2}
Creating == {Add1, Add2}
Making == {Add1, Add2, Make1, Make2}
ToMove == {Move1}
Halfway == {Move2}
KeyMoved == {Move2, Move3, ReadKey}
Starting == KeyScripts \cup {Save1, Save2}
\* Where the cache is about to be saved; the camp is to be listed, or is on the disk
\* and may not be in the list, or in the list and not on the disk, or is to be
\* forgotten; the list has been read and is about to be saved.
Saving == {Add5, Save2}
Listing == {Add4, Add5, Add6, Add7}
Unlisted == {Add5, Add6, Add7}
Unlisting == {Forget2, Forget3, Forget4}
Forgetting == {Forget1} \cup Unlisting
Writing == {Add7, Forget4, Use3}

LEMMA ScriptsAre ==
  /\ Len(Add1) = 7 /\ Len(Add2) = 6 /\ Len(Add3) = 5 /\ Len(Add4) = 4 /\ Len(Add5) = 3
  /\ Len(Add6) = 2 /\ Len(Add7) = 1 /\ Len(Use1) = 3 /\ Len(Use2) = 2 /\ Len(Use3) = 1
  /\ Len(Forget1) = 4 /\ Len(Forget2) = 3 /\ Len(Forget3) = 2 /\ Len(Forget4) = 1
  /\ Len(Load1) = 2 /\ Len(Load2) = 1 /\ Len(Move1) = 4 /\ Len(Move2) = 3 /\ Len(Move3) = 2
  /\ Len(Make1) = 3 /\ Len(Make2) = 2 /\ Len(ReadKey) = 1 /\ Len(Save1) = 2 /\ Len(Save2) = 1
  /\ Len(AllDone) = 0
  /\ Head(Add1) = "priv" /\ Head(Add2) = "pub" /\ Head(Add3) = "load" /\ Head(Add4) = "config"
  /\ Head(Add5) = "cache" /\ Head(Add6) = "readList" /\ Head(Add7) = "list"
  /\ Head(Use1) = "load" /\ Head(Use2) = "readList" /\ Head(Use3) = "touch"
  /\ Head(Forget1) = "rmCamp" /\ Head(Forget2) = "rmOldKey" /\ Head(Forget3) = "readList"
  /\ Head(Forget4) = "unlist" /\ Head(Load1) = "load" /\ Head(Load2) = "migrate"
  /\ Head(Move1) = "priv" /\ Head(Move2) = "pub" /\ Head(Move3) = "rmOldKey"
  /\ Head(Make1) = "priv" /\ Head(Make2) = "pub" /\ Head(ReadKey) = "key"
  /\ Head(Save1) = "config" /\ Head(Save2) = "cache"
  /\ Add6 # Forget3 /\ Add6 # Use2 /\ Forget3 # Use2
<1> USE DEF Add1, Add2, Add3, Add4, Add5, Add6, Add7, Use1, Use2, Use3, Forget1, Forget2,
      Forget3, Forget4, Load1, Load2, Move1, Move2, Move3, Make1, Make2, ReadKey, Save1, Save2,
      AllDone
<1>1. Add6 # Forget3 /\ Add6 # Use2 /\ Forget3 # Use2
  <2>1. Add6[2] = "list" /\ Forget3[2] = "unlist" /\ Use2[2] = "touch"
    OBVIOUS
  <2> QED
    BY <2>1, "list" # "unlist", "list" # "touch", "touch" # "unlist"
<1> QED
  BY <1>1

LEMMA TailsAre ==
  /\ Tail(Add1) = Add2 /\ Tail(Add2) = Add3 /\ Tail(Add3) = Add4 /\ Tail(Add4) = Add5
  /\ Tail(Add5) = Add6 /\ Tail(Add6) = Add7 /\ Tail(Add7) = AllDone
  /\ Tail(Use1) = Use2 /\ Tail(Use2) = Use3 /\ Tail(Use3) = AllDone
  /\ Tail(Forget1) = Forget2 /\ Tail(Forget2) = Forget3 /\ Tail(Forget3) = Forget4
  /\ Tail(Forget4) = AllDone
  /\ Tail(Load1) = Load2 /\ Tail(Move1) = Move2 /\ Tail(Move2) = Move3 /\ Tail(Move3) = ReadKey
  /\ Tail(Load2) = AllDone /\ Tail(ReadKey) = AllDone
  /\ Tail(Make1) = Make2 /\ Tail(Make2) = ReadKey /\ Tail(Save1) = Save2 /\ Tail(Save2) = AllDone
BY DEF Add1, Add2, Add3, Add4, Add5, Add6, Add7, Use1, Use2, Use3, Forget1, Forget2, Forget3,
      Forget4, Load1, Load2, Move1, Move2, Move3, Make1, Make2, ReadKey, Save1, Save2, AllDone

\* What a process does next with a script, and what is left of it then.
First(t) == IF t = <<>> THEN "nothing" ELSE Head(t)

LEMMA FirstIs ==
  ASSUME NEW t \in Scripts
  PROVE  /\ First(t) = "nothing" <=> t = AllDone
         /\ First(t) = "priv" => t \in {Add1, Move1, Make1}
         /\ First(t) = "pub" <=> t \in {Add2, Move2, Make2}
         /\ First(t) = "load" => t \in {Add3, Load1, Use1}
         /\ First(t) = "config" => t \in {Add4, Save1}
         /\ First(t) = "cache" <=> t \in {Add5, Save2}
         /\ First(t) = "readList" <=> t \in {Add6, Forget3, Use2}
         /\ First(t) = "list" <=> t = Add7
         /\ First(t) = "unlist" <=> t = Forget4
         /\ First(t) = "touch" <=> t = Use3
         /\ First(t) = "rmCamp" => t = Forget1
         /\ First(t) = "rmOldKey" <=> t \in {Forget2, Move3}
         /\ First(t) = "migrate" => t = Load2
         /\ First(t) = "key" => t = ReadKey
<1>1. AllDone = <<>>
  BY DEF AllDone
<1>2. First(t) = IF t = AllDone THEN "nothing" ELSE Head(t)
  BY <1>1 DEF First
<1>4. /\ First(t) = "nothing" <=> t = AllDone
      /\ First(t) = "priv" => t \in {Add1, Move1, Make1}
      /\ First(t) = "pub" => t \in {Add2, Move2, Make2}
      /\ First(t) = "load" => t \in {Add3, Load1, Use1}
  BY <1>2, ScriptsAre DEF Scripts, KeyScripts, Using
<1>5. /\ First(t) = "config" => t \in {Add4, Save1}
      /\ First(t) = "cache" => t \in {Add5, Save2}
      /\ First(t) = "readList" => t \in {Add6, Forget3, Use2}
      /\ First(t) = "list" => t = Add7
      /\ First(t) = "unlist" => t = Forget4
      /\ First(t) = "touch" => t = Use3
  BY <1>2, ScriptsAre DEF Scripts, KeyScripts, Using
<1>6. /\ First(t) = "rmCamp" => t = Forget1
      /\ First(t) = "rmOldKey" => t \in {Forget2, Move3}
      /\ First(t) = "migrate" => t = Load2
      /\ First(t) = "key" => t = ReadKey
  BY <1>2, ScriptsAre DEF Scripts, KeyScripts, Using
<1>7. /\ t = Add7 => First(t) = "list"
      /\ t = Forget4 => First(t) = "unlist"
      /\ t = Use3 => First(t) = "touch"
  BY <1>2, ScriptsAre
<1>8. t \in {Add2, Move2, Make2} => First(t) = "pub"
  BY <1>2, ScriptsAre
<1>9. t \in {Add5, Save2} => First(t) = "cache"
  BY <1>2, ScriptsAre
<1>10. t \in {Add6, Forget3, Use2} => First(t) = "readList"
  BY <1>2, ScriptsAre
<1>11. t \in {Forget2, Move3} => First(t) = "rmOldKey"
  BY <1>2, ScriptsAre
<1> QED
  BY <1>4, <1>5, <1>6, <1>7, <1>8, <1>9, <1>10, <1>11

\* A joining ends with the listing, a removal with the unlisting, a use with the touch.
LEMMA EndsAre ==
  ASSUME NEW t \in Scripts
  PROVE  /\ Ends(t, "list") <=> t \in {Add1, Add2, Add3, Add4, Add5, Add6, Add7}
         /\ Ends(t, "unlist") <=> t \in Forgetting
         /\ Ends(t, "touch") <=> t \in Using
<1>1. /\ \A s \in {Add1, Add2, Add3, Add4, Add5, Add6, Add7} : s # <<>> /\ s[Len(s)] = "list"
      /\ \A s \in Forgetting : s # <<>> /\ s[Len(s)] = "unlist"
      /\ \A s \in Using : s # <<>> /\ s[Len(s)] = "touch"
  <2>1. /\ Add1[Len(Add1)] = "list" /\ Add2[Len(Add2)] = "list" /\ Add3[Len(Add3)] = "list"
        /\ Add4[Len(Add4)] = "list" /\ Add5[Len(Add5)] = "list" /\ Add6[Len(Add6)] = "list"
        /\ Add7[Len(Add7)] = "list"
    BY DEF Add1, Add2, Add3, Add4, Add5, Add6, Add7
  <2>2. /\ Forget1[Len(Forget1)] = "unlist" /\ Forget2[Len(Forget2)] = "unlist"
        /\ Forget3[Len(Forget3)] = "unlist" /\ Forget4[Len(Forget4)] = "unlist"
    BY DEF Forget1, Forget2, Forget3, Forget4
  <2>3. Use1[Len(Use1)] = "touch" /\ Use2[Len(Use2)] = "touch" /\ Use3[Len(Use3)] = "touch"
    BY DEF Use1, Use2, Use3
  <2>4. \A s \in {Add1, Add2, Add3, Add4, Add5, Add6, Add7} \cup Forgetting \cup Using : s # <<>>
    <3>1. AllDone = <<>>
      BY DEF AllDone
    <3>2. \A s \in {Add1, Add2, Add3, Add4, Add5, Add6, Add7} : s # AllDone
      <4>1. /\ Len(Add1) = 7 /\ Len(Add2) = 6 /\ Len(Add3) = 5 /\ Len(Add4) = 4 /\ Len(Add5) = 3
            /\ Len(Add6) = 2 /\ Len(Add7) = 1 /\ Len(AllDone) = 0
        BY ScriptsAre
      <4> QED
        BY <4>1
    <3>3. \A s \in Forgetting : s # AllDone
      BY ScriptsAre DEF Forgetting, Unlisting
    <3>4. \A s \in Using : s # AllDone
      BY ScriptsAre DEF Using
    <3> QED
      BY <3>1, <3>2, <3>3, <3>4
  <2> QED
    BY <2>1, <2>2, <2>3, <2>4 DEF Forgetting, Unlisting, Using
<1>2. \A s \in KeyScripts \cup {Save1, Save2} : s[Len(s)] \in {"migrate", "key", "cache"}
  <2>1. Load1[Len(Load1)] = "migrate" /\ Load2[Len(Load2)] = "migrate"
    BY DEF Load1, Load2
  <2>2. /\ Move1[Len(Move1)] = "key" /\ Move2[Len(Move2)] = "key" /\ Move3[Len(Move3)] = "key"
        /\ Make1[Len(Make1)] = "key" /\ Make2[Len(Make2)] = "key" /\ ReadKey[Len(ReadKey)] = "key"
    BY DEF Move1, Move2, Move3, Make1, Make2, ReadKey
  <2>3. Save1[Len(Save1)] = "cache" /\ Save2[Len(Save2)] = "cache"
    BY DEF Save1, Save2
  <2> QED
    BY <2>1, <2>2, <2>3 DEF KeyScripts
<1>3. \A s, e : Ends(s, e) <=> s # <<>> /\ s[Len(s)] = e
  BY DEF Ends
<1>4. AllDone = <<>>
  BY DEF AllDone
<1>5. \/ t \in {Add1, Add2, Add3, Add4, Add5, Add6, Add7} \/ t \in Forgetting \/ t \in Using
      \/ t \in KeyScripts \cup {Save1, Save2} \/ t = AllDone
  BY DEF Scripts, Forgetting, Unlisting
<1> QED
  BY <1>1, <1>2, <1>3, <1>4, <1>5

\* What is in none of the classes it is not listed in.
LEMMA ClassesAre ==
  /\ {Add4, Add5, Load2, Move1, Move2, Move3, Make1, Make2, ReadKey, Save1, Save2} \subseteq WithLoaded
  /\ {Add1, Add2, Add3, Add6, Add7, Use1, Use2, Use3, Forget1, Forget2, Forget3, Forget4,
      Load1, AllDone} \cap WithLoaded = {}
  /\ {Add1, Add2} \subseteq Creating
  /\ {Add3, Add4, Add5, Add6, Add7, Use1, Use2, Use3, Forget1, Forget2, Forget3, Forget4,
      Load1, Load2, Move1, Move2, Move3, Make1, Make2, ReadKey, Save1, Save2, AllDone} \cap Creating = {}
  /\ {Add1, Add2, Make1, Make2} \subseteq Making
  /\ {Add3, Add4, Add5, Add6, Add7, Use1, Use2, Use3, Forget1, Forget2, Forget3, Forget4,
      Load1, Load2, Move1, Move2, Move3, ReadKey, Save1, Save2, AllDone} \cap Making = {}
  /\ {Move1} \subseteq ToMove
  /\ {Add1, Add2, Add3, Add4, Add5, Add6, Add7, Use1, Use2, Use3, Forget1, Forget2, Forget3,
      Forget4, Load1, Load2, Move2, Move3, Make1, Make2, ReadKey, Save1, Save2, AllDone} \cap ToMove = {}
  /\ {Move2} \subseteq Halfway
  /\ {Add1, Add2, Add3, Add4, Add5, Add6, Add7, Use1, Use2, Use3, Forget1, Forget2, Forget3,
      Forget4, Load1, Load2, Move1, Move3, Make1, Make2, ReadKey, Save1, Save2, AllDone} \cap Halfway = {}
  /\ {Move2, Move3, ReadKey} \subseteq KeyMoved
  /\ {Add1, Add2, Add3, Add4, Add5, Add6, Add7, Use1, Use2, Use3, Forget1, Forget2, Forget3,
      Forget4, Load1, Load2, Move1, Make1, Make2, Save1, Save2, AllDone} \cap KeyMoved = {}
  /\ {Load1, Load2, Move1, Move2, Move3, Make1, Make2, ReadKey, Save1, Save2} \subseteq Starting
  /\ {Add1, Add2, Add3, Add4, Add5, Add6, Add7, Use1, Use2, Use3, Forget1, Forget2, Forget3,
      Forget4, AllDone} \cap Starting = {}
  /\ {Add5, Save2} \subseteq Saving
  /\ {Add1, Add2, Add3, Add4, Add6, Add7, Use1, Use2, Use3, Forget1, Forget2, Forget3,
      Forget4, Load1, Load2, Move1, Move2, Move3, Make1, Make2, ReadKey, Save1, AllDone} \cap Saving = {}
  /\ {Add4, Add5, Add6, Add7} \subseteq Listing
  /\ {Add1, Add2, Add3, Use1, Use2, Use3, Forget1, Forget2, Forget3, Forget4, Load1, Load2,
      Move1, Move2, Move3, Make1, Make2, ReadKey, Save1, Save2, AllDone} \cap Listing = {}
  /\ {Add5, Add6, Add7} \subseteq Unlisted
  /\ {Add1, Add2, Add3, Add4, Use1, Use2, Use3, Forget1, Forget2, Forget3, Forget4, Load1,
      Load2, Move1, Move2, Move3, Make1, Make2, ReadKey, Save1, Save2, AllDone} \cap Unlisted = {}
  /\ {Use1, Use2, Use3} \subseteq Using
  /\ {Add1, Add2, Add3, Add4, Add5, Add6, Add7, Forget1, Forget2, Forget3, Forget4, Load1,
      Load2, Move1, Move2, Move3, Make1, Make2, ReadKey, Save1, Save2, AllDone} \cap Using = {}
  /\ {Forget2, Forget3, Forget4} \subseteq Unlisting
  /\ {Add1, Add2, Add3, Add4, Add5, Add6, Add7, Use1, Use2, Use3, Forget1, Load1, Load2,
      Move1, Move2, Move3, Make1, Make2, ReadKey, Save1, Save2, AllDone} \cap Unlisting = {}
  /\ {Forget1, Forget2, Forget3, Forget4} \subseteq Forgetting
  /\ {Add1, Add2, Add3, Add4, Add5, Add6, Add7, Use1, Use2, Use3, Load1, Load2, Move1, Move2,
      Move3, Make1, Make2, ReadKey, Save1, Save2, AllDone} \cap Forgetting = {}
  /\ {Add7, Forget4, Use3} \subseteq Writing
  /\ {Add1, Add2, Add3, Add4, Add5, Add6, Use1, Use2, Forget1, Forget2, Forget3, Load1, Load2,
      Move1, Move2, Move3, Make1, Make2, ReadKey, Save1, Save2, AllDone} \cap Writing = {}
BY ScriptsAre DEF WithLoaded, Creating, Making, ToMove, Halfway, KeyMoved, KeyScripts, Starting,
     Saving, Listing, Unlisted, Using, Unlisting, Forgetting, Writing

CommandRecord == [todo : Scripts, camp : {0} \cup Camps, key : Nat, seen : SUBSET Camps]

IsAt(p, c, S) == command[p].camp = c /\ command[p].todo \in S

\* A command is for a camp, which is in memory after its load and removed after its
\* removal; its key has been generated.  Only the CLI forgets camps, only the helper starts them.
CommandTyped(p) ==
  /\ command[p].key <= madeKeys
  /\ command[p].camp = 0 => command[p] = NoCommand
  /\ command[p].todo \in WithLoaded => loaded[p][command[p].camp] # "none"
  /\ command[p].todo \in Unlisting => command[p].camp \in removed
  /\ command[p].todo \in Forgetting => p = "cli"
  /\ command[p].todo \in Starting => p = "helper"

\* Types of what is on the disk and in memory.
FilesTyped ==
  /\ listed \subseteq Camps /\ flat \subseteq Camps
  /\ config \in [Camps -> {"none", "mixed", "plain"}]
  /\ cache \in [Camps -> {"none", "empty", "trusts"}]
  /\ loaded \in [Programs -> [Camps -> {"none", "empty", "trusts"}]]
  /\ madeKeys \in Nat
  /\ priv \in [Camps -> (0..madeKeys) \cup {Torn}] /\ pub \in [Camps -> (0..madeKeys) \cup {Torn}]
  /\ oldKey \in [Camps -> 0..madeKeys] /\ running \in [Camps -> 0..madeKeys]
  /\ command \in [Programs -> CommandRecord]

CampsTyped == FilesTyped /\ \A p \in Programs : CommandTyped(p)

\* No key is in two camps.
KeysOf(c) ==
  ({priv[c], oldKey[c]} \cup {command[p].key : p \in {q \in Programs : command[q].camp = c}})
    \ {0, Torn}
KeysApart == \A c, d \in Camps : c # d => KeysOf(c) \cap KeysOf(d) = {}

\* What is listed, started, read, in memory or had by a command is on the disk, or was
\* removed, but for what a joining is about to write.
Met(c) == KnownCamp(c) \/ c \in removed
MetWhenUsed ==
  \A c \in Camps :
    /\ c \in listed \/ running[c] # 0 => Met(c)
    /\ \A p \in Programs :
         /\ c \in command[p].seen => Met(c)
         /\ IsAt(p, c, Unlisted \cup Using \cup Forgetting \cup Starting) => Met(c)
         /\ loaded[p][c] # "none" => Met(c) \/ IsAt(p, c, {Add4})

\* While a camp's first key is written, no other process has a command for the camp.
NewAlone ==
  \A p \in Programs, c \in Camps :
    IsAt(p, c, Creating) =>
      /\ ~Met(c) /\ command[p].key # 0
      /\ \A q \in Programs \ {p} : command[q].camp # c

\* Two that are between reading and saving the list have both been counted as overtaken.
Writers == {p \in Programs : command[p].todo \in Writing}
WritersRace == \A p, q \in Writers : p # q => <<"list", command[p].camp>> \in raced

\* No new key is made for a camp that was started: its key is in its place, or still in
\* that of old, or on its way.
KeyOf(c) ==
  running[c] # 0 =>
    /\ \/ priv[c] = 0 /\ oldKey[c] = running[c] /\ \A p \in Programs : ~IsAt(p, c, KeyMoved)
       \/ /\ priv[c] = running[c] /\ pub[c] \notin {0, Torn}
          /\ \A p \in Programs : ~IsAt(p, c, ToMove)
       \/ priv[c] = running[c] /\ \E p \in Programs : IsAt(p, c, Halfway)
    /\ \A p \in Programs : /\ IsAt(p, c, ToMove) \/ IsAt(p, c, Halfway) =>
                                command[p].key = running[c]
                           /\ ~IsAt(p, c, Making)
KeyKept(c) == c \notin removed /\ <<"pair", c>> \notin cut => KeyOf(c)

\* What was trusted in camp 1 is on the disk, or in memory and about to be saved;
\* what is in memory has it.
OnDisk ==
  \/ cache[1] = "trusts"
  \/ cache[1] = "none" /\ (config[1] = "mixed" \/ (config[1] = "none" /\ 1 \in flat))
TrustOf ==
  /\ KnownCamp(1) /\ cache[1] # "empty"
  /\ \A p \in Programs : loaded[p][1] # "empty"
  /\ OnDisk \/ \E p \in Programs : IsAt(p, 1, Saving)
TrustKept == 1 \notin removed /\ ~Hit("cache", 1) => TrustOf

\* What is listed is there, but for the commands that are just about it; no two commands
\* have a camp of which one removes it; who is about to save the list has read it as it is.
Exists(c) == config[c] # "none" \/ c \in flat \ removed
HasAny(p, c) == command[p].camp = c \/ loaded[p][c] # "none"
ListOf(c) ==
  /\ \A p \in Programs :
       /\ IsAt(p, c, Unlisted) => Exists(c)
       /\ IsAt(p, c, Unlisting) => ~Exists(c)
       /\ IsAt(p, c, Starting \cup Using) => c \in listed
       /\ IsAt(p, c, Forgetting) => \A q \in Programs \ {p} : ~HasAny(q, c)
       /\ p \in Writers => (c \in command[p].seen <=> c \in listed)
  /\ loaded["helper"][c] # "none" /\ ~IsAt("helper", c, Listing) => c \in listed
  /\ \/ <<"list", c>> \in cut
     \/ \E p \in Programs : IsAt(p, c, Unlisted) \/ IsAt(p, c, Unlisting)
     \/ c \in listed <=> Exists(c)
ListKept(c) == <<"list", c>> \notin raced => ListOf(c)

CampsInv ==
  /\ CampsTyped /\ KeysApart /\ MetWhenUsed /\ NewAlone /\ WritersRace /\ TrustKept
  /\ \A c \in Camps : KeyKept(c) /\ ListKept(c)

LEMMA CampsFacts ==
  ASSUME CampsInv
  PROVE  /\ FilesTyped
         /\ 0 \notin Camps /\ 1 \in Camps /\ Camps \subseteq Nat
         /\ "helper" \in Programs /\ "cli" \in Programs
BY CampsAssumption DEF CampsInv, CampsTyped, Programs

\* A process goes on from one script to another; the others do nothing.
Passes(p, t, u) ==
  /\ command[p].todo = t /\ command'[p].todo = u
  /\ \A q \in Programs \ {p} : command'[q] = command[q]

\* A process that has something to do has it for a camp, and goes on with what is
\* left; a step changes nothing else of any command.
LEMMA StepDoneIs ==
  ASSUME CampsInv, NEW p \in Programs, Step(p) # "nothing"
  PROVE  /\ command[p].camp \in Camps
         /\ command[p].todo \in Scripts /\ Step(p) = First(command[p].todo)
         /\ StepDone(p) =>
              /\ command' \in [Programs -> CommandRecord]
              /\ Passes(p, command[p].todo, Tail(command[p].todo))
              /\ command'[p].camp = command[p].camp /\ command'[p].key = command[p].key
              /\ command'[p].seen = command[p].seen
<1>1. command \in [Programs -> CommandRecord] /\ command[p].todo \in Scripts
  BY CampsFacts DEF CommandRecord, FilesTyped
<1>2. Step(p) = First(command[p].todo)
  BY DEF Step, First
<1>3. command[p].todo # AllDone
  BY <1>1, <1>2, FirstIs
<1>4. command[p].camp \in Camps
  <2>1. NoCommand.todo = AllDone
    BY DEF NoCommand, AllDone
  <2> QED
    BY <1>1, <1>3, <2>1 DEF CommandRecord, CampsInv, CampsTyped, CommandTyped
<1>5. Tail(command[p].todo) \in Scripts
  BY <1>1, <1>3, TailsAre DEF Scripts, KeyScripts, Using
<1>6. ASSUME StepDone(p)
      PROVE  /\ command' \in [Programs -> CommandRecord]
             /\ Passes(p, command[p].todo, Tail(command[p].todo))
             /\ command'[p].camp = command[p].camp /\ command'[p].key = command[p].key
             /\ command'[p].seen = command[p].seen
  <2> DEFINE rest == Tail(command[p].todo)
  <2>1. command' = [command EXCEPT ![p].todo = rest]
    BY <1>6 DEF StepDone
  <2> HIDE DEF rest
  <2>2. rest \in Scripts
    BY <1>5 DEF rest
  <2>3. command' \in [Programs -> CommandRecord]
    BY <1>1, <2>1, <2>2 DEF CommandRecord
  <2>4. /\ command'[p].todo = rest
        /\ command'[p].camp = command[p].camp /\ command'[p].key = command[p].key
        /\ command'[p].seen = command[p].seen
        /\ \A q \in Programs \ {p} : command'[q] = command[q]
    BY <1>1, <2>1 DEF CommandRecord
  <2> QED
    BY <2>3, <2>4 DEF rest, Passes
<1> QED
  BY <1>1, <1>2, <1>4, <1>5, <1>6

\* A process goes on with its command in another way.
LEMMA GoesOnIs ==
  ASSUME CampsInv, NEW p \in Programs, NEW script \in Scripts, NEW key \in Nat,
         GoesOn(p, script, key)
  PROVE  /\ command' \in [Programs -> CommandRecord]
         /\ Passes(p, command[p].todo, script)
         /\ command'[p].camp = command[p].camp /\ command'[p].key = key
         /\ command'[p].seen = command[p].seen
<1>1. command \in [Programs -> CommandRecord]
  BY CampsFacts DEF FilesTyped
<1>2. /\ command' \in [Programs -> CommandRecord]
      /\ command'[p].todo = script /\ command'[p].key = key
      /\ command'[p].camp = command[p].camp /\ command'[p].seen = command[p].seen
      /\ \A q \in Programs \ {p} : command'[q] = command[q]
  BY <1>1 DEF GoesOn, CommandRecord
<1> QED
  BY <1>2 DEF Passes

\* Keys stay apart while no camp gets one that was not its own ...
LEMMA KeysStayApart ==
  ASSUME CampsInv, \A c \in Camps : KeysOf(c)' \subseteq KeysOf(c)
  PROVE  KeysApart'
BY DEF CampsInv, KeysApart

\* ... or is new.
LEMMA FreshKeysApart ==
  ASSUME CampsInv, NEW c \in Camps, KeysOf(c)' \subseteq KeysOf(c) \cup {FreshKey},
         \A d \in Camps \ {c} : KeysOf(d)' \subseteq KeysOf(d)
  PROVE  KeysApart'
<1>1. \A d \in Camps : \A k \in KeysOf(d) : k \in Int /\ k <= madeKeys
  BY CampsFacts DEF KeysOf, FilesTyped, CommandRecord, CampsInv, CampsTyped, CommandTyped
<1>2. \A d \in Camps : FreshKey \notin KeysOf(d)
  BY <1>1, CampsFacts DEF FreshKey, FilesTyped
<1> QED
  BY <1>2 DEF CampsInv, KeysApart

\* What the commands of the other processes are typed by stays.
LEMMA CommandsStayTyped ==
  ASSUME CampsInv, NEW p \in Programs, NEW t, NEW u, Passes(p, t, u), FilesTyped', CommandTyped(p)',
         \A q \in Programs \ {p} : loaded'[q] = loaded[q],
         madeKeys <= madeKeys', removed \subseteq removed'
  PROVE  CampsTyped'
<1>1. ASSUME NEW q \in Programs \ {p} PROVE CommandTyped(q)'
  <2>1. /\ command'[q] = command[q] /\ loaded'[q] = loaded[q] /\ CommandTyped(q)
        /\ command[q].key \in Nat /\ madeKeys \in Nat /\ madeKeys' \in Nat
    BY <1>1, CampsFacts DEF CampsInv, CampsTyped, FilesTyped, CommandRecord, Passes
  <2> QED
    BY <2>1 DEF CommandTyped
<1> QED
  BY <1>1 DEF CampsTyped

\* What is used stays met, but for what a step newly lists, starts, reads, loads or is for.
LEMMA MetStays ==
  ASSUME CampsInv, NEW p \in Programs, NEW t, NEW u, Passes(p, t, u),
         \A q \in Programs \ {p} : loaded'[q] = loaded[q],
         \A d \in Camps :
           /\ Met(d) => Met(d)'
           /\ d \in listed' \/ running'[d] # 0 \/ d \in command'[p].seen =>
                d \in listed \/ running[d] # 0 \/ d \in command[p].seen \/ Met(d)
           /\ IsAt(p, d, Unlisted \cup Using \cup Forgetting \cup Starting)' =>
                IsAt(p, d, Unlisted \cup Using \cup Forgetting \cup Starting) \/ Met(d)'
           /\ loaded'[p][d] # "none" =>
                Met(d)' \/ IsAt(p, d, {Add4})' \/ (loaded[p][d] # "none" /\ ~IsAt(p, d, {Add4}))
  PROVE  MetWhenUsed'
<1>1. ASSUME NEW d \in Camps PROVE d \in listed' \/ running'[d] # 0 \/ d \in command'[p].seen => Met(d)'
  BY <1>1 DEF CampsInv, MetWhenUsed
<1>2. ASSUME NEW d \in Camps, NEW q \in Programs, q # p
      PROVE  /\ d \in command'[q].seen => Met(d)'
             /\ IsAt(q, d, Unlisted \cup Using \cup Forgetting \cup Starting)' => Met(d)'
             /\ loaded'[q][d] # "none" => Met(d)' \/ IsAt(q, d, {Add4})'
  <2>1. command'[q] = command[q] /\ loaded'[q] = loaded[q] /\ (Met(d) => Met(d)')
    BY <1>2 DEF Passes
  <2> QED
    BY <1>2, <2>1 DEF CampsInv, MetWhenUsed, IsAt
<1>3. ASSUME NEW d \in Camps
      PROVE  /\ IsAt(p, d, Unlisted \cup Using \cup Forgetting \cup Starting)' => Met(d)'
             /\ loaded'[p][d] # "none" => Met(d)' \/ IsAt(p, d, {Add4})'
  BY <1>3 DEF CampsInv, MetWhenUsed
<1> QED
  BY <1>1, <1>2, <1>3 DEF MetWhenUsed

\* A new camp stays alone while nobody else gets a command for it.
LEMMA NewStaysAlone ==
  ASSUME CampsInv, NEW p \in Programs, NEW t, NEW u, Passes(p, t, u), u \notin Creating,
         \A d \in Camps : Met(d)' => Met(d) \/ command[p].camp = d,
         \A d \in Camps : command'[p].camp = d => command[p].camp = d
  PROVE  NewAlone'
<1>1. ASSUME NEW q \in Programs, NEW d \in Camps, IsAt(q, d, Creating)'
      PROVE  /\ ~Met(d)' /\ command'[q].key # 0
             /\ \A r \in Programs \ {q} : command'[r].camp # d
  <2>1. q # p /\ command'[q] = command[q] /\ IsAt(q, d, Creating)
    BY <1>1 DEF Passes, IsAt
  <2>2. ~Met(d) /\ command[q].key # 0 /\ \A r \in Programs \ {q} : command[r].camp # d
    BY <1>1, <2>1 DEF CampsInv, NewAlone
  <2> QED
    BY <1>1, <2>1, <2>2 DEF Passes
<1> QED
  BY <1>1 DEF NewAlone

\* Who has not just read the list writes no more than before.
LEMMA WritersStay ==
  ASSUME CampsInv, NEW p \in Programs, NEW t, NEW u, Passes(p, t, u), u \notin Writing,
         raced \subseteq raced'
  PROVE  WritersRace'
<1>1. ASSUME NEW q \in Writers' PROVE q \in Writers /\ command'[q] = command[q]
  BY <1>1 DEF Writers, Passes
<1> QED
  BY <1>1 DEF CampsInv, WritersRace

\* Keys stay where they are in steps that are not about them.
LEMMA KeysStay ==
  ASSUME CampsInv, NEW p \in Programs, NEW t, NEW u, Passes(p, t, u),
         {t, u} \cap (KeyMoved \cup ToMove \cup Halfway \cup Making) = {},
         UNCHANGED <<priv, pub, oldKey, running>>, removed \subseteq removed',
         \A d \in Camps : <<"pair", d>> \in cut => <<"pair", d>> \in cut'
  PROVE  \A d \in Camps : KeyKept(d)'
<1>1. ASSUME NEW q \in Programs, NEW d \in Camps
      PROVE  /\ IsAt(q, d, KeyMoved)' <=> IsAt(q, d, KeyMoved)
             /\ IsAt(q, d, ToMove)' <=> IsAt(q, d, ToMove)
             /\ IsAt(q, d, Halfway)' <=> IsAt(q, d, Halfway)
             /\ IsAt(q, d, Making)' <=> IsAt(q, d, Making)
             /\ IsAt(q, d, ToMove) \/ IsAt(q, d, Halfway) => command'[q].key = command[q].key
  BY <1>1 DEF IsAt, Passes
<1>2. ASSUME NEW d \in Camps, KeyOf(d) PROVE KeyOf(d)'
  BY <1>1, <1>2 DEF KeyOf
<1> QED
  BY <1>2 DEF CampsInv, KeyKept

\* What is trusted stays so in steps that neither write the config nor give one up
\* that is half written.
LEMMA TrustStays ==
  ASSUME CampsInv, NEW p \in Programs, NEW t, NEW u, Passes(p, t, u), t \notin Saving,
         UNCHANGED fileVars, removed \subseteq removed', raced \subseteq raced',
         <<"cache", 1>> \in cut => <<"cache", 1>> \in cut',
         \A q \in Programs : loaded'[q][1] \in {"none", loaded[q][1]}
  PROVE  TrustKept'
<1>1. \A q \in Programs : IsAt(q, 1, Saving) => IsAt(q, 1, Saving)'
  BY DEF IsAt, Passes
<1> QED
  BY <1>1 DEF CampsInv, TrustKept, Hit, TrustOf, OnDisk, KnownCamp, fileVars

\* A camp's listing stays as it is in steps that are not about it ...
LEMMA ListStays ==
  ASSUME NEW d \in Camps, ListOf(d),
         Exists(d)' <=> Exists(d), d \in listed' <=> d \in listed,
         <<"list", d>> \in cut => <<"list", d>> \in cut',
         \A q \in Programs :
           /\ IsAt(q, d, Unlisted)' <=> IsAt(q, d, Unlisted)
           /\ IsAt(q, d, Unlisting)' <=> IsAt(q, d, Unlisting)
           /\ IsAt(q, d, Forgetting)' => IsAt(q, d, Forgetting)
           /\ IsAt(q, d, Starting \cup Using)' => IsAt(q, d, Starting \cup Using) \/ d \in listed
           /\ HasAny(q, d)' => HasAny(q, d)
           /\ q \in Writers' => \/ q \in Writers /\ command'[q].seen = command[q].seen
                                \/ d \in command'[q].seen <=> d \in listed',
         loaded'["helper"][d] # "none" /\ ~IsAt("helper", d, Listing)' =>
           d \in listed \/ (loaded["helper"][d] # "none" /\ ~IsAt("helper", d, Listing))
  PROVE  ListOf(d)'
<1>1. ASSUME NEW q \in Programs
      PROVE  /\ IsAt(q, d, Unlisted)' => Exists(d)'
             /\ IsAt(q, d, Unlisting)' => ~Exists(d)'
             /\ IsAt(q, d, Starting \cup Using)' => d \in listed'
             /\ IsAt(q, d, Forgetting)' => \A r \in Programs \ {q} : ~HasAny(r, d)'
             /\ q \in Writers' => (d \in command'[q].seen <=> d \in listed')
  BY <1>1 DEF ListOf
<1>2. loaded'["helper"][d] # "none" /\ ~IsAt("helper", d, Listing)' => d \in listed'
  BY DEF ListOf
<1>3. \/ <<"list", d>> \in cut'
      \/ \E q \in Programs : IsAt(q, d, Unlisted)' \/ IsAt(q, d, Unlisting)'
      \/ d \in listed' <=> Exists(d)'
  BY DEF ListOf
<1> QED
  BY <1>1, <1>2, <1>3 DEF ListOf

\* ... and those of all camps in steps that leave files and memory alone.
LEMMA ListsStay ==
  ASSUME CampsInv, NEW p \in Programs, NEW t, NEW u, Passes(p, t, u),
         command'[p].camp = command[p].camp, command'[p].seen = command[p].seen,
         u \in Unlisted <=> t \in Unlisted, u \in Unlisting <=> t \in Unlisting,
         u \in Forgetting => t \in Forgetting,
         u \in Starting \cup Using => t \in Starting \cup Using,
         t \in Listing => u \in Listing, u \notin Writing,
         UNCHANGED <<listed, config, flat, removed, loaded, cut, raced>>
  PROVE  \A d \in Camps : ListKept(d)'
<1> SUFFICES ASSUME NEW d \in Camps, ListOf(d) PROVE ListOf(d)'
  BY DEF CampsInv, ListKept
<1>1. Exists(d)' <=> Exists(d)
  BY DEF Exists
<1>2. ASSUME NEW q \in Programs
      PROVE  /\ IsAt(q, d, Unlisted)' <=> IsAt(q, d, Unlisted)
             /\ IsAt(q, d, Unlisting)' <=> IsAt(q, d, Unlisting)
             /\ IsAt(q, d, Forgetting)' => IsAt(q, d, Forgetting)
             /\ IsAt(q, d, Starting \cup Using)' => IsAt(q, d, Starting \cup Using)
             /\ IsAt(q, d, Listing) => IsAt(q, d, Listing)'
             /\ HasAny(q, d)' => HasAny(q, d)
             /\ q \in Writers' => q \in Writers /\ command'[q].seen = command[q].seen
  <2>1. CASE q = p
    BY <2>1 DEF Passes, IsAt, HasAny, Writers
  <2>2. CASE q # p
    BY <1>2, <2>2 DEF Passes, IsAt, HasAny, Writers
  <2> QED
    BY <2>1, <2>2
<1> QED
  BY <1>1, <1>2, CampsFacts, ListStays

\* One lemma for each step of a command.
LEMMA LoadConfigInv == ASSUME CampsInv, NEW p \in Programs, LoadConfig(p) PROVE CampsInv'
<1> USE DEF rosters, fileVars, keyVars
<1>0. PICK c \in Camps : c = command[p].camp
  BY StepDoneIs DEF LoadConfig
<1>1. PICK t \in Scripts : t = command[p].todo
  BY StepDoneIs DEF LoadConfig
<1>2. t \in {Add3, Load1, Use1} /\ UNCHANGED <<rosters, fileVars, keyVars, removed, cut>>
  BY <1>1, StepDoneIs, FirstIs DEF LoadConfig
\* It has the camp in memory, or gives up, or goes on without.
<1>3. \/ /\ loaded' = loaded /\ raced' = raced /\ loaded[p][c] # "none" /\ StepDone(p)
      \/ /\ loaded[p][c] = "none" /\ (KnownCamp(c) \/ t = Add3) /\ StepDone(p)
         /\ loaded' = [loaded EXCEPT ![p][c] = CacheRead(c)]
         /\ raced' = IF Halved(c) THEN raced \cup {<<"cache", c>>} ELSE raced
      \/ /\ loaded' = loaded /\ raced' = raced /\ loaded[p][c] = "none"
         /\ t # Add3 /\ GoesOn(p, IF t = Use1 THEN Use2 ELSE AllDone, 0)
  <2>1. Ends(t, "list") <=> t = Add3
    BY <1>2, EndsAre, ScriptsAre DEF Forgetting
  <2>2. Ends(t, "touch") <=> t = Use1
    BY <1>2, EndsAre, ClassesAre, ScriptsAre DEF Using
  <2>3. Tail(Use1) = Use2 /\ AllDone = <<>>
    BY TailsAre DEF AllDone
  <2>4. (IF Ends(t, "touch") THEN Tail(t) ELSE <<>>) = IF t = Use1 THEN Use2 ELSE AllDone
    BY <2>2, <2>3
  <2> QED
    BY <1>0, <1>1, <2>1, <2>4 DEF LoadConfig
<1>4. \E u \in Scripts :
        /\ Passes(p, t, u) /\ command' \in [Programs -> CommandRecord]
        /\ command'[p].camp = c /\ command'[p].seen = command[p].seen
        /\ command'[p].key \in {0, command[p].key}
        /\ \/ t = Add3 /\ u = Add4 /\ StepDone(p)
           \/ t = Load1 /\ u = Load2 /\ StepDone(p)
           \/ t = Load1 /\ u = AllDone
           \/ t = Use1 /\ u = Use2
  <2>1. ASSUME StepDone(p)
        PROVE  /\ Passes(p, t, Tail(t)) /\ command' \in [Programs -> CommandRecord]
               /\ command'[p].camp = c /\ command'[p].seen = command[p].seen
               /\ command'[p].key = command[p].key
    BY <1>0, <1>1, <2>1, StepDoneIs DEF LoadConfig
  <2>2. Tail(Add3) = Add4 /\ Tail(Load1) = Load2 /\ Tail(Use1) = Use2
    BY TailsAre
  <2>3. {Add4, Load2, Use2, AllDone} \subseteq Scripts
    BY DEF Scripts, KeyScripts, Using
  <2>4. CASE StepDone(p)
    BY <1>2, <2>1, <2>2, <2>3, <2>4
  <2>5. CASE t # Add3 /\ GoesOn(p, IF t = Use1 THEN Use2 ELSE AllDone, 0)
    <3>1. PICK u \in {Use2, AllDone} : u = IF t = Use1 THEN Use2 ELSE AllDone
      OBVIOUS
    <3>2. /\ command' \in [Programs -> CommandRecord] /\ Passes(p, t, u)
          /\ command'[p].camp = c /\ command'[p].key = 0 /\ command'[p].seen = command[p].seen
      BY <1>0, <1>1, <2>3, <2>5, <3>1, GoesOnIs
    <3> QED
      BY <1>2, <2>3, <2>5, <3>1, <3>2
  <2> QED
    BY <1>3, <2>4, <2>5
<1>5. PICK u \in Scripts :
        /\ Passes(p, t, u) /\ command' \in [Programs -> CommandRecord]
        /\ command'[p].camp = c /\ command'[p].seen = command[p].seen
        /\ command'[p].key \in {0, command[p].key}
        /\ \/ t = Add3 /\ u = Add4 /\ StepDone(p)
           \/ t = Load1 /\ u = Load2 /\ StepDone(p)
           \/ t = Load1 /\ u = AllDone
           \/ t = Use1 /\ u = Use2
  BY <1>4
<1>6. /\ {t, u} \cap (KeyMoved \cup ToMove \cup Halfway \cup Making) = {}
      /\ t \notin Saving \cup Writing \cup Creating \cup Unlisted \cup Unlisting \cup Forgetting
      /\ u \notin Saving \cup Writing \cup Creating \cup Unlisted \cup Unlisting \cup Forgetting
      /\ u \in Using => t \in Using
      /\ u \in Starting => t \in Starting
      /\ t \notin Listing
  BY <1>5, ClassesAre
<1>7. /\ loaded' \in [Programs -> [Camps -> {"none", "empty", "trusts"}]]
      /\ \A q \in Programs \ {p} : loaded'[q] = loaded[q]
      /\ \A d \in Camps \ {c} : loaded'[p][d] = loaded[p][d]
      /\ loaded[p][c] # "none" => loaded'[p][c] = loaded[p][c]
      /\ loaded'[p][c] # "none" /\ loaded[p][c] = "none" =>
           /\ KnownCamp(c) \/ t = Add3
           /\ loaded'[p][c] = CacheRead(c)
           /\ raced' = IF Halved(c) THEN raced \cup {<<"cache", c>>} ELSE raced
      /\ u \in {Add4, Load2} => loaded'[p][c] # "none"
      /\ raced \subseteq raced'
      /\ \A d \in Camps : <<"list", d>> \in raced' => <<"list", d>> \in raced
  <2>1. CacheRead(c) \in {"empty", "trusts"}
    BY CampsFacts DEF CacheRead, FilesTyped
  <2>2. loaded \in [Programs -> [Camps -> {"none", "empty", "trusts"}]]
    BY CampsFacts DEF FilesTyped
  <2>3. u \in {Add4, Load2} => ~(t # Add3 /\ GoesOn(p, IF t = Use1 THEN Use2 ELSE AllDone, 0))
    <3>1. ASSUME t # Add3, GoesOn(p, IF t = Use1 THEN Use2 ELSE AllDone, 0) PROVE u \in {Use2, AllDone}
      <4>1. {Use2, AllDone} \subseteq Scripts
        BY DEF Scripts, Using
      <4>2. PICK v \in {Use2, AllDone} : v = IF t = Use1 THEN Use2 ELSE AllDone
        OBVIOUS
      <4>3. Passes(p, command[p].todo, v)
        BY <3>1, <4>1, <4>2, GoesOnIs
      <4> QED
        BY <1>5, <4>2, <4>3 DEF Passes
    <3> QED
      BY <3>1, ScriptsAre
  <2> HIDE DEF CacheRead
  <2>4. CASE loaded' = loaded /\ raced' = raced /\ loaded[p][c] # "none" /\ StepDone(p)
    BY <2>2, <2>4
  <2>5. CASE /\ loaded[p][c] = "none" /\ (KnownCamp(c) \/ t = Add3) /\ StepDone(p)
             /\ loaded' = [loaded EXCEPT ![p][c] = CacheRead(c)]
             /\ raced' = IF Halved(c) THEN raced \cup {<<"cache", c>>} ELSE raced
    <3>1. /\ loaded' \in [Programs -> [Camps -> {"none", "empty", "trusts"}]]
          /\ \A q \in Programs \ {p} : loaded'[q] = loaded[q]
          /\ \A d \in Camps \ {c} : loaded'[p][d] = loaded[p][d]
          /\ loaded'[p][c] = CacheRead(c)
      BY <2>1, <2>2, <2>5
    <3>2. /\ raced \subseteq raced'
          /\ \A d \in Camps : <<"list", d>> \in raced' => <<"list", d>> \in raced
      BY <2>5, "list" # "cache"
    <3> QED
      BY <2>1, <2>5, <3>1, <3>2
  <2>6. CASE /\ loaded' = loaded /\ raced' = raced /\ loaded[p][c] = "none"
             /\ t # Add3 /\ GoesOn(p, IF t = Use1 THEN Use2 ELSE AllDone, 0)
    BY <2>2, <2>3, <2>6
  <2> QED
    BY <1>3, <2>4, <2>5, <2>6
<1>8. CampsTyped'
  <2>1. FilesTyped'
    BY <1>2, <1>5, <1>7, CampsFacts DEF FilesTyped
  <2>2. CommandTyped(p)'
    <3>1. command[p].key \in Nat /\ command[p].key <= madeKeys /\ madeKeys \in Nat
      BY CampsFacts DEF FilesTyped, CommandRecord, CampsInv, CampsTyped, CommandTyped
    <3>2. u \in WithLoaded => u \in {Add4, Load2}
      BY <1>5, ClassesAre
    <3>3. t \in Starting => p = "helper"
      BY <1>1 DEF CampsInv, CampsTyped, CommandTyped
    <3> QED
      BY <1>0, <1>2, <1>5, <1>6, <1>7, <3>1, <3>2, <3>3, CampsFacts DEF CommandTyped, Passes
  <2> QED
    <3>1. madeKeys <= madeKeys' /\ removed \subseteq removed'
      BY <1>2, CampsFacts DEF FilesTyped
    <3> QED
      BY <1>5, <1>7, <2>1, <2>2, <3>1, CommandsStayTyped
<1>9. KeysApart'
  <2>1. \A d \in Camps : KeysOf(d)' \subseteq KeysOf(d)
    BY <1>0, <1>2, <1>5 DEF KeysOf, Passes
  <2> QED
    BY <2>1, KeysStayApart
<1>10. MetWhenUsed'
  <2>1. \A d \in Camps : Met(d)' <=> Met(d)
    BY <1>2 DEF Met, KnownCamp
  <2>2. ASSUME NEW d \in Camps, loaded'[p][d] # "none"
        PROVE  Met(d)' \/ IsAt(p, d, {Add4})' \/ (loaded[p][d] # "none" /\ ~IsAt(p, d, {Add4}))
    <3>1. t # Add4
      BY <1>6, ClassesAre
    <3>2. CASE loaded[p][d] # "none"
      BY <1>1, <3>1, <3>2 DEF IsAt
    <3>3. CASE loaded[p][d] = "none"
      <4>1. d = c /\ (KnownCamp(c) \/ t = Add3)
        BY <1>7, <2>2, <3>3
      <4>2. t = Add3 => u = Add4
        <5>1. Len(Add3) = 5 /\ Len(Load1) = 2 /\ Len(Use1) = 3
          BY ScriptsAre
        <5> QED
          BY <1>5, <5>1
      <4> QED
        BY <1>5, <2>1, <4>1, <4>2 DEF IsAt, Met, Passes
    <3> QED
      BY <3>2, <3>3
  <2>3. \A d \in Camps : IsAt(p, d, Unlisted \cup Using \cup Forgetting \cup Starting)' =>
                           IsAt(p, d, Unlisted \cup Using \cup Forgetting \cup Starting)
    BY <1>0, <1>5, <1>6 DEF IsAt, Passes
  <2> QED
    BY <1>2, <1>5, <1>7, <2>1, <2>2, <2>3, MetStays
<1>11. NewAlone'
  <2>1. \A d \in Camps : Met(d)' <=> Met(d)
    BY <1>2 DEF Met, KnownCamp
  <2> QED
    BY <1>0, <1>5, <1>6, <2>1, NewStaysAlone
<1>12. WritersRace'
  BY <1>5, <1>6, <1>7, WritersStay
<1>13. \A d \in Camps : KeyKept(d)'
  BY <1>2, <1>5, <1>6, KeysStay
<1>14. TrustKept'
  <2> SUFFICES ASSUME 1 \notin removed', ~Hit("cache", 1)' PROVE TrustOf'
    BY DEF TrustKept
  <2>1. ~Hit("cache", 1) /\ TrustOf
    BY <1>2, <1>7 DEF Hit, CampsInv, TrustKept
  <2>2. \A q \in Programs : IsAt(q, 1, Saving)' <=> IsAt(q, 1, Saving)
    BY <1>0, <1>5, <1>6 DEF IsAt, Passes
  <2>3. ASSUME c = 1, loaded[p][c] = "none", loaded'[p][c] # "none" PROVE CacheRead(1) = "trusts"
    <3>1. CASE OnDisk
      BY <3>1 DEF OnDisk, CacheRead
    <3>2. CASE ~OnDisk
      <4>1. PICK q \in Programs : IsAt(q, 1, Saving)
        BY <2>1, <3>2 DEF TrustOf
      <4>2. Step(q) = "cache" /\ command[q].camp = 1
        <5>1. command[q].todo \in Scripts /\ Step(q) = First(command[q].todo)
          BY CampsFacts DEF FilesTyped, CommandRecord, Step, First
        <5> QED
          BY <4>1, <5>1, FirstIs DEF IsAt, Saving
      <4>3. ~Halved(1)
        BY <1>7, <2>3, CampsFacts DEF Hit
      <4>4. cache[1] # "none"
        BY <4>2, <4>3 DEF Halved
      <4> QED
        BY <2>1, <4>4, CampsFacts DEF TrustOf, CacheRead, FilesTyped
    <3> QED
      BY <3>1, <3>2
  <2>4. \A q \in Programs : loaded'[q][1] # "empty"
    <3>1. 1 \in Camps /\ \A q \in Programs : loaded[q][1] # "empty"
      BY <2>1, CampsFacts DEF TrustOf
    <3> QED
      BY <1>7, <2>3, <3>1
  <2> QED
    BY <1>2, <2>1, <2>2, <2>4 DEF TrustOf, OnDisk, KnownCamp
<1>15. \A d \in Camps : ListKept(d)'
  <2> SUFFICES ASSUME NEW d \in Camps, ListOf(d) PROVE ListOf(d)'
    BY <1>7 DEF CampsInv, ListKept
  <2>1. (Exists(d)' <=> Exists(d)) /\ (d \in listed' <=> d \in listed)
    BY <1>2 DEF Exists
  <2>2. ASSUME NEW q \in Programs
        PROVE  /\ IsAt(q, d, Unlisted)' <=> IsAt(q, d, Unlisted)
               /\ IsAt(q, d, Unlisting)' <=> IsAt(q, d, Unlisting)
               /\ IsAt(q, d, Forgetting)' => IsAt(q, d, Forgetting)
               /\ IsAt(q, d, Starting \cup Using)' => IsAt(q, d, Starting \cup Using)
               /\ HasAny(q, d)' => HasAny(q, d)
               /\ q \in Writers' => q \in Writers /\ command'[q].seen = command[q].seen
    <3>1. CASE q = p
      BY <1>0, <1>5, <1>6, <1>7, <3>1 DEF Passes, IsAt, HasAny, Writers
    <3>2. CASE q # p
      BY <2>2, <1>5, <1>7, <3>2 DEF Passes, IsAt, HasAny, Writers
    <3> QED
      BY <3>1, <3>2
  <2>3. loaded'["helper"][d] # "none" /\ ~IsAt("helper", d, Listing)' =>
           d \in listed \/ (loaded["helper"][d] # "none" /\ ~IsAt("helper", d, Listing))
    <3>1. CASE p = "helper" /\ c = d
      <4>1. u \in Listing => t = Add3 /\ u = Add4
        BY <1>5, ClassesAre
      <4>2. t = Add3 => u \in Listing
        BY <1>5, ClassesAre, ScriptsAre
      <4>3. t # Add3 => t \in Starting \cup Using
        BY <1>2, ClassesAre
      <4>4. t \in Starting \cup Using => d \in listed
        BY <1>0, <1>1, <3>1 DEF ListOf, IsAt
      <4> QED
        BY <1>5, <3>1, <4>2, <4>3, <4>4 DEF IsAt, Passes
    <3>2. CASE ~(p = "helper" /\ c = d)
      <4>1. loaded'["helper"][d] = loaded["helper"][d]
        BY <1>7, <3>2, CampsFacts
      <4>2. IsAt("helper", d, Listing)' <=> IsAt("helper", d, Listing)
        BY <1>0, <1>5, <3>2, CampsFacts DEF Passes, IsAt
      <4> QED
        BY <4>1, <4>2
    <3> QED
      BY <3>1, <3>2
  <2> QED
    BY <1>2, <2>1, <2>2, <2>3, ListStays
<1> QED
  BY <1>8, <1>9, <1>10, <1>11, <1>12, <1>13, <1>14, <1>15 DEF CampsInv

\* A step about the keys of a camp leaves to be shown what becomes of them.
LEMMA KeyStepInv ==
  ASSUME CampsInv, NEW p \in Programs, NEW t, NEW u, Passes(p, t, u),
         FilesTyped', CommandTyped(p)', KeysApart', NewAlone', \A d \in Camps : KeyKept(d)',
         command'[p].camp = command[p].camp, command'[p].seen = command[p].seen,
         UNCHANGED <<listed, config, flat, cache, loaded, removed, cut, raced>>,
         madeKeys <= madeKeys', \A d \in Camps : running'[d] # 0 => running[d] # 0 \/ Met(d),
         u \in Unlisted <=> t \in Unlisted, u \in Unlisting <=> t \in Unlisting,
         u \in Forgetting => t \in Forgetting,
         u \in Starting \cup Using => t \in Starting \cup Using,
         t \in Listing => u \in Listing, u \notin Writing, t \notin Saving, t # Add4
  PROVE  CampsInv'
<1>1. CampsTyped'
  BY CommandsStayTyped
<1>2. MetWhenUsed'
  <2>1. \A d \in Camps : Met(d)' <=> Met(d)
    BY DEF Met, KnownCamp
  <2>2. ASSUME NEW d \in Camps, IsAt(p, d, Unlisted \cup Using \cup Forgetting \cup Starting)'
        PROVE  IsAt(p, d, Unlisted \cup Using \cup Forgetting \cup Starting)
    BY <2>2 DEF Passes, IsAt
  <2>3. ASSUME NEW d \in Camps, loaded'[p][d] # "none"
        PROVE  loaded[p][d] # "none" /\ ~IsAt(p, d, {Add4})
    BY <2>3 DEF Passes, IsAt
  <2> QED
    BY <2>1, <2>2, <2>3, MetStays
<1>3. WritersRace'
  BY WritersStay
<1>4. TrustKept'
  <2>1. UNCHANGED fileVars /\ \A q \in Programs : loaded'[q][1] \in {"none", loaded[q][1]}
    BY DEF fileVars
  <2> QED
    BY <2>1, TrustStays
<1>5. \A d \in Camps : ListKept(d)'
  BY ListsStay
<1> QED
  BY <1>1, <1>2, <1>3, <1>4, <1>5 DEF CampsInv

LEMMA SavePrivInv == ASSUME CampsInv, NEW p \in Programs, SavePriv(p) PROVE CampsInv'
<1> USE DEF rosters, fileVars, keyVars, campsHistory
<1>0. PICK c \in Camps : c = command[p].camp
  BY StepDoneIs DEF SavePriv
<1>1. /\ Step(p) = "priv" /\ StepDone(p)
      /\ priv' = [priv EXCEPT ![c] = command[p].key]
      /\ UNCHANGED <<listed, config, flat, cache, pub, oldKey, madeKeys, running>>
      /\ UNCHANGED <<loaded, removed, cut, raced>>
  BY <1>0 DEF SavePriv
<1>2. \E t, u \in Scripts :
        /\ \/ t = Add1 /\ u = Add2
           \/ t = Move1 /\ u = Move2
           \/ t = Make1 /\ u = Make2
        /\ Passes(p, t, u) /\ command' \in [Programs -> CommandRecord]
        /\ command'[p].camp = c /\ command'[p].seen = command[p].seen
        /\ command'[p].key = command[p].key
  <2>1. {Add2, Move2, Make2} \subseteq Scripts
    BY DEF Scripts, KeyScripts
  <2>2. /\ command[p].todo \in Scripts /\ First(command[p].todo) = "priv"
        /\ Passes(p, command[p].todo, Tail(command[p].todo))
        /\ command' \in [Programs -> CommandRecord]
        /\ command'[p].camp = c /\ command'[p].seen = command[p].seen
        /\ command'[p].key = command[p].key
    BY <1>0, <1>1, StepDoneIs
  <2>3. command[p].todo \in {Add1, Move1, Make1}
    BY <2>2, FirstIs
  <2>4. \/ command[p].todo = Add1 /\ Tail(command[p].todo) = Add2
        \/ command[p].todo = Move1 /\ Tail(command[p].todo) = Move2
        \/ command[p].todo = Make1 /\ Tail(command[p].todo) = Make2
    BY <2>3, TailsAre
  <2> QED
    BY <2>1, <2>2, <2>4
<1>3. PICK t \in Scripts, u \in Scripts :
        /\ \/ t = Add1 /\ u = Add2
           \/ t = Move1 /\ u = Move2
           \/ t = Make1 /\ u = Make2
        /\ Passes(p, t, u) /\ command' \in [Programs -> CommandRecord]
        /\ command'[p].camp = c /\ command'[p].seen = command[p].seen
        /\ command'[p].key = command[p].key
  BY <1>2
<1>4. /\ t \notin Unlisted \cup Unlisting \cup Forgetting \cup Listing \cup Saving \cup {Add4}
      /\ u \notin Unlisted \cup Unlisting \cup Forgetting \cup Listing \cup Writing
      /\ u \in Starting \cup Using => t \in Starting \cup Using
      /\ u \in Starting => t \in Starting
      /\ u \in Creating => t \in Creating
      /\ u \in Halfway => t \in ToMove
      /\ u \notin ToMove /\ (u \in Making => t \in Making) /\ (u \in KeyMoved => u \in Halfway)
      /\ t \in ToMove => u \in Halfway
      /\ t \notin Halfway
      /\ u \in WithLoaded => t \in WithLoaded
      /\ t \in Making \cup ToMove
      /\ t \in Starting \/ t \in Creating
  BY <1>3, ClassesAre
<1>5. /\ command[p].key \in 0..madeKeys /\ priv'[c] = command[p].key
      /\ \A d \in Camps \ {c} : priv'[d] = priv[d]
      /\ priv' \in [Camps -> (0..madeKeys) \cup {Torn}]
  <2>1. command[p].key \in 0..madeKeys
    BY CampsFacts DEF FilesTyped, CommandRecord, CampsInv, CampsTyped, CommandTyped
  <2> QED
    BY <1>1, <2>1, CampsFacts DEF FilesTyped
<1>6. FilesTyped' /\ CommandTyped(p)'
  <2>1. FilesTyped'
    BY <1>1, <1>3, <1>5, CampsFacts DEF FilesTyped
  <2>2. CommandTyped(p)'
    BY <1>0, <1>1, <1>3, <1>4, <1>5, CampsFacts DEF CampsInv, CampsTyped, CommandTyped, Passes
  <2> QED
    BY <2>1, <2>2
<1>7. KeysApart'
  <2>1. \A d \in Camps : KeysOf(d)' \subseteq KeysOf(d)
    BY <1>0, <1>1, <1>3, <1>5 DEF KeysOf, Passes
  <2> QED
    BY <2>1, KeysStayApart
<1>8. NewAlone'
  <2>1. \A d \in Camps : Met(d)' <=> Met(d)
    BY <1>1 DEF Met, KnownCamp
  <2>2. ASSUME NEW q \in Programs, NEW d \in Camps, IsAt(q, d, Creating)'
        PROVE  IsAt(q, d, Creating) /\ command'[q].key = command[q].key
    BY <1>0, <1>3, <1>4, <2>2 DEF IsAt, Passes
  <2>3. \A q \in Programs : command'[q].camp = command[q].camp
    BY <1>0, <1>3 DEF Passes
  <2> QED
    BY <2>1, <2>2, <2>3 DEF CampsInv, NewAlone
<1>9. ASSUME NEW d \in Camps PROVE KeyKept(d)'
  <2> SUFFICES ASSUME KeyOf(d), running[d] # 0 PROVE KeyOf(d)'
    BY <1>1 DEF CampsInv, KeyKept, KeyOf
  <2>1. ASSUME NEW q \in Programs, q # p \/ d # c
        PROVE  /\ IsAt(q, d, KeyMoved)' <=> IsAt(q, d, KeyMoved)
               /\ IsAt(q, d, ToMove)' <=> IsAt(q, d, ToMove)
               /\ IsAt(q, d, Halfway)' <=> IsAt(q, d, Halfway)
               /\ IsAt(q, d, Making)' <=> IsAt(q, d, Making)
               /\ command'[q].key = command[q].key
    BY <1>0, <1>3, <2>1 DEF IsAt, Passes
  <2>2. CASE d # c
    BY <1>1, <1>5, <2>1, <2>2 DEF KeyOf
  <2>3. CASE d = c
    <3>1. t \notin Making /\ t \in ToMove /\ u \in Halfway /\ t \in Starting
      <4>1. t \notin Making
        BY <1>0, <1>3, <2>3 DEF KeyOf, IsAt, Passes
      <4>2. Creating \subseteq Making
        BY DEF Creating, Making
      <4> QED
        BY <1>4, <4>1, <4>2
    <3>2. p = "helper" /\ \A q \in Programs \ {p} : ~IsAt(q, d, ToMove) /\ ~IsAt(q, d, Halfway)
      <4>1. p = "helper"
        BY <1>3, <3>1 DEF CampsInv, CampsTyped, CommandTyped, Passes
      <4>2. ToMove \cup Halfway \subseteq Starting
        BY DEF ToMove, Halfway, Starting, KeyScripts
      <4>3. \A q \in Programs : command[q].todo \in Starting => q = "helper"
        BY DEF CampsInv, CampsTyped, CommandTyped
      <4> QED
        BY <4>1, <4>2, <4>3 DEF IsAt
    <3>3. command[p].key = running[d] /\ IsAt(p, d, ToMove)
      BY <1>0, <1>3, <2>3, <3>1 DEF KeyOf, IsAt, Passes
    <3>4. priv'[d] = running'[d] /\ IsAt(p, d, Halfway)' /\ command'[p].key = running'[d]
      BY <1>1, <1>3, <1>5, <2>3, <3>1, <3>3 DEF IsAt, Passes
    <3>5. ASSUME NEW q \in Programs
          PROVE  /\ IsAt(q, d, ToMove)' \/ IsAt(q, d, Halfway)' => command'[q].key = running'[d]
                 /\ ~IsAt(q, d, Making)'
      <4>1. CASE q = p
        BY <1>3, <1>4, <3>1, <3>4, <4>1 DEF IsAt, Passes
      <4>2. CASE q # p
        BY <1>1, <2>1, <4>2 DEF KeyOf
      <4> QED
        BY <4>1, <4>2
    <3> QED
      BY <3>4, <3>5 DEF KeyOf
  <2> QED
    BY <2>2, <2>3
<1> QED
  <2>1. madeKeys <= madeKeys' /\ \A d \in Camps : running'[d] # 0 => running[d] # 0
    BY <1>1, CampsFacts DEF FilesTyped
  <2> QED
    BY <1>0, <1>1, <1>3, <1>4, <1>6, <1>7, <1>8, <1>9, <2>1, KeyStepInv

LEMMA SavePubInv == ASSUME CampsInv, NEW p \in Programs, SavePub(p) PROVE CampsInv'
<1> USE DEF rosters, fileVars, keyVars, campsHistory
<1>0. PICK c \in Camps : c = command[p].camp
  BY StepDoneIs DEF SavePub
<1>1. /\ Step(p) = "pub" /\ StepDone(p)
      /\ pub' = [pub EXCEPT ![c] = command[p].key]
      /\ UNCHANGED <<listed, config, flat, cache, priv, oldKey, madeKeys, running>>
      /\ UNCHANGED <<loaded, removed, cut, raced>>
  BY <1>0 DEF SavePub
<1>2. \E t, u \in Scripts :
        /\ \/ t = Add2 /\ u = Add3
           \/ t = Move2 /\ u = Move3
           \/ t = Make2 /\ u = ReadKey
        /\ Passes(p, t, u) /\ command' \in [Programs -> CommandRecord]
        /\ command'[p].camp = c /\ command'[p].seen = command[p].seen
        /\ command'[p].key = command[p].key
  <2>1. {Add3, Move3, ReadKey} \subseteq Scripts
    BY DEF Scripts, KeyScripts
  <2>2. /\ command[p].todo \in Scripts /\ First(command[p].todo) = "pub"
        /\ Passes(p, command[p].todo, Tail(command[p].todo))
        /\ command' \in [Programs -> CommandRecord]
        /\ command'[p].camp = c /\ command'[p].seen = command[p].seen
        /\ command'[p].key = command[p].key
    BY <1>0, <1>1, StepDoneIs
  <2>3. command[p].todo \in {Add2, Move2, Make2}
    BY <2>2, FirstIs
  <2>4. \/ command[p].todo = Add2 /\ Tail(command[p].todo) = Add3
        \/ command[p].todo = Move2 /\ Tail(command[p].todo) = Move3
        \/ command[p].todo = Make2 /\ Tail(command[p].todo) = ReadKey
    BY <2>3, TailsAre
  <2> QED
    BY <2>1, <2>2, <2>4
<1>3. PICK t \in Scripts, u \in Scripts :
        /\ \/ t = Add2 /\ u = Add3
           \/ t = Move2 /\ u = Move3
           \/ t = Make2 /\ u = ReadKey
        /\ Passes(p, t, u) /\ command' \in [Programs -> CommandRecord]
        /\ command'[p].camp = c /\ command'[p].seen = command[p].seen
        /\ command'[p].key = command[p].key
  BY <1>2
<1>4. /\ t \notin Unlisted \cup Unlisting \cup Forgetting \cup Listing \cup Saving \cup {Add4}
      /\ u \notin Unlisted \cup Unlisting \cup Forgetting \cup Listing \cup Writing \cup Creating
      /\ u \in Starting \cup Using => t \in Starting \cup Using
      /\ u \notin ToMove \cup Halfway \cup Making
      /\ u \in WithLoaded => t \in WithLoaded
      /\ t \in Making \/ (t \in Halfway /\ t \in KeyMoved)
      /\ u \in Starting => t \in Starting
  BY <1>3, ClassesAre
<1>5. /\ command[p].key \in 0..madeKeys /\ pub'[c] = command[p].key
      /\ \A d \in Camps \ {c} : pub'[d] = pub[d]
      /\ pub' \in [Camps -> (0..madeKeys) \cup {Torn}]
  <2>1. command[p].key \in 0..madeKeys
    BY CampsFacts DEF FilesTyped, CommandRecord, CampsInv, CampsTyped, CommandTyped
  <2> QED
    BY <1>1, <2>1, CampsFacts DEF FilesTyped
<1>6. FilesTyped' /\ CommandTyped(p)'
  <2>1. FilesTyped'
    BY <1>1, <1>3, <1>5, CampsFacts DEF FilesTyped
  <2>2. CommandTyped(p)'
    BY <1>0, <1>1, <1>3, <1>4, <1>5, CampsFacts DEF CampsInv, CampsTyped, CommandTyped, Passes
  <2> QED
    BY <2>1, <2>2
<1>7. KeysApart'
  <2>1. \A d \in Camps : KeysOf(d)' \subseteq KeysOf(d)
    BY <1>0, <1>1, <1>3, <1>5 DEF KeysOf, Passes
  <2> QED
    BY <2>1, KeysStayApart
<1>8. NewAlone'
  <2>1. \A d \in Camps : Met(d)' <=> Met(d)
    BY <1>1 DEF Met, KnownCamp
  <2> QED
    BY <1>0, <1>3, <1>4, <2>1, NewStaysAlone
<1>9. ASSUME NEW d \in Camps PROVE KeyKept(d)'
  <2> SUFFICES ASSUME KeyOf(d), running[d] # 0 PROVE KeyOf(d)'
    BY <1>1 DEF CampsInv, KeyKept, KeyOf
  <2>1. ASSUME NEW q \in Programs, q # p \/ d # c
        PROVE  /\ IsAt(q, d, KeyMoved)' <=> IsAt(q, d, KeyMoved)
               /\ IsAt(q, d, ToMove)' <=> IsAt(q, d, ToMove)
               /\ IsAt(q, d, Halfway)' <=> IsAt(q, d, Halfway)
               /\ IsAt(q, d, Making)' <=> IsAt(q, d, Making)
               /\ command'[q].key = command[q].key
    BY <1>0, <1>3, <2>1 DEF IsAt, Passes
  <2>2. CASE d # c
    BY <1>1, <1>5, <2>1, <2>2 DEF KeyOf
  <2>3. CASE d = c
    <3>1. t \notin Making /\ t \in Halfway /\ t \in KeyMoved
      BY <1>0, <1>3, <1>4, <2>3 DEF KeyOf, IsAt, Passes
    <3>2. \A q \in Programs \ {p} : ~IsAt(q, d, ToMove) /\ ~IsAt(q, d, Halfway)
      <4>2. ToMove \cup Halfway \subseteq Starting
        BY DEF ToMove, Halfway, Starting, KeyScripts
      <4>3. \A q \in Programs : command[q].todo \in Starting => q = "helper"
        BY DEF CampsInv, CampsTyped, CommandTyped
      <4> QED
        BY <1>3, <3>1, <4>2, <4>3 DEF IsAt, Passes
    <3>3. command[p].key = running[d] /\ IsAt(p, d, KeyMoved)
      BY <1>0, <1>3, <2>3, <3>1 DEF KeyOf, IsAt, Passes
    <3>4. priv'[d] = running'[d] /\ pub'[d] \notin {0, Torn}
      <4>1. priv[d] = running[d]
        BY <3>3 DEF KeyOf
      <4>2. running[d] \notin {0, Torn}
        BY CampsFacts DEF FilesTyped, Torn
      <4> QED
        BY <1>1, <1>5, <2>3, <3>3, <4>1, <4>2
    <3>5. ASSUME NEW q \in Programs PROVE ~IsAt(q, d, ToMove)' /\ ~IsAt(q, d, Halfway)' /\ ~IsAt(q, d, Making)'
      <4>1. CASE q = p
        BY <1>3, <1>4, <4>1 DEF IsAt, Passes
      <4>2. CASE q # p
        BY <2>1, <3>2, <4>2 DEF KeyOf
      <4> QED
        BY <4>1, <4>2
    <3> QED
      BY <3>4, <3>5 DEF KeyOf
  <2> QED
    BY <2>2, <2>3
<1> QED
  <2>1. madeKeys <= madeKeys' /\ \A d \in Camps : running'[d] # 0 => running[d] # 0
    BY <1>1, CampsFacts DEF FilesTyped
  <2> QED
    BY <1>0, <1>1, <1>3, <1>4, <1>6, <1>7, <1>8, <1>9, <2>1, KeyStepInv

LEMMA RemoveOldKeyInv == ASSUME CampsInv, NEW p \in Programs, RemoveOldKey(p) PROVE CampsInv'
<1> USE DEF rosters, fileVars, keyVars, campsHistory
<1>0. PICK c \in Camps : c = command[p].camp
  BY StepDoneIs DEF RemoveOldKey
<1>1. /\ Step(p) = "rmOldKey" /\ StepDone(p)
      /\ oldKey' = [oldKey EXCEPT ![c] = 0]
      /\ UNCHANGED <<listed, config, flat, cache, priv, pub, madeKeys, running>>
      /\ UNCHANGED <<loaded, removed, cut, raced>>
  BY <1>0 DEF RemoveOldKey
<1>2. \E t, u \in Scripts :
        /\ \/ t = Forget2 /\ u = Forget3
           \/ t = Move3 /\ u = ReadKey
        /\ Passes(p, t, u) /\ command' \in [Programs -> CommandRecord]
        /\ command'[p].camp = c /\ command'[p].seen = command[p].seen
        /\ command'[p].key = command[p].key
  <2>1. {Forget3, ReadKey} \subseteq Scripts
    BY DEF Scripts, KeyScripts
  <2>2. /\ command[p].todo \in Scripts /\ First(command[p].todo) = "rmOldKey"
        /\ Passes(p, command[p].todo, Tail(command[p].todo))
        /\ command' \in [Programs -> CommandRecord]
        /\ command'[p].camp = c /\ command'[p].seen = command[p].seen
        /\ command'[p].key = command[p].key
    BY <1>0, <1>1, StepDoneIs
  <2>3. command[p].todo \in {Forget2, Move3}
    BY <2>2, FirstIs
  <2>4. \/ command[p].todo = Forget2 /\ Tail(command[p].todo) = Forget3
        \/ command[p].todo = Move3 /\ Tail(command[p].todo) = ReadKey
    BY <2>3, TailsAre
  <2> QED
    BY <2>1, <2>2, <2>4
<1>3. PICK t \in Scripts, u \in Scripts :
        /\ \/ t = Forget2 /\ u = Forget3
           \/ t = Move3 /\ u = ReadKey
        /\ Passes(p, t, u) /\ command' \in [Programs -> CommandRecord]
        /\ command'[p].camp = c /\ command'[p].seen = command[p].seen
        /\ command'[p].key = command[p].key
  BY <1>2
<1>4. /\ t \notin Unlisted \cup Listing \cup Saving \cup {Add4}
      /\ u \notin Unlisted \cup Listing \cup Writing \cup Creating
      /\ u \in Unlisting <=> t \in Unlisting
      /\ u \in Forgetting <=> t \in Forgetting
      /\ u \in Starting <=> t \in Starting
      /\ u \notin Using
      /\ {t, u} \cap (ToMove \cup Halfway \cup Making) = {}
      /\ u \in KeyMoved <=> t \in KeyMoved
      /\ t \in KeyMoved \/ t \in Unlisting
      /\ u \in WithLoaded => t \in WithLoaded
  BY <1>3, ClassesAre
<1>5. /\ oldKey'[c] = 0 /\ \A d \in Camps \ {c} : oldKey'[d] = oldKey[d]
      /\ oldKey' \in [Camps -> 0..madeKeys]
  BY <1>1, CampsFacts DEF FilesTyped
<1>6. FilesTyped' /\ CommandTyped(p)'
  <2>1. FilesTyped'
    BY <1>1, <1>3, <1>5, CampsFacts DEF FilesTyped
  <2>2. CommandTyped(p)'
    BY <1>0, <1>1, <1>3, <1>4, <1>5, CampsFacts DEF CampsInv, CampsTyped, CommandTyped, Passes
  <2> QED
    BY <2>1, <2>2
<1>7. KeysApart'
  <2>1. \A d \in Camps : KeysOf(d)' \subseteq KeysOf(d)
    BY <1>0, <1>1, <1>3, <1>5 DEF KeysOf, Passes
  <2> QED
    BY <2>1, KeysStayApart
<1>8. NewAlone'
  <2>1. \A d \in Camps : Met(d)' <=> Met(d)
    BY <1>1 DEF Met, KnownCamp
  <2> QED
    BY <1>0, <1>3, <1>4, <2>1, NewStaysAlone
<1>9. ASSUME NEW d \in Camps PROVE KeyKept(d)'
  <2> SUFFICES ASSUME KeyOf(d), running[d] # 0, d \notin removed PROVE KeyOf(d)'
    BY <1>1 DEF CampsInv, KeyKept, KeyOf
  <2>1. ASSUME NEW q \in Programs
        PROVE  /\ IsAt(q, d, KeyMoved)' <=> IsAt(q, d, KeyMoved)
               /\ IsAt(q, d, ToMove)' <=> IsAt(q, d, ToMove)
               /\ IsAt(q, d, Halfway)' <=> IsAt(q, d, Halfway)
               /\ IsAt(q, d, Making)' <=> IsAt(q, d, Making)
               /\ command'[q].key = command[q].key
    <3>1. CASE q = p
      BY <1>0, <1>3, <1>4, <3>1 DEF IsAt, Passes
    <3>2. CASE q # p
      BY <1>3, <2>1, <3>2 DEF IsAt, Passes
    <3> QED
      BY <3>1, <3>2
  <2>2. CASE d # c
    BY <1>1, <1>5, <2>1, <2>2 DEF KeyOf
  <2>3. CASE d = c
    <3>1. t \in KeyMoved
      BY <1>0, <1>3, <1>4, <2>3 DEF CampsInv, CampsTyped, CommandTyped, Passes
    <3>2. IsAt(p, d, KeyMoved)
      BY <1>0, <1>3, <2>3, <3>1 DEF IsAt, Passes
    <3> QED
      BY <1>1, <2>1, <3>2 DEF KeyOf
  <2> QED
    BY <2>2, <2>3
<1> QED
  <2>1. madeKeys <= madeKeys' /\ \A d \in Camps : running'[d] # 0 => running[d] # 0
    BY <1>1, CampsFacts DEF FilesTyped
  <2> QED
    BY <1>0, <1>1, <1>3, <1>4, <1>6, <1>7, <1>8, <1>9, <2>1, KeyStepInv

LEMMA MigrateInv == ASSUME CampsInv, NEW p \in Programs, Migrate(p) PROVE CampsInv'
<1> USE DEF rosters, fileVars, keyVars, campsHistory
<1>0. PICK c \in Camps : c = command[p].camp
  BY StepDoneIs DEF Migrate
<1>1. /\ Step(p) = "migrate"
      /\ \/ priv[c] = 0 /\ oldKey[c] # 0 /\ GoesOn(p, Move1, oldKey[c])
         \/ ~(priv[c] = 0 /\ oldKey[c] # 0) /\ GoesOn(p, ReadKey, 0)
      /\ UNCHANGED <<listed, config, flat, cache, priv, pub, oldKey, madeKeys, running>>
      /\ UNCHANGED <<loaded, removed, cut, raced>>
  BY <1>0 DEF Migrate, ToMigrate, Move1, ReadKey
<1>2. \E u \in Scripts :
        /\ \/ /\ priv[c] = 0 /\ oldKey[c] # 0
              /\ u = Move1 /\ command'[p].key = oldKey[c]
           \/ /\ ~(priv[c] = 0 /\ oldKey[c] # 0)
              /\ u = ReadKey /\ command'[p].key = 0
        /\ Passes(p, Load2, u) /\ command' \in [Programs -> CommandRecord]
        /\ command'[p].camp = c /\ command'[p].seen = command[p].seen
  <2>1. command[p].todo = Load2
    BY <1>1, StepDoneIs, FirstIs
  <2>2. Move1 \in Scripts /\ ReadKey \in Scripts /\ oldKey[c] \in Nat /\ 0 \in Nat
    BY CampsFacts DEF Scripts, KeyScripts, FilesTyped
  <2>3. CASE priv[c] = 0 /\ oldKey[c] # 0 /\ GoesOn(p, Move1, oldKey[c])
    BY <1>0, <2>1, <2>2, <2>3, GoesOnIs
  <2>4. CASE ~(priv[c] = 0 /\ oldKey[c] # 0) /\ GoesOn(p, ReadKey, 0)
    BY <1>0, <2>1, <2>2, <2>4, GoesOnIs
  <2> QED
    BY <1>1, <2>3, <2>4
<1>3. PICK u \in Scripts :
        /\ \/ /\ priv[c] = 0 /\ oldKey[c] # 0
              /\ u = Move1 /\ command'[p].key = oldKey[c]
           \/ /\ ~(priv[c] = 0 /\ oldKey[c] # 0)
              /\ u = ReadKey /\ command'[p].key = 0
        /\ Passes(p, Load2, u) /\ command' \in [Programs -> CommandRecord]
        /\ command'[p].camp = c /\ command'[p].seen = command[p].seen
  BY <1>2
<1>4. /\ Load2 \notin Unlisted \cup Unlisting \cup Forgetting \cup Listing \cup Saving \cup {Add4}
      /\ u \notin Unlisted \cup Unlisting \cup Forgetting \cup Listing \cup Writing \cup Creating
      /\ {Load2, u} \subseteq Starting /\ {Load2, u} \subseteq WithLoaded
      /\ u \notin Halfway \cup Making
      /\ Load2 \notin KeyMoved \cup ToMove \cup Halfway \cup Making
      /\ u = Move1 => u \in ToMove /\ u \notin KeyMoved
      /\ u = ReadKey => u \notin ToMove
  BY <1>3, ClassesAre
<1>6. FilesTyped' /\ CommandTyped(p)'
  <2>1. FilesTyped'
    BY <1>1, <1>3, CampsFacts DEF FilesTyped
  <2>2. CommandTyped(p)'
    <3>1. oldKey[c] \in 0..madeKeys /\ madeKeys \in Nat
      BY CampsFacts DEF FilesTyped
    <3> QED
      BY <1>0, <1>1, <1>3, <1>4, <3>1, CampsFacts DEF CampsInv, CampsTyped, CommandTyped, Passes
  <2> QED
    BY <2>1, <2>2
<1>7. KeysApart'
  <2>1. \A d \in Camps : KeysOf(d)' \subseteq KeysOf(d)
    BY <1>0, <1>1, <1>3 DEF KeysOf, Passes
  <2> QED
    BY <2>1, KeysStayApart
<1>8. NewAlone'
  <2>1. \A d \in Camps : Met(d)' <=> Met(d)
    BY <1>1 DEF Met, KnownCamp
  <2> QED
    BY <1>0, <1>3, <1>4, <2>1, NewStaysAlone
<1>9. ASSUME NEW d \in Camps PROVE KeyKept(d)'
  <2> SUFFICES ASSUME KeyOf(d), running[d] # 0 PROVE KeyOf(d)'
    BY <1>1 DEF CampsInv, KeyKept, KeyOf
  <2>1. ASSUME NEW q \in Programs, q # p \/ d # c
        PROVE  /\ IsAt(q, d, KeyMoved)' <=> IsAt(q, d, KeyMoved)
               /\ IsAt(q, d, ToMove)' <=> IsAt(q, d, ToMove)
               /\ IsAt(q, d, Halfway)' <=> IsAt(q, d, Halfway)
               /\ IsAt(q, d, Making)' <=> IsAt(q, d, Making)
               /\ IsAt(q, d, ToMove) \/ IsAt(q, d, Halfway) => command'[q].key = command[q].key
    BY <1>0, <1>3, <1>4, <2>1 DEF IsAt, Passes
  <2>2. CASE d # c
    BY <1>1, <2>1, <2>2 DEF KeyOf
  <2>3. CASE d = c
    <3>1. /\ ~IsAt(p, d, Halfway) /\ ~IsAt(p, d, Halfway)' /\ ~IsAt(p, d, Making)'
          /\ ~IsAt(p, d, KeyMoved) /\ ~IsAt(p, d, ToMove)
      BY <1>3, <1>4 DEF IsAt, Passes
    <3>2. \A q \in Programs : ~IsAt(q, d, Halfway)
      <4>1. Halfway \subseteq Starting
        BY DEF Halfway, Starting, KeyScripts
      <4>2. \A q \in Programs : command[q].todo \in Starting => q = "helper"
        BY DEF CampsInv, CampsTyped, CommandTyped
      <4> QED
        BY <1>3, <1>4, <3>1, <4>1, <4>2 DEF IsAt, Passes
    <3>3. CASE u = Move1
      <4>1. priv[c] = 0 /\ oldKey[c] # 0 /\ command'[p].key = oldKey[c]
        <5>1. Len(Move1) = 4 /\ Len(ReadKey) = 1
          BY ScriptsAre
        <5> QED
          BY <1>3, <3>3, <5>1
      <4>2. oldKey[d] = running[d] /\ \A q \in Programs : ~IsAt(q, d, KeyMoved)
        BY <2>3, <3>2, <4>1 DEF KeyOf
      <4>3. \A q \in Programs : ~IsAt(q, d, KeyMoved)' /\ ~IsAt(q, d, Halfway)' /\ ~IsAt(q, d, Making)'
        <5>1. \A q \in Programs : ~IsAt(q, d, Making)
          BY DEF KeyOf
        <5>2. ~IsAt(p, d, KeyMoved)'
          BY <1>3, <1>4, <3>3 DEF IsAt, Passes
        <5> QED
          BY <2>1, <3>1, <3>2, <4>2, <5>1, <5>2
      <4>4. \A q \in Programs : IsAt(q, d, ToMove)' => command'[q].key = running[d]
        <5>1. ASSUME NEW q \in Programs, q # p, IsAt(q, d, ToMove)' PROVE command'[q].key = running[d]
          <6>1. IsAt(q, d, ToMove) /\ command'[q].key = command[q].key
            BY <2>1, <5>1
          <6> QED
            BY <6>1 DEF KeyOf
        <5> QED
          BY <2>3, <4>1, <4>2, <5>1
      <4> QED
        BY <1>1, <2>3, <4>1, <4>2, <4>3, <4>4 DEF KeyOf
    <3>4. CASE u = ReadKey
      <4>1. ~(priv[c] = 0 /\ oldKey[c] # 0)
        <5>1. Len(Move1) = 4 /\ Len(ReadKey) = 1
          BY ScriptsAre
        <5> QED
          BY <1>3, <3>4, <5>1
      <4>2. /\ priv[d] = running[d] /\ pub[d] \notin {0, Torn}
            /\ \A q \in Programs : ~IsAt(q, d, ToMove)
        BY <2>3, <3>2, <4>1 DEF KeyOf
      <4>3. \A q \in Programs : ~IsAt(q, d, ToMove)' /\ ~IsAt(q, d, Halfway)' /\ ~IsAt(q, d, Making)'
        <5>1. \A q \in Programs : ~IsAt(q, d, Making)
          BY DEF KeyOf
        <5>2. ~IsAt(p, d, ToMove)'
          BY <1>3, <1>4, <3>4 DEF IsAt, Passes
        <5> QED
          BY <2>1, <3>1, <3>2, <4>2, <5>1, <5>2
      <4> QED
        BY <1>1, <4>2, <4>3 DEF KeyOf
    <3> QED
      BY <1>3, <3>3, <3>4
  <2> QED
    BY <2>2, <2>3
<1> QED
  <2>1. madeKeys <= madeKeys' /\ \A d \in Camps : running'[d] # 0 => running[d] # 0
    BY <1>1, CampsFacts DEF FilesTyped
  <2> QED
    BY <1>0, <1>1, <1>3, <1>4, <1>6, <1>7, <1>8, <1>9, <2>1, KeyStepInv

LEMMA LoadKeyInv == ASSUME CampsInv, NEW p \in Programs, LoadKey(p) PROVE CampsInv'
<1> USE DEF rosters, fileVars, keyVars, campsHistory
<1>0. PICK c \in Camps : c = command[p].camp
  BY StepDoneIs DEF LoadKey
<1>1. /\ Step(p) = "key"
      /\ \/ /\ {priv[c], pub[c]} \cap {0, Torn} = {}
            /\ running' = [running EXCEPT ![c] = priv[c]]
            /\ \E script \in {AllDone, Save1} : GoesOn(p, script, 0)
            /\ UNCHANGED madeKeys
         \/ /\ 0 \in {priv[c], pub[c]}
            /\ GoesOn(p, Make1, FreshKey)
            /\ madeKeys' = FreshKey
            /\ UNCHANGED running
         \/ /\ 0 \notin {priv[c], pub[c]} /\ Torn \in {priv[c], pub[c]}
            /\ GoesOn(p, AllDone, 0)
            /\ UNCHANGED <<madeKeys, running>>
      /\ UNCHANGED <<listed, config, flat, cache, priv, pub, oldKey, loaded, removed, cut, raced>>
  BY <1>0 DEF LoadKey, AllDone, Save1, Make1
<1>2. /\ command[p].todo = ReadKey
      /\ {AllDone, Save1, Make1} \subseteq Scripts /\ FreshKey \in Nat /\ 0 \in Nat
      /\ running \in [Camps -> 0..madeKeys]
  BY <1>1, StepDoneIs, FirstIs, CampsFacts DEF Scripts, KeyScripts, FilesTyped, FreshKey
<1>3. \E u \in Scripts :
        /\ Passes(p, ReadKey, u) /\ command' \in [Programs -> CommandRecord]
        /\ command'[p].camp = c /\ command'[p].seen = command[p].seen
        /\ \/ /\ priv[c] \notin {0, Torn} /\ pub[c] \notin {0, Torn}
              /\ running' = [running EXCEPT ![c] = priv[c]]
              /\ u \in {AllDone, Save1} /\ command'[p].key = 0
              /\ madeKeys' = madeKeys
           \/ /\ 0 \in {priv[c], pub[c]}
              /\ u = Make1 /\ command'[p].key = FreshKey
              /\ madeKeys' = FreshKey /\ running' = running
           \/ /\ Torn \in {priv[c], pub[c]}
              /\ u = AllDone /\ command'[p].key = 0
              /\ madeKeys' = madeKeys /\ running' = running
  <2>4. CASE /\ {priv[c], pub[c]} \cap {0, Torn} = {}
             /\ running' = [running EXCEPT ![c] = priv[c]]
             /\ \E script \in {AllDone, Save1} : GoesOn(p, script, 0)
             /\ UNCHANGED madeKeys
    <3>1. PICK script \in {AllDone, Save1} : GoesOn(p, script, 0)
      BY <2>4
    <3>2. /\ command' \in [Programs -> CommandRecord]
          /\ Passes(p, ReadKey, script) /\ command'[p].key = 0 /\ command'[p].camp = c
          /\ command'[p].seen = command[p].seen
      BY <1>0, <1>2, <3>1, GoesOnIs
    <3> QED
      BY <1>2, <2>4, <3>1, <3>2
  <2>5. CASE 0 \in {priv[c], pub[c]} /\ GoesOn(p, Make1, FreshKey)
             /\ madeKeys' = FreshKey /\ UNCHANGED running
    BY <1>0, <1>2, <2>5, GoesOnIs
  <2>6. CASE Torn \in {priv[c], pub[c]} /\ GoesOn(p, AllDone, 0)
             /\ UNCHANGED <<madeKeys, running>>
    BY <1>0, <1>2, <2>6, GoesOnIs
  <2> QED
    BY <1>1, <2>4, <2>5, <2>6
<1>4. PICK u \in Scripts :
        /\ Passes(p, ReadKey, u) /\ command' \in [Programs -> CommandRecord]
        /\ command'[p].camp = c /\ command'[p].seen = command[p].seen
        /\ \/ /\ priv[c] \notin {0, Torn} /\ pub[c] \notin {0, Torn}
              /\ running' = [running EXCEPT ![c] = priv[c]]
              /\ u \in {AllDone, Save1} /\ command'[p].key = 0
              /\ madeKeys' = madeKeys
           \/ /\ 0 \in {priv[c], pub[c]}
              /\ u = Make1 /\ command'[p].key = FreshKey
              /\ madeKeys' = FreshKey /\ running' = running
           \/ /\ Torn \in {priv[c], pub[c]}
              /\ u = AllDone /\ command'[p].key = 0
              /\ madeKeys' = madeKeys /\ running' = running
  BY <1>3
<1>5. /\ ReadKey \notin Unlisted \cup Unlisting \cup Forgetting \cup Listing \cup Saving \cup {Add4}
      /\ u \notin Unlisted \cup Unlisting \cup Forgetting \cup Listing \cup Writing \cup Creating
      /\ u \notin Using /\ ReadKey \in Starting /\ ReadKey \in WithLoaded /\ ReadKey \in KeyMoved
      /\ u \notin ToMove \cup Halfway /\ ReadKey \notin ToMove \cup Halfway
      /\ u \in {AllDone, Save1} => u \notin Making
  BY <1>4, ClassesAre
<1>6. /\ \A d \in Camps \ {c} : running'[d] = running[d]
      /\ running' \in [Camps -> 0..madeKeys']
      /\ madeKeys \in Nat /\ madeKeys' \in Nat /\ madeKeys <= madeKeys' /\ FreshKey = madeKeys + 1
      /\ running'[c] = running[c] \/ (priv[c] \notin {0, Torn} /\ running'[c] = priv[c])
  <2>1. madeKeys \in Nat /\ priv \in [Camps -> (0..madeKeys) \cup {Torn}]
    BY CampsFacts DEF FilesTyped
  <2>2. Torn = -1 /\ FreshKey = madeKeys + 1
    BY DEF Torn, FreshKey
  <2>3. /\ \/ priv[c] \notin {0, Torn} /\ running' = [running EXCEPT ![c] = priv[c]]
              /\ madeKeys' = madeKeys
           \/ running' = running /\ madeKeys' \in {madeKeys, madeKeys + 1}
    BY <1>4, <2>2
  <2>4. priv[c] \notin {0, Torn} => priv[c] \in 0..madeKeys
    BY <2>1
  <2> QED
    BY <1>2, <2>1, <2>2, <2>3, <2>4
<1>7. FilesTyped' /\ CommandTyped(p)'
  <2>1. FilesTyped'
    <3>1. 0..madeKeys \subseteq 0..madeKeys'
      BY <1>6
    <3> QED
      BY <1>1, <1>4, <1>6, <3>1, CampsFacts DEF FilesTyped
  <2>2. CommandTyped(p)'
    <3>1. command'[p].key <= madeKeys'
      BY <1>4, <1>6
    <3> QED
      BY <1>0, <1>1, <1>4, <1>5, <3>1, CampsFacts DEF CampsInv, CampsTyped, CommandTyped, Passes
  <2> QED
    BY <2>1, <2>2
<1>8. KeysApart'
  <2>1. \A d \in Camps \ {c} : KeysOf(d)' \subseteq KeysOf(d)
    BY <1>0, <1>1, <1>4 DEF KeysOf, Passes
  <2>2. KeysOf(c)' \subseteq KeysOf(c) \cup {FreshKey}
    BY <1>0, <1>1, <1>4 DEF KeysOf, Passes
  <2> QED
    BY <2>1, <2>2, FreshKeysApart
<1>9. NewAlone'
  <2>1. \A d \in Camps : Met(d)' <=> Met(d)
    BY <1>1 DEF Met, KnownCamp
  <2> QED
    BY <1>0, <1>4, <1>5, <2>1, NewStaysAlone
<1>10. ASSUME NEW d \in Camps PROVE KeyKept(d)'
  <2> SUFFICES ASSUME KeyOf(d) PROVE KeyOf(d)'
    BY <1>1 DEF CampsInv, KeyKept
  <2>1. ASSUME NEW q \in Programs, q # p \/ d # c
        PROVE  /\ IsAt(q, d, KeyMoved)' <=> IsAt(q, d, KeyMoved)
               /\ IsAt(q, d, ToMove)' <=> IsAt(q, d, ToMove)
               /\ IsAt(q, d, Halfway)' <=> IsAt(q, d, Halfway)
               /\ IsAt(q, d, Making)' <=> IsAt(q, d, Making)
               /\ IsAt(q, d, ToMove) \/ IsAt(q, d, Halfway) => command'[q].key = command[q].key
    BY <1>0, <1>4, <1>5, <2>1 DEF IsAt, Passes
  <2>2. CASE d # c
    BY <1>1, <1>6, <2>1, <2>2 DEF KeyOf
  <2>3. CASE d = c
    <3>1. \A q \in Programs : /\ ~IsAt(q, d, ToMove) /\ ~IsAt(q, d, Halfway)
                              /\ ~IsAt(q, d, ToMove)' /\ ~IsAt(q, d, Halfway)'
                              /\ q # p => command[q].todo \notin {Make1, Make2}
      <4>1. ToMove \cup Halfway \cup {Make1, Make2} \subseteq Starting
        BY DEF ToMove, Halfway, Starting, KeyScripts
      <4>2. \A q \in Programs : command[q].todo \in Starting => q = "helper"
        BY DEF CampsInv, CampsTyped, CommandTyped
      <4>3. command[p].todo = ReadKey /\ command'[p].todo = u
        BY <1>4 DEF Passes
      <4> QED
        BY <1>5, <2>1, <4>1, <4>2, <4>3 DEF IsAt
    <3>2. IsAt(p, d, KeyMoved)
      BY <1>0, <1>2, <1>5, <2>3 DEF IsAt
    <3>3. running[d] # 0 =>
            priv[d] \notin {0, Torn} /\ pub[d] \notin {0, Torn} /\ running'[d] = priv[d]
      <4>1. running[d] # 0 => priv[d] = running[d] /\ pub[d] \notin {0, Torn}
        BY <3>1, <3>2 DEF KeyOf
      <4>2. running[d] # Torn
        BY CampsFacts DEF FilesTyped, Torn
      <4> QED
        BY <1>6, <2>3, <4>1, <4>2
    <3>4. running'[d] # 0 => /\ priv'[d] = running'[d] /\ pub'[d] \notin {0, Torn}
                             /\ u \in {AllDone, Save1}
      <4>1. CASE running[d] # 0
        BY <1>1, <1>4, <2>3, <3>3, <4>1
      <4>2. CASE running[d] = 0
        <5>1. running[c] = 0
          BY <2>3, <4>2
        <5>2. running'[c] # 0 => /\ priv[c] = running'[c] /\ pub[c] \notin {0, Torn}
                                 /\ u \in {AllDone, Save1}
          BY <1>4, <1>6, <5>1
        <5> QED
          BY <1>1, <2>3, <5>2
      <4> QED
        BY <4>1, <4>2
    <3>5. ASSUME running'[d] # 0, NEW q \in Programs PROVE ~IsAt(q, d, Making)'
      <4>1. CASE q = p
        BY <1>4, <1>5, <3>4, <3>5, <4>1 DEF IsAt, Passes
      <4>2. CASE q # p
        <5>1. Met(d)
          <6>1. ReadKey \in Unlisted \cup Using \cup Forgetting \cup Starting
            BY <1>5
          <6>2. IsAt(p, d, Unlisted \cup Using \cup Forgetting \cup Starting)
            BY <1>0, <1>2, <2>3, <6>1 DEF IsAt
          <6> QED
            BY <6>2 DEF CampsInv, MetWhenUsed
        <5>2. ~IsAt(q, d, Creating)
          BY <5>1 DEF CampsInv, NewAlone
        <5>3. Making = Creating \cup {Make1, Make2}
          BY DEF Making, Creating
        <5> QED
          BY <2>1, <3>1, <4>2, <5>2, <5>3 DEF IsAt
      <4> QED
        BY <4>1, <4>2
    <3> QED
      BY <3>1, <3>4, <3>5 DEF KeyOf
  <2> QED
    BY <2>2, <2>3
<1> QED
  <2>1. ASSUME NEW d \in Camps, running'[d] # 0 PROVE running[d] # 0 \/ Met(d)
    <3>1. CASE d # c
      BY <1>6, <2>1, <3>1
    <3>2. CASE d = c
      <4>1. ReadKey \in Unlisted \cup Using \cup Forgetting \cup Starting
        BY <1>5
      <4>2. IsAt(p, d, Unlisted \cup Using \cup Forgetting \cup Starting)
        BY <1>0, <1>2, <3>2, <4>1 DEF IsAt
      <4> QED
        BY <4>2 DEF CampsInv, MetWhenUsed
    <3> QED
      BY <3>1, <3>2
  <2>2. /\ UNCHANGED <<listed, config, flat, cache, loaded, removed, cut, raced>>
        /\ command'[p].camp = command[p].camp /\ madeKeys <= madeKeys'
    BY <1>0, <1>1, <1>4, <1>6
  <2> QED
    BY <1>4, <1>5, <1>7, <1>8, <1>9, <1>10, <2>1, <2>2, KeyStepInv

LEMMA SaveConfigInv == ASSUME CampsInv, NEW p \in Programs, SaveConfig(p) PROVE CampsInv'
<1> USE DEF rosters, keyVars, campsHistory
<1>0. PICK c \in Camps : c = command[p].camp
  BY StepDoneIs DEF SaveConfig
<1>1. /\ Step(p) = "config" /\ StepDone(p)
      /\ config' = [config EXCEPT ![c] = "plain"]
      /\ UNCHANGED <<listed, flat, cache, priv, pub, oldKey, madeKeys, running>>
      /\ UNCHANGED <<loaded, removed, cut, raced>>
  BY <1>0 DEF SaveConfig
<1>2. /\ command[p].todo \in {Add4, Save1}
      /\ Passes(p, command[p].todo, Tail(command[p].todo))
      /\ command' \in [Programs -> CommandRecord]
      /\ command'[p].camp = c /\ command'[p].seen = command[p].seen
      /\ command'[p].key = command[p].key
  <2>1. /\ command[p].todo \in Scripts /\ First(command[p].todo) = "config"
        /\ Passes(p, command[p].todo, Tail(command[p].todo))
        /\ command' \in [Programs -> CommandRecord]
        /\ command'[p].camp = c /\ command'[p].seen = command[p].seen
        /\ command'[p].key = command[p].key
    BY <1>0, <1>1, StepDoneIs
  <2> QED
    BY <2>1, FirstIs
<1>3. PICK t \in {Add4, Save1}, u \in {Add5, Save2} :
        /\ Passes(p, t, u) /\ (t = Add4 <=> u = Add5)
  <2>1. \/ command[p].todo = Add4 /\ Tail(command[p].todo) = Add5
        \/ command[p].todo = Save1 /\ Tail(command[p].todo) = Save2
    BY <1>2, TailsAre
  <2>2. Len(Add4) = 4 /\ Len(Add5) = 3 /\ Len(Save1) = 2 /\ Len(Save2) = 1
    BY ScriptsAre
  <2>3. {Add4, Add5} \cap {Save1, Save2} = {}
    BY <2>2
  <2>4. CASE command[p].todo = Add4
    BY <1>2, <2>1, <2>3, <2>4
  <2>5. CASE command[p].todo = Save1
    BY <1>2, <2>1, <2>3, <2>5
  <2> QED
    BY <1>2, <2>4, <2>5
<1>4. /\ {t, u} \cap (KeyMoved \cup ToMove \cup Halfway \cup Making) = {}
      /\ {t, u} \cap (Creating \cup Writing \cup Unlisting \cup Forgetting \cup Using) = {}
      /\ t \notin Saving /\ u \in Saving
      /\ t \notin Unlisted /\ (t = Add4 => u \in Unlisted) /\ (t = Save1 => u \notin Unlisted)
      /\ t \in Starting <=> u \in Starting
      /\ t \in Starting <=> t = Save1
      /\ t \in Listing <=> u \in Listing
      /\ t \in WithLoaded
  BY <1>3, ClassesAre
<1>5. /\ config'[c] = "plain" /\ \A d \in Camps \ {c} : config'[d] = config[d]
      /\ config' \in [Camps -> {"none", "mixed", "plain"}]
  BY <1>1, CampsFacts DEF FilesTyped
<1>6. CampsTyped'
  <2>1. FilesTyped'
    BY <1>1, <1>2, <1>5, CampsFacts DEF FilesTyped
  <2>2. CommandTyped(p)'
    BY <1>0, <1>1, <1>2, <1>3, <1>4, CampsFacts DEF CampsInv, CampsTyped, CommandTyped, Passes
  <2>3. madeKeys <= madeKeys' /\ removed \subseteq removed'
    BY <1>1, CampsFacts DEF FilesTyped
  <2>4. \A q \in Programs \ {p} : loaded'[q] = loaded[q]
    BY <1>1
  <2> QED
    BY <1>3, <2>1, <2>2, <2>3, <2>4, CommandsStayTyped
<1>7. KeysApart'
  <2>1. \A d \in Camps : KeysOf(d)' \subseteq KeysOf(d)
    BY <1>0, <1>1, <1>2 DEF KeysOf, Passes
  <2> QED
    BY <2>1, KeysStayApart
<1>8. (\A d \in Camps : Met(d) => Met(d)') /\ Met(c)' /\ \A d \in Camps \ {c} : Met(d)' => Met(d)
  BY <1>1, <1>5 DEF Met, KnownCamp
<1>9. MetWhenUsed'
  <2>1. ASSUME NEW d \in Camps, IsAt(p, d, Unlisted \cup Using \cup Forgetting \cup Starting)'
        PROVE  Met(d)'
    BY <1>2, <1>8, <2>1 DEF IsAt
  <2>2. ASSUME NEW d \in Camps, loaded'[p][d] # "none"
        PROVE  Met(d)' \/ (loaded[p][d] # "none" /\ ~IsAt(p, d, {Add4}))
    BY <1>0, <1>1, <1>8, <2>2 DEF IsAt
  <2> QED
    BY <1>1, <1>2, <1>3, <1>8, <2>1, <2>2, MetStays
<1>10. NewAlone'
  <2>1. \A d \in Camps : Met(d)' => Met(d) \/ command[p].camp = d
    BY <1>0, <1>8
  <2> QED
    BY <1>0, <1>2, <1>3, <1>4, <2>1, NewStaysAlone
<1>11. WritersRace'
  BY <1>1, <1>3, <1>4, WritersStay
<1>12. \A d \in Camps : KeyKept(d)'
  BY <1>1, <1>3, <1>4, KeysStay
<1>13. TrustKept'
  <2> SUFFICES ASSUME 1 \notin removed', ~Hit("cache", 1)' PROVE TrustOf'
    BY DEF TrustKept
  <2>1. TrustOf
    BY <1>1 DEF Hit, CampsInv, TrustKept
  <2>2. \A q \in Programs : IsAt(q, 1, Saving) => IsAt(q, 1, Saving)'
    BY <1>0, <1>2, <1>3, <1>4 DEF IsAt, Passes
  <2>3. CASE c = 1
    <3>1. IsAt(p, 1, Saving)'
      BY <1>2, <1>3, <1>4, <2>3 DEF IsAt, Passes
    <3> QED
      BY <1>1, <1>5, <2>1, <2>3, <3>1 DEF TrustOf, KnownCamp
  <2>4. CASE c # 1
    <3>1. config'[1] = config[1]
      BY <1>5, <2>4, CampsFacts
    <3> QED
      BY <1>1, <2>1, <2>2, <3>1 DEF TrustOf, OnDisk, KnownCamp
  <2> QED
    BY <2>3, <2>4
<1>14. ASSUME NEW d \in Camps PROVE ListKept(d)'
  <2> SUFFICES ASSUME ListOf(d) PROVE ListOf(d)'
    BY <1>1 DEF CampsInv, ListKept
  <2>1. CASE d # c
    <3>1. Exists(d)' <=> Exists(d)
      BY <1>1, <1>5, <2>1 DEF Exists
    <3>2. ASSUME NEW q \in Programs
          PROVE  /\ IsAt(q, d, Unlisted)' <=> IsAt(q, d, Unlisted)
                 /\ IsAt(q, d, Unlisting)' <=> IsAt(q, d, Unlisting)
                 /\ IsAt(q, d, Forgetting)' => IsAt(q, d, Forgetting)
                 /\ IsAt(q, d, Starting \cup Using)' => IsAt(q, d, Starting \cup Using)
                 /\ IsAt(q, d, Listing)' <=> IsAt(q, d, Listing)
                 /\ HasAny(q, d)' => HasAny(q, d)
                 /\ q \in Writers' => q \in Writers /\ command'[q].seen = command[q].seen
      BY <1>0, <1>1, <1>2, <1>3, <1>4, <2>1, <3>2 DEF Passes, IsAt, HasAny, Writers
    <3> QED
      BY <1>1, <3>1, <3>2, CampsFacts, ListStays
  <2>2. CASE d = c
    <3>1. Exists(d)'
      BY <1>5, <2>2 DEF Exists
    <3>2. HasAny(p, d) /\ command'[p].camp = d
      BY <1>0, <1>2, <2>2 DEF HasAny
    <3>3. \A q \in Programs \ {p} : ~IsAt(q, d, Forgetting)
      BY <3>2 DEF ListOf
    <3>4. Unlisting \subseteq Forgetting
      BY DEF Forgetting
    <3>5. ASSUME NEW q \in Programs
          PROVE  /\ ~IsAt(q, d, Unlisting)' /\ ~IsAt(q, d, Forgetting)'
                 /\ IsAt(q, d, Starting \cup Using)' => d \in listed'
                 /\ q \in Writers' => (d \in command'[q].seen <=> d \in listed')
                 /\ IsAt(q, d, Listing)' <=> IsAt(q, d, Listing)
                 /\ IsAt(q, d, Unlisted) => IsAt(q, d, Unlisted)'
      <4>1. CASE q = p
        BY <1>0, <1>1, <1>2, <1>3, <1>4, <2>2, <4>1 DEF ListOf, IsAt, Passes, Writers
      <4>2. CASE q # p
        BY <1>1, <1>3, <3>3, <3>4, <3>5, <4>2 DEF ListOf, IsAt, Passes, Writers
      <4> QED
        BY <4>1, <4>2
    <3>6. loaded'["helper"][d] # "none" /\ ~IsAt("helper", d, Listing)' => d \in listed'
      BY <1>1, <3>5, CampsFacts DEF ListOf
    <3>7. (\E q \in Programs : IsAt(q, d, Unlisted)') \/ d \in listed'
      <4>1. CASE t = Add4
        BY <1>3, <1>4, <3>2, <4>1 DEF IsAt, Passes
      <4>2. CASE t = Save1
        BY <1>0, <1>1, <1>3, <1>4, <2>2, <4>2 DEF ListOf, IsAt, Passes
      <4> QED
        BY <1>3, <4>1, <4>2
    <3> QED
      BY <3>1, <3>5, <3>6, <3>7 DEF ListOf
  <2> QED
    BY <2>1, <2>2
<1> QED
  BY <1>6, <1>7, <1>9, <1>10, <1>11, <1>12, <1>13, <1>14 DEF CampsInv

LEMMA SaveCacheInv == ASSUME CampsInv, NEW p \in Programs, SaveCache(p) PROVE CampsInv'
<1> USE DEF rosters, keyVars, campsHistory
<1>0. PICK c \in Camps : c = command[p].camp
  BY StepDoneIs DEF SaveCache
<1>1. /\ Step(p) = "cache" /\ StepDone(p)
      /\ cache' = [cache EXCEPT ![c] = loaded[p][c]]
      /\ UNCHANGED <<listed, config, flat, priv, pub, oldKey, madeKeys, running>>
      /\ UNCHANGED <<loaded, removed, cut, raced>>
  BY <1>0 DEF SaveCache
<1>2. /\ command[p].todo \in {Add5, Save2}
      /\ Passes(p, command[p].todo, Tail(command[p].todo))
      /\ command' \in [Programs -> CommandRecord]
      /\ command'[p].camp = c /\ command'[p].seen = command[p].seen
      /\ command'[p].key = command[p].key
  <2>1. /\ command[p].todo \in Scripts /\ First(command[p].todo) = "cache"
        /\ Passes(p, command[p].todo, Tail(command[p].todo))
        /\ command' \in [Programs -> CommandRecord]
        /\ command'[p].camp = c /\ command'[p].seen = command[p].seen
        /\ command'[p].key = command[p].key
    BY <1>0, <1>1, StepDoneIs
  <2> QED
    BY <2>1, FirstIs
<1>3. PICK t \in {Add5, Save2}, u \in {Add6, AllDone} :
        /\ Passes(p, t, u) /\ (t = Add5 <=> u = Add6)
  <2>1. \/ command[p].todo = Add5 /\ Tail(command[p].todo) = Add6
        \/ command[p].todo = Save2 /\ Tail(command[p].todo) = AllDone
    BY <1>2, TailsAre
  <2>2. Len(Add5) = 3 /\ Len(Add6) = 2 /\ Len(Save2) = 1 /\ Len(AllDone) = 0
    BY ScriptsAre
  <2>3. {Add5, Add6} \cap {Save2, AllDone} = {}
    BY <2>2
  <2>4. CASE command[p].todo = Add5
    BY <1>2, <2>1, <2>3, <2>4
  <2>5. CASE command[p].todo = Save2
    BY <1>2, <2>1, <2>3, <2>5
  <2> QED
    BY <1>2, <2>4, <2>5
<1>4. /\ {t, u} \cap (KeyMoved \cup ToMove \cup Halfway \cup Making) = {}
      /\ {t, u} \cap (Creating \cup Writing \cup Unlisting \cup Forgetting \cup Using) = {}
      /\ t \in Saving /\ u \notin Saving
      /\ t \in Unlisted <=> u \in Unlisted
      /\ u \notin Starting /\ u \notin WithLoaded
      /\ t \in Listing <=> u \in Listing
      /\ t \in WithLoaded /\ t # Add4
  BY <1>3, ClassesAre
<1>5. /\ loaded[p][c] \in {"empty", "trusts"} /\ cache'[c] = loaded[p][c]
      /\ \A d \in Camps \ {c} : cache'[d] = cache[d]
      /\ cache' \in [Camps -> {"none", "empty", "trusts"}]
  <2>1. loaded[p][c] # "none"
    BY <1>0, <1>3, <1>4 DEF CampsInv, CampsTyped, CommandTyped, Passes
  <2> QED
    BY <1>1, <2>1, CampsFacts DEF FilesTyped
<1>6. CampsTyped'
  <2>1. FilesTyped'
    BY <1>1, <1>2, <1>5, CampsFacts DEF FilesTyped
  <2>2. CommandTyped(p)'
    BY <1>0, <1>1, <1>2, <1>3, <1>4, CampsFacts DEF CampsInv, CampsTyped, CommandTyped, Passes
  <2>3. madeKeys <= madeKeys' /\ removed \subseteq removed'
    BY <1>1, CampsFacts DEF FilesTyped
  <2>4. \A q \in Programs \ {p} : loaded'[q] = loaded[q]
    BY <1>1
  <2> QED
    BY <1>3, <2>1, <2>2, <2>3, <2>4, CommandsStayTyped
<1>7. KeysApart'
  <2>1. \A d \in Camps : KeysOf(d)' \subseteq KeysOf(d)
    BY <1>0, <1>1, <1>2 DEF KeysOf, Passes
  <2> QED
    BY <2>1, KeysStayApart
<1>8. \A d \in Camps : Met(d)' <=> Met(d)
  BY <1>1 DEF Met, KnownCamp
<1>9. MetWhenUsed'
  <2>1. ASSUME NEW d \in Camps, IsAt(p, d, Unlisted \cup Using \cup Forgetting \cup Starting)'
        PROVE  IsAt(p, d, Unlisted \cup Using \cup Forgetting \cup Starting)
    BY <1>0, <1>2, <1>3, <1>4, <2>1 DEF IsAt, Passes
  <2>2. ASSUME NEW d \in Camps, loaded'[p][d] # "none"
        PROVE  loaded[p][d] # "none" /\ ~IsAt(p, d, {Add4})
    BY <1>1, <1>3, <1>4, <2>2 DEF IsAt, Passes
  <2> QED
    BY <1>1, <1>2, <1>3, <1>8, <2>1, <2>2, MetStays
<1>10. NewAlone'
  BY <1>0, <1>2, <1>3, <1>4, <1>8, NewStaysAlone
<1>11. WritersRace'
  BY <1>1, <1>3, <1>4, WritersStay
<1>12. \A d \in Camps : KeyKept(d)'
  BY <1>1, <1>3, <1>4, KeysStay
<1>13. TrustKept'
  <2> SUFFICES ASSUME 1 \notin removed', ~Hit("cache", 1)' PROVE TrustOf'
    BY DEF TrustKept
  <2>1. TrustOf
    BY <1>1 DEF Hit, CampsInv, TrustKept
  <2>3. CASE c = 1
    <3>1. cache'[1] = "trusts"
      BY <1>5, <2>1, <2>3 DEF TrustOf
    <3> QED
      BY <1>1, <2>1, <3>1 DEF TrustOf, OnDisk, KnownCamp
  <2>4. CASE c # 1
    <3>1. cache'[1] = cache[1]
      BY <1>5, <2>4, CampsFacts
    <3>2. \A q \in Programs : IsAt(q, 1, Saving) => IsAt(q, 1, Saving)'
      BY <1>0, <1>2, <1>3, <2>4 DEF IsAt, Passes
    <3> QED
      BY <1>1, <2>1, <3>1, <3>2 DEF TrustOf, OnDisk, KnownCamp
  <2> QED
    BY <2>3, <2>4
<1>14. \A d \in Camps : ListKept(d)'
  BY <1>0, <1>1, <1>2, <1>3, <1>4, ListsStay
<1> QED
  BY <1>6, <1>7, <1>9, <1>10, <1>11, <1>12, <1>13, <1>14 DEF CampsInv

LEMMA RemoveCampInv == ASSUME CampsInv, NEW p \in Programs, RemoveCamp(p) PROVE CampsInv'
<1> USE DEF rosters
<1>0. PICK c \in Camps : c = command[p].camp
  BY StepDoneIs DEF RemoveCamp
<1>1. /\ Step(p) = "rmCamp" /\ StepDone(p)
      /\ config' = [config EXCEPT ![c] = "none"] /\ cache' = [cache EXCEPT ![c] = "none"]
      /\ priv' = [priv EXCEPT ![c] = 0] /\ pub' = [pub EXCEPT ![c] = 0]
      /\ removed' = removed \cup {c}
      /\ UNCHANGED <<listed, flat, oldKey, madeKeys, running, loaded, cut, raced>>
  BY <1>0 DEF RemoveCamp
<1>2. /\ Passes(p, Forget1, Forget2)
      /\ command' \in [Programs -> CommandRecord]
      /\ command'[p].camp = c /\ command'[p].seen = command[p].seen
      /\ command'[p].key = command[p].key
  <2>1. /\ command[p].todo \in Scripts /\ First(command[p].todo) = "rmCamp"
        /\ Passes(p, command[p].todo, Tail(command[p].todo))
        /\ command' \in [Programs -> CommandRecord]
        /\ command'[p].camp = c /\ command'[p].seen = command[p].seen
        /\ command'[p].key = command[p].key
    BY <1>0, <1>1, StepDoneIs
  <2>2. command[p].todo = Forget1
    BY <2>1, FirstIs
  <2> QED
    BY <2>1, <2>2, TailsAre
<1>4. /\ {Forget1, Forget2} \cap (KeyMoved \cup ToMove \cup Halfway \cup Making) = {}
      /\ {Forget1, Forget2} \cap (Creating \cup Writing \cup Unlisted \cup Using \cup Starting) = {}
      /\ {Forget1, Forget2} \cap (Saving \cup Listing \cup WithLoaded \cup {Add4}) = {}
      /\ {Forget1, Forget2} \subseteq Forgetting
      /\ Forget1 \notin Unlisting /\ Forget2 \in Unlisting
  BY ClassesAre
<1>5. /\ config'[c] = "none" /\ priv'[c] = 0 /\ pub'[c] = 0
      /\ removed \subseteq removed' /\ c \in removed'
      /\ \A d \in Camps \ {c} : /\ config'[d] = config[d] /\ cache'[d] = cache[d]
                                 /\ priv'[d] = priv[d] /\ pub'[d] = pub[d]
                                 /\ d \in removed' <=> d \in removed
      /\ config' \in [Camps -> {"none", "mixed", "plain"}]
      /\ cache' \in [Camps -> {"none", "empty", "trusts"}]
      /\ priv' \in [Camps -> (0..madeKeys) \cup {Torn}]
      /\ pub' \in [Camps -> (0..madeKeys) \cup {Torn}]
  BY <1>1, CampsFacts DEF FilesTyped
<1>6. CampsTyped'
  <2>1. FilesTyped'
    BY <1>1, <1>2, <1>5, CampsFacts DEF FilesTyped
  <2>2. CommandTyped(p)'
    BY <1>0, <1>1, <1>2, <1>4, <1>5, CampsFacts DEF CampsInv, CampsTyped, CommandTyped, Passes
  <2>3. madeKeys <= madeKeys' /\ removed \subseteq removed'
    BY <1>1, CampsFacts DEF FilesTyped
  <2>4. \A q \in Programs \ {p} : loaded'[q] = loaded[q]
    BY <1>1
  <2> QED
    BY <1>2, <2>1, <2>2, <2>3, <2>4, CommandsStayTyped
<1>7. KeysApart'
  <2>1. \A d \in Camps : KeysOf(d)' \subseteq KeysOf(d)
    BY <1>0, <1>1, <1>2, <1>5 DEF KeysOf, Passes
  <2> QED
    BY <2>1, KeysStayApart
<1>8. Met(c)' /\ (\A d \in Camps : Met(d) => Met(d)') /\ \A d \in Camps \ {c} : Met(d)' => Met(d)
  BY <1>1, <1>5 DEF Met, KnownCamp
<1>9. MetWhenUsed'
  <2>1. ASSUME NEW d \in Camps, IsAt(p, d, Unlisted \cup Using \cup Forgetting \cup Starting)'
        PROVE  Met(d)'
    BY <1>2, <1>8, <2>1 DEF IsAt
  <2>2. ASSUME NEW d \in Camps, loaded'[p][d] # "none"
        PROVE  loaded[p][d] # "none" /\ ~IsAt(p, d, {Add4})
    BY <1>1, <1>2, <1>4, <2>2 DEF IsAt, Passes
  <2> QED
    BY <1>1, <1>2, <1>8, <2>1, <2>2, MetStays
<1>10. NewAlone'
  <2>1. \A d \in Camps : Met(d)' => Met(d) \/ command[p].camp = d
    BY <1>0, <1>8
  <2> QED
    BY <1>0, <1>2, <1>4, <2>1, NewStaysAlone
<1>11. WritersRace'
  BY <1>1, <1>2, <1>4, WritersStay
<1>12. ASSUME NEW d \in Camps PROVE KeyKept(d)'
  <2>1. CASE d = c
    BY <1>5, <2>1 DEF KeyKept
  <2>2. CASE d # c
    <3>1. ASSUME NEW q \in Programs
          PROVE  /\ IsAt(q, d, KeyMoved)' <=> IsAt(q, d, KeyMoved)
                 /\ IsAt(q, d, ToMove)' <=> IsAt(q, d, ToMove)
                 /\ IsAt(q, d, Halfway)' <=> IsAt(q, d, Halfway)
                 /\ IsAt(q, d, Making)' <=> IsAt(q, d, Making)
                 /\ command'[q].key = command[q].key
      BY <1>0, <1>2, <2>2, <3>1 DEF IsAt, Passes
    <3>2. KeyOf(d) => KeyOf(d)'
      BY <1>1, <1>5, <2>2, <3>1 DEF KeyOf
    <3> QED
      BY <1>1, <1>5, <3>2 DEF CampsInv, KeyKept
  <2> QED
    BY <2>1, <2>2
<1>13. TrustKept'
  <2> SUFFICES ASSUME 1 \notin removed', ~Hit("cache", 1)' PROVE TrustOf'
    BY DEF TrustKept
  <2>1. TrustOf /\ c # 1
    BY <1>1, <1>5 DEF Hit, CampsInv, TrustKept
  <2>4. 1 \in Camps \ {c}
    BY <2>1, CampsFacts
  <2>2. config'[1] = config[1] /\ cache'[1] = cache[1]
    <3>1. 1 # c /\ config \in [Camps -> {"none", "mixed", "plain"}]
          /\ cache \in [Camps -> {"none", "empty", "trusts"}]
      BY <2>4, CampsFacts DEF FilesTyped
    <3>2. config' = [config EXCEPT ![c] = "none"] /\ cache' = [cache EXCEPT ![c] = "none"]
      BY <1>1
    <3> QED
      BY <2>4, <3>1, <3>2
  <2>3. \A q \in Programs : IsAt(q, 1, Saving) => IsAt(q, 1, Saving)'
    BY <1>0, <1>2, <2>1 DEF IsAt, Passes
  <2> QED
    BY <1>1, <2>1, <2>2, <2>3 DEF TrustOf, OnDisk, KnownCamp
<1>14. ASSUME NEW d \in Camps PROVE ListKept(d)'
  <2> SUFFICES ASSUME ListOf(d) PROVE ListOf(d)'
    BY <1>1 DEF CampsInv, ListKept
  <2>1. CASE d # c
    <3>1. Exists(d)' <=> Exists(d)
      BY <1>1, <1>5, <2>1 DEF Exists
    <3>2. ASSUME NEW q \in Programs
          PROVE  /\ IsAt(q, d, Unlisted)' <=> IsAt(q, d, Unlisted)
                 /\ IsAt(q, d, Unlisting)' <=> IsAt(q, d, Unlisting)
                 /\ IsAt(q, d, Forgetting)' => IsAt(q, d, Forgetting)
                 /\ IsAt(q, d, Starting \cup Using)' => IsAt(q, d, Starting \cup Using)
                 /\ IsAt(q, d, Listing)' <=> IsAt(q, d, Listing)
                 /\ HasAny(q, d)' => HasAny(q, d)
                 /\ q \in Writers' => q \in Writers /\ command'[q].seen = command[q].seen
      BY <1>0, <1>1, <1>2, <1>4, <2>1, <3>2 DEF Passes, IsAt, HasAny, Writers
    <3> QED
      BY <1>1, <3>1, <3>2, CampsFacts, ListStays
  <2>2. CASE d = c
    <3>1. ~Exists(d)'
      BY <1>5, <2>2 DEF Exists
    <3>2. IsAt(p, d, Forgetting) /\ p = "cli" /\ "helper" # "cli"
      BY <1>0, <1>2, <1>4, <2>2 DEF IsAt, Passes, CampsInv, CampsTyped, CommandTyped
    <3>3. \A q \in Programs \ {p} : command[q].camp # d /\ command'[q].camp # d
                                    /\ loaded[q][d] = "none" /\ loaded'[q][d] = "none"
      BY <1>1, <1>2, <3>2 DEF ListOf, HasAny, Passes
    <3>4. ASSUME NEW q \in Programs
          PROVE  /\ ~IsAt(q, d, Unlisted)' /\ ~IsAt(q, d, Starting \cup Using)'
                 /\ IsAt(q, d, Forgetting)' => q = p
                 /\ q \in Writers' => (d \in command'[q].seen <=> d \in listed')
      <4>1. CASE q = p
        BY <1>2, <1>4, <4>1 DEF IsAt, Passes, Writers
      <4>2. CASE q # p
        BY <1>1, <1>2, <3>3, <3>4, <4>2 DEF ListOf, IsAt, Passes, Writers
      <4> QED
        BY <4>1, <4>2
    <3>5. IsAt(p, d, Unlisting)' /\ loaded'["helper"][d] = "none"
      BY <1>2, <1>4, <2>2, <3>2, <3>3, CampsFacts DEF IsAt, Passes
    <3> QED
      BY <3>1, <3>3, <3>4, <3>5 DEF ListOf, HasAny
  <2> QED
    BY <2>1, <2>2
<1> QED
  BY <1>6, <1>7, <1>9, <1>10, <1>11, <1>12, <1>13, <1>14 DEF CampsInv

LEMMA ReadListInv == ASSUME CampsInv, NEW p \in Programs, ReadList(p) PROVE CampsInv'
<1> USE DEF rosters, fileVars, keyVars
<1>0. PICK c \in Camps : c = command[p].camp
  BY StepDoneIs DEF ReadList
<1>1. /\ Step(p) = "readList"
      /\ command' = [command EXCEPT ![p].todo = Tail(@), ![p].seen = listed]
      /\ raced' = raced \cup {<<"list", command[q].camp>> : q \in Overlapped(p)}
      /\ UNCHANGED <<listed, config, flat, cache, priv, pub, oldKey, madeKeys, running>>
      /\ UNCHANGED <<loaded, removed, cut>>
  BY DEF ReadList
<1>2. command[p].todo \in {Add6, Forget3, Use2}
  BY <1>1, StepDoneIs, FirstIs
<1>3. PICK t \in {Add6, Forget3, Use2}, u \in {Add7, Forget4, Use3} :
        /\ Passes(p, t, u) /\ (t = Add6 => u = Add7) /\ (t = Forget3 => u = Forget4)
        /\ (t = Use2 => u = Use3)
        /\ command' \in [Programs -> CommandRecord]
        /\ command'[p].camp = c /\ command'[p].seen = listed
        /\ command'[p].key = command[p].key
  <2> DEFINE rest == Tail(command[p].todo)
  <2>1. /\ command[p].todo = Add6 => rest = Add7
        /\ command[p].todo = Forget3 => rest = Forget4
        /\ command[p].todo = Use2 => rest = Use3
    BY TailsAre
  <2>2. command' = [command EXCEPT ![p].todo = rest, ![p].seen = listed]
    BY <1>1
  <2> HIDE DEF rest
  <2>3. rest \in {Add7, Forget4, Use3} /\ rest \in Scripts
    BY <1>2, <2>1 DEF Scripts, Using
  <2>4. command \in [Programs -> CommandRecord] /\ listed \in SUBSET Camps
    BY CampsFacts DEF FilesTyped
  <2>5. /\ command'[p].todo = rest /\ command'[p].seen = listed
        /\ command'[p].camp = command[p].camp /\ command'[p].key = command[p].key
        /\ \A q \in Programs \ {p} : command'[q] = command[q]
    BY <2>2, <2>4 DEF CommandRecord
  <2>6. command' \in [Programs -> CommandRecord]
    BY <2>2, <2>3, <2>4 DEF CommandRecord
  <2>7. Passes(p, command[p].todo, rest)
    BY <2>5 DEF Passes
  <2>8. Add6 # Forget3 /\ Add6 # Use2 /\ Forget3 # Use2
    BY ScriptsAre
  <2>9. CASE command[p].todo = Add6
    BY <1>0, <2>1, <2>5, <2>6, <2>7, <2>8, <2>9
  <2>10. CASE command[p].todo = Forget3
    BY <1>0, <2>1, <2>5, <2>6, <2>7, <2>8, <2>10
  <2>11. CASE command[p].todo = Use2
    BY <1>0, <2>1, <2>5, <2>6, <2>7, <2>8, <2>11
  <2> QED
    BY <1>2, <2>9, <2>10, <2>11
<1>4. /\ {t, u} \cap (KeyMoved \cup ToMove \cup Halfway \cup Making) = {}
      /\ {t, u} \cap (Creating \cup Saving \cup Starting \cup WithLoaded \cup {Add4}) = {}
      /\ u \in Unlisted <=> t \in Unlisted
      /\ u \in Unlisting <=> t \in Unlisting
      /\ u \in Forgetting <=> t \in Forgetting
      /\ u \in Using <=> t \in Using
      /\ u \in Listing <=> t \in Listing
      /\ t \in Unlisting <=> t \in Forgetting
  BY <1>3, ClassesAre
<1>5. CampsTyped'
  <2>1. FilesTyped'
    BY <1>1, <1>3, CampsFacts DEF FilesTyped
  <2>2. CommandTyped(p)'
    <3>1. /\ command[p].todo = t /\ command'[p].todo = u /\ command'[p].camp = c /\ c # 0
          /\ command'[p].key = command[p].key /\ command[p].camp = c
          /\ u \notin WithLoaded \cup Starting
      BY <1>0, <1>3, <1>4, CampsFacts DEF Passes
    <3>2. CommandTyped(p) /\ madeKeys' = madeKeys /\ removed' = removed
      BY <1>1 DEF CampsInv, CampsTyped
    <3> QED
      BY <1>4, <3>1, <3>2 DEF CommandTyped
  <2>3. madeKeys <= madeKeys' /\ removed \subseteq removed'
    BY <1>1, CampsFacts DEF FilesTyped
  <2>4. \A q \in Programs \ {p} : loaded'[q] = loaded[q]
    BY <1>1
  <2> QED
    BY <1>3, <2>1, <2>2, <2>3, <2>4, CommandsStayTyped
<1>6. KeysApart'
  <2>1. \A d \in Camps : KeysOf(d)' \subseteq KeysOf(d)
    BY <1>0, <1>1, <1>3 DEF KeysOf, Passes
  <2> QED
    BY <2>1, KeysStayApart
<1>7. \A d \in Camps : Met(d)' <=> Met(d)
  BY <1>1 DEF Met, KnownCamp
<1>8. MetWhenUsed'
  <2>1. ASSUME NEW d \in Camps, IsAt(p, d, Unlisted \cup Using \cup Forgetting \cup Starting)'
        PROVE  IsAt(p, d, Unlisted \cup Using \cup Forgetting \cup Starting)
    BY <1>0, <1>3, <1>4, <2>1 DEF IsAt, Passes
  <2>2. ASSUME NEW d \in Camps, loaded'[p][d] # "none"
        PROVE  loaded[p][d] # "none" /\ ~IsAt(p, d, {Add4})
    BY <1>1, <1>3, <1>4, <2>2 DEF IsAt, Passes
  <2> QED
    BY <1>1, <1>3, <1>7, <2>1, <2>2, MetStays
<1>9. NewAlone'
  BY <1>0, <1>3, <1>4, <1>7, NewStaysAlone
\* If the other process has read the list too, both are now overtaken.
<1>10. WritersRace'
  <2>1. ASSUME NEW q \in Writers, q # p, NEW r \in Programs
        PROVE  <<"list", command'[r].camp>> \in raced'
    <3>1. command[q].todo \in {Add7, Forget4, Use3} /\ command[q].todo \in Scripts /\ q \in Programs
      BY <2>1, CampsFacts DEF Writers, Writing, FilesTyped, CommandRecord
    <3>2. Step(q) \in Saves
      <4>1. First(command[q].todo) \in {"list", "unlist", "touch"}
        BY <3>1, FirstIs
      <4> QED
        BY <4>1 DEF Step, First, Saves
    <3>3. r \in Overlapped(p)
      BY <2>1, <3>1, <3>2 DEF Overlapped
    <3>4. command'[r].camp = command[r].camp
      BY <1>0, <1>3 DEF Passes
    <3> QED
      BY <1>1, <3>3, <3>4
  <2>2. \A q \in Writers' : q \in Programs /\ (q # p => q \in Writers)
    BY <1>3 DEF Writers, Passes
  <2> QED
    BY <2>1, <2>2 DEF WritersRace
<1>11. \A d \in Camps : KeyKept(d)'
  BY <1>1, <1>3, <1>4, KeysStay
<1>12. TrustKept'
  BY <1>1, <1>3, <1>4, TrustStays
<1>13. ASSUME NEW d \in Camps PROVE ListKept(d)'
  <2> SUFFICES ASSUME ListOf(d) PROVE ListOf(d)'
    BY <1>1 DEF CampsInv, ListKept
  <2>1. Exists(d)' <=> Exists(d)
    BY <1>1 DEF Exists
  <2>2. ASSUME NEW q \in Programs
        PROVE  /\ IsAt(q, d, Unlisted)' <=> IsAt(q, d, Unlisted)
               /\ IsAt(q, d, Unlisting)' <=> IsAt(q, d, Unlisting)
               /\ IsAt(q, d, Forgetting)' => IsAt(q, d, Forgetting)
               /\ IsAt(q, d, Starting \cup Using)' => IsAt(q, d, Starting \cup Using)
               /\ IsAt(q, d, Listing)' <=> IsAt(q, d, Listing)
               /\ HasAny(q, d)' => HasAny(q, d)
    BY <1>0, <1>1, <1>3, <1>4, <2>2 DEF Passes, IsAt, HasAny
  <2>3. ASSUME NEW q \in Programs, q \in Writers'
        PROVE  \/ q \in Writers /\ command'[q].seen = command[q].seen
               \/ d \in command'[q].seen <=> d \in listed'
    BY <1>1, <1>3, <2>3 DEF Passes, Writers
  <2> QED
    BY <1>1, <2>1, <2>2, <2>3, CampsFacts, ListStays
<1> QED
  BY <1>5, <1>6, <1>8, <1>9, <1>10, <1>11, <1>12, <1>13 DEF CampsInv

LEMMA SaveListInv == ASSUME CampsInv, NEW p \in Programs, SaveList(p) PROVE CampsInv'
<1> USE DEF fileVars, keyVars
<1>0. PICK c \in Camps : c = command[p].camp
  BY StepDoneIs DEF SaveList, Saves
<1>1. /\ Step(p) \in Saves /\ StepDone(p)
      /\ listed' = IF Step(p) = "unlist" THEN command[p].seen \ {c} ELSE command[p].seen \cup {c}
      /\ cut' = IF Step(p) = "touch" THEN cut ELSE cut \ {<<"list", c>>}
      /\ UNCHANGED <<config, flat, cache, priv, pub, oldKey, madeKeys, running>>
      /\ UNCHANGED <<loaded, removed, raced>>
  BY <1>0 DEF SaveList, WithCamp, WithoutCamp
<1>2. PICK t \in {Add7, Forget4, Use3} :
        /\ Passes(p, t, AllDone)
        /\ command' \in [Programs -> CommandRecord]
        /\ command'[p].camp = c /\ command'[p].seen = command[p].seen
        /\ command'[p].key = command[p].key
        /\ Step(p) = "unlist" <=> t = Forget4
        /\ Step(p) = "touch" <=> t = Use3
  <2>1. /\ command[p].todo \in Scripts /\ First(command[p].todo) = Step(p)
        /\ Passes(p, command[p].todo, Tail(command[p].todo))
        /\ command' \in [Programs -> CommandRecord]
        /\ command'[p].camp = c /\ command'[p].seen = command[p].seen
        /\ command'[p].key = command[p].key
    BY <1>0, <1>1, StepDoneIs DEF Saves
  <2>2. /\ command[p].todo \in {Add7, Forget4, Use3}
        /\ Step(p) = "unlist" <=> command[p].todo = Forget4
        /\ Step(p) = "touch" <=> command[p].todo = Use3
    BY <1>1, <2>1, FirstIs DEF Saves
  <2>3. Tail(command[p].todo) = AllDone
    BY <2>2, TailsAre
  <2> QED
    BY <2>1, <2>2, <2>3
<1>3. /\ {t, AllDone} \cap (KeyMoved \cup ToMove \cup Halfway \cup Making) = {}
      /\ {t, AllDone} \cap (Creating \cup Saving \cup Starting \cup WithLoaded \cup {Add4}) = {}
      /\ AllDone \notin Unlisted \cup Unlisting \cup Forgetting \cup Using \cup Listing \cup Writing
      /\ t \in Writing
      /\ t \in Unlisted <=> t = Add7
      /\ t \in Unlisting <=> t = Forget4
      /\ t \in Forgetting <=> t = Forget4
      /\ t \in Using <=> t = Use3
      /\ t \in Listing <=> t = Add7
  <2>1. {Add7, Forget4, Use3, AllDone} \cap {Add4} = {} /\ Add7 # Forget4 /\ Add7 # Use3 /\ Forget4 # Use3
    BY ClassesAre
  <2> QED
    BY <1>2, <2>1, ClassesAre
<1>4. command[p].seen \subseteq Camps /\ listed' \subseteq Camps
  BY <1>1, CampsFacts DEF FilesTyped, CommandRecord
<1>5. CampsTyped'
  <2>1. FilesTyped'
    BY <1>1, <1>2, <1>4, CampsFacts DEF FilesTyped
  <2>2. CommandTyped(p)'
    BY <1>0, <1>1, <1>2, <1>3, CampsFacts DEF CampsInv, CampsTyped, CommandTyped, Passes
  <2>3. madeKeys <= madeKeys' /\ removed \subseteq removed'
    BY <1>1, CampsFacts DEF FilesTyped
  <2>4. \A q \in Programs \ {p} : loaded'[q] = loaded[q]
    BY <1>1
  <2> QED
    BY <1>2, <2>1, <2>2, <2>3, <2>4, CommandsStayTyped
<1>6. KeysApart'
  <2>1. \A d \in Camps : KeysOf(d)' \subseteq KeysOf(d)
    BY <1>0, <1>1, <1>2 DEF KeysOf, Passes
  <2> QED
    BY <2>1, KeysStayApart
<1>7. \A d \in Camps : Met(d)' <=> Met(d)
  BY <1>1 DEF Met, KnownCamp
<1>8. MetWhenUsed'
  <2>1. ASSUME NEW d \in Camps PROVE ~IsAt(p, d, Unlisted \cup Using \cup Forgetting \cup Starting)'
    BY <1>2, <1>3 DEF IsAt, Passes
  <2>2. ASSUME NEW d \in Camps, loaded'[p][d] # "none"
        PROVE  loaded[p][d] # "none" /\ ~IsAt(p, d, {Add4})
    BY <1>1, <1>2, <1>3, <2>2 DEF IsAt, Passes
  <2>3. ASSUME NEW d \in Camps, d \in listed' PROVE d \in command[p].seen \/ Met(d)
    <3>1. CASE d # c
      BY <1>1, <2>3, <3>1
    <3>2. CASE d = c
      <4>1. IsAt(p, d, Unlisted \cup Using \cup Forgetting \cup Starting)
        BY <1>0, <1>2, <1>3, <3>2 DEF IsAt, Passes
      <4> QED
        BY <4>1 DEF CampsInv, MetWhenUsed
    <3> QED
      BY <3>1, <3>2
  <2> QED
    BY <1>1, <1>2, <1>7, <2>1, <2>2, <2>3, MetStays
<1>9. NewAlone'
  BY <1>0, <1>2, <1>3, <1>7, NewStaysAlone
<1>10. WritersRace'
  BY <1>1, <1>2, <1>3, WritersStay
<1>11. \A d \in Camps, w \in {"pair", "cache"} : <<w, d>> \in cut => <<w, d>> \in cut'
  BY <1>1
<1>12. \A d \in Camps : KeyKept(d)'
  BY <1>1, <1>2, <1>3, <1>11, KeysStay
<1>13. TrustKept'
  BY <1>1, <1>2, <1>3, <1>11, CampsFacts, TrustStays
<1>14. ASSUME NEW d \in Camps PROVE ListKept(d)'
  <2> SUFFICES ASSUME <<"list", d>> \notin raced, ListOf(d) PROVE ListOf(d)'
    BY <1>1 DEF CampsInv, ListKept
  <2>1. Exists(d)' <=> Exists(d)
    BY <1>1 DEF Exists
  <2>2. p \in Writers /\ (d \in command[p].seen <=> d \in listed)
    BY <1>2, <1>3 DEF ListOf, Writers, Passes
  <2>3. CASE d # c \/ t = Use3
    <3>1. d \in listed' <=> d \in listed
      <4>1. CASE d # c
        BY <1>1, <2>2, <4>1
      <4>2. CASE d = c /\ t = Use3
        <5>1. IsAt(p, d, Starting \cup Using)
          BY <1>0, <1>2, <1>3, <4>2 DEF IsAt, Passes
        <5>2. Step(p) # "unlist"
          BY <1>2, <1>3, <4>2
        <5> QED
          BY <1>1, <4>2, <5>1, <5>2 DEF ListOf
      <4> QED
        BY <2>3, <4>1, <4>2
    <3>2. <<"list", d>> \in cut => <<"list", d>> \in cut'
      BY <1>1, <1>2, <2>3
    <3>3. ASSUME NEW q \in Programs
          PROVE  /\ IsAt(q, d, Unlisted)' <=> IsAt(q, d, Unlisted)
                 /\ IsAt(q, d, Unlisting)' <=> IsAt(q, d, Unlisting)
                 /\ IsAt(q, d, Forgetting)' => IsAt(q, d, Forgetting)
                 /\ IsAt(q, d, Starting \cup Using)' => IsAt(q, d, Starting \cup Using)
                 /\ IsAt(q, d, Listing)' <=> IsAt(q, d, Listing)
                 /\ HasAny(q, d)' => HasAny(q, d)
                 /\ q \in Writers' => q \in Writers /\ command'[q].seen = command[q].seen
      <4>1. Add7 # Use3 /\ Forget4 # Use3
        BY ClassesAre
      <4>2. CASE q = p
        BY <1>0, <1>1, <1>2, <1>3, <2>3, <4>1, <4>2 DEF Passes, IsAt, HasAny, Writers
      <4>3. CASE q # p
        BY <1>1, <1>2, <3>3, <4>3 DEF Passes, IsAt, HasAny, Writers
      <4> QED
        BY <4>2, <4>3
    <3> QED
      BY <1>1, <2>1, <3>1, <3>2, <3>3, CampsFacts, ListStays
  <2>4. CASE d = c /\ t \in {Add7, Forget4}
    <3>1. ASSUME NEW q \in Programs, q # p PROVE q \notin Writers'
      <4>1. q \in Writers' => q \in Writers
        BY <1>2, <3>1 DEF Passes, Writers
      <4> QED
        BY <1>0, <2>2, <2>4, <3>1, <4>1 DEF CampsInv, WritersRace
    <3>2. ASSUME NEW S PROVE AllDone \notin S => ~IsAt(p, d, S)'
      BY <1>2 DEF IsAt, Passes
    <3>3. p \notin Writers'
      BY <1>2, <1>3 DEF Writers, Passes
    <3>4. HasAny(p, d)
      BY <1>0, <2>4 DEF HasAny
    <3>5. \A q \in Programs \ {p} : command'[q] = command[q] /\ ~IsAt(q, d, Forgetting)
      BY <1>2, <3>4 DEF ListOf, Passes
    <3>6. CASE t = Add7
      <4>1. d \in listed' /\ Exists(d)
        <5>1. IsAt(p, d, Unlisted)
          BY <1>0, <1>2, <1>3, <2>4, <3>6 DEF IsAt, Passes
        <5>2. Add7 # Forget4
          BY ClassesAre
        <5> QED
          BY <1>1, <1>2, <2>4, <3>6, <5>1, <5>2 DEF ListOf
      <4>2. \A q \in Programs : ~IsAt(q, d, Forgetting)' /\ ~IsAt(q, d, Unlisting)'
        BY <1>3, <3>2, <3>5 DEF IsAt, Forgetting
      <4> QED
        BY <2>1, <3>1, <3>3, <4>1, <4>2 DEF ListOf
    <3>7. CASE t = Forget4
      <4>1. p = "cli" /\ IsAt(p, d, Forgetting) /\ IsAt(p, d, Unlisting)
        BY <1>0, <1>2, <1>3, <2>4, <3>7 DEF IsAt, Passes, CampsInv, CampsTyped, CommandTyped
      <4>2. d \notin listed' /\ ~Exists(d)
        BY <1>1, <1>2, <2>4, <3>7, <4>1 DEF ListOf
      <4>3. \A q \in Programs \ {p} : command'[q].camp # d /\ loaded'[q][d] = "none"
        BY <1>1, <3>5, <4>1 DEF ListOf, HasAny
      <4>4. \A q \in Programs : /\ ~IsAt(q, d, Unlisted)' /\ ~IsAt(q, d, Starting \cup Using)'
                                /\ ~IsAt(q, d, Forgetting)'
        BY <1>3, <3>2, <4>3 DEF IsAt
      <4>5. loaded'["helper"][d] = "none"
        BY <4>1, <4>3, CampsFacts
      <4> QED
        BY <2>1, <3>1, <3>3, <4>2, <4>4, <4>5 DEF ListOf
    <3> QED
      BY <2>4, <3>6, <3>7
  <2> QED
    BY <2>3, <2>4
<1> QED
  BY <1>5, <1>6, <1>8, <1>9, <1>10, <1>12, <1>13, <1>14 DEF CampsInv

\* A command is issued.
LEMMA IssueIs ==
  ASSUME CampsInv, NEW p \in Programs, NEW c \in Camps, NEW u \in Scripts, NEW key \in Nat,
         Issue(p, c, u, key)
  PROVE  /\ command' \in [Programs -> CommandRecord]
         /\ Passes(p, AllDone, u)
         /\ command'[p].camp = c /\ command'[p].key = key /\ command'[p].seen = {}
         /\ command[p].camp = 0
         /\ raced' = IF RemovedBesides(p, c, u) THEN raced \cup {<<"list", c>>} ELSE raced
<1>1. command \in [Programs -> CommandRecord]
  BY CampsFacts DEF FilesTyped
<1> DEFINE new == [NoCommand EXCEPT !.todo = u, !.camp = c, !.key = key]
<1>2. /\ new.todo = u /\ new.camp = c /\ new.key = key /\ new.seen = {}
      /\ new \in CommandRecord
  BY DEF NoCommand, CommandRecord
<1>3. command' = [command EXCEPT ![p] = new] /\ command[p] = NoCommand
  BY DEF Issue
<1>4. NoCommand.todo = AllDone /\ NoCommand.camp = 0
  BY DEF NoCommand, AllDone
<1> HIDE DEF new
<1>5. command' \in [Programs -> CommandRecord] /\ command'[p] = new
  BY <1>1, <1>2, <1>3
<1>6. \A q \in Programs \ {p} : command'[q] = command[q]
  BY <1>1, <1>3
<1>7. Passes(p, AllDone, u)
  BY <1>2, <1>3, <1>4, <1>5, <1>6 DEF Passes
<1> QED
  BY <1>2, <1>3, <1>4, <1>5, <1>7 DEF Issue

\* Any command but a creation may be issued for a camp that is not just being created; one
\* but a joining for a camp that is on the disk or was removed.
LEMMA IssueInv ==
  ASSUME CampsInv, NEW p \in Programs, NEW c \in Camps,
         NEW u \in {Add1, Add3, Use1, Use2, Forget1, Load1, Save1}, NEW key \in Nat,
         Issue(p, c, u, key), UNCHANGED <<rosters, fileVars, priv, pub, oldKey, running>>,
         UNCHANGED <<loaded, removed, cut>>,
         madeKeys' \in Nat, madeKeys <= madeKeys', key <= madeKeys',
         u = Add1 => /\ key = FreshKey /\ ~Met(c)
                     /\ \A q \in Programs : command[q].camp # c,
         u # Add1 => key = 0 /\ \A q \in Programs : ~IsAt(q, c, Creating),
         u \in Using \cup {Forget1, Load1} => c \in listed,
         u = Forget1 => p = "cli",
         u \in {Load1, Save1} => p = "helper",
         u = Save1 => loaded[p][c] # "none"
  PROVE  CampsInv'
<1> USE DEF rosters, fileVars
<1>1. /\ UNCHANGED <<listed, config, flat, cache, priv, pub, oldKey, running>>
      /\ UNCHANGED <<loaded, removed, cut>>
  OBVIOUS
<1>2. u \in Scripts
  BY DEF Scripts, KeyScripts, Using
<1>3. /\ command' \in [Programs -> CommandRecord]
      /\ Passes(p, AllDone, u)
      /\ command'[p].camp = c /\ command'[p].key = key /\ command'[p].seen = {}
      /\ command[p].camp = 0
      /\ raced' = IF RemovedBesides(p, c, u) THEN raced \cup {<<"list", c>>} ELSE raced
  BY <1>2, IssueIs
<1>4. /\ {AllDone, u} \cap (KeyMoved \cup ToMove \cup Halfway) = {}
      /\ {AllDone, u} \cap (Saving \cup Writing \cup Unlisted \cup Unlisting \cup Listing) = {}
      /\ AllDone \notin Making \cup Creating \cup Forgetting \cup Starting \cup Using
      /\ u \in Making <=> u = Add1
      /\ u \in Creating <=> u = Add1
      /\ u \in Forgetting <=> u = Forget1
      /\ u \in Starting <=> u \in {Load1, Save1}
      /\ u \in Using <=> u \in {Use1, Use2}
      /\ u \in WithLoaded <=> u = Save1
      /\ {AllDone, u} \cap {Add4} = {}
  <2>1. /\ {Add3, Use1, Use2, Forget1, Load1, Save1} \cap {Add1} = {}
        /\ {Add1, Add3, Use1, Use2, Load1, Save1} \cap {Forget1} = {}
        /\ {Add1, Add3, Use1, Use2, Forget1} \cap {Load1, Save1} = {}
        /\ {Add1, Add3, Forget1, Load1, Save1} \cap {Use1, Use2} = {}
    BY ClassesAre
  <2>2. {Add1, Add3, Use1, Use2, Forget1, Load1} \cap {Save1} = {}
    BY ClassesAre
  <2>3. {Add1, Add3, Use1, Use2, Forget1, Load1, Save1, AllDone} \cap {Add4} = {}
    BY ClassesAre
  <2> QED
    BY <2>1, <2>2, <2>3, ClassesAre
<1>5. CampsTyped'
  <2>1. FilesTyped'
    <3>1. 0..madeKeys \subseteq 0..madeKeys'
      BY CampsFacts DEF FilesTyped
    <3> QED
      BY <1>1, <1>3, <3>1, CampsFacts DEF FilesTyped
  <2>2. CommandTyped(p)'
    <3>1. command'[p].todo = u /\ command'[p].camp = c /\ c # 0 /\ command'[p].key = key
      BY <1>3, CampsFacts DEF Passes
    <3> QED
      BY <1>1, <1>4, <3>1 DEF CommandTyped
  <2>3. \A q \in Programs \ {p} : loaded'[q] = loaded[q]
    BY <1>1
  <2> QED
    BY <1>1, <1>3, <2>1, <2>2, <2>3, CommandsStayTyped
<1>6. KeysApart'
  <2>1. \A d \in Camps \ {c} : KeysOf(d)' \subseteq KeysOf(d)
    BY <1>1, <1>3 DEF KeysOf, Passes
  <2>2. CASE u = Add1
    <3>1. KeysOf(c)' \subseteq KeysOf(c) \cup {FreshKey}
      BY <1>1, <1>3, <2>2 DEF KeysOf, Passes
    <3> QED
      BY <2>1, <3>1, FreshKeysApart
  <2>3. CASE u # Add1
    <3>1. KeysOf(c)' \subseteq KeysOf(c)
      BY <1>1, <1>3, <2>3 DEF KeysOf, Passes
    <3> QED
      BY <2>1, <3>1, KeysStayApart
  <2> QED
    BY <2>2, <2>3
<1>7. \A d \in Camps : Met(d)' <=> Met(d)
  BY <1>1 DEF Met, KnownCamp
<1>8. \A d \in Camps : \A S : ~IsAt(p, d, S)
  BY <1>3, CampsFacts DEF IsAt
<1>9. MetWhenUsed'
  <2>1. ASSUME u \notin {Add1, Add3} PROVE Met(c)
    <3>1. c \in listed \/ loaded[p][c] # "none"
      BY <2>1 DEF Using
    <3> QED
      BY <1>8, <3>1 DEF CampsInv, MetWhenUsed
  <2>2. ASSUME NEW d \in Camps, IsAt(p, d, Unlisted \cup Using \cup Forgetting \cup Starting)'
        PROVE  Met(d)'
    <3>1. d = c /\ u \in Using \cup Forgetting \cup Starting
      BY <1>3, <1>4, <2>2 DEF IsAt, Passes
    <3>2. u \notin {Add1, Add3}
      BY <3>1, ClassesAre
    <3> QED
      BY <1>7, <2>1, <3>1, <3>2
  <2>3. ASSUME NEW d \in Camps, loaded'[p][d] # "none"
        PROVE  loaded[p][d] # "none" /\ ~IsAt(p, d, {Add4})
    BY <1>1, <1>8, <2>3
  <2> QED
    BY <1>1, <1>3, <1>7, <2>2, <2>3, MetStays
<1>10. NewAlone'
  <2> SUFFICES ASSUME NEW q \in Programs, NEW d \in Camps, IsAt(q, d, Creating)'
               PROVE  /\ ~Met(d)' /\ command'[q].key # 0
                      /\ \A r \in Programs \ {q} : command'[r].camp # d
    BY DEF NewAlone
  <2>1. CASE q = p
    <3>1. d = c /\ u = Add1
      BY <1>3, <1>4, <2>1 DEF IsAt, Passes
    <3>2. key # 0
      BY <3>1, CampsFacts DEF FreshKey, FilesTyped
    <3> QED
      BY <1>3, <1>7, <2>1, <3>1, <3>2 DEF Passes
  <2>2. CASE q # p
    <3>1. command'[q] = command[q] /\ IsAt(q, d, Creating)
      BY <1>3, <2>2 DEF IsAt, Passes
    <3>2. d # c
      BY <3>1 DEF IsAt
    <3>3. ~Met(d) /\ command[q].key # 0 /\ \A r \in Programs \ {q} : command[r].camp # d
      BY <3>1 DEF CampsInv, NewAlone
    <3> QED
      BY <1>3, <1>7, <3>1, <3>2, <3>3 DEF Passes
  <2> QED
    BY <2>1, <2>2
<1>11. WritersRace'
  BY <1>3, <1>4, WritersStay
<1>12. \A d \in Camps : KeyKept(d)'
  <2>1. CASE u # Add1
    BY <1>1, <1>3, <1>4, <2>1, KeysStay
  <2>2. CASE u = Add1
    <3> SUFFICES ASSUME NEW d \in Camps, KeyOf(d) PROVE KeyOf(d)'
      BY <1>1 DEF CampsInv, KeyKept
    <3>1. CASE d = c
      BY <1>1, <2>2, <3>1 DEF CampsInv, MetWhenUsed, KeyOf
    <3>2. CASE d # c
      <4>1. \A q \in Programs : \A S : IsAt(q, d, S)' <=> IsAt(q, d, S)
        BY <1>3, <1>8, <3>2 DEF IsAt, Passes
      <4>2. \A q \in Programs : IsAt(q, d, ToMove) \/ IsAt(q, d, Halfway) =>
                                  command'[q].key = command[q].key
        BY <1>3, <1>8 DEF Passes
      <4> QED
        BY <1>1, <4>1, <4>2 DEF KeyOf
    <3> QED
      BY <3>1, <3>2
  <2> QED
    BY <2>1, <2>2
<1>13. TrustKept'
  <2>1. \A q \in Programs : loaded'[q][1] \in {"none", loaded[q][1]}
    BY <1>1
  <2>2. UNCHANGED fileVars /\ removed \subseteq removed' /\ raced \subseteq raced'
    BY <1>1, <1>3
  <2> QED
    BY <1>1, <1>3, <1>4, <2>1, <2>2, TrustStays
<1>14. ASSUME NEW d \in Camps PROVE ListKept(d)'
  <2> SUFFICES ASSUME <<"list", d>> \notin raced', ListOf(d) PROVE ListOf(d)'
    BY <1>1, <1>3 DEF CampsInv, ListKept
  <2>1. Exists(d)' <=> Exists(d)
    BY <1>1 DEF Exists
  <2>2. ASSUME NEW q \in Programs
        PROVE  /\ IsAt(q, d, Unlisted)' <=> IsAt(q, d, Unlisted)
               /\ IsAt(q, d, Unlisting)' <=> IsAt(q, d, Unlisting)
               /\ IsAt(q, d, Listing)' <=> IsAt(q, d, Listing)
               /\ q \in Writers' => q \in Writers /\ command'[q].seen = command[q].seen
    <3>1. CASE q = p
      BY <1>3, <1>4, <1>8, <3>1 DEF IsAt, Passes, Writers
    <3>2. CASE q # p
      BY <1>3, <2>2, <3>2 DEF IsAt, Passes, Writers
    <3> QED
      BY <3>1, <3>2
  <2>3. CASE d # c
    <3>1. ASSUME NEW q \in Programs
          PROVE  /\ IsAt(q, d, Forgetting)' => IsAt(q, d, Forgetting)
                 /\ IsAt(q, d, Starting \cup Using)' => IsAt(q, d, Starting \cup Using)
                 /\ HasAny(q, d)' => HasAny(q, d)
      BY <1>1, <1>3, <2>3, <3>1 DEF IsAt, Passes, HasAny
    <3> QED
      BY <1>1, <2>1, <2>2, <3>1, CampsFacts, ListStays
  <2>4. CASE d = c
    <3>1. ~RemovedBesides(p, c, u)
      BY <1>3, <2>4
    <3>2. ASSUME NEW q \in Programs, IsAt(q, d, Forgetting)'
          PROVE  \A r \in Programs \ {q} : ~HasAny(r, d)'
      <4>1. CASE q = p
        <5>1. Ends(u, "unlist")
          BY <1>2, <1>3, <3>2, <4>1, EndsAre DEF IsAt, Passes
        <5> QED
          BY <1>1, <1>3, <2>4, <3>1, <4>1, <5>1 DEF RemovedBesides, HasAny, Passes
      <4>2. CASE q # p
        <5>1. command[q].camp = c /\ command[q].todo \in Forgetting /\ command[q].todo \in Scripts
          BY <1>3, <2>4, <3>2, <4>2, CampsFacts DEF IsAt, Passes, FilesTyped, CommandRecord
        <5>2. Removes(q)
          BY <5>1, EndsAre DEF Removes
        <5> QED
          BY <3>1, <4>2, <5>1, <5>2 DEF RemovedBesides
      <4> QED
        BY <4>1, <4>2
    <3>3. ASSUME NEW q \in Programs, IsAt(q, d, Starting \cup Using)' PROVE d \in listed'
      <4>1. CASE q = p
        <5>1. u \in Starting \cup Using
          BY <1>3, <3>3, <4>1 DEF IsAt, Passes
        <5>2. CASE u = Save1
          BY <1>1, <1>8, <2>4, <5>2, CampsFacts DEF ListOf
        <5>3. CASE u # Save1
          BY <1>1, <1>4, <2>4, <5>1, <5>3
        <5> QED
          BY <5>2, <5>3
      <4>2. CASE q # p
        BY <1>1, <1>3, <3>3, <4>2 DEF ListOf, IsAt, Passes
      <4> QED
        BY <4>1, <4>2
    <3>4. ASSUME NEW q \in Programs
          PROVE  /\ IsAt(q, d, Unlisted)' => Exists(d)'
                 /\ IsAt(q, d, Unlisting)' => ~Exists(d)'
                 /\ q \in Writers' => (d \in command'[q].seen <=> d \in listed')
      BY <1>1, <2>1, <2>2, <3>4 DEF ListOf
    <3>5. loaded'["helper"][d] # "none" /\ ~IsAt("helper", d, Listing)' => d \in listed'
      BY <1>1, <2>2, CampsFacts DEF ListOf
    <3>6. \/ <<"list", d>> \in cut'
          \/ \E q \in Programs : IsAt(q, d, Unlisted)' \/ IsAt(q, d, Unlisting)'
          \/ d \in listed' <=> Exists(d)'
      BY <1>1, <2>1, <2>2 DEF ListOf
    <3> QED
      BY <3>2, <3>3, <3>4, <3>5, <3>6 DEF ListOf
  <2> QED
    BY <2>3, <2>4
<1> QED
  BY <1>5, <1>6, <1>9, <1>10, <1>11, <1>12, <1>13, <1>14 DEF CampsInv

\* The commands.
LEMMA CommandInv ==
  ASSUME CampsInv, NEW p \in Programs, NEW c \in Camps,
         \/ CreateCamp(p, c) \/ JoinCamp(p, c) \/ UseCamp(p, c)
         \/ ForgetCamp(c) \/ LoadForStart(c) \/ UpdateCamp(c)
  PROVE  CampsInv'
<1> USE DEF keyVars
<1>1. 0 \in Nat /\ madeKeys \in Nat /\ madeKeys <= madeKeys /\ 0 <= madeKeys
  BY CampsFacts DEF FilesTyped
<1>2. ASSUME NEW q \in Programs, Met(c) PROVE ~IsAt(q, c, Creating)
  BY <1>2 DEF CampsInv, NewAlone
<1>3. c \in listed => Met(c)
  BY DEF CampsInv, MetWhenUsed
<1>4. \A u \in {Add3, Use1, Use2, Forget1, Load1, Save1} : u # Add1
  BY ClassesAre
<1>5. CASE CreateCamp(p, c)
  <2>1. Issue(p, c, Add1, FreshKey)
    BY <1>5 DEF CreateCamp, Add1
  <2>2. ~Met(c)
    BY <1>5 DEF CreateCamp, Met
  <2>3. FreshKey \in Nat /\ madeKeys' = FreshKey /\ madeKeys <= FreshKey /\ FreshKey <= FreshKey
    BY <1>1, <1>5 DEF CreateCamp, FreshKey
  <2>4. Add1 \notin Using \cup {Forget1, Load1, Save1}
    BY <1>4, ClassesAre
  <2>5. /\ UNCHANGED <<rosters, fileVars, priv, pub, oldKey, running>>
        /\ UNCHANGED <<loaded, removed, cut>>
        /\ \A q \in Programs : command[q].camp # c
    BY <1>5 DEF CreateCamp
  <2> QED
    BY <2>1, <2>2, <2>3, <2>4, <2>5, IssueInv
<1>6. CASE JoinCamp(p, c)
  <2>1. Issue(p, c, Add3, 0)
    BY <1>6 DEF JoinCamp, Add3
  <2>2. ASSUME NEW q \in Programs, IsAt(q, c, Creating) PROVE FALSE
    <3>1. command[q].camp = c /\ command[q].todo \in {Add1, Add2} /\ command[q].key # 0
      BY <2>2 DEF IsAt, Creating, CampsInv, NewAlone
    <3>2. command[q].todo \in Scripts
      BY CampsFacts DEF FilesTyped, CommandRecord
    <3>3. Creates(q)
      BY <3>1, <3>2, EndsAre DEF Creates
    <3> QED
      BY <1>6, <3>1, <3>3 DEF JoinCamp
  <2>3. Add3 \notin Using \cup {Forget1, Load1, Save1}
    BY ClassesAre
  <2>4. UNCHANGED <<rosters, fileVars, keyVars, loaded, removed, cut>>
    BY <1>6 DEF JoinCamp
  <2> QED
    BY <1>1, <1>4, <2>1, <2>2, <2>3, <2>4, IssueInv
<1>7. CASE UseCamp(p, c)
  <2>1. PICK u \in {Use1, Use2} : Issue(p, c, u, 0)
    BY <1>7 DEF UseCamp, Use1, Use2
  <2>2. u \notin {Forget1, Load1, Save1}
    BY <2>1, ClassesAre
  <2>3. UNCHANGED <<rosters, fileVars, keyVars, loaded, removed, cut>> /\ c \in listed
    BY <1>7 DEF UseCamp
  <2> QED
    BY <1>1, <1>2, <1>3, <1>4, <2>1, <2>2, <2>3, IssueInv
<1>8. CASE ForgetCamp(c)
  <2>1. Issue("cli", c, Forget1, 0)
    BY <1>8 DEF ForgetCamp, Forget1
  <2>2. Forget1 \notin {Load1, Save1}
    BY ClassesAre
  <2>3. UNCHANGED <<rosters, fileVars, keyVars, loaded, removed, cut>> /\ c \in listed
    BY <1>8 DEF ForgetCamp
  <2> QED
    BY <1>1, <1>2, <1>3, <1>4, <2>1, <2>2, <2>3, CampsFacts, IssueInv
<1>9. CASE LoadForStart(c)
  <2>1. Issue("helper", c, Load1, 0)
    BY <1>9 DEF LoadForStart, Load1
  <2>2. Load1 \notin {Forget1, Save1}
    BY ClassesAre
  <2>3. UNCHANGED <<rosters, fileVars, keyVars, loaded, removed, cut>> /\ c \in listed
    BY <1>9 DEF LoadForStart
  <2> QED
    BY <1>1, <1>2, <1>3, <1>4, <2>1, <2>2, <2>3, CampsFacts, IssueInv
<1>10. CASE UpdateCamp(c)
  <2>1. Issue("helper", c, Save1, 0) /\ loaded["helper"][c] # "none"
    BY <1>10 DEF UpdateCamp, Save1
  <2>2. Save1 \notin Using \cup {Forget1, Load1}
    BY ClassesAre
  <2>3. UNCHANGED <<rosters, fileVars, keyVars, loaded, removed, cut>>
    BY <1>10 DEF UpdateCamp
  <2>4. Met(c)
    <3>1. command["helper"].camp = 0
      BY <2>1, CampsFacts, IssueIs DEF Scripts
    <3>2. ~IsAt("helper", c, {Add4})
      BY <3>1, CampsFacts DEF IsAt
    <3> QED
      BY <2>1, <3>2, CampsFacts DEF CampsInv, MetWhenUsed
  <2> QED
    BY <1>1, <1>2, <1>4, <2>1, <2>2, <2>3, <2>4, CampsFacts, IssueInv
<1> QED
  BY <1>5, <1>6, <1>7, <1>8, <1>9, <1>10

LEMMA CommandEndsInv == ASSUME CampsInv, NEW p \in Programs, CommandEnds(p) PROVE CampsInv'
<1> USE DEF rosters, fileVars, keyVars, campsHistory
<1>1. /\ command' = [command EXCEPT ![p] = NoCommand] /\ command[p].todo = AllDone
      /\ loaded' = IF p = "cli" THEN [loaded EXCEPT ![p] = [c \in Camps |-> "none"]] ELSE loaded
      /\ UNCHANGED <<listed, config, flat, cache, priv, pub, oldKey, madeKeys, running>>
      /\ UNCHANGED <<removed, cut, raced>>
  BY DEF CommandEnds, AllDone
<1>2. /\ command' \in [Programs -> CommandRecord] /\ Passes(p, AllDone, AllDone)
      /\ command'[p] = NoCommand /\ command'[p].camp = 0 /\ command'[p].seen = {}
  <2>1. /\ NoCommand.todo = AllDone /\ NoCommand.camp = 0 /\ NoCommand.seen = {}
        /\ NoCommand \in CommandRecord
    BY DEF NoCommand, AllDone, CommandRecord, Scripts
  <2>2. command \in [Programs -> CommandRecord]
    BY CampsFacts DEF FilesTyped
  <2>3. command'[p] = NoCommand /\ \A q \in Programs \ {p} : command'[q] = command[q]
    BY <1>1, <2>2
  <2>4. command' \in [Programs -> CommandRecord]
    BY <1>1, <2>1, <2>2
  <2> QED
    BY <1>1, <2>1, <2>3, <2>4 DEF Passes
<1>3. /\ loaded' \in [Programs -> [Camps -> {"none", "empty", "trusts"}]]
      /\ \A q \in Programs \ {p} : loaded'[q] = loaded[q]
      /\ \A q \in Programs, d \in Camps : loaded'[q][d] \in {"none", loaded[q][d]}
      /\ loaded'["helper"] = loaded["helper"]
  BY <1>1, CampsFacts DEF FilesTyped
<1>4. /\ {AllDone} \cap (KeyMoved \cup ToMove \cup Halfway \cup Making) = {}
      /\ {AllDone} \cap (Creating \cup Saving \cup Starting \cup WithLoaded \cup {Add4}) = {}
      /\ AllDone \notin Unlisted \cup Unlisting \cup Forgetting \cup Using \cup Listing \cup Writing
  BY ClassesAre
<1>5. CampsTyped'
  <2>1. FilesTyped'
    BY <1>1, <1>2, <1>3, CampsFacts DEF FilesTyped
  <2>2. CommandTyped(p)'
    BY <1>1, <1>2, <1>4, CampsFacts DEF CommandTyped, Passes, NoCommand, FilesTyped
  <2>3. madeKeys <= madeKeys' /\ removed \subseteq removed'
    BY <1>1, CampsFacts DEF FilesTyped
  <2> QED
    BY <1>2, <1>3, <2>1, <2>2, <2>3, CommandsStayTyped
<1>6. KeysApart'
  <2>1. \A d \in Camps : KeysOf(d)' \subseteq KeysOf(d)
    BY <1>1, <1>2, CampsFacts DEF KeysOf, Passes
  <2> QED
    BY <2>1, KeysStayApart
<1>7. \A d \in Camps : Met(d)' <=> Met(d)
  BY <1>1 DEF Met, KnownCamp
<1>8. \A d \in Camps : \A S : ~IsAt(p, d, S)'
  BY <1>2, CampsFacts DEF IsAt
<1>9. MetWhenUsed'
  <2>1. ASSUME NEW d \in Camps, loaded'[p][d] # "none"
        PROVE  loaded[p][d] # "none" /\ ~IsAt(p, d, {Add4})
    BY <1>2, <1>3, <1>4, <2>1 DEF IsAt, Passes
  <2> QED
    BY <1>1, <1>2, <1>3, <1>7, <1>8, <2>1, MetStays
<1>10. NewAlone'
  BY <1>2, <1>4, <1>7, CampsFacts, NewStaysAlone
<1>11. WritersRace'
  BY <1>1, <1>2, <1>4, WritersStay
<1>12. \A d \in Camps : KeyKept(d)'
  BY <1>1, <1>2, <1>4, KeysStay
<1>13. TrustKept'
  <2>1. \A q \in Programs : loaded'[q][1] \in {"none", loaded[q][1]}
    BY <1>3, CampsFacts
  <2>2. UNCHANGED fileVars /\ removed \subseteq removed' /\ raced \subseteq raced'
    BY <1>1
  <2> QED
    BY <1>1, <1>2, <1>4, <2>1, <2>2, TrustStays
<1>14. ASSUME NEW d \in Camps PROVE ListKept(d)'
  <2> SUFFICES ASSUME ListOf(d) PROVE ListOf(d)'
    BY <1>1 DEF CampsInv, ListKept
  <2>1. Exists(d)' <=> Exists(d)
    BY <1>1 DEF Exists
  <2>2. ASSUME NEW q \in Programs
        PROVE  /\ IsAt(q, d, Unlisted)' <=> IsAt(q, d, Unlisted)
               /\ IsAt(q, d, Unlisting)' <=> IsAt(q, d, Unlisting)
               /\ IsAt(q, d, Listing)' <=> IsAt(q, d, Listing)
               /\ IsAt(q, d, Forgetting)' => IsAt(q, d, Forgetting)
               /\ IsAt(q, d, Starting \cup Using)' => IsAt(q, d, Starting \cup Using)
               /\ q \in Writers' => q \in Writers /\ command'[q].seen = command[q].seen
               /\ HasAny(q, d)' => HasAny(q, d)
    <3>1. CASE q = p
      BY <1>2, <1>3, <1>4, <1>8, <3>1, CampsFacts DEF IsAt, Passes, Writers, HasAny
    <3>2. CASE q # p
      BY <1>2, <1>3, <2>2, <3>2 DEF IsAt, Passes, Writers, HasAny
    <3> QED
      BY <3>1, <3>2
  <2> QED
    BY <1>1, <1>3, <2>1, <2>2, CampsFacts, ListStays
<1> QED
  BY <1>5, <1>6, <1>9, <1>10, <1>11, <1>12, <1>13, <1>14 DEF CampsInv

LEMMA ProgramEndsInv == ASSUME CampsInv, NEW p \in Programs, ProgramEnds(p) PROVE CampsInv'
<1> USE DEF rosters, fileVars
<1>0. PICK c \in {0} \cup Camps : c = command[p].camp
  BY CampsFacts DEF FilesTyped, CommandRecord
<1>t. PICK t \in Scripts : t = command[p].todo
  BY CampsFacts DEF FilesTyped, CommandRecord
<1>s. Step(p) = First(t)
  BY <1>t DEF Step, First
<1>1. /\ command' = [command EXCEPT ![p] = NoCommand]
      /\ loaded' = [loaded EXCEPT ![p] = [d \in Camps |-> "none"]]
      /\ \/ UNCHANGED <<priv, pub>>
         \/ Step(p) = "priv" /\ priv' = [priv EXCEPT ![c] = Torn] /\ UNCHANGED pub
         \/ Step(p) = "pub" /\ pub' = [pub EXCEPT ![c] = Torn] /\ UNCHANGED priv
      /\ cut' = cut \cup {<<w, c>> : w \in OpenWindows(p)}
      /\ UNCHANGED <<listed, config, flat, cache, oldKey, madeKeys, running, removed, raced>>
  BY <1>0 DEF ProgramEnds
<1>2. /\ command' \in [Programs -> CommandRecord] /\ Passes(p, t, AllDone)
      /\ command'[p] = NoCommand /\ command'[p].camp = 0 /\ command'[p].seen = {}
  <2>1. /\ NoCommand.todo = AllDone /\ NoCommand.camp = 0 /\ NoCommand.seen = {}
        /\ NoCommand \in CommandRecord
    BY DEF NoCommand, AllDone, CommandRecord, Scripts
  <2>2. command \in [Programs -> CommandRecord]
    BY CampsFacts DEF FilesTyped
  <2>3. command'[p] = NoCommand /\ \A q \in Programs \ {p} : command'[q] = command[q]
    BY <1>1, <2>2
  <2>4. command' \in [Programs -> CommandRecord]
    BY <1>1, <2>1, <2>2
  <2> QED
    BY <1>t, <2>1, <2>3, <2>4 DEF Passes
<1>3. /\ loaded' \in [Programs -> [Camps -> {"none", "empty", "trusts"}]]
      /\ \A q \in Programs \ {p} : loaded'[q] = loaded[q]
      /\ \A d \in Camps : loaded'[p][d] = "none"
  BY <1>1, CampsFacts DEF FilesTyped
<1>4. /\ {AllDone} \cap (KeyMoved \cup ToMove \cup Halfway \cup Making) = {}
      /\ {AllDone} \cap (Creating \cup Saving \cup Starting \cup WithLoaded \cup {Add4}) = {}
      /\ AllDone \notin Unlisted \cup Unlisting \cup Forgetting \cup Using \cup Listing \cup Writing
  BY ClassesAre
<1>5. /\ priv' \in [Camps -> (0..madeKeys) \cup {Torn}] /\ pub' \in [Camps -> (0..madeKeys) \cup {Torn}]
      /\ \A d \in Camps : /\ priv'[d] \in {priv[d], Torn} /\ pub'[d] \in {pub[d], Torn}
                          /\ d # c => priv'[d] = priv[d] /\ pub'[d] = pub[d]
      /\ Step(p) # "pub" => pub' = pub
  <2>1. /\ priv \in [Camps -> (0..madeKeys) \cup {Torn}]
        /\ pub \in [Camps -> (0..madeKeys) \cup {Torn}]
    BY CampsFacts DEF FilesTyped
  <2>2. CASE UNCHANGED <<priv, pub>>
    BY <2>1, <2>2
  <2>3. CASE Step(p) = "priv" /\ priv' = [priv EXCEPT ![c] = Torn] /\ UNCHANGED pub
    BY <2>1, <2>3
  <2>4. CASE Step(p) = "pub" /\ pub' = [pub EXCEPT ![c] = Torn] /\ UNCHANGED priv
    BY <2>1, <2>4
  <2> QED
    BY <1>1, <2>2, <2>3, <2>4
<1>6. CampsTyped'
  <2>1. FilesTyped'
    BY <1>1, <1>2, <1>3, <1>5, CampsFacts DEF FilesTyped
  <2>2. CommandTyped(p)'
    BY <1>1, <1>2, <1>4, CampsFacts DEF CommandTyped, Passes, NoCommand, FilesTyped
  <2>3. madeKeys <= madeKeys' /\ removed \subseteq removed'
    BY <1>1, CampsFacts DEF FilesTyped
  <2> QED
    BY <1>2, <1>3, <2>1, <2>2, <2>3, CommandsStayTyped
<1>7. KeysApart'
  <2>1. \A d \in Camps : KeysOf(d)' \subseteq KeysOf(d)
    BY <1>1, <1>2, <1>5, CampsFacts DEF KeysOf, Passes
  <2> QED
    BY <2>1, KeysStayApart
<1>8. \A d \in Camps : Met(d)' <=> Met(d)
  BY <1>1 DEF Met, KnownCamp
<1>9. \A d \in Camps : \A S : ~IsAt(p, d, S)'
  BY <1>2, CampsFacts DEF IsAt
<1>10. MetWhenUsed'
  BY <1>1, <1>2, <1>3, <1>8, <1>9, MetStays
<1>11. NewAlone'
  BY <1>2, <1>4, <1>8, CampsFacts, NewStaysAlone
<1>12. WritersRace'
  BY <1>1, <1>2, <1>4, WritersStay
\* Half a key pair is one that the crash hit.
<1>13. ASSUME NEW d \in Camps PROVE KeyKept(d)'
  <2> SUFFICES ASSUME <<"pair", d>> \notin cut', KeyOf(d) PROVE KeyOf(d)'
    BY <1>1 DEF CampsInv, KeyKept
  <2>1. priv'[d] = priv[d] /\ pub'[d] = pub[d] /\ ~IsAt(p, d, Halfway)
    <3>1. CASE d = c
      <4>1. "pair" \notin OpenWindows(p)
        BY <1>1, <3>1
      <4>2. Step(p) # "pub" /\ priv' = priv
        BY <4>1 DEF OpenWindows
      <4>3. t \notin Halfway
        BY <1>s, <4>2, FirstIs DEF Halfway
      <4> QED
        BY <1>2, <1>5, <4>2, <4>3 DEF IsAt, Passes
    <3>2. CASE d # c
      BY <1>0, <1>5, <3>2 DEF IsAt
    <3> QED
      BY <3>1, <3>2
  <2>2. ASSUME NEW q \in Programs, q # p
        PROVE  command'[q] = command[q] /\ \A S : IsAt(q, d, S)' <=> IsAt(q, d, S)
    BY <1>2, <2>2 DEF IsAt, Passes
  <2>3. /\ \A q \in Programs : IsAt(q, d, KeyMoved)' => IsAt(q, d, KeyMoved)
        /\ \A q \in Programs : IsAt(q, d, ToMove)' => IsAt(q, d, ToMove)
        /\ \A q \in Programs : IsAt(q, d, Making)' => IsAt(q, d, Making)
        /\ \A q \in Programs : IsAt(q, d, Halfway)' <=> IsAt(q, d, Halfway)
        /\ \A q \in Programs : IsAt(q, d, ToMove)' \/ IsAt(q, d, Halfway)' =>
                                 command'[q].key = command[q].key
    BY <1>9, <2>1, <2>2
  <2> QED
    BY <1>1, <2>1, <2>3 DEF KeyOf
\* So is the first cache that was not written.
<1>14. TrustKept'
  <2> SUFFICES ASSUME 1 \notin removed', ~Hit("cache", 1)' PROVE TrustOf'
    BY DEF TrustKept
  <2>1. TrustOf /\ <<"cache", 1>> \notin cut'
    BY <1>1 DEF Hit, CampsInv, TrustKept
  <2>2. IsAt(p, 1, Saving) => OnDisk
    <3> SUFFICES ASSUME IsAt(p, 1, Saving) PROVE OnDisk
      OBVIOUS
    <3>1. c = 1 /\ t \in Saving
      BY <1>0, <1>t DEF IsAt
    <3>2. Step(p) = "cache"
      BY <1>s, <3>1, FirstIs DEF Saving
    <3>3. "cache" \notin OpenWindows(p)
      BY <1>1, <2>1, <3>1
    <3>4. cache[1] # "none"
      BY <1>0, <3>1, <3>2, <3>3 DEF OpenWindows
    <3> QED
      BY <2>1, <3>4, CampsFacts DEF TrustOf, OnDisk, FilesTyped
  <2>3. ASSUME NEW q \in Programs, q # p, IsAt(q, 1, Saving) PROVE IsAt(q, 1, Saving)'
    BY <1>2, <2>3 DEF IsAt, Passes
  <2>4. OnDisk' \/ \E q \in Programs : IsAt(q, 1, Saving)'
    <3>1. OnDisk' <=> OnDisk
      BY <1>1 DEF OnDisk
    <3> QED
      BY <2>1, <2>2, <2>3, <3>1 DEF TrustOf
  <2>5. \A q \in Programs : loaded'[q][1] # "empty"
    BY <1>3, <2>1, CampsFacts DEF TrustOf
  <2> QED
    BY <1>1, <2>1, <2>4, <2>5 DEF TrustOf, KnownCamp
<1>15. ASSUME NEW d \in Camps PROVE ListKept(d)'
  <2> SUFFICES ASSUME ListOf(d) PROVE ListOf(d)'
    BY <1>1 DEF CampsInv, ListKept
  <2>1. Exists(d)' <=> Exists(d)
    BY <1>1 DEF Exists
  <2>2. ASSUME NEW q \in Programs
        PROVE  /\ IsAt(q, d, Unlisted)' => IsAt(q, d, Unlisted)
               /\ IsAt(q, d, Unlisting)' => IsAt(q, d, Unlisting)
               /\ IsAt(q, d, Forgetting)' => IsAt(q, d, Forgetting)
               /\ IsAt(q, d, Starting \cup Using)' => IsAt(q, d, Starting \cup Using)
               /\ q \in Writers' => q \in Writers /\ command'[q].seen = command[q].seen
               /\ HasAny(q, d)' => HasAny(q, d)
    <3>1. CASE q = p
      BY <1>2, <1>3, <1>4, <1>9, <3>1, CampsFacts DEF Passes, Writers, HasAny
    <3>2. CASE q # p
      BY <1>2, <1>3, <2>2, <3>2 DEF IsAt, Passes, Writers, HasAny
    <3> QED
      BY <3>1, <3>2
  <2>3. \/ <<"list", d>> \in cut'
        \/ ~IsAt(p, d, Unlisted) /\ ~IsAt(p, d, Unlisting)
    <3> SUFFICES ASSUME <<"list", d>> \notin cut', IsAt(p, d, Unlisted) \/ IsAt(p, d, Unlisting)
                 PROVE  FALSE
      OBVIOUS
    <3>1. c = d /\ t \in Unlisted \cup Unlisting
      BY <1>0, <1>t DEF IsAt
    <3>2. "list" \notin OpenWindows(p)
      BY <1>1, <3>1
    <3>3. /\ Step(p) \notin {"list", "unlist"}
          /\ Ends(t, "list") => Step(p) \notin {"cache", "readList"}
          /\ Ends(t, "unlist") => Step(p) \notin {"rmOldKey", "readList"}
      BY <1>t, <3>2 DEF OpenWindows, Removes
    <3>4. CASE t \in Unlisted
      BY <1>s, <3>3, <3>4, FirstIs, EndsAre DEF Unlisted
    <3>5. CASE t \in Unlisting
      BY <1>s, <3>3, <3>5, FirstIs, EndsAre DEF Unlisting, Forgetting
    <3> QED
      BY <3>1, <3>4, <3>5
  <2>4. \/ <<"list", d>> \in cut'
        \/ \E q \in Programs : IsAt(q, d, Unlisted)' \/ IsAt(q, d, Unlisting)'
        \/ d \in listed' <=> Exists(d)'
    <3>1. CASE <<"list", d>> \in cut \/ <<"list", d>> \in cut'
      BY <1>1, <3>1
    <3>2. CASE \E q \in Programs : /\ IsAt(q, d, Unlisted) \/ IsAt(q, d, Unlisting)
                                   /\ <<"list", d>> \notin cut'
      <4>1. PICK q \in Programs : q # p /\ (IsAt(q, d, Unlisted) \/ IsAt(q, d, Unlisting))
        BY <2>3, <3>2
      <4>2. command'[q] = command[q]
        BY <1>2, <4>1 DEF Passes
      <4> QED
        BY <4>1, <4>2 DEF IsAt
    <3>3. CASE d \in listed <=> Exists(d)
      BY <1>1, <2>1, <3>3
    <3> QED
      BY <3>1, <3>2, <3>3 DEF ListOf
  <2>5. loaded'["helper"][d] # "none" /\ ~IsAt("helper", d, Listing)' => d \in listed'
    <3>1. CASE p = "helper"
      BY <1>3, <3>1
    <3>2. CASE p # "helper"
      <4>1. loaded'["helper"] = loaded["helper"] /\ command'["helper"] = command["helper"]
        BY <1>2, <1>3, <3>2, CampsFacts DEF Passes
      <4> QED
        BY <1>1, <4>1 DEF ListOf, IsAt
    <3> QED
      BY <3>1, <3>2
  <2>6. ASSUME NEW q \in Programs
        PROVE  /\ IsAt(q, d, Unlisted)' => Exists(d)'
               /\ IsAt(q, d, Unlisting)' => ~Exists(d)'
               /\ IsAt(q, d, Starting \cup Using)' => d \in listed'
               /\ IsAt(q, d, Forgetting)' => \A r \in Programs \ {q} : ~HasAny(r, d)'
               /\ q \in Writers' => (d \in command'[q].seen <=> d \in listed')
    BY <1>1, <2>1, <2>2, <2>6 DEF ListOf
  <2> QED
    BY <2>4, <2>5, <2>6 DEF ListOf
<1> QED
  BY <1>6, <1>7, <1>10, <1>11, <1>12, <1>13, <1>14, <1>15 DEF CampsInv

LEMMA CampsInitInv == CampsInit => CampsInv
<1> SUFFICES ASSUME CampsInit PROVE CampsInv
  OBVIOUS
<1> USE DEF CampsInit
<1>1. /\ NoCommand \in CommandRecord /\ NoCommand.todo = AllDone
      /\ NoCommand.camp = 0 /\ NoCommand.key = 0 /\ NoCommand.seen = {}
      /\ 0 \notin Camps /\ 1 \in Camps
      /\ \A p \in Programs : command[p] = NoCommand
  BY CampsAssumption DEF NoCommand, CommandRecord, Scripts, AllDone
<1>2. FilesTyped
  BY <1>1 DEF FilesTyped, Torn
<1>3. \A p \in Programs : CommandTyped(p)
  BY <1>1, ClassesAre DEF CommandTyped
<1>4. KeysApart
  <2>1. ASSUME NEW c \in Camps, c # 1 PROVE KeysOf(c) = {}
    <3>1. priv[c] = 0 /\ oldKey[c] = 0 /\ \A p \in Programs : command[p].camp # c
      BY <1>1, <2>1
    <3> QED
      BY <3>1 DEF KeysOf
  <2>2. \A c, d \in Camps : c # d => KeysOf(c) = {} \/ KeysOf(d) = {}
    BY <2>1
  <2> QED
    BY <2>2 DEF KeysApart
<1>5. \A p \in Programs, c \in Camps : \A S : ~IsAt(p, c, S)
  BY <1>1 DEF IsAt
<1>6. MetWhenUsed
  BY <1>1, <1>5 DEF MetWhenUsed, Met, KnownCamp
<1>7. NewAlone
  BY <1>5 DEF NewAlone
<1>8. Writers = {}
  BY <1>1, ClassesAre DEF Writers
<1>9. TrustOf
  BY <1>1, <1>5 DEF TrustOf, OnDisk, KnownCamp
<1>10. ASSUME NEW c \in Camps PROVE KeyOf(c)
  BY <1>1, <1>5 DEF KeyOf, Torn
<1>11. ASSUME NEW c \in Camps PROVE ListOf(c)
  BY <1>1, <1>5, <1>8 DEF ListOf, Exists, Programs
<1> QED
  BY <1>2, <1>3, <1>4, <1>6, <1>7, <1>8, <1>9, <1>10, <1>11
     DEF CampsInv, CampsTyped, WritersRace, TrustKept, KeyKept, ListKept

LEMMA CampsStepInv == CampsInv /\ [CampsNext]_campsVars => CampsInv'
<1>1. ASSUME CampsInv, CampsNext PROVE CampsInv'
  <2>1. CASE \E c \in Camps : \/ \E p \in Programs : CreateCamp(p, c) \/ JoinCamp(p, c) \/ UseCamp(p, c)
                              \/ ForgetCamp(c) \/ LoadForStart(c) \/ UpdateCamp(c)
    BY <1>1, <2>1, CommandInv, CampsFacts
  <2>2. ASSUME NEW p \in Programs,
               \/ LoadConfig(p) \/ SaveConfig(p) \/ SaveCache(p) \/ ReadList(p) \/ SaveList(p)
               \/ Migrate(p) \/ SavePriv(p) \/ SavePub(p) \/ RemoveOldKey(p) \/ LoadKey(p)
               \/ RemoveCamp(p) \/ CommandEnds(p) \/ ProgramEnds(p)
        PROVE  CampsInv'
    BY <1>1, <2>2, LoadConfigInv, SaveConfigInv, SaveCacheInv, ReadListInv, SaveListInv, MigrateInv,
       SavePrivInv, SavePubInv, RemoveOldKeyInv, LoadKeyInv, RemoveCampInv, CommandEndsInv,
       ProgramEndsInv
  <2> QED
    BY <1>1, <2>1, <2>2 DEF CampsNext
<1>2. ASSUME CampsInv, UNCHANGED campsVars PROVE CampsInv'
  <2> USE <1>2 DEF campsVars, rosters, fileVars, keyVars, campsHistory
  <2>1. FilesTyped' /\ \A p \in Programs : CommandTyped(p)'
    BY DEF CampsInv, CampsTyped, FilesTyped, CommandTyped
  <2>2. KeysApart'
    BY DEF CampsInv, KeysApart, KeysOf
  <2>3. MetWhenUsed'
    BY DEF CampsInv, MetWhenUsed, Met, KnownCamp, IsAt
  <2>4. NewAlone'
    BY DEF CampsInv, NewAlone, Met, KnownCamp, IsAt
  <2>5. WritersRace'
    BY DEF CampsInv, WritersRace, Writers
  <2>6. TrustKept'
    BY DEF CampsInv, TrustKept, TrustOf, OnDisk, KnownCamp, IsAt, Hit
  <2>7. \A c \in Camps : KeyKept(c)'
    BY DEF CampsInv, KeyKept, KeyOf, IsAt
  <2>8. \A c \in Camps : ListKept(c)'
    BY DEF CampsInv, ListKept, ListOf, Exists, HasAny, Writers, IsAt
  <2> QED
    BY <2>1, <2>2, <2>3, <2>4, <2>5, <2>6, <2>7, <2>8 DEF CampsInv, CampsTyped
<1> QED
  BY <1>1, <1>2

\* Commands of two processes without a common lock, and crashes at any file, lose neither
\* the trust nor the key of a camp, nor a camp from the list (persistCampLocked,
\* LoadOrGenerate, markKnown), for any number of camps, commands and crashes: but for a
\* camp that was removed, and for one that a crash or the other process hit within a
\* window of Windows, where the code does lose it.
THEOREM CampsDoSurvive == CampsSpec => CampsSurvive
<1> DEFINE Kept == \A c \in Camps :
                     running[c] # 0 /\ running'[c] # running[c] => c \in removed \/ Hit("pair", c)
<1>1. CampsInv => TrustIsKept /\ ListFollows
  <2> SUFFICES ASSUME CampsInv PROVE TrustIsKept /\ ListFollows
    OBVIOUS
  <2>1. TrustIsKept
    BY CampsFacts DEF CampsInv, TrustKept, TrustIsKept, TrustOf, OnDisk, IsAt
  <2>2. ASSUME command = [p \in Programs |-> NoCommand], NEW c \in Camps, ~Hit("list", c)
        PROVE  c \in listed <=> config[c] # "none" \/ c \in flat \ removed
    <3>1. \A p \in Programs : \A S : ~IsAt(p, c, S)
      BY <2>2, CampsFacts DEF NoCommand, IsAt
    <3> QED
      BY <2>2, <3>1 DEF CampsInv, ListKept, ListOf, Exists, Hit
  <2> QED
    BY <2>1, <2>2 DEF ListFollows
<1>2. CampsInv /\ [CampsNext]_campsVars => [Kept]_campsVars
  <2> SUFFICES ASSUME CampsInv, CampsNext, NEW c \in Camps, running[c] # 0, c \notin removed,
                      ~Hit("pair", c)
               PROVE  running'[c] = running[c]
    OBVIOUS
  <2> USE DEF keyVars
  <2>1. ASSUME NEW p \in Programs, LoadKey(p) PROVE running'[c] = running[c]
    <3>0. /\ \/ running' = [running EXCEPT ![command[p].camp] = priv[command[p].camp]]
             \/ UNCHANGED running
          /\ running \in [Camps -> 0..madeKeys]
      BY <2>1, CampsFacts DEF LoadKey, FilesTyped
    <3>1. CASE command[p].camp # c
      BY <3>0, <3>1
    <3>2. CASE command[p].camp = c
      <4>1. command[p].todo = ReadKey
        BY <2>1, StepDoneIs, FirstIs DEF LoadKey
      <4>2. IsAt(p, c, KeyMoved)
        BY <3>2, <4>1, ClassesAre DEF IsAt
      <4>3. priv[c] = running[c]
        BY <4>2 DEF CampsInv, KeyKept, KeyOf, Hit
      <4> QED
        BY <3>0, <3>2, <4>3
    <3> QED
      BY <3>1, <3>2
  <2>2. CASE \E d \in Camps : \/ \E p \in Programs : CreateCamp(p, d) \/ JoinCamp(p, d) \/ UseCamp(p, d)
                              \/ ForgetCamp(d) \/ LoadForStart(d) \/ UpdateCamp(d)
    BY <2>2 DEF CreateCamp, JoinCamp, UseCamp, ForgetCamp, LoadForStart, UpdateCamp
  <2>3. ASSUME NEW p \in Programs,
               \/ LoadConfig(p) \/ SaveConfig(p) \/ SaveCache(p) \/ ReadList(p) \/ SaveList(p)
               \/ Migrate(p) \/ SavePriv(p) \/ SavePub(p) \/ RemoveOldKey(p)
               \/ RemoveCamp(p) \/ CommandEnds(p) \/ ProgramEnds(p)
        PROVE  UNCHANGED running
    BY <2>3 DEF LoadConfig, SaveConfig, SaveCache, ReadList, SaveList, Migrate, SavePriv, SavePub,
         RemoveOldKey, RemoveCamp, CommandEnds, ProgramEnds
  <2> QED
    BY <2>1, <2>2, <2>3 DEF CampsNext
<1> QED
  BY <1>1, <1>2, CampsInitInv, CampsStepInv, PTL DEF CampsSpec, CampsSurvive, IdentityIsKept

-----------------------------------------------------------------------------
(* All of them.                                                            *)

\* What the types of OIDC and of the camps ask for is in their invariants.
LEMMA OidcIsTyped == OidcInv => OidcTypeOK
<1> SUFFICES ASSUME OidcInv PROVE OidcTypeOK
  OBVIOUS
<1>1. Cardinality(edits) <= 1
  <2>1. CASE edits = {}
    BY <2>1, FS_EmptySet
  <2>2. CASE edits # {}
    <3>1. PICK e \in edits : edits = {e}
      BY <2>2 DEF OidcInv, OneEditAtATime
    <3>2. Cardinality({e}) = 1
      BY FS_Singleton
    <3> QED
      BY <3>1, <3>2
  <2> QED
    BY <2>1, <2>2
<1>2. saved = registry
  BY DEF OidcInv, OneEditAtATime
<1>3. \A c \in CodeIds : codes[c] \in {0, signedIn[c]} /\ signedIn[c] \in 0..MaxSignIns
  <2>1. \A c \in CodeIds : signedIn[c] \in {0} \cup SignIns
    BY OidcFacts
  <2>2. {0} \cup SignIns \subseteq 0..MaxSignIns
    BY OidcAssumption DEF SignIns
  <2> QED
    BY <2>1, <2>2 DEF OidcInv, OneTokenPerCode
<1>4. \A f \in finishing : f.code # 0 => signedIn[f.code] = f.session
  BY DEF OidcInv, CodesAreFinished
<1> QED
  BY <1>1, <1>2, <1>3, <1>4, OidcFacts DEF OidcTypeOK

LEMMA CampsAreTyped == CampsInv => CampsTypeOK
<1> SUFFICES ASSUME CampsInv PROVE CampsTypeOK
  OBVIOUS
<1>1. \A c, d \in Camps : priv[c] \notin {0, Torn} /\ priv[c] = priv[d] => c = d
  BY DEF CampsInv, KeysApart, KeysOf
<1>2. \A c \in Camps : {priv[c], pub[c], oldKey[c], running[c]} \subseteq (0..madeKeys) \cup {Torn}
  BY CampsFacts DEF FilesTyped
<1> QED
  BY <1>1, <1>2, CampsFacts DEF FilesTyped, CampsTypeOK

\* A step of the services is, to each of them, a step or none.
LEMMA ServicesSteps ==
  [ServicesNext]_ServiceVars =>
    /\ [TunnelNext]_tunnelVars /\ [DropNext]_dropVars /\ [SfuNext]_sfuVars
    /\ [DnsNext]_dnsVars /\ [PkiNext]_pkiVars
    /\ [EgressNext]_egressVars /\ [SecretsNext]_secretVars /\ [CallsNext]_callVars
    /\ [OidcNext]_oidcVars /\ [CampsNext]_campsVars
<1> SUFFICES ASSUME [ServicesNext]_ServiceVars
             PROVE  /\ [TunnelNext]_tunnelVars /\ [DropNext]_dropVars /\ [SfuNext]_sfuVars
                    /\ [DnsNext]_dnsVars /\ [PkiNext]_pkiVars
                    /\ [EgressNext]_egressVars /\ [SecretsNext]_secretVars
                    /\ [CallsNext]_callVars /\ [OidcNext]_oidcVars /\ [CampsNext]_campsVars
  OBVIOUS
<1>1. CASE UNCHANGED ServiceVars
  BY <1>1 DEF ServiceVars, MediaVars, StoreVars
<1>2. CASE ServicesNext /\ UNCHANGED StoreVars
  BY <1>2 DEF ServicesNext, Of, StoreVars, MediaVars
<1>3. CASE ServicesNext /\ UNCHANGED MediaVars
  BY <1>3 DEF ServicesNext, Of, StoreVars, MediaVars
<1> QED
  BY <1>1, <1>2, <1>3 DEF ServicesNext

\* All that the parts keep; a behaviour of the services is, to each of them, one of
\* its own.
MediaInv == TunnelInv /\ DropInv /\ SfuInv /\ SfuTypes /\ DnsInv /\ PkiInv
StoreInv == EgressInv /\ SecretsInv /\ SecretsTypes /\ CallsInv /\ OidcInv /\ CampsInv

LEMMA ServicesHold == ServicesSpec => [](MediaInv /\ StoreInv)
<1>1. ServicesInit => MediaInv /\ StoreInv
  BY TunnelInitInv, DropInitInv, SfuInitInv, SfuTypesInit, DnsInitInv, PkiInitInv,
     EgressInitInv, SecretsInitInv, SecretsTypesInit, CallsInitInv, OidcInitInv, CampsInitInv
     DEF ServicesInit, MediaInv, StoreInv
<1>2. MediaInv /\ [ServicesNext]_ServiceVars => MediaInv'
  BY ServicesSteps, TunnelStepInv, DropStepInv, SfuStepInv, SfuTypesStep, DnsStepInv, PkiStepInv
     DEF MediaInv
<1>3. StoreInv /\ [ServicesNext]_ServiceVars => StoreInv'
  BY ServicesSteps, EgressStepInv, SecretsStepInv, SecretsTypesStep, CallsStepInv, OidcStepInv,
     CampsStepInv DEF StoreInv
<1> QED
  BY <1>1, <1>2, <1>3, PTL DEF ServicesSpec

\* Whichever of the services runs, all of them stay in states of their types.
THEOREM ServicesTypes == ServicesSpec => []ServicesTypeOK
<1>1. MediaInv /\ StoreInv => ServicesTypeOK
  BY SfuIsTyped, SecretsAreTyped, OidcIsTyped, CampsAreTyped
     DEF MediaInv, StoreInv, ServicesTypeOK, TunnelInv, DropInv, DnsInv, PkiInv, EgressInv, CallsInv
<1> QED
  BY <1>1, ServicesHold, PTL

\* The loops of drop, of DNS and of the trust store do nothing that the user did
\* not ask for, whatever they meet on the way (drop.go, catalog.go, pki.go).
THEOREM OnlyAsked == ServicesSpec => []OnlyWhatWasAskedFor
<1>1. MediaInv => OnlyWhatWasAskedFor
  BY DEF MediaInv, OnlyWhatWasAskedFor, DropInv, DnsInv, PkiInv
<1> QED
  BY <1>1, ServicesHold, PTL

=============================================================================
