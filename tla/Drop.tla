--------------------------------- MODULE Drop ---------------------------------
(***************************************************************************)
(* services/drop: one file that a source peer seeds and a block refers to, *)
(* and the download of it here.  The download is worked on by the user, by *)
(* the torrent client, by the refeed loop of the running client and of the *)
(* ones before it, and by what a start restores; it is judged by a copy of *)
(* the source's catalog that a poller keeps.                               *)
(*                                                                         *)
(* The torrent library is external: it fetches from a peer it was fed,     *)
(* and having lost the peer it does not try again by itself.  A download   *)
(* is fed the peers on its record only: those that whoever added it named. *)
(***************************************************************************)
EXTENDS Naturals

CONSTANTS
  Changes,   \* bound: what source, user and engine do besides downloading
  Misses     \* bound: dials that the library misses

ASSUME DropAssumption == Changes \in Nat /\ Misses \in Nat

VARIABLES
  client,    \* drop.Service.client is set
  loading,   \* Client.loading: the download of the file, if any
  dropDisk,  \* the file in downloads/
  restore,   \* where the restoring of a start is
  loop,      \* where refeedActiveDownloads is, and the record it re-adds with
  ghost,     \* an earlier client still holds the download, without metadata, but
             \* with the source on record
  catalog,   \* peerFiles[source]
  poll,      \* the answer pollOnce has yet to store
  source,    \* the source peer
  referenced, \* a block refers to the file
  asked,     \* the user has asked for the file
  changes, misses

ours == <<client, loading, dropDisk, restore, loop, ghost, asked>>
theirs == <<source, referenced>>
polled == <<catalog, poll>>
dropVars == <<ours, theirs, polled, changes, misses>>

\* known: the source is among Download.Peers.
Downloads == [info : BOOLEAN, done : BOOLEAN, fed : BOOLEAN, known : BOOLEAN]

\* The loop looks around, or is about to do what it has decided.
Plans == [step : {"idle", "retire", "drop", "add"}, known : BOOLEAN]
Looking == [step |-> "idle", known |-> FALSE]

DropInit ==
  /\ client = TRUE /\ loading = {} /\ dropDisk = "none"
  /\ restore = "done" /\ loop = Looking /\ ghost = FALSE
  /\ catalog = "unpolled" /\ poll = "none"
  /\ source = [online |-> TRUE, seeds |-> FALSE, file |-> FALSE]
  /\ referenced = FALSE /\ asked = FALSE
  /\ changes = Changes /\ misses = Misses

Change == changes > 0 /\ changes' = changes - 1 /\ UNCHANGED misses

-----------------------------------------------------------------------------
(* The source.                                                             *)

\* The upload is seeded and a block comes to refer to it (Share).
ShareFile ==
  /\ Change /\ source.online
  /\ source' = [source EXCEPT !.seeds = TRUE, !.file = TRUE]
  /\ referenced' = TRUE
  /\ UNCHANGED <<ours, polled>>

\* RemoveSeed leaves the file; the file goes and pruneOnce drops the seed; the
\* block is deleted.
Unshare ==
  /\ Change /\ source.online /\ source.seeds
  /\ \/ source' = [source EXCEPT !.seeds = FALSE] /\ UNCHANGED referenced
     \/ source' = [source EXCEPT !.seeds = FALSE, !.file = FALSE] /\ UNCHANGED referenced
     \/ referenced' = FALSE /\ UNCHANGED source
  /\ UNCHANGED <<ours, polled>>

Lost == {[d EXCEPT !.fed = FALSE] : d \in loading}

\* It goes; and back again it seeds what is in uploads/ (rescanSharedDir).
SourceToggles ==
  /\ Change
  /\ source' = [source EXCEPT !.online = ~@,
                              !.seeds = ~source.online /\ source.file]
  /\ loading' = IF source.online THEN Lost ELSE loading
  /\ UNCHANGED <<client, dropDisk, restore, loop, ghost, asked, referenced, polled>>

\* The bus handler's catalog: what is seeded and a block refers to.
ListedFiles == IF source.seeds /\ referenced THEN "lists" ELSE "lacks"

\* pollOnce: an online source answers, and the answer is stored.
PollAsk ==
  /\ source.online /\ poll = "none"
  /\ poll' = ListedFiles
  /\ UNCHANGED <<ours, theirs, catalog, changes, misses>>

Stored == poll

PollStore ==
  /\ poll # "none"
  /\ catalog' = Stored /\ poll' = "none"
  /\ UNCHANGED <<ours, theirs, changes, misses>>

-----------------------------------------------------------------------------
(* The download.                                                           *)

\* AddDownload of the client: the library's torrent as it is, or a new one, in
\* a new entry with the peers given now, which it is fed.
DownloadAdded(known) ==
  IF loading = {} THEN {[info |-> FALSE, done |-> FALSE, fed |-> known, known |-> known]}
  ELSE {[d EXCEPT !.fed = @ \/ known, !.known = known] : d \in loading}

\* The user's names the source.
AddDownload ==
  /\ Change /\ client /\ referenced
  /\ loading' = DownloadAdded(TRUE) /\ asked' = TRUE
  /\ UNCHANGED <<client, dropDisk, restore, loop, ghost, theirs, polled>>

RemoveDownload ==
  /\ Change /\ client
  /\ loading' = {}
  /\ UNCHANGED <<client, dropDisk, restore, loop, ghost, asked, theirs, polled>>

DeleteFile ==
  /\ Change /\ dropDisk # "none"
  /\ dropDisk' = "none"
  /\ UNCHANGED <<client, loading, restore, loop, ghost, asked, theirs, polled>>

\* The library gets the metadata, then the bytes that are not on the disk.
GetInfo ==
  /\ \E d \in loading :
       /\ ~d.info /\ d.fed /\ source.online /\ source.seeds
       /\ loading' = {[d EXCEPT !.info = TRUE]}
  /\ dropDisk' = IF dropDisk = "none" THEN "part" ELSE dropDisk
  /\ UNCHANGED <<client, restore, loop, ghost, asked, theirs, polled, changes, misses>>

GetBytes ==
  /\ \E d \in loading :
       /\ d.info /\ ~d.done
       /\ dropDisk = "full" \/ (d.fed /\ source.online /\ source.seeds)
       /\ loading' = {[d EXCEPT !.done = TRUE]}
  /\ dropDisk' = "full"
  /\ UNCHANGED <<client, restore, loop, ghost, asked, theirs, polled, changes, misses>>

MissDial ==
  /\ misses > 0 /\ misses' = misses - 1
  /\ loading # {} /\ loading' = Lost
  /\ UNCHANGED <<client, dropDisk, restore, loop, ghost, asked, theirs, polled, changes>>

\* The download's own goroutine feeds it again for a while.
Nudge ==
  /\ \E d \in loading : ~d.info /\ d.known /\ loading' = {[d EXCEPT !.fed = TRUE]}
  /\ UNCHANGED <<client, dropDisk, restore, loop, ghost, asked, theirs, polled, changes, misses>>

-----------------------------------------------------------------------------
(* The loops.                                                              *)

\* metadataVerdict: no metadata, and a source on record is online and, as far as
\* was polled, does not list the file.
Zombie(d) == ~d.info /\ d.known /\ source.online /\ catalog = "lacks"

\* Fed again: any that is not complete and has someone on record, but without
\* metadata only when the source is online.
Feedable(d) == ~d.done /\ d.known /\ (d.info \/ source.online)

\* refeedActiveDownloads looks at the download: it retires it, or drops and
\* re-adds one that made no progress, or feeds it.
Refeed ==
  /\ client /\ loop = Looking
  /\ \E d \in loading :
       \/ /\ Zombie(d)
          /\ loop' = [step |-> "retire", known |-> FALSE] /\ UNCHANGED loading
       \/ /\ d.info /\ ~d.done /\ ~(d.fed /\ source.online /\ source.seeds)
          /\ loop' = [step |-> "drop", known |-> d.known] /\ UNCHANGED loading
       \/ /\ ~Zombie(d) /\ Feedable(d)
          /\ loading' = {[d EXCEPT !.fed = source.online]} /\ UNCHANGED loop
  /\ UNCHANGED <<client, dropDisk, restore, ghost, asked, theirs, polled, changes, misses>>

\* Whatever has happened since.  The removal of a retired one is by its hash, in
\* the client that is running by now; one is added again with its old record.
RefeedAct ==
  /\ \/ loop.step = "retire" /\ loading' = {} /\ loop' = Looking
     \/ loop.step = "drop" /\ loading' = {} /\ loop' = [loop EXCEPT !.step = "add"]
     \/ loop.step = "add" /\ loading' = DownloadAdded(loop.known) /\ loop' = Looking
  /\ UNCHANGED <<client, dropDisk, restore, ghost, asked, theirs, polled, changes, misses>>

\* The loop of an earlier client goes on, with the download it held.
GhostRefeed ==
  /\ ghost /\ source.online /\ catalog = "lacks"
  /\ loading # {} /\ loading' = {}
  /\ UNCHANGED <<client, dropDisk, restore, loop, ghost, asked, theirs, polled, changes, misses>>

\* pruneOnce: complete, and its file is gone.
Prune ==
  /\ \E d \in loading : d.done /\ dropDisk = "none"
  /\ loading' = {}
  /\ UNCHANGED <<client, dropDisk, restore, loop, ghost, asked, theirs, polled, changes, misses>>

-----------------------------------------------------------------------------
(* The engine restarts.                                                    *)

DropStop ==
  /\ Change /\ client
  /\ client' = FALSE /\ loading' = {} /\ restore' = "done"
  /\ loop' = IF loop.step = "retire" THEN loop ELSE Looking
  /\ ghost' = (ghost \/ \E d \in loading : ~d.info /\ d.known)
  /\ UNCHANGED <<dropDisk, asked, theirs, polled>>

DropStart ==
  /\ ~client /\ client' = TRUE
  /\ restore' = "due"
  /\ UNCHANGED <<loading, dropDisk, loop, ghost, asked, theirs, polled, changes, misses>>

\* Faulty variant: whatever is referenced.
RestorableAll == referenced

Restorable == referenced /\ dropDisk # "none"

\* restoreReferenced: the peers that are online now,
RestoreBegin ==
  /\ restore = "due"
  /\ restore' = IF source.online THEN "known" ELSE "unknown"
  /\ UNCHANGED <<client, loading, dropDisk, loop, ghost, asked, theirs, polled, changes, misses>>

\* are the record of what it adds, for good.
Restore ==
  /\ restore \in {"known", "unknown"} /\ restore' = "done"
  /\ loading' = IF Restorable THEN DownloadAdded(restore = "known") ELSE loading
  /\ UNCHANGED <<client, dropDisk, loop, ghost, asked, theirs, polled, changes, misses>>

DropNext ==
  \/ ShareFile \/ Unshare \/ SourceToggles \/ PollAsk \/ PollStore
  \/ AddDownload \/ RemoveDownload \/ DeleteFile
  \/ GetInfo \/ GetBytes \/ MissDial \/ Nudge
  \/ Refeed \/ RefeedAct \/ GhostRefeed \/ Prune
  \/ DropStop \/ DropStart \/ RestoreBegin \/ Restore

DropSpec == DropInit /\ [][DropNext]_dropVars

\* Tickers tick, calls return, and the library fetches from a peer it was fed.
DropFairness ==
  /\ WF_dropVars(PollAsk) /\ WF_dropVars(PollStore)
  /\ WF_dropVars(GetInfo) /\ WF_dropVars(GetBytes)
  /\ WF_dropVars(Refeed) /\ WF_dropVars(RefeedAct)
  /\ WF_dropVars(DropStart) /\ WF_dropVars(RestoreBegin) /\ WF_dropVars(Restore)

-----------------------------------------------------------------------------

\* Every variable holds what its Go counterpart can hold; the file has one
\* download at most.
DropTypeOK ==
  /\ client \in BOOLEAN /\ ghost \in BOOLEAN /\ referenced \in BOOLEAN /\ asked \in BOOLEAN
  /\ loading \subseteq Downloads /\ \A d, e \in loading : d = e
  /\ dropDisk \in {"none", "part", "full"}
  /\ restore \in {"done", "due", "known", "unknown"}
  /\ loop \in Plans
  /\ catalog \in {"unpolled", "lists", "lacks"} /\ poll \in {"none", "lists", "lacks"}
  /\ source \in [online : BOOLEAN, seeds : BOOLEAN, file : BOOLEAN]
  /\ changes \in 0..Changes /\ misses \in 0..Misses

\* A file that the user never asked for is not fetched, however often the engine
\* restarts: a start restores what has left bytes on the disk.
NeverUnasked == loading # {} \/ dropDisk # "none" => asked

\* Once the source stays and shares the file, what is downloaded with the source on
\* its record gets complete, whatever dials were missed and whoever dropped and
\* re-added it.  One that a start restored while the source was offline has nobody
\* on record and stays as it is, until the user adds it again.
DownloadsFinish ==
  <>[](source.online /\ source.seeds /\ referenced)
    => []<>(\A d \in loading : d.known => d.done)

\* Once the source stays and does not share the file any more, a download that
\* still waits for the metadata, with the source on its record, is retired.
ZombiesGo ==
  <>[](source.online /\ ~source.seeds) => []<>(\A d \in loading : d.known => d.info)
===============================================================================
