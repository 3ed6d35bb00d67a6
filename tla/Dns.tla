---------------------------------- MODULE Dns ----------------------------------
(***************************************************************************)
(* services/dns, with the gate of services/proxy: one label of the camp's  *)
(* zone, as this node publishes it, and as a peer publishes it to the      *)
(* members of a channel.  The peer's catalog is mirrored in memory and in  *)
(* the camp's config by a poller, from which a start seeds the memory; the *)
(* health of this node's own name is probed by a ticker.  The user and the *)
(* engine change things in between.                                        *)
(*                                                                         *)
(* The peer has a row in the catalog.  Pins are in module Tunnel.          *)
(***************************************************************************)
EXTENDS Naturals

CONSTANT DnsChanges  \* bound: what user, peer and engine do

ASSUME DnsAssumption == DnsChanges \in Nat

VARIABLES
  server,    \* the DNS server is up
  published, \* the peer publishes the label
  allowed,   \* this node is a member of one of its channels
  online,    \* the peer is online
  mirror,    \* peerDoms has the label for the peer
  dnsStored, \* PeerCatalog has it
  polling,   \* where pollOnce is
  heard,     \* what the peer has answered
  seed,      \* what a start has read of the label in the config and not set yet
  removingName, \* RemovePeerDomain has changed the config and not the memory yet
  own,       \* MyDomains has the label
  backend,   \* what this node's own name stands for can be dialed
  health,    \* the health of the own name, if known
  probe,     \* what checkOnce has found and not stamped yet, if it has
  dropped,   \* whether the user has removed the label of the peer, offline ever since
  dnsChanges

peerSide == <<published, allowed, online>>
userSide == <<removingName, dropped>>
mirrored == <<mirror, dnsStored, polling, heard, seed, userSide>>
ownSide == <<own, backend, health, probe>>
dnsVars == <<server, peerSide, mirrored, ownSide, dnsChanges>>

DnsInit ==
  /\ server = TRUE
  /\ published = FALSE /\ allowed = TRUE /\ online = TRUE
  /\ mirror = FALSE /\ dnsStored = FALSE /\ polling = "idle" /\ heard = FALSE
  /\ seed = {} /\ removingName = FALSE /\ dropped = "no"
  /\ own = FALSE /\ backend = FALSE /\ health = {} /\ probe = {}
  /\ dnsChanges = DnsChanges

DnsChange == dnsChanges > 0 /\ dnsChanges' = dnsChanges - 1

-----------------------------------------------------------------------------
(* The peer's names.                                                       *)

\* The peer's domainsHandler: the names with a channel the asking node is in.
\* Its proxy lets in whom it tells (domainAllowed).
Visible == published /\ allowed

\* SetMyDomains at the peer, a change of the channel, the peer's comings and
\* goings.
PeerChanges ==
  /\ DnsChange
  /\ \/ published' = ~published /\ UNCHANGED <<allowed, online, dropped>>
     \/ allowed' = ~allowed /\ UNCHANGED <<published, online, dropped>>
     \/ online' = ~online /\ dropped' = "no" /\ UNCHANGED <<published, allowed>>
  /\ UNCHANGED <<server, mirror, dnsStored, polling, heard, seed, removingName, ownSide>>

\* pollOnce: an online peer answers; the answer is stored, then mirrored.
FetchDomains ==
  /\ online /\ polling = "idle"
  /\ polling' = "store" /\ heard' = Visible
  /\ UNCHANGED <<server, peerSide, mirror, dnsStored, seed, userSide, ownSide, dnsChanges>>

Upsert == heard

StoreDomains ==
  /\ polling = "store"
  /\ dnsStored' = heard /\ polling' = "mirror"
  /\ UNCHANGED <<server, peerSide, mirror, heard, seed, userSide, ownSide, dnsChanges>>

MirrorDomains ==
  /\ polling = "mirror"
  /\ mirror' = Upsert /\ polling' = "idle"
  /\ UNCHANGED <<server, peerSide, dnsStored, heard, seed, userSide, ownSide, dnsChanges>>

\* RemovePeerDomain: what is stored decides whether the memory is touched, which
\* comes later.
StoredAfterDrop == FALSE

\* Nothing that has the name already can bring it back, and the peer cannot either.
NothingUnderWay == ~online /\ polling = "idle" /\ TRUE \notin seed

RemovePeerDomain ==
  /\ DnsChange /\ dnsStored /\ ~removingName
  /\ dnsStored' = StoredAfterDrop /\ removingName' = TRUE
  /\ dropped' = IF NothingUnderWay THEN "half" ELSE "no"
  /\ UNCHANGED <<server, peerSide, mirror, polling, heard, seed, ownSide>>

RemoveMirrored ==
  /\ removingName /\ removingName' = FALSE
  /\ mirror' = FALSE
  /\ dropped' = IF dropped = "half" THEN "yes" ELSE dropped
  /\ UNCHANGED <<server, peerSide, dnsStored, polling, heard, seed, ownSide, dnsChanges>>

-----------------------------------------------------------------------------
(* This node's name.                                                       *)

\* SetMyDomains: the health of a name that goes, goes.
SetMyDomains ==
  /\ DnsChange
  /\ own' = ~own
  /\ health' = IF own THEN {} ELSE health
  /\ UNCHANGED <<server, peerSide, mirrored, backend, probe>>

BackendChanges ==
  /\ DnsChange
  /\ backend' = ~backend
  /\ UNCHANGED <<server, peerSide, mirrored, own, health, probe>>

\* checkOnce: a dial, and then the stamp.
Dial ==
  /\ own /\ probe = {}
  /\ probe' = {backend}
  /\ UNCHANGED <<server, peerSide, mirrored, own, backend, health, dnsChanges>>

Stamped == probe

Stamp ==
  /\ probe # {}
  /\ health' = Stamped /\ probe' = {}
  /\ UNCHANGED <<server, peerSide, mirrored, own, backend, dnsChanges>>

-----------------------------------------------------------------------------
(* The service.                                                            *)

DnsStop ==
  /\ DnsChange /\ server /\ server' = FALSE
  /\ UNCHANGED <<peerSide, mirrored, ownSide>>

\* Start, seedFromStore: a copy of the config is taken,
SeedRead ==
  /\ ~server /\ seed = {}
  /\ seed' = {dnsStored}
  /\ UNCHANGED <<server, peerSide, mirror, dnsStored, polling, heard, userSide, ownSide, dnsChanges>>

\* and takes the place of the memory.
Seeded == TRUE \in seed

DnsStart ==
  /\ seed # {} /\ seed' = {}
  /\ mirror' = Seeded /\ server' = TRUE
  /\ UNCHANGED <<peerSide, dnsStored, polling, heard, userSide, ownSide, dnsChanges>>

\* LookupHost: the own name before the peer's, and the peer's while it is online.
LookupHost ==
  IF ~server THEN "unserved"
  ELSE IF own THEN "self"
  ELSE IF online /\ mirror THEN "peer" ELSE "none"

DnsNext ==
  \/ PeerChanges \/ FetchDomains \/ StoreDomains \/ MirrorDomains
  \/ RemovePeerDomain \/ RemoveMirrored
  \/ SetMyDomains \/ BackendChanges \/ Dial \/ Stamp
  \/ DnsStop \/ SeedRead \/ DnsStart

DnsSpec == DnsInit /\ [][DnsNext]_dnsVars

\* The tickers tick, an online peer answers, a removal goes on, a stopped service
\* starts again.
DnsFairness ==
  /\ WF_dnsVars(FetchDomains) /\ WF_dnsVars(StoreDomains) /\ WF_dnsVars(MirrorDomains)
  /\ WF_dnsVars(RemoveMirrored)
  /\ WF_dnsVars(Dial) /\ WF_dnsVars(Stamp)
  /\ WF_dnsVars(SeedRead) /\ WF_dnsVars(DnsStart)

-----------------------------------------------------------------------------

\* Every variable holds what its Go counterpart can hold.
DnsTypeOK ==
  /\ server \in BOOLEAN /\ published \in BOOLEAN /\ allowed \in BOOLEAN /\ online \in BOOLEAN
  /\ mirror \in BOOLEAN /\ dnsStored \in BOOLEAN /\ heard \in BOOLEAN
  /\ own \in BOOLEAN /\ backend \in BOOLEAN /\ removingName \in BOOLEAN
  /\ seed \in {{}, {TRUE}, {FALSE}} /\ dropped \in {"no", "half", "yes"}
  /\ polling \in {"idle", "store", "mirror"}
  /\ health \in {{}, {TRUE}, {FALSE}} /\ probe \in {{}, {TRUE}, {FALSE}}
  /\ dnsChanges \in 0..DnsChanges

\* A name resolves to the peer exactly when the peer publishes it to this node,
\* once the peer stays online; what was published or allowed before, what was
\* removed here and how often the service was restarted does not matter.
LookupsFollow ==
  /\ <>[](online /\ Visible /\ ~own) => <>[](LookupHost = "peer")
  /\ <>[](online /\ ~Visible /\ ~own) => <>[](LookupHost = "none")

\* The health of a name that stays comes to be what a dial would find.
HealthFollows ==
  /\ <>[](own /\ backend) => <>[](health = {TRUE})
  /\ <>[](own /\ ~backend) => <>[](health = {FALSE})

\* What the user has removed of an offline peer stays away, also across restarts.
\* Excused is a removal that meets an answer of the peer, or a start that has read
\* the config already: what they have may bring the name back.
RemovedStaysAway == dropped = "yes" => ~mirror /\ ~dnsStored
===============================================================================
