# TLA+ models of f2f

f2f is a peer-to-peer overlay: every member of a *camp* runs the helper
(`src/source/helper`, Go), finds the others through a rendezvous server
(`src/source/camp`), builds an encrypted overlay with them and offers services
over it. State that members share (channels, messages, notes, profiles) lives in
a replicated log of signed frames. These models are about that log, from the
store up to the blocks that the user interface shows; about the mesh that carries
it, from the table of the rendezvous server to the connections between peers; and
about the services above, with the files they keep and what they change in the
system.

## The system

| Part | State it keeps | Operations | Hard because | Correct when |
|---|---|---|---|---|
| Frame store (`db/store.go`, `db/sqlitestore.go`) | one chain of frames per scope and author | Append, Head, Vector, Since, MaxLamport, Scopes | follows the open camp call by call | chains are gapless, linked and only grow |
| Frame service (`db/service.go`) | a Lamport clock, in memory | Commit, Apply, Dump, Import | restarts forget the clock; a lost database forgets the log | a write is stamped above what its writer saw; no fork without loss |
| Anti-entropy (`db/sync.go`, ticker in `main.go`) | none but goroutines in flight | Push, onPush, PullScope, onPull, onScopes, PullAll | lost, late, repeated and overtaking frames, stale vectors, one deadline for all peers | replicas are prefixes; all members converge; others are served nothing |
| Block engine (`db/blocks/blocks.go`) | an incremental fold per scope | Create, Update, UpdateType, Delete, Move, Merge, Upsert, Blocks | the order of arrival is not the order of the log; reads and commits are separate | the cache equals a fold from scratch; no tombstone but the owner's counts |
| Channels, messages (`db/blocks/channels`, `db/blocks/message`) | none of their own: blocks | Create, AddMember, RemoveMember, Rename, Delete, Post, Edit | read-modify-write without a lock; membership decides what is replicated and is itself replicated | members are never lost; who was removed is served no more |
| Bus (`mesh/bus/bus.go`) | a connection, a ping streak and an eviction count per peer | Start, Stop, Request, Notify, accept, dial, ping, evict | both ends dial; decisions on stale connections; Stop against dials in flight | at most one cached connection, alive, none after Stop; up and down alternate |
| Gossip (`mesh/gossip`) | the latest entry of every peer | Publish, receive, store | reordering, entries without a time | the newest entry wins |
| Engine (`mesh/engine`) | peers, endpoints, relay and pairing state, the running flag | Start, Stop, rebind, applyPeerList, pairing, hole punching | restarts against user stops, callbacks with the lock free, stale snapshots | one generation runs at a time; a peer that can be reached is reached |
| Camp server (`source/camp`) | the peers of each camp by key, and a reverse map from addresses to peers | announce (upsert), relay, evict, report links, list | announces lost or overtaken, addresses that change hands, expiry, camp switches the server is not told of | the reverse map names the present user of an address; a relayed frame stays in its camp |
| Camp client (`mesh/camp`) | the announce loop, a roster by HTTP or UDP, its source flag | Start, Stop, announce, poll, persist | loops that outlive Stop, two sources of one roster | the roster is that of the open camp |
| Tunnel (`services/tunnel`) | intercepts, their routes, egress rules with a state file | Add, Remove, refresh, openEgress, close, sweep | a crash between a rule and its record, a second instance, lookups without the lock | what a run changed in the system is undone, once |
| Drop (`services/drop`) | downloads, copies of the catalogs of others | add, remove, poll, prune, feed, restore | decisions on catalogs polled earlier, loops that outlive their start | what is wanted and shared is fetched, what nobody wanted is not |
| Calls (`services/calls`, `.../sfu`) | the hosted call and its tracks, the calls of others | Create, Join, Leave, End, the callbacks of WebRTC, discovery | ends that meet creates without the mutex, callbacks of replaced connections | the last one ends the call; all are sent all others' tracks |
| DNS (`services/dns`), proxy gate | own names with their health, the catalogs of peers | set, remove, poll, probe, restart | polls against edits and restarts | a name resolves as its owner publishes it |
| PKI (`services/pki`) | own CA, the CAs of peers, the system's trust store | discover, install, remove, start | discovery during a prompt, three stores with three keys | whose CA is trusted was clicked |
| OIDC (`services/oidc`) | apps in a file; sessions and codes in memory | register, authorize, finish, token | requests that overlap between two locks | one token for a code, none after a refusal |
| Secrets (`services/secrets`) | vaults, environments, secrets in SQLite | create, delete, move, migrate, read the tree | statements without a transaction, crashes | nothing is orphaned |
| Firewall (`services/firewall`) | rules in the system, a state file, lists of ports | Start, Stop, SetUserPorts, close, sweep | saves and installs without the lock, crashes | the filter is the saved one; leftovers are found |
| Camps, keys (`cli/manager`, `helper/config`, `helper/identity`) | the list, a config, a cache and a key pair per camp | join, leave, remove, migrate, load | two processes without a lock, crashes between two files | keys and trust survive |
| Shell, VNC, self-update, web UI, CLI, platform, app | sessions, windows | streams | I/O | - |

Interaction: the engine tells `main.go` when it has started, which starts the bus
and the services; the bus asks the engine's roster for peers (`busResolver`); the
log is replicated by requests and notifications of the bus; the membership check
of the log asks channels, which asks blocks, which reads the log. `PROJECT.json`
lists each component with what is modelled of it, and the hazards at their lines.

## The modules

```
ReplicatedLog                     what the log promises
   ^ implements (TLC and TLAPS)
FrameSync <---- FrameSyncProofs   store + service + anti-entropy of all peers
   ^ EXTENDS        ^
FrameBackup <-- BackupProofs      with lost databases, Dump and Import

BlockFold <---- FoldProofs        the block engine over the log promised above
Channels <----- ChannelsProofs    one channel, whose replicated member list
                                  decides who is served it

CampHub                           the camp server's table and the machines
                                  that announce to it
Bus                               connections between two machines
MCWire  = Bus + CampHub <---- WireProofs

EngineLife    Start, Stop and rebinds of the engine, and its services
PullRound     one peer's PullAll under its deadline:
              when FrameSync's fairness is justified
Gossip        what one machine tells another of what it sees
Firewall      the filter on the tunnel
CampClient    the table of peers of a machine, fed by the camp server
Pairing       direct path or relay between two machines
MCMesh  = these six <---- MeshProofs

Drop  Dns  Pki  Calls  Tunnel  Oidc  Egress  Sfu  Secrets  Camps
              the services, and the files of the camps
MCServices  = these ten <---- ServiceProofs

NatOrder      least and greatest elements, for the proofs
```

**FrameSync.** `store[n][s][a]` is the chain of author `a` in scope `s` at peer
`n`: the table `frames`, or `MemStore.scopes`. `clock[n]` is `Service.lamport`.
`pushes`, `requests` and `replies` are messages of the bus, `pending` the
goroutines `onPush` spawns. A frame's hash is abstracted to the number of the
commit that made it, and signatures always verify. Steps follow the locks of the
code: `Commit` (with its `onCommit` hook, `Push`) and one `Apply` each hold
`Service.mu` for their whole length and are one action; a pull is three (`Ask`
reads the vector, `Answer` runs at the other peer, `ApplyNext` applies one frame
of the reply), because the lock is free between them. Requests are answered once
or fail; pushes are handled once, late, or never: a push that is never delivered
is lost. `Restart` keeps the frames on disk and drops the rest. The roster is a
free choice at each commit. `Acl` stands for the membership check and is constant;
Channels is where it changes.

**FrameBackup** adds `Dump` and `Import` and the loss of a database under an
identity that survives: the only way a log of this design forks.

**BlockFold** takes the log as ReplicatedLog promises it (`log`, `known`) and
models `blocks.Manager`: a read is `BeginRead` (the vector) and `FoldDelta` (the
delta, folded), an edit `Resolve` (type and heads from the cache) and its commit.
Stamps are any above what the author has stored, for other scopes raise the clock
as well. Hashes order frames of one stamp by `Rank`. The containing block
(`parent`) is left out: only Create sets it, once per block. Content is left out.

**Channels** closes the circle between the log and the blocks: `channels.Manager`
reads the member list from a block of the scope `channel:<bid>`, and `main.go` hands
its `IsMember` to Sync as the check that decides who is served that scope. `chain`
and `known` are the log as ReplicatedLog promises it, `Latest(Seen(n))` the head that
`toChannel` reads, `Earliest(Seen(n))` the version its owner comes from. A request of
`api_channels.go` is two actions, `Begin` (`Get`) and `Write`, for nothing is held
between them; any peer that has the channel can make one, as the code asks for no
owner except in `Delete`. `Serve` is a push, a pull or a gap pull that arrives, any
part of a chain at a time. Rename is the removal of a non-member: it writes what was
read. Direct messages and the general channel, whose members never change, names and
nesting are left out. Peers are numbered as the hashes of their versions of one stamp
are ordered. `wanted` and `overlapped` are history: the members asked for so far, and
whether a change was ever based on a version that was not the latest.

**PullRound** models `PullAll` step by step at one peer: discovery, the pulls of a
peer in any order, the next peer in the order of `Peers()`, with the deadline as a
flag that a dead peer raises. A live peer that is merely slow is not modelled.

**CampHub** models the camp server. `reg[<<c, p>>]` is the address of the entry
`camps[c].peers[p]`, `age` the time since its `lastSeen`, `bySrc` the reverse map.
`Hub.mu` is held through each operation, so `Upsert`, `EvictStale` and
`RelayLookup` are atomic. Announces travel in `wire`, where they are lost, delayed
and overtaken; a relay frame may come from any address at any time. The machines
are those of `mesh/camp`: `Join` and `Leave` are Start and Stop of the camp
service, `Announce` is one turn of its loop, `Rebind` the doing of a NAT. The
server is told nothing when a machine leaves. Reported links and the fields of a
roster entry that are carried verbatim are left out, and so is `listWindow`, which
nothing calls.

The wire, mesh and services modules are independent of one another: their
components meet through calls that each module treats as its environment. They are
checked in sums. A behaviour of `MCWire`, `MCMesh` or `MCServices` is one of the part
that is chosen at its start, while the variables of the others keep their initial
values; so the states of the parts add up rather than multiply, one run asks all
their questions, and none of them is composed with another.

**Bus.** One service and its connections to one peer; the peer is the environment,
which dials, closes and accepts. `cached` is the peer's entry in `Service.conns`,
`gen` and `cancelled` name the contexts of successive starts, a *call* is a ping of
`pingRound` or a request from above, with the steps of `connFor`, `dialOnce` and the
stream between the locks. Failures with no cause in the model cost `budget`. Binding
the listener and publishing it are one step; link events are left out. A dial that
outlives `Stop` is modelled: the connection it caches is forgotten again
(`StoppedForgets`) but stays open, which is the excuse in `NoStrayDial`.

**EngineLife.** Two threads, `main` and the rebind goroutine, run `Start` and `Stop`,
the parts of which outside `Engine.mu` interleave, and `OnStarted` and `OnStopped`
bring up and down the services 1..`Services`. A *session* is what one Start has set
up (socket, device, routes, workers). `overlapped` and `startFailed` are history: a
shutdown that meets a rebind, and a restart whose Start failed, which leaves the
engine down with nothing to retry it.

**Pairing.** Two machines, each with a hole punching loop, a sync of the device and
a device that roams by itself to wherever a packet last came from. Time passes in
units; what is kept of the real intervals is their order (20 s to the relay, 25 s
between probes of a healthy path, 30 s until a signal is stale). `pushed` and `dev`
differ because `SyncPeers` compares with what it pushed last, not with what the
device uses.

**CampClient.** The table of peers: the roster of the HTTP poller, or the windows of
announce replies gathered over a rotation; the seed from the catalog; forgetting. The
windows are those of older servers: that of this commit answers an announce with `you`
only (`udp.go:169-172`) and never calls `listWindow` (`hub.go:193`), but the client still
takes them. A window is of one peer. An entry is absent, live or a ghost. The active key
that gossip adds is left out. `stayed`, `forgot`, `shaken` and `streak` (the rotations in
a row of which a window was lost or shifted) are history. Forgetting needs the
engine to run (the handler answers 404 otherwise).

**Gossip.** One node announces to another. State is read and stamped in two steps,
each push travels by itself. A stopped loop may still begin one announcement
(`gossip.go:145`), which is left out. `NewerStays` is excused by the three cases in which the
stamps cannot tell: the clock was set back, two states of one stamp, and two loops of
successive starts that read and stamped beside one another (`crossed`). Pulls, which
nobody sends, and entries of departed nodes are left out.

**Firewall.** The rules in the system, the state file by which the next process
removes them, the saved list of each camp, and the handler `SetUserPorts`, which takes
camp and anchor under the lock and then saves, sets the anchor's list, installs and
records without it. Port 0 stands for the built-in ones. Each process has a pid of its
own. `mishaps` is history: changes that overlapped one another or a Start or Stop,
failures, deaths before the file was written. The state file is written at once: one cut
off in a write (`anchor.go:176`) is left out.

**Tunnel.** One zone, one name under it, one address for each. User, removal, DNS
handler and refresh ticker each ask the exit peer without the lock and then change the
set, the routes and the pins, and each of these changes is a step of its own: an addition
takes its id under the lock, adds its route without it, and is listed under it again.
`phase` walks the engine through a restart, which waits for none of the four: the set is
emptied and numbered anew while a round of the ticker goes on with the ids and the route
manager it began with. A utun opened anew has the name of the one before (Linux), so the
managers of two sessions run the same commands. Between the two there is no manager, and
a call on it panics: in a handler of the web server that ends the request, in the DNS
handler, which nothing recovers, the process (`Fatal`). `overtaken` is the excuse of
`RoutesHaveOneOwner`: a session that began while an addition had its id or a removal its
victims, or with an entry listed before its Start, which Start drops and leaves routed.

**Egress.** What a node changes in its system to forward for others, one step for each
call to it: the forwarding switch, the packet filter's engine, NAT rules, the state
file. A process may die anywhere; the next one sweeps. Processes follow each other: a
second instance at the same time, and a reboot, which clears file and changes alike,
are left out. The excuses of `OriginalIsKept`, `LeavesAsFound` and `TargetsAreRouted`
are history variables for a death before the file was written (`unrecorded`, the
processes it hit), a restoring call that failed, rules installed after their removal, and
installs that overtook one another. A death before the file leaves what was changed; even
then a switch that was on stays on, and what is held is held by those processes only.

**Drop.** One file of a source peer and its download, worked on by the user, the
torrent client (external), the refeed loops of this start and of earlier ones, the
prune by a polled catalog, and restore. A download is fed, and judged, by the peers on
its record only (`known`): those the user's request named, or those online at the moment
of a restore. That the first nudge of an addition keeps a list of its own for 90 s is left
out.

**Sfu.** A participant is keyed by its address, a connection is a participant object;
a page that reloads makes another with the same key. Callbacks of WebRTC are steps of
their own that name the address.

**Calls.** The hosted call is an atomic pointer that only `Create` guards with the
mutex; `Close` is merged with the count of participants that decides it. The two
excuses of `NobodyInLostCall` (`stray`: joined after it was closed, cleared by the end of
an earlier call) are the two ways in which the code loses a call; it says that there is
no third, and cannot catch these. `LastOneEndsIt` is about leaves that overlap.

**Dns.** One label as this node publishes it, with its health, and as a peer does, with
the poller that mirrors the peer's catalog to memory and to the config. A removal changes
the config and then the memory, a start copies the config and then sets the memory, and
either may come between the two steps of the other. `RemovedStaysAway` is about a name
of an offline peer that no answer and no start had when it was removed. Pins are in
Tunnel.

**Pki.** The CAs of peers in memory (by fingerprint), in the directory (by the display
name a peer gives itself) and in the trust store (by the camp's common name). `called`
chooses who shares a name. So the file may hold the CA of another peer than the one
clicked, and `OnlyClickedTrusted` says what is left: a CA that is trusted was clicked, or
another of the same name was. The same claim by peer fails in three steps: two peers of
one name, a new CA of the second discovered, the first one clicked. Whether a removal is
that of a platform that removes one certificate or all of the camp is chosen each time.

**Oidc.** The registry file, written whole (a crash in a write loses it), sessions and
codes, with the gaps between the locks. Redirects, secrets and PKCE end a request where
they are checked and are left out.

**Secrets.** Vaults, environments and secrets as rows; a deletion or migration is one
action for each statement, and a crash may follow any. One channel; names and values
are left out. `lateEnvs` and `lateSecrets` (rows a request wrote to what had been deleted)
are excused from `NothingOrphaned`, `cutShort` (the vaults for which a crash came between
the two statements that give old secrets a default environment) from
`MigrationKeepsSecrets`; each excuse is of those rows or that vault and of no others.

**Camps.** The files of `cli/manager`, `config.Store` and `identity` under the commands
of two processes, helper and CLI, that share no lock, and crashes between two files. A
cache stands for the trusted peers in it. Whether `LoadForStart` rewrites the config is
chosen. The CLI's interactive join is left out, and so are the errors of reading and
parsing a config, which Join takes for a new camp and Use ignores. Three *windows* are
history, each for the camp hit in it, by a crash (`cut`) or by the other process (`raced`):
`cache`, between the config file and the very first cache file (`config.go:444-449`), which
`TrustIsKept` excuses; `pair`, within the private key's file or before the public one's,
which `IdentityIsKept` excuses; and `list`, between the files of a camp and the list, or two
commands that read the list before either saved it, which `ListFollows` excuses until the
command is done again. A crash anywhere else, and two processes with commands for one
camp in any other order, are covered.

## What is checked

| Run | Instance | Shows |
|---|---|---|
| `log_two` | 2 peers, 1 scope, 3 frames, 1 fault | chains never fork (`PrefixOfAuthor`), are linked and stamped in order (`ChainLinked`), writes are stamped above all their writer has (`CommitStampsAbove`), and the log implements `ReplicatedLog` |
| `log_live` | 2 scopes, one closed to a peer, 2 frames, 1 fault | `ServedToMembersOnly`, `EventuallyReplicated` |
| `backup_loss` | 2 peers, 2 frames, 1 loss | only the loser's log may fork, and no chain shrinks |
| `fold` | 1 block, with a creator or without, 3 frames | the cache is the fold from scratch, with its positions and heads (`CacheIsFold`); tombstones are the creator's (`OnlyOwnerDeletes`) |
| `channels` | 3 peers, 4 versions, 1 request under way | only who was ever listed holds the channel (`OnlyEverMembersHold`), the creator is its owner once known (`OwnerSettles`), serial changes stay (`NoConflictWhenSerial`), and who is listed learns it (`MembersLearn`) |
| `wire` | bus: 2 starts, 2 connections, 2 calls, 1 failure; hub: 2 machines, 2 addresses, 2 camps, 4 moves, 2 announces of each in flight | every connection is accounted for (`ConnectionsAccountedFor`); the reverse map names nobody stale (`SourceNamesItsPeer`), relay stays within a camp, only an entry that shared its address drops out of the map (`LosesSourceOnlyToSharer`); links form, departed peers and stopped services are forgotten, the next announce repairs the map (`WireSettles`) |
| `mesh` | engine: 3 services, 2 rebinds, 1 failure; pairing: 2 changes; client: 2 others, 3 windows lost or shifted against a grace of 1; rounds: 2 peers, 2 scopes; gossip: 2 starts, 3 stamps; firewall: 2 camps, 2 starts, 2 settings, 1 crash or failure | `RestartsAreClean`, `TableIsTrue`, `UnexpiredRoundIsComplete`, `NewerStays`, `FilterIsAccountedFor`, and what each comes to in the end (`MeshSettles`) |
| `services` | at the head of `Services_parts.cfg` | `RoutesHaveOneOwner`, `OnlyWhatWasAskedFor` (drop, dns, pki), `SentToAllOthers` (sfu), `ChangesAreAccountedFor` (egress), `TablesAgree` (secrets), `NobodyInLostCall`, `SignInsAreSound` (oidc), `CampsSurvive`, and what their loops catch up with (`ServicesSettle`) |
| `fold_order` (violated) | as `fold` | the type shown depends on the order of arrival |
| `channels_delete` (violated) | 2 peers, 3 versions | a deletion reaches nobody |
| `pairing_direct` (violated) | nothing lost, nothing moves | a pair on a path that works is put on the relay between two keepalives |
| `tunnel_detach` (violated) | a zone and a name under it | a name that is resolved while its zone is removed is listed, routed and pinned after Remove has collected what to take along, and stays |

A property that names several parts (`ChangesAreAccountedFor == OriginalIsKept /\ ...`)
is stated part by part in its module, with what each is about.

Several properties have an excuse: they hold unless something happened that the code
does not cover, which a history variable records. They say that there is no other way
to go wrong; the excuses themselves are behaviours of the code, and the notable ones are
listed below under disagreements.

**Bounds.** Three frames are enough for a gap, an out-of-order frame and a frame of
another author at once; two peers for every race of one pair, and the protocol has
no step of three. A stranger to a scope is one of the two, who still writes to it.
In `channels` a third peer is one that the first two may list or not, and four
versions are the creation and three changes, enough for a member to be added, to add
another and to be removed at the same time. `MaxFaults`, `MaxEdits`, `MaxWrites`,
`MaxFlaps`, `Budget`, `Changes`, the `...Changes`, the `...Faults` and the like cap what
users, peers and the environment do; none caps what a component does by itself. For the
hub four moves are what an exchange of addresses takes: join, leave, and two joins at the
other's place. For the bus two starts let a call of the first meet the second, two
connections let one that was dialed meet one that was accepted. Each service has enough
changes for a request, another that overlaps it, and a restart or crash on the way: a
third request would meet the same pairs. Where all budgets are spent and nobody has to
do anything the system stops, so in those runs the deadlock check is off; in the runs of
FrameSync and FrameBackup it is on.

**Fairness.** `FairSpec` of FrameSync is strong for `TickPull`, for each peer and
scope, and weak for answering and applying: the ticker of `main.go` comes round
every 7 s and walks every peer and every scope, so a pull that is possible again
and again is made. Nothing is assumed of pushes. That the walk reaches every peer
holds when the listed peers answer, and not otherwise: `CatchesUp` and
`UnexpiredRoundIsComplete` of PullRound are these two sides. Channels takes over the
same: a peer that could be served again and again by a peer of the roster is. In CampHub
a machine that is in a camp announces every 4 s (weak), and of announces repeated for
ever some arrive (strong); that is a network that is lossy, not cut. Eviction and time
are not assumed to proceed there. In all other modules fairness is weak, stated at
the module's `...Fairness` with its reason, and granted to tickers (`time.NewTicker`
loops of bus, pairing, client, gossip, tunnel, drop, dns, pki, calls), to goroutines
and handlers under way, to contexts that expire, and to the WebRTC and torrent libraries
in what they were asked for; never to a user's request, to a failure, a crash, or a
change of the network. FrameBackup, BlockFold, Firewall, Egress, Oidc, Secrets and Camps
state no liveness and assume no fairness.

## What is proved

`FrameSyncProofs` proves, for every set of peers, scopes, members and bounds:
`TypeCorrect`, `NoFork`, `ChainsAreLinked`, `MembersOnly`, `StampsAbove` and
`Implements` (every behaviour of FrameSync, mapped by `OwnLog`, is one of
ReplicatedLog). Assumed are only the types of the constants (`NodeAssumption`,
`AclAssumption`, `BoundAssumption`).

`PrefixOfAuthor` is not inductive: a frame on its way could be anything. The
invariant `IInv` adds that frames in flight are genuine, that is, found in their
author's own chain at their number (`GenuineInFlight`); that numbers and stamps
stay within the number of commits (`Counted`), which the types need; and that a
frame is filed under its scope and author (`Homed`). Then a chain that is a prefix
of the author's, extended by a genuine frame of the next number, is still one; the
author's chain itself changes by its own commit only, for a frame of its own that
comes back to it is one it has. `AppendAt` says what an accepted frame changes,
`MaxLamportBounds` what the reseed of the clock yields (that a bounded set of
stamps has a greatest one is `GreatestOfBounded`, by induction on the bound).
`Implements` follows: a commit is a `Write`, an accepted frame a `Learn`, all else
stutters.

`WireProofs` proves, for every set of camps, machines and addresses and every
bound, `ReverseMapIsSound`, `RelayIsConfined`, `OnlySharersLoseTheirSource`,
`BusAccounts` and `WireTypes`. `IInv` is the types of the hub, the soundness of the
reverse map and the claim about the frame relayed last; it is inductive as it stands,
as an upsert or an eviction that takes an address from an entry clears that address
(`UpsertKeeps`, `EvictKeeps`). The third theorem says how far the map can be out of
step with the table: a machine whose address no other entry holds is never affected.
`BusInv` adds to `ConnectionsAccountedFor` how the parts of the bus go together
(`BusShape`): one caller dials for all, a Stop holds the connection it took, and a call
is one of a service that was started.

`ChannelsProofs` proves, for any number of peers and any bounds, `HeldByMembersOnly`,
`CreatorOwns`, `OwnersDescend`, `SerialChangesStay` and `ChannelsTypeCorrect`. The
invariant adds that stamp and author determine a version and stamps are bounded
(`Ordered`: so `Latest` and `Earliest`, which the model chooses, exist,
`LatestIsLast`, `EarliestIsFirst`); that authors keep their own versions (`Kept`),
hence whoever passes for the owner has held the channel before; that the creating
version is below all others (`CreatedFirst`); and that nobody else writes without an
earlier version (`BuiltUpon`). Commits and serves are treated once each as operations
on sets of versions (`CommitAdds`, `ServeAdds`), the actions then follow. Of the
constants only their types are assumed.

`BackupProofs` proves `HealthyDoNotFork`, `ChainsGrow`, `BranchesNeverMix` and
`BackupTypeCorrect`. The invariant of `FrameSync` does not survive a loss, for an
author may then hold less of its log than others do. `BInv` speaks of all frames there
are, stored, on their way or in a dump (`Known`): an ID names one frame, and a
successor is stamped above its predecessor (`Forest`), which rules out that a
frame links to the wrong branch of a fork; a frame of an author that never lost
its database is one that the author holds (`IsSound`).

`FoldProofs` proves `CacheFollowsLog`, `OwnersDelete` and `FoldTypeCorrect`. The
invariant ties the cache to the log: what is folded is a prefix of each author's log
that the node knows, and each derived record holds exactly the versions among the
frames folded, their parents, and a position that is one of the latest of them,
whatever the order they came in (`CachesHold`); of the type and of positions with equal
stamps no more can be said, as `fold_order` shows. A read and an edit under way hold what
they have read against a log that grows beside them (`PendingHold`). `FoldDelta`
folds with the community modules' `MapThenFoldSet`; that its recursion defines a
function, and that folding one frame more is `FoldInto` (`FoldIsDefined`,
`AccumulateHolds`), is by induction on the size of the set, written with the set
of sizes that fail and its least element (`LeastOfNats`), since no theorem with an
operator parameter can be used.

`MeshProofs` proves, for any bounds:

- `RoundsAreComplete`: whatever the round owes is with a peer still to come, or with a
  scope being pulled, unless time ran out (`OwedIsPlanned`).
- `NewerStates`: while the clock was not set back and no loops crossed, stamps order
  states: what has an older stamp tells no more (`GossipInv`).
- `RestartsClean`: `EngineTyped` says where each of the two threads may be while the
  other is where it is; `EngineAlone` that with one thread at a time in Stop and
  Start the session a Stop has taken is the one there is; `EngineServes` counts the
  services that are missing as far as the last `OnStarted` has come, by the faults spent.
- `FilterAccounted`: a change of the ports that met nothing else has one camp, one
  anchor and one list from its first step to its last (`ChangesInTurn`), the anchor of
  the service is the last one opened (`AnchorIsLast`), and rules are in the system only
  with the file that names their process, but between the two (`RulesAreRecorded`).
- `TableStaysTrue`, `ForgottenDoNotReturn` (client): a rotation without a lost or shifted
  window names every peer that stays, so the misses counted against one of them are no
  more than the last rotations in a row that had such a window (`MissesArePaid`); a
  ghost of one who stayed takes more of them than the grace, however many there are over
  time. One who leaves may push one at most out of the windows to come, for which the places of the members in
  the server's order are counted (`Places`). A peer forgotten is in nothing a table is
  made from (`ForgottenIsNowhere`).
- `MeshTypes`: the types of all six parts in one instance, those of `Pairing` included.

`ServiceProofs` proves, for any number of users, apps, names, processes and requests
that overlap:

- `NobodyLost` (calls): who is about to be put into a call is put into one that is
  tracked, and a closed one is empty or excused (`CallsInv`).
- `OneOwner` (tunnel): an entry is on its way in, listed or being removed, and its id was
  given to no other of these (`IdsAreOwn`) as long as the session overtook none of
  them; a round of the ticker from an earlier session holds ids only, and changes the entry
  that has the id now. `TunnelAssumption` asks for one id and one activity at least.
- `SignInsSound` (oidc): a code is in one place of five, and a handler that mints one
  deletes the session after it (`OneTokenPerCode`, `CodesAreFinished`); the edit that
  holds the file has read what is there (`OneEditAtATime`).
- `ChangesAccounted` (egress): the file has what a process that is gone or up has
  changed, without a file nothing is changed but by the process at work or one killed
  before it had written its file, and the live process knows what it or its predecessor
  changed (`Recorded`); a switch that was on stays on even so (`OnIsKept`); rules go first
  (`RulesRecorded`).
- `EachIsSentTheOthers` (sfu): no connection is forwarded before its track is published
  (`NotSentEarly`); the rest is inductive with the types.
- `TablesDoAgree` (secrets): a deletion goes from the inside out (`DeletesInsideOut`), a
  secret without an environment waits with its vault for the migration to come by, unless
  that vault was cut short (`NothingIsLost`), and what has been read of the tree is that of
  what is shown now (`ReadSoFar`).
- `OnlyAsked` (drop, dns, pki): what a loop is about to add again was asked for
  (`DropInv`); what is stored, on its way or seeded of a removed name is nothing (`DnsInv`);
  a file, and what the user is asked about, is of a peer of the name clicked (`PkiInv`).
- `CampsDoSurvive` (camps): what is left of a command is one of the `Scripts`
  (`ScriptsAre`, `ClassesAre`), and both processes may have one for the same camp. The key
  a camp was started with is in its place, in that of the old one or on its way, and
  meanwhile no new one is made (`KeyOf`); a key is in one camp only (`KeysApart`). What
  was trusted is on the disk, or in memory and about to be saved, and nobody holds an
  empty cache of a camp that is there (`TrustOf`). What is listed is what the disk has,
  but for the commands just about it, and who is about to save the list has read it as it
  is, of every camp whose window `list` was not hit (`ListOf`, `WritersRace`).
  `CampsAssumption` asks that camp 1, with which a machine begins, be among them.

- `ServicesTypes`: the types of all ten in one instance. How many m-lines a browser can
  be told of is bounded by twice the connections, since a track is sent twice at most
  and once before it is forwarded (`SfuTypes`); that the recursion of `Sum` defines it
  is proved as for the fold (`SumIsSmall`).

For the other theorems about a part of the mesh or the services the specification is
that of the part (`EngineSpec`, `TunnelSpec`, ...). A behaviour of a sum is to each part
one of its own, for a step of the sum is to each a step or a stutter: `ServicesSteps`
states it for the services, and `ServicesHold` that with it all their invariants hold
of the sum.

Only model-checked: liveness (`EventuallyReplicated`, `MembersLearn`, `WireSettles`,
`MeshSettles`, `ServicesSettle`), for which there is no prover of fairness here. Every
other property that a passing run checks is stated by a theorem.

## Where code and comments disagree

Shown by a run:

- The type and, among equal stamps, the position of a block depend on the order
  of arrival (`blocks.go:318`, `blocks.go:329`): `fold_order`.
- Deleting a channel does not tear it down for everyone (`app.js:503`): after the
  tombstone no one is a member, so it is served to no one (`channels.go:171`,
  `db/sync.go:97`, `db/sync.go:132`): `channels_delete`.
- A pair whose direct path works does not keep to it: between two keepalives it is
  put on the relay: `pairing_direct`.
- Removing a zone does not take everything under it along: `tunnel_detach`.

The log and the channels:

- `applyInOrder` (`db/sync.go:178`, `189`) stops at a gap of one author and drops the
  frames of the others as well; `PullAll` spends its deadline on a dead peer and does not
  reach those after it (`db/sync.go:157`, `163`; `main.go:667`).
- The block cache can miss a camp switch (`blocks.go:270-273`).
- `docs/ENTITIES.md:45` and `docs/DB.md:60` call the member list single-writer and
  without conflicts. Members who leave write it as well, the handlers do not ask for the
  owner, and two requests at one peer overlap: of two concurrent changes the later version
  undoes the other. `NoConflictWhenSerial` says when nothing is lost. A member whom
  another removes is not served the version that says so.

The mesh:

- `camp/hub.go:50` says the reverse map is kept in sync; an eviction or a move takes
  the address out of the map although another entry has it (`camp/hub.go:254`,
  `camp/hub.go:77`), which `LosesSourceOnlyToSharer` limits to entries that share one.
- Hole punching stops after a rebind that turned out to be none (`engine.go:1509-1514`),
  where `engine.go:1343` says it resumes.
- `camp.go:609-612` keeps UDP as the fallback of the HTTP roster, but `httpOK` is never
  reset.
- `gossip.go:50` says that stale pushes do not win; the state is read before it is
  stamped, and clocks are set back (the excuses of `NewerStays`).
- `firewall.go:311-312` says that saved ports are picked up by the next Start; not by one
  that has read the list already. A change beside a Stop or a camp switch installs the old
  anchor's filter again, and `campID` survives Stop, so the check for a running engine is
  one only before the first Start (the excuses of `FilterIsAccountedFor`).

The services and the files:

- `egress.go:9-11`: changes are persisted before they happen. `writeEgressState` comes
  last, so a death before it leaves changes that nothing undoes (the excuse `unrecorded`).
- The file of a peer's CA is named by its display name (`pki.go:372`, `411`, `444`), which
  is not unique: of two peers of one name the CA discovered last is the one trusted, and
  the removal of one removes the file of the other.
- `dns.go:537-576` and `329-357`: a name removed while a start has read the config comes
  back.
- `pki.go:427` drops one peer's CA, but the removal takes all of the camp's out of the
  trust store on Linux (`cert_linux.go:112-144`).
- `secrets.go:219`: the migration is "safe to run on every open", but a crash between the INSERT
  of a default environment and the UPDATE leaves a vault whose secrets are lost; deleting
  the last environment of an old vault brings back a default one; a request beside a
  deletion leaves rows nothing can delete.
- `identity.go:48`: a missing public key is fine. It counts as no identity, and a new one
  is made; a torn private key fails every start. `config.json` is written without the old
  cache before `cache.json` (`config.go:444-470`), so a crash between loses it. A camp whose
  config does not parse is overwritten by Join, and Remove, which "forgets a camp entirely"
  (`manager.go:156`), leaves the flat config of older releases. A helper that still has a
  removed camp in memory writes its directory again.
- Calls: a Leave or End beside a Create clears the newer call; who joins after the close is
  in a call that nobody ends; a call that a failed connection emptied stays; a Create beside
  a stop of the engine leaves a call on a stopped engine.
- OIDC: two finishes of one sign-in at once give two codes (`oidc.go:436`);
  `oidc.go:362` reads the sessions without the lock.
- Drop: a download is pruned by a catalog from before the share (`drop.go:637-640`). One
  restored while its source is offline is never fed, for it has nobody on its record
  (`drop.go:525`, `555`; `torrent.go:312-317`), where `drop.go:323` and `649` say that it
  resumes when the source returns.
- Tunnel: a Start drops, and leaves routed, what an addition has listed since the engine
  came up (`tunnel.go:157-163`).

## Plan

1. (done) The log with its refinement and proofs; the blocks; channels and hub with
   their proofs; the mesh; the services.
2. (done) Proofs: every safety property that a passing run checks, the types of the sums
   included.
3. What is left of channels: general and direct messages. Link events of the bus.
4. Bus composed with the log: which pulls a broken link costs. Engine composed with the
   camp client: a rebind in the middle of a rotation.

## Not modelled

- Messages and attachments: thin layers over blocks; each edit is one of BlockFold's.
- Shell and VNC: a stream copied to a terminal or a socket, with no state after it.
- Self-update: one download, one check, one rename.
- Cryptography and wire formats; the operating system adapters, beyond what their calls
  change; the vendored WireGuard, torrent and WebRTC libraries, beyond what is asked of
  them.
- The command line, terminal and web interfaces, the desktop app and the website.
