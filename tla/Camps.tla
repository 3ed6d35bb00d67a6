--------------------------------- MODULE Camps ---------------------------------
(***************************************************************************)
(* cli/manager, config.Store and identity: what a peer has on its disk of  *)
(* the camps it knows (the list, each camp's config file, cache file and   *)
(* key pair, and where older releases had them), under the commands of two *)
(* processes, the helper and `f2f camp ...`, that share no lock, and that  *)
(* a crash stops between two files.  Every file but a key file is replaced *)
(* whole.  A cache stands for the trusted peers in it, which matter most.  *)
(***************************************************************************)
EXTENDS Integers, Sequences

CONSTANTS
  Camps,     \* the camps
  Commands,  \* bound: commands
  Stops      \* bound: crashes

ASSUME CampsAssumption ==
  Camps \subseteq Nat \ {0} /\ 1 \in Camps /\ {Commands, Stops} \subseteq Nat

VARIABLES
  listed,    \* state.json: the known camps
  config,    \* config.json: "none", "mixed" (of old, with the cache in it), "plain"
  flat,      \* the camps with a file of old beside the camp's directory
  cache,     \* cache.json: "none", "empty" or "trusts"
  priv, pub, \* the two files of the key pair: 0 is none
  oldKey,    \* the private key in the directory of old
  madeKeys,  \* the keys generated so far
  running,   \* the key that each camp was started with last
  loaded,    \* Store.camps, by process: "none", or the cache it holds
  command,   \* what is left to do of each process's command
  removed,   \* history: the camps removed
  cut,       \* history: pairs of a window and a camp that a crash hit there
  raced,     \* history: pairs of a window and a camp that another process hit there
  commands, stops

rosters == <<listed>>
fileVars == <<config, flat, cache>>
keyVars == <<priv, pub, oldKey, madeKeys, running>>
campsHistory == <<removed, cut, raced>>
campsVars == <<rosters, fileVars, keyVars, loaded, command, campsHistory, commands, stops>>

Programs == {"helper", "cli"}
Torn == -1 \* a key file that was cut off

\* The windows: a config file is written and not yet the first cache file, a private
\* key in part or not yet the public one, the files of a camp and not yet the list.
Windows == {"cache", "pair", "list"}
NoCommand == [todo |-> <<>>, camp |-> 0, key |-> 0, seen |-> {}]

\* Camp 1 is there from before, in one of the layouts; the others are new.
CampsInit ==
  /\ listed = {1}
  /\ \E layout \in {"flat", "mixed", "plain"} :
       /\ config = [c \in Camps |-> IF c = 1 /\ layout # "flat" THEN layout ELSE "none"]
       /\ flat = IF layout = "flat" THEN {1} ELSE {}
       /\ cache = [c \in Camps |-> IF c = 1 /\ layout = "plain" THEN "trusts" ELSE "none"]
  /\ \E moved \in BOOLEAN :
       /\ priv = [c \in Camps |-> IF c = 1 /\ moved THEN 1 ELSE 0] /\ pub = priv
       /\ oldKey = [c \in Camps |-> IF c = 1 /\ ~moved THEN 1 ELSE 0]
  /\ madeKeys = 1 /\ running = [c \in Camps |-> IF c = 1 THEN 1 ELSE 0]
  /\ loaded = [p \in Programs |-> [c \in Camps |-> "none"]]
  /\ command = [p \in Programs |-> NoCommand]
  /\ removed = {} /\ cut = {} /\ raced = {}
  /\ commands = Commands /\ stops = Stops

-----------------------------------------------------------------------------
(* Commands.                                                               *)

KnownCamp(c) == config[c] # "none" \/ c \in flat

\* What a process does next of its command.
Step(p) == IF command[p].todo = <<>> THEN "nothing" ELSE Head(command[p].todo)
StepDone(p) == command' = [command EXCEPT ![p].todo = Tail(@)]
GoesOn(p, todo, key) == command' = [command EXCEPT ![p].todo = todo, ![p].key = key]

\* A command removes its camp, or creates it.
Ends(todo, step) == todo # <<>> /\ todo[Len(todo)] = step
Removes(q) == Ends(command[q].todo, "unlist")
Creates(q) == Ends(command[q].todo, "list") /\ command[q].key # 0

\* The other process has a command for the camp, or holds it in memory, and one of
\* the two removes it.
RemovedBesides(p, c, todo) ==
  \E q \in Programs \ {p} :
    \/ Ends(todo, "unlist") /\ (command[q].camp = c \/ loaded[q][c] # "none")
    \/ Removes(q) /\ command[q].camp = c

Issue(p, c, todo, key) ==
  /\ commands > 0 /\ commands' = commands - 1
  /\ command[p] = NoCommand
  /\ command' = [command EXCEPT ![p] = [NoCommand EXCEPT !.todo = todo, !.camp = c, !.key = key]]
  /\ raced' = IF RemovedBesides(p, c, todo) THEN raced \cup {<<"list", c>>} ELSE raced

FreshKey == madeKeys + 1

\* Create: a new camp, with a new key.
CreateCamp(p, c) ==
  /\ ~KnownCamp(c) /\ priv[c] = 0 /\ c \notin listed \cup removed
  /\ \A q \in Programs : command[q].camp # c
  /\ Issue(p, c, <<"priv", "pub", "load", "config", "cache", "readList", "list">>, FreshKey)
  /\ madeKeys' = FreshKey
  /\ UNCHANGED <<rosters, fileVars, priv, pub, oldKey, running, loaded, removed, cut, stops>>

\* Join, of a camp that may be known, but for one whose id nobody has been told yet;
\* UpdateCamp and SaveCamp save alike.
JoinCamp(p, c) ==
  /\ \A q \in Programs : ~(command[q].camp = c /\ Creates(q))
  /\ Issue(p, c, <<"load", "config", "cache", "readList", "list">>, 0)
  /\ UNCHANGED <<rosters, fileVars, keyVars, loaded, removed, cut, stops>>

\* Use, which looks at the config, and Touch, which does not.
UseCamp(p, c) ==
  /\ c \in listed
  /\ \E todo \in {<<"load", "readList", "touch">>, <<"readList", "touch">>} : Issue(p, c, todo, 0)
  /\ UNCHANGED <<rosters, fileVars, keyVars, loaded, removed, cut, stops>>

\* `f2f camp rm`.
ForgetCamp(c) ==
  /\ c \in listed
  /\ Issue("cli", c, <<"rmCamp", "rmOldKey", "readList", "unlist">>, 0)
  /\ UNCHANGED <<rosters, fileVars, keyVars, loaded, removed, cut, stops>>

\* SelectCamp and LoadForStart: a camp of the list, if its config is there.
LoadForStart(c) ==
  /\ c \in listed /\ KnownCamp(c)
  /\ Issue("helper", c, <<"load", "migrate">>, 0)
  /\ UNCHANGED <<rosters, fileVars, keyVars, loaded, removed, cut, stops>>

\* A service of the helper changes the camp's config: UpdateCamp.
UpdateCamp(c) ==
  /\ loaded["helper"][c] # "none"
  /\ Issue("helper", c, <<"config", "cache">>, 0)
  /\ UNCHANGED <<rosters, fileVars, keyVars, loaded, removed, cut, stops>>

-----------------------------------------------------------------------------
(* The config.                                                             *)

\* loadCacheLocked: without a cache file, what a config file of old has.
CacheRead(c) ==
  IF cache[c] # "none" THEN cache[c]
  ELSE IF config[c] = "mixed" \/ (config[c] = "none" /\ c \in flat) THEN "trusts" ELSE "empty"

\* The other process has written the config file, and the first cache is to follow.
Halved(c) ==
  cache[c] = "none" /\ \E q \in Programs : command[q].camp = c /\ Step(q) = "cache"

\* ensureLoadedLocked: unless it is in memory; without a file a joining goes on with
\* an empty config, a Use without one, and a start does not go on.
LoadConfig(p) ==
  LET c == command[p].camp IN
  /\ Step(p) = "load"
  /\ \/ /\ loaded[p][c] # "none" /\ StepDone(p)
        /\ UNCHANGED <<loaded, raced>>
     \/ /\ loaded[p][c] = "none" /\ (KnownCamp(c) \/ Ends(command[p].todo, "list"))
        /\ StepDone(p)
        /\ loaded' = [loaded EXCEPT ![p][c] = CacheRead(c)]
        /\ raced' = IF Halved(c) THEN raced \cup {<<"cache", c>>} ELSE raced
     \/ /\ loaded[p][c] = "none" /\ ~(KnownCamp(c) \/ Ends(command[p].todo, "list"))
        /\ GoesOn(p, IF Ends(command[p].todo, "touch") THEN Tail(command[p].todo) ELSE <<>>, 0)
        /\ UNCHANGED <<loaded, raced>>
  /\ UNCHANGED <<rosters, fileVars, keyVars, removed, cut, commands, stops>>

\* persistCampLocked: the config file, without the cache ...
SaveConfig(p) ==
  /\ Step(p) = "config" /\ StepDone(p)
  /\ config' = [config EXCEPT ![command[p].camp] = "plain"]
  /\ UNCHANGED <<rosters, flat, cache, keyVars, loaded, campsHistory, commands, stops>>

\* ... and then the cache file.
SaveCache(p) ==
  LET c == command[p].camp IN
  /\ Step(p) = "cache" /\ StepDone(p)
  /\ cache' = [cache EXCEPT ![c] = loaded[p][c]]
  /\ UNCHANGED <<rosters, config, flat, keyVars, loaded, campsHistory, commands, stops>>

-----------------------------------------------------------------------------
(* The list: read, changed and saved, with no lock between.                *)

Saves == {"list", "unlist", "touch"}

\* The processes that will save what the other's save makes stale.
Overlapped(p) == IF \E q \in Programs \ {p} : Step(q) \in Saves THEN Programs ELSE {}

ReadList(p) ==
  /\ Step(p) = "readList"
  /\ command' = [command EXCEPT ![p].todo = Tail(@), ![p].seen = listed]
  /\ raced' = raced \cup {<<"list", command[q].camp>> : q \in Overlapped(p)}
  /\ UNCHANGED <<rosters, fileVars, keyVars, loaded, removed, cut, commands, stops>>

\* markKnown.
WithCamp(seen, c) == seen \cup {c}

WithoutCamp(seen, c) == seen \ {c}

SaveList(p) ==
  /\ Step(p) \in Saves /\ StepDone(p)
  /\ listed' = IF Step(p) = "unlist" THEN WithoutCamp(command[p].seen, command[p].camp)
               ELSE WithCamp(command[p].seen, command[p].camp)
  /\ cut' = IF Step(p) = "touch" THEN cut ELSE cut \ {<<"list", command[p].camp>>}
  /\ UNCHANGED <<fileVars, keyVars, loaded, removed, raced, commands, stops>>

-----------------------------------------------------------------------------
(* The key pair.                                                           *)

\* Faulty variant: a key of old stays where it is.
ToMigrateNever(c) == FALSE

\* Migrate: unless there is a key in the new place.
ToMigrate(c) == priv[c] = 0 /\ oldKey[c] # 0

Migrate(p) ==
  LET c == command[p].camp IN
  /\ Step(p) = "migrate"
  /\ IF ToMigrate(c) THEN GoesOn(p, <<"priv", "pub", "rmOldKey", "key">>, oldKey[c])
     ELSE GoesOn(p, <<"key">>, 0)
  /\ UNCHANGED <<rosters, fileVars, keyVars, loaded, campsHistory, commands, stops>>

SavePriv(p) ==
  /\ Step(p) = "priv" /\ StepDone(p)
  /\ priv' = [priv EXCEPT ![command[p].camp] = command[p].key]
  /\ UNCHANGED <<rosters, fileVars, pub, oldKey, madeKeys, running>>
  /\ UNCHANGED <<loaded, campsHistory, commands, stops>>

SavePub(p) ==
  /\ Step(p) = "pub" /\ StepDone(p)
  /\ pub' = [pub EXCEPT ![command[p].camp] = command[p].key]
  /\ UNCHANGED <<rosters, fileVars, priv, oldKey, madeKeys, running>>
  /\ UNCHANGED <<loaded, campsHistory, commands, stops>>

RemoveOldKey(p) ==
  /\ Step(p) = "rmOldKey" /\ StepDone(p)
  /\ oldKey' = [oldKey EXCEPT ![command[p].camp] = 0]
  /\ UNCHANGED <<rosters, fileVars, priv, pub, madeKeys, running>>
  /\ UNCHANGED <<loaded, campsHistory, commands, stops>>

\* LoadOrGenerate: a pair with a file missing is generated anew; a file of the
\* wrong size is an error.  The camp is started with the key, and the config
\* gets it, unless it has it.
LoadKey(p) ==
  LET c == command[p].camp IN
  /\ Step(p) = "key"
  /\ \/ /\ {priv[c], pub[c]} \cap {0, Torn} = {}
        /\ running' = [running EXCEPT ![c] = priv[c]]
        /\ \E todo \in {<<>>, <<"config", "cache">>} : GoesOn(p, todo, 0)
        /\ UNCHANGED madeKeys
     \/ /\ 0 \in {priv[c], pub[c]}
        /\ GoesOn(p, <<"priv", "pub", "key">>, FreshKey)
        /\ madeKeys' = FreshKey
        /\ UNCHANGED running
     \/ /\ 0 \notin {priv[c], pub[c]} /\ Torn \in {priv[c], pub[c]}
        /\ GoesOn(p, <<>>, 0)
        /\ UNCHANGED <<madeKeys, running>>
  /\ UNCHANGED <<rosters, fileVars, priv, pub, oldKey, loaded, campsHistory, commands, stops>>

-----------------------------------------------------------------------------
\* Remove: the camp's directory.
RemoveCamp(p) ==
  LET c == command[p].camp IN
  /\ Step(p) = "rmCamp" /\ StepDone(p)
  /\ config' = [config EXCEPT ![c] = "none"] /\ cache' = [cache EXCEPT ![c] = "none"]
  /\ priv' = [priv EXCEPT ![c] = 0] /\ pub' = [pub EXCEPT ![c] = 0]
  /\ removed' = removed \cup {c}
  /\ UNCHANGED <<rosters, flat, oldKey, madeKeys, running, loaded, cut, raced, commands, stops>>

\* A command is at its end.
CommandEnds(p) ==
  /\ command[p] # NoCommand /\ command[p].todo = <<>>
  /\ command' = [command EXCEPT ![p] = NoCommand]
  /\ loaded' = IF p = "cli" THEN [loaded EXCEPT ![p] = [c \in Camps |-> "none"]] ELSE loaded
  /\ UNCHANGED <<rosters, fileVars, keyVars, campsHistory, commands, stops>>

\* The windows that a process is in as it ends: a joining or a removal that is done again
\* closes that of the list.
OpenWindows(p) ==
  (IF Step(p) = "cache" /\ cache[command[p].camp] = "none" THEN {"cache"} ELSE {})
    \cup (IF Step(p) = "pub" \/ priv' # priv THEN {"pair"} ELSE {})
    \cup (IF \/ Step(p) \in {"list", "unlist"}
             \/ Ends(command[p].todo, "list") /\ Step(p) \in {"cache", "readList"}
             \/ Removes(p) /\ Step(p) \in {"rmOldKey", "readList"}
          THEN {"list"} ELSE {})

\* A process ends, within a command or between two.
ProgramEnds(p) ==
  LET c == command[p].camp IN
  /\ stops > 0 /\ stops' = stops - 1
  /\ \/ UNCHANGED <<priv, pub>>
     \/ Step(p) = "priv" /\ priv' = [priv EXCEPT ![c] = Torn] /\ UNCHANGED pub
     \/ Step(p) = "pub" /\ pub' = [pub EXCEPT ![c] = Torn] /\ UNCHANGED priv
  /\ command' = [command EXCEPT ![p] = NoCommand]
  /\ loaded' = [loaded EXCEPT ![p] = [d \in Camps |-> "none"]]
  /\ cut' = cut \cup {<<w, c>> : w \in OpenWindows(p)}
  /\ UNCHANGED <<rosters, fileVars, oldKey, madeKeys, running, removed, raced, commands>>

CampsNext ==
  \/ \E p \in Programs, c \in Camps : CreateCamp(p, c) \/ JoinCamp(p, c) \/ UseCamp(p, c)
  \/ \E c \in Camps : ForgetCamp(c) \/ LoadForStart(c) \/ UpdateCamp(c)
  \/ \E p \in Programs :
       \/ LoadConfig(p) \/ SaveConfig(p) \/ SaveCache(p) \/ ReadList(p) \/ SaveList(p)
       \/ Migrate(p) \/ SavePriv(p) \/ SavePub(p) \/ RemoveOldKey(p) \/ LoadKey(p)
       \/ RemoveCamp(p) \/ CommandEnds(p) \/ ProgramEnds(p)

CampsSpec == CampsInit /\ [][CampsNext]_campsVars

-----------------------------------------------------------------------------
\* Type invariant; a key in a file was generated, and none is in two camps.
CampsTypeOK ==
  /\ listed \subseteq Camps /\ flat \subseteq Camps
  /\ config \in [Camps -> {"none", "mixed", "plain"}]
  /\ cache \in [Camps -> {"none", "empty", "trusts"}]
  /\ \A c \in Camps : {priv[c], pub[c], oldKey[c], running[c]} \subseteq (0..madeKeys) \cup {Torn}
  /\ \A c, d \in Camps : priv[c] \notin {0, Torn} /\ priv[c] = priv[d] => c = d
  /\ loaded \in [Programs -> [Camps -> {"none", "empty", "trusts"}]]

\* A window of the camp was hit, by a crash or by the other process.
Hit(w, c) == <<w, c>> \in cut \cup raced

\* A camp is started with the key it was started with before: its members know
\* this peer by it.  Whatever two processes do and wherever a crash comes, unless
\* the camp was removed, or the crash came within the private key's file or between it
\* and the public one: without the latter the pair is taken for none (identity.go:163,
\* 114, although :48 says that a missing pub.key is fine).
IdentityIsKept ==
  [][\A c \in Camps : running[c] # 0 /\ running'[c] # running[c] =>
       c \in removed \/ Hit("pair", c)]_campsVars

\* What was trusted in the camp from before is on the disk, in whichever layout,
\* whenever no command is between its two files; after any crash and whatever the
\* other process did.  Unless the camp was removed, or between the config file and
\* the very first cache file (config.go:444-449) came a crash, or the other process
\* and read the camp there.
TrustIsKept ==
  1 \notin removed /\ ~Hit("cache", 1) /\ (\A p \in Programs : command[p].camp # 1) =>
    \/ cache[1] = "trusts"
    \/ cache[1] = "none" /\ (config[1] = "mixed" \/ (config[1] = "none" /\ 1 \in flat))

\* The camps that are listed are those that are there, whenever no command is
\* under way.  Excused is a camp whose last joining or removal a crash cut between
\* its files and the list, until it is done again; one that was removed while the
\* other process had it (it writes the directory again); and the two camps of two
\* commands that read the list before either had saved it: others are not affected.
\* A config of old beside the directory outlives the removal (manager.go:156 says it
\* forgets a camp entirely): it does not count as there.
ListFollows ==
  command = [p \in Programs |-> NoCommand] =>
    \A c \in {d \in Camps : ~Hit("list", d)} :
      c \in listed <=> config[c] # "none" \/ c \in flat \ removed

\* Two processes without a common lock, and crashes at any file: neither the trust
\* nor the key of a camp is lost, nor a camp from the list, outside the windows that
\* the three parts name.
CampsSurvive == [](TrustIsKept /\ ListFollows) /\ IdentityIsKept

===============================================================================
