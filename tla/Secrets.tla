-------------------------------- MODULE Secrets --------------------------------
(***************************************************************************)
(* services/secrets: one peer's vaults, the environments in them and their *)
(* secrets, in a database that survives crashes statement by statement,    *)
(* its migration from the layout without environments, and the tree that   *)
(* the user sees or a member of a channel is sent.  One channel; names and *)
(* values are left out, and with them Rename and SetSecret; so is a        *)
(* request of a peer that is no member, which is refused before the tree   *)
(* is read.  Ids are never used again.                                     *)
(***************************************************************************)
EXTENDS Naturals, FiniteSets

CONSTANTS
  VaultIds, EnvIds, SecretIds, \* bounds: ids in existence
  SecretChanges                \* bound: requests of the user, openings, crashes

ASSUME SecretsAssumption == {VaultIds, EnvIds, SecretIds, SecretChanges} \subseteq Nat

VARIABLES
  vaults,       \* the table of vaults
  envs,         \* of environments, by id, with vault and share
  entries,      \* of secrets, by id, with their environment: 0 is ''
  legacyVault,  \* their vault_id, for the secrets of the old layout
  legacyColumn, \* that column is there
  legacyShare,  \* the vaults whose old channels column has the channel
  madeIds,      \* the ids used so far
  opened,       \* Service.db
  statement,    \* what the caller that holds the mutex does next
  tree,       \* the tree read so far: environments with their secrets
  lateEnvs, lateSecrets, \* history: rows written to what was deleted already
  cutShort,     \* history: the vaults whose migration a crash cut in two
  secretChanges

tables == <<vaults, envs, entries>>
legacy == <<legacyVault, legacyColumn, legacyShare>>
lateRows == <<lateEnvs, lateSecrets>>
secretVars == <<tables, legacy, madeIds, opened, statement, tree, lateRows, cutShort, secretChanges>>

VaultSet == 1..VaultIds
EnvSet == 1..EnvIds
SecretSet == 1..SecretIds
Absent == [vault |-> 0, shared |-> FALSE]
Gone == EnvIds + 1 \* no environment has this number
Free == [do |-> "nothing", of |-> 0, todo |-> {}]

EnvsOf(v) == {e \in EnvSet : envs[e].vault = v}
EntriesOf(es) == {s \in SecretSet : entries[s] \in es}

\* A new database, or one of the old layout: two vaults, one of them with a
\* secret, or both.
SecretsInit ==
  /\ \/ vaults = {} /\ legacyVault = [s \in SecretSet |-> 0]
     \/ vaults = {1, 2} /\ legacyVault \in [SecretSet -> 0..2] /\ legacyVault[1] # 0
  /\ legacyColumn = (vaults # {})
  /\ legacyShare \in SUBSET vaults
  /\ envs = [e \in EnvSet |-> Absent]
  /\ entries = [s \in SecretSet |-> IF legacyVault[s] = 0 THEN Gone ELSE 0]
  /\ madeIds = [vaults |-> Cardinality(vaults), envs |-> 0,
                secrets |-> Cardinality({s \in SecretSet : legacyVault[s] # 0})]
  /\ \A s \in 1..madeIds.secrets : legacyVault[s] # 0
  /\ opened = FALSE /\ statement = Free
  /\ tree = {}
  /\ lateEnvs = {} /\ lateSecrets = {} /\ cutShort = {}
  /\ secretChanges = SecretChanges

SecretChange == secretChanges > 0 /\ secretChanges' = secretChanges - 1
MutexFree == statement = Free

UserChange == SecretChange /\ opened /\ MutexFree
Goes(do, of, todo) == statement' = [do |-> do, of |-> of, todo |-> todo]

-----------------------------------------------------------------------------
(* Opening and migrating.                                                  *)

\* conn: the first use after a start or a change of camp.
OpenStore ==
  /\ SecretChange /\ ~opened /\ MutexFree
  /\ Goes("migrate", 0, vaults)
  /\ UNCHANGED <<tables, legacy, madeIds, opened, tree, lateRows, cutShort>>

\* Environment of a vault.
Environment(v, shared) == [vault |-> v, shared |-> shared]

\* Faulty variant: one environment shows that all is migrated.
UnmigratedIfNone(v) == \A e \in EnvSet : envs[e] = Absent

\* migrate: a vault without environments has not been migrated.
Unmigrated(v) == EnvsOf(v) = {}

\* A vault is looked at, and gets its default environment.
MigrateVault ==
  /\ statement.do = "migrate"
  /\ \E v \in statement.todo :
       IF Unmigrated(v)
       THEN LET e == madeIds.envs + 1 IN
            /\ e \in EnvSet
            /\ envs' = [envs EXCEPT ![e] = Environment(v, v \in legacyShare)]
            /\ madeIds' = [madeIds EXCEPT !.envs = e]
            /\ Goes("repoint", e, statement.todo \ {v})
       ELSE /\ Goes("migrate", 0, statement.todo \ {v})
            /\ UNCHANGED <<envs, madeIds>>
  /\ UNCHANGED <<vaults, entries, legacy, opened, tree, lateRows, cutShort, secretChanges>>

\* Its secrets follow.
Repoint ==
  /\ statement.do = "repoint"
  /\ entries' = [s \in SecretSet |->
       IF legacyColumn /\ entries[s] = 0 /\ legacyVault[s] = envs[statement.of].vault
       THEN statement.of ELSE entries[s]]
  /\ Goes("migrate", 0, statement.todo)
  /\ UNCHANGED <<vaults, envs, legacy, madeIds, opened, tree, lateRows, cutShort, secretChanges>>

\* The old column goes.
MigrateEnd ==
  /\ statement.do = "migrate" /\ statement.todo = {}
  /\ legacyColumn' = FALSE
  /\ opened' = TRUE /\ statement' = Free
  /\ UNCHANGED <<tables, legacyVault, legacyShare, madeIds, tree>>
  /\ UNCHANGED <<lateRows, cutShort, secretChanges>>

\* The camp changes, or the process ends, also between two statements.
CloseStore ==
  /\ SecretChange
  /\ opened' = FALSE /\ statement' = Free
  /\ cutShort' = cutShort \cup
       (IF statement.do = "repoint" /\ legacyColumn THEN {envs[statement.of].vault} ELSE {})
  /\ tree' = {}
  /\ UNCHANGED <<tables, legacy, madeIds, lateRows>>

-----------------------------------------------------------------------------
(* The user's requests.                                                    *)

CreateVault ==
  LET v == madeIds.vaults + 1 IN
  /\ UserChange /\ v \in VaultSet
  /\ vaults' = vaults \cup {v} /\ madeIds' = [madeIds EXCEPT !.vaults = v]
  /\ UNCHANGED <<envs, entries, legacy, opened, statement, tree, lateRows, cutShort>>

\* Nothing checks that the vault is there still.
CreateEnv ==
  LET e == madeIds.envs + 1 IN
  /\ UserChange /\ e \in EnvSet
  /\ \E v \in 1..madeIds.vaults, shared \in BOOLEAN :
       /\ envs' = [envs EXCEPT ![e] = Environment(v, shared)]
       /\ lateEnvs' = lateEnvs \cup (IF v \in vaults THEN {} ELSE {e})
  /\ madeIds' = [madeIds EXCEPT !.envs = e]
  /\ UNCHANGED <<vaults, entries, legacy, opened, statement, tree, lateSecrets, cutShort>>

SetEnvChannels(e) ==
  /\ UserChange /\ envs[e] # Absent
  /\ envs' = [envs EXCEPT ![e].shared = ~@]
  /\ UNCHANGED <<vaults, entries, legacy, madeIds, opened, statement, tree, lateRows, cutShort>>

\* Nor does anything check that the environment is.
AddSecret ==
  LET s == madeIds.secrets + 1 IN
  /\ UserChange /\ s \in SecretSet
  /\ \E e \in 1..madeIds.envs :
       /\ entries' = [entries EXCEPT ![s] = e]
       /\ lateSecrets' = lateSecrets \cup (IF envs[e] = Absent THEN {s} ELSE {})
  /\ madeIds' = [madeIds EXCEPT !.secrets = s]
  /\ UNCHANGED <<vaults, envs, legacy, opened, statement, tree, lateEnvs, cutShort>>

DeleteSecret(s) ==
  /\ UserChange /\ entries[s] # Gone
  /\ entries' = [entries EXCEPT ![s] = Gone]
  /\ UNCHANGED <<vaults, envs, legacy, madeIds, opened, statement, tree, lateRows, cutShort>>

\* DeleteVault and DeleteEnv: one statement each, innermost table first.
DeleteOrder == [entries |-> "envs", envs |-> "vault", vault |-> "nothing", first |-> "entries"]

\* One of them begins: the vault (0 if it stays) and the environments to go.
BeginDelete ==
  /\ UserChange
  /\ \/ \E v \in vaults : Goes(DeleteOrder.first, v, EnvsOf(v))
     \/ \E e \in EnvSet : envs[e] # Absent /\ Goes(DeleteOrder.first, 0, {e})
  /\ UNCHANGED <<tables, legacy, madeIds, opened, tree, lateRows, cutShort>>

\* The next of its statements.
DeleteStep ==
  LET table == statement.do IN
  /\ table \in {"entries", "envs", "vault"}
  /\ entries' = [s \in SecretSet |->
       IF table = "entries" /\ entries[s] \in statement.todo THEN Gone ELSE entries[s]]
  /\ envs' = [e \in EnvSet |->
       IF table = "envs" /\ e \in statement.todo THEN Absent ELSE envs[e]]
  /\ vaults' = IF table = "vault" THEN vaults \ {statement.of} ELSE vaults
  /\ statement' = IF DeleteOrder[table] = "nothing" THEN Free
                  ELSE [statement EXCEPT !.do = DeleteOrder[table]]
  /\ UNCHANGED <<legacy, madeIds, opened, tree, lateRows, cutShort, secretChanges>>

-----------------------------------------------------------------------------
(* Reading the tree: a query for each environment.                         *)

\* The environments that the reader is shown: all, or the channel's.
ShownEnvs(all) == {e \in EnvSet : envs[e].vault \in vaults /\ (all \/ envs[e].shared)}
TreeOf(es) == {[env |-> e, entries |-> EntriesOf({e})] : e \in es}

\* Local, for the user (1); handleList and FetchChannel, for the channel (0).
BeginRead ==
  /\ UserChange
  /\ \E all \in {0, 1} : Goes("read", all, ShownEnvs(all = 1))
  /\ tree' = {}
  /\ UNCHANGED <<tables, legacy, madeIds, opened, lateRows, cutShort>>

ReadEnv ==
  /\ statement.do = "read"
  /\ \E e \in statement.todo :
       /\ tree' = tree \cup TreeOf({e})
       /\ statement' = [statement EXCEPT !.todo = @ \ {e}]
  /\ UNCHANGED <<tables, legacy, madeIds, opened, lateRows, cutShort, secretChanges>>

ReadEnd ==
  /\ statement.do = "read" /\ statement.todo = {}
  /\ statement' = Free /\ tree' = {}
  /\ UNCHANGED <<tables, legacy, madeIds, opened, lateRows, cutShort, secretChanges>>

-----------------------------------------------------------------------------
SecretsNext ==
  \/ OpenStore \/ MigrateVault \/ Repoint \/ MigrateEnd \/ CloseStore
  \/ CreateVault \/ CreateEnv \/ AddSecret \/ BeginDelete \/ DeleteStep
  \/ \E e \in EnvSet : SetEnvChannels(e)
  \/ \E s \in SecretSet : DeleteSecret(s)
  \/ BeginRead \/ ReadEnv \/ ReadEnd

SecretsSpec == SecretsInit /\ [][SecretsNext]_secretVars

-----------------------------------------------------------------------------
\* Type invariant, with one relation in it: every row is of a vault or an
\* environment that was made, and only unmigrated secrets are of none.
SecretsTypeOK ==
  /\ vaults \cup legacyShare \subseteq 1..madeIds.vaults
  /\ \A e \in EnvSet : envs[e] # Absent => e <= madeIds.envs /\ envs[e].vault \in 1..madeIds.vaults
  /\ \A s \in SecretSet : entries[s] \in {Gone} \cup 0..madeIds.envs
  /\ opened \in BOOLEAN /\ legacyColumn \in BOOLEAN
  /\ statement.do \in {"nothing", "migrate", "repoint", "entries", "envs", "vault", "read"}
  /\ \A row \in tree : row.env \in EnvSet

\* Whatever statement a crash follows, no environment is without its vault and
\* no secret without its environment: nothing is left that the user cannot see
\* and cannot delete.  Excused are the rows that a late request wrote to a vault
\* or an environment deleted before, which the code does not look for.  (Secrets
\* that wait for their migration are the next property's.)
NothingOrphaned ==
  /\ \A e \in EnvSet \ lateEnvs : envs[e] # Absent => envs[e].vault \in vaults
  /\ \A s \in SecretSet \ lateSecrets : entries[s] \notin {Gone, 0} => envs[entries[s]] # Absent

\* The old column, the only thing that says whose an unmigrated secret is, goes
\* only when there is no such secret, and an opened store shows every secret:
\* after a crash at whichever statement of a migration, except one, for the
\* secrets of one vault.  A crash between the insert of a vault's default
\* environment and the update of its secrets leaves a vault that no later opening
\* migrates, and its secrets (of vaults in cutShort) are lost with the column, in
\* spite of the comment "Idempotent; safe to run on every open".
MigrationKeepsSecrets ==
  ~legacyColumn \/ opened =>
    \A s \in SecretSet : entries[s] = 0 => legacyVault[s] \in cutShort

\* A tree read query by query is the tree of one moment.
AnswersAreOfOneMoment ==
  statement.do = "read" /\ statement.todo = {} => tree = TreeOf(ShownEnvs(statement.of = 1))

\* The three tables agree over crashes between any two statements.  Nothing is
\* orphaned but what a late request wrote to a deleted vault or environment;
\* nothing is lost by the migration but the secrets of a vault for which it was
\* cut between its two statements; nothing is shown that never was so.
TablesAgree == NothingOrphaned /\ MigrationKeepsSecrets /\ AnswersAreOfOneMoment

===============================================================================
