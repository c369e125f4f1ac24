----------------------------- MODULE UnionBoot -----------------------------
(***************************************************************************)
(* How union comes up: settings of the deployment, the key for secrets,    *)
(* the configuration file with the administrator, the database with its    *)
(* migrations and its sealed settings, the port.  Several processes may    *)
(* start in one directory at once, each may be killed at every step, the   *)
(* machine may lose power, and a process that serves may be told to change *)
(* to another database, which opens it by the same steps.                  *)
(***************************************************************************)
EXTENDS Naturals

CONSTANTS
    Servers,     \* processes of union in one directory
    Databases,     \* databases of the PostgreSQL server
    NoUrl,         \* no database is configured
    Versions,      \* numbers of migrations
    Builds,        \* what each process may be built with: a checksum per version, 0 for none
    Deployments,   \* environments union may be started with
    Restored,      \* databases that hold data of another installation
    Legacy,        \* databases that got version 1 before checksums were kept
    Nobody,
    MaxStarts      \* bound: starts of a process

VARIABLES
    deployment,    \* the environment of every start
    keyFile,       \* union/data/union.secret
    keyIsDurable,  \* its directory entry is on the disk
    config,        \* union/data/union-config.json, as a process reads it
    saved,         \* and as it is on the disk
    port,          \* the process that is bound to the port
    opened,        \* the database whose pool it has
    databases,
    server,
    early,         \* history: a process came up on an entry that was not synced
    starts

bootVars == <<deployment, keyFile, keyIsDurable, config, saved, port, opened, databases, server, early, starts>>

ASSUME BootAssumption ==
    /\ Nobody \notin Servers /\ NoUrl \notin Databases
    /\ Versions \subseteq Nat /\ Restored \cup Legacy \subseteq Databases
    /\ Builds \subseteq [Servers -> [Versions -> Nat]]
    /\ \A e \in Deployments : e.key \in {0, 3} /\ e.production \in BOOLEAN /\ e.url \in Databases \cup {NoUrl}

\* Keys, with what stands for a file without one.
NoKey == 0
Torn == 1            \* created, and not written
Foreign == 2         \* of another installation
Given == 3           \* UNION_SECRET_KEY
NewKey(p) == Given + server[p].run

NoConfig == [made |-> FALSE, url |-> NoUrl]
NoSum == 0 - 1       \* schema_migrations.checksum is NULL

\* A row of schema_migrations per version, and whether the statements have run.
Schema(d) == [v \in Versions |-> IF v = 1 /\ d \in Legacy THEN NoSum ELSE 0]

BootInit ==
    /\ deployment \in Deployments
    /\ keyFile = NoKey /\ keyIsDurable = FALSE
    /\ config = NoConfig /\ saved = NoConfig
    /\ port = Nobody /\ opened = NoUrl /\ early = FALSE /\ starts = 0
    /\ databases = [d \in Databases |->
           [exists |-> d \in Restored \cup Legacy, lock |-> Nobody, ledger |-> Schema(d),
            ran |-> {v \in Versions : Schema(d)[v] # 0},
            settings |-> IF d \in Restored THEN Foreign ELSE NoKey]]
    /\ \E build \in Builds :
         server = [p \in Servers |-> [at |-> "stopped", build |-> build[p], run |-> 0,
                                         key |-> NoKey, target |-> NoUrl, applies |-> {}]]

StandsAt(p, place) == server[p].at = place
Db(p) == databases[server[p].target]
GoesTo(p, place) == server' = [server EXCEPT ![p].at = place]
WithConfig(p) == IF server[p].target = NoUrl THEN "bind" ELSE "connect"
TakesKey(p, key) == server' = [server EXCEPT ![p].at = "config", ![p].key = key]

\* The advisory lock belongs to the connection, and a transaction that is open with it.
Unlocked(p) == [d \in Databases |-> [databases[d] EXCEPT !.lock = IF @ = p THEN Nobody ELSE @]]

\* An error ends a start; a process that serves answers it.
Fails(p) ==
    /\ GoesTo(p, IF port = p THEN "serving" ELSE "refused")
    /\ databases' = Unlocked(p)

-----------------------------------------------------------------------------
\* apply_runtime_environment and ensure_production_artifacts: in production both ports
\* are of the loopback, ram has an https address and no default password, and what is
\* served is built.
Fits == deployment.production => deployment.faults = {}

\* Settings::load
Url == IF deployment.url # NoUrl THEN deployment.url ELSE config.url

StartUp(p) ==
    /\ server[p].at \in {"stopped", "refused"} /\ starts < MaxStarts
    /\ starts' = starts + 1
    /\ server' = [server EXCEPT ![p].at = IF Fits THEN "key" ELSE "refused",
                                  ![p].run = starts + 1, ![p].target = Url]
    /\ UNCHANGED <<deployment, keyFile, keyIsDurable, config, saved, port, opened, databases, early>>

\* secrets::init.
ReadKey(p) ==
    /\ StandsAt(p, "key")
    /\ \/ /\ deployment.key # NoKey
          /\ TakesKey(p, deployment.key) /\ UNCHANGED databases
       \/ /\ deployment.key = NoKey /\ (deployment.production \/ keyFile = Torn)
          /\ Fails(p)
       \/ /\ deployment.key = NoKey /\ ~deployment.production /\ keyFile = NoKey
          /\ GoesTo(p, "create key") /\ UNCHANGED databases
       \/ /\ deployment.key = NoKey /\ ~deployment.production /\ keyFile > Torn
          /\ TakesKey(p, keyFile) /\ UNCHANGED databases
    /\ UNCHANGED <<deployment, keyFile, keyIsDurable, config, saved, port, opened, early, starts>>

\* write_private_key_file creates the file only if there is none; a process that comes
\* second reads what the first has written so far.
CreateKey(p) ==
    /\ StandsAt(p, "create key")
    /\ \/ /\ keyFile = NoKey
          /\ keyFile' = Torn /\ GoesTo(p, "write key") /\ UNCHANGED databases
       \/ /\ keyFile = Torn /\ Fails(p) /\ UNCHANGED keyFile
       \/ /\ keyFile > Torn /\ TakesKey(p, keyFile) /\ UNCHANGED <<keyFile, databases>>
    /\ UNCHANGED <<deployment, keyIsDurable, config, saved, port, opened, early, starts>>

WriteKey(p) ==
    /\ StandsAt(p, "write key")
    /\ keyFile' = NewKey(p) /\ TakesKey(p, NewKey(p))
    /\ UNCHANGED <<deployment, keyIsDurable, config, saved, port, opened, databases, early, starts>>

\* load_or_create_local_config: with a configuration there is an administrator.
ReadConfig(p) ==
    /\ StandsAt(p, "config")
    /\ GoesTo(p, IF ~config.made THEN "create config" ELSE WithConfig(p))
    /\ early' = (early \/ (config.made /\ (config # saved \/ ~(keyIsDurable \/ deployment.key # NoKey))))
    /\ UNCHANGED <<deployment, keyFile, keyIsDurable, config, saved, port, opened, databases, starts>>

\* create_local_config: the first administrator has the password of the deployment or,
\* but for production, one that is made up.
PasswordIsUsable ==
    deployment.password \in IF deployment.production THEN {"long"} ELSE {"long", "none"}

CreateConfig(p) ==
    /\ StandsAt(p, "create config")
    /\ \/ PasswordIsUsable /\ GoesTo(p, "rename") /\ UNCHANGED databases
       \/ ~PasswordIsUsable /\ Fails(p)
    /\ UNCHANGED <<deployment, keyFile, keyIsDurable, config, saved, port, opened, early, starts>>

\* save_local_config: a file of its own that is written and synced takes the place of
\* the configuration, and the directory is synced, with the entry of the key.
Rename(p) ==
    /\ StandsAt(p, "rename")
    /\ config' = [made |-> TRUE, url |-> server[p].target]
    /\ GoesTo(p, "sync")
    /\ UNCHANGED <<deployment, keyFile, keyIsDurable, saved, port, opened, databases, early, starts>>

\* A configuration whose directory is not synced.
Sync_Skipped(p) ==
    /\ StandsAt(p, "sync")
    /\ GoesTo(p, IF port = p THEN "serving" ELSE WithConfig(p))
    /\ UNCHANGED <<deployment, keyFile, keyIsDurable, config, saved, port, opened, databases, early, starts>>

Sync(p) ==
    /\ StandsAt(p, "sync")
    /\ saved' = config /\ keyIsDurable' = TRUE
    /\ GoesTo(p, IF port = p THEN "serving" ELSE WithConfig(p))
    /\ UNCHANGED <<deployment, keyFile, config, port, opened, databases, early, starts>>

-----------------------------------------------------------------------------
\* database::connect; production never creates a database.
Connect(p) ==
    /\ StandsAt(p, "connect")
    /\ \/ Db(p).exists /\ GoesTo(p, "lock") /\ UNCHANGED databases
       \/ ~Db(p).exists /\ ~deployment.production /\ GoesTo(p, "create") /\ UNCHANGED databases
       \/ ~Db(p).exists /\ deployment.production /\ Fails(p)
    /\ UNCHANGED <<deployment, keyFile, keyIsDurable, config, saved, port, opened, early, starts>>

\* CREATE DATABASE, which fails for one of two that have both seen that there is none.
CreateDatabase(p) ==
    /\ StandsAt(p, "create")
    /\ \/ /\ ~Db(p).exists
          /\ databases' = [databases EXCEPT ![server[p].target].exists = TRUE]
          /\ GoesTo(p, "lock")
       \/ Db(p).exists /\ Fails(p)
    /\ UNCHANGED <<deployment, keyFile, keyIsDurable, config, saved, port, opened, early, starts>>

\* A migrator that does not wait for the lock.
LockSchema_Shared(p) ==
    /\ StandsAt(p, "lock") /\ GoesTo(p, "migrate")
    /\ UNCHANGED <<deployment, keyFile, keyIsDurable, config, saved, port, opened, databases, early, starts>>

\* pg_advisory_lock, and BEGIN.
LockSchema(p) ==
    /\ StandsAt(p, "lock") /\ Db(p).lock = Nobody
    /\ databases' = [databases EXCEPT ![server[p].target].lock = p]
    /\ GoesTo(p, "migrate")
    /\ UNCHANGED <<deployment, keyFile, keyIsDurable, config, saved, port, opened, early, starts>>

Has(p, v) == server[p].build[v] # 0
Edited(p) == \E v \in Versions : Has(p, v) /\ Db(p).ledger[v] \notin {0, NoSum, server[p].build[v]}
Missing(p) == {v \in Versions : Has(p, v) /\ Db(p).ledger[v] = 0}

\* migrate_inner runs the statements of what is missing inside the transaction; they
\* fail on a database where they have run.
Migrate(p) ==
    /\ StandsAt(p, "migrate")
    /\ \/ /\ ~Edited(p) /\ Missing(p) \cap Db(p).ran = {}
          /\ server' = [server EXCEPT ![p].at = "commit", ![p].applies = Missing(p)]
          /\ UNCHANGED databases
       \/ /\ Edited(p) \/ Missing(p) \cap Db(p).ran # {}
          /\ Fails(p)
    /\ UNCHANGED <<deployment, keyFile, keyIsDurable, config, saved, port, opened, early, starts>>

\* COMMIT and pg_advisory_unlock; a version that is registered twice breaks the key of
\* schema_migrations.
CommitSchema(p) ==
    /\ StandsAt(p, "commit")
    /\ \/ /\ server[p].applies \subseteq Missing(p)
          /\ databases' = [Unlocked(p) EXCEPT
                 ![server[p].target].ran = @ \cup server[p].applies,
                 ![server[p].target].ledger = [v \in Versions |->
                     IF v \in server[p].applies \/ (Has(p, v) /\ @[v] = NoSum)
                     THEN server[p].build[v] ELSE @[v]]]
          /\ server' = [server EXCEPT ![p].at = "settings", ![p].applies = {}]
       \/ ~ server[p].applies \subseteq Missing(p) /\ Fails(p)
    /\ UNCHANGED <<deployment, keyFile, keyIsDurable, config, saved, port, opened, early, starts>>

\* decrypt: what was sealed with another key, or another version of it, stays closed.
Opens(p) == Db(p).settings \in {NoKey, server[p].key}

\* load_or_seed_app_settings.
LoadSettings(p) ==
    /\ StandsAt(p, "settings")
    /\ \/ /\ Opens(p)
          /\ GoesTo(p, IF Db(p).settings = NoKey THEN "seed" ELSE IF port = p THEN "rename" ELSE "bind")
          /\ UNCHANGED databases
       \/ ~Opens(p) /\ Fails(p)
    /\ UNCHANGED <<deployment, keyFile, keyIsDurable, config, saved, port, opened, early, starts>>

\* encrypted_app_settings
Seed(p) ==
    /\ StandsAt(p, "seed")
    /\ databases' = [databases EXCEPT ![server[p].target].settings = server[p].key]
    /\ GoesTo(p, IF port = p THEN "rename" ELSE "bind")
    /\ UNCHANGED <<deployment, keyFile, keyIsDurable, config, saved, port, opened, early, starts>>

-----------------------------------------------------------------------------
\* main binds the port after everything else is up.
Bind(p) ==
    /\ StandsAt(p, "bind")
    /\ \/ /\ port = Nobody /\ port' = p /\ opened' = server[p].target
          /\ GoesTo(p, "serving") /\ UNCHANGED databases
       \/ port # Nobody /\ Fails(p) /\ UNCHANGED <<port, opened>>
    /\ UNCHANGED <<deployment, keyFile, keyIsDurable, config, saved, early, starts>>

\* update_database_config opens the database as a start does, and then saves its url.
ChangeDatabase(p, d) ==
    /\ StandsAt(p, "serving")
    /\ server' = [server EXCEPT ![p].at = "connect", ![p].target = d]
    /\ UNCHANGED <<deployment, keyFile, keyIsDurable, config, saved, port, opened, databases, early, starts>>

\* A process ends, by a signal or a crash.
Ended(p) == [server[p] EXCEPT !.at = "stopped", !.key = NoKey, !.applies = {}]

End(p) ==
    /\ server[p].at \notin {"stopped", "refused"}
    /\ server' = [server EXCEPT ![p] = Ended(p)]
    /\ databases' = Unlocked(p)
    /\ IF port = p THEN port' = Nobody /\ opened' = NoUrl ELSE UNCHANGED <<port, opened>>
    /\ UNCHANGED <<deployment, keyFile, keyIsDurable, config, saved, early, starts>>

\* The machine loses power, and with it entries of the directory that were not synced.
PowerLoss ==
    /\ \E p \in Servers : server[p].at \notin {"stopped", "refused"}
    /\ server' = [p \in Servers |-> Ended(p)]
    /\ databases' = [d \in Databases |-> [databases[d] EXCEPT !.lock = Nobody]]
    /\ port' = Nobody /\ opened' = NoUrl
    /\ keyFile' \in IF keyIsDurable THEN {keyFile} ELSE {keyFile, NoKey}
    /\ config' \in {config, saved} /\ saved' = config'
    /\ UNCHANGED <<deployment, keyIsDurable, early, starts>>

BootNext ==
    \/ \E p \in Servers :
          \/ StartUp(p) \/ ReadKey(p) \/ CreateKey(p) \/ WriteKey(p) \/ ReadConfig(p)
          \/ CreateConfig(p) \/ Connect(p) \/ CreateDatabase(p) \/ LockSchema(p) \/ Migrate(p)
          \/ CommitSchema(p) \/ LoadSettings(p) \/ Seed(p) \/ Bind(p) \/ End(p)
          \/ Rename(p) \/ Sync(p)
          \/ \E d \in Databases : ChangeDatabase(p, d)
    \/ PowerLoss

BootSpec == BootInit /\ [][BootNext]_bootVars

-----------------------------------------------------------------------------
Places == {"stopped", "refused", "key", "create key", "write key", "config", "create config", "rename",
           "sync", "connect", "create", "lock", "migrate", "commit", "settings", "seed", "bind", "serving"}
Configs == [made : BOOLEAN, url : Databases \cup {NoUrl}]

BootTypeOK ==
    /\ deployment \in Deployments
    /\ keyFile \in Nat /\ keyIsDurable \in BOOLEAN /\ early \in BOOLEAN /\ starts \in Nat
    /\ config \in Configs /\ saved \in Configs
    /\ port \in Servers \cup {Nobody} /\ opened \in Databases \cup {NoUrl}
    /\ databases \in [Databases -> [exists : BOOLEAN, lock : Servers \cup {Nobody},
                                   ledger : [Versions -> Nat \cup {NoSum}], ran : SUBSET Versions,
                                   settings : Nat]]
    /\ server \in [Servers -> [at : Places, build : [Versions -> Nat], run : Nat, key : Nat,
                              target : Databases \cup {NoUrl}, applies : SUBSET Versions]]

\* The key the next start will use.
CurrentKey == IF deployment.key # NoKey THEN deployment.key ELSE keyFile

\* A database holds what it says: a version is registered if its statements have run, and
\* what is of this installation can be opened by the next start, whoever raced whom to
\* create the key and whatever a loss of power took away.  A process that serves could
\* be started again: its key and its configuration are on the disk and the database
\* named there can be opened; and the one it has opened has its whole schema.  What is
\* on the disk is said only while no process has come up on a configuration, or with
\* one on a key, that another had made and not yet synced.
StartsAgain ==
    /\ \A d \in Databases :
         /\ databases[d].ran = {v \in Versions : databases[d].ledger[v] # 0}
         /\ early \/ databases[d].settings \in {NoKey, Foreign, CurrentKey}
    /\ (port # Nobody /\ opened # NoUrl) =>
         \A v \in Versions : Has(port, v) => databases[opened].ledger[v] = server[port].build[v]
    /\ (port # Nobody /\ ~early) =>
         /\ saved.made /\ CurrentKey = server[port].key
         /\ Url # NoUrl => databases[Url].exists /\ databases[Url].settings = CurrentKey

\* A start or a change of the database comes to nothing, and what may cause that.
Stops(p) ==
    \/ ~StandsAt(p, "refused") /\ server'[p].at = "refused"
    \/ server[p].at \notin {"bind", "sync", "serving"} /\ server'[p].at = "serving"

Cause(p) ==
    \/ ~Fits
    \/ deployment.production /\ deployment.key = NoKey
    \/ deployment.key = NoKey /\ keyFile = Torn
    \/ ~config.made /\ ~PasswordIsUsable
    \/ server[p].target # NoUrl /\ (~Opens(p) \/ Edited(p))
    \/ StandsAt(p, "connect") /\ ~Db(p).exists /\ deployment.production
    \/ StandsAt(p, "create") /\ Db(p).exists
    \/ StandsAt(p, "bind") /\ port # Nobody

\* A start is refused, and a change of the database answered with an error, for a fault
\* of the deployment, a key file that is not written, a database of another
\* installation or with other migrations, a database created meanwhile or a port that
\* is taken: never for what another process, or one that was killed, left half done in
\* a database.
StartRefusedForCause == [][\A p \in Servers : Stops(p) => Cause(p)]_bootVars
=============================================================================
