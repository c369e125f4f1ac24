------------------------- MODULE RegistriesProofs -------------------------
(***************************************************************************)
(* Proofs about the start of union, about the two registries of hosts and  *)
(* about the reports of a machine, for any processes, databases, requests, *)
(* hosts, machines, intervals and clocks.                                  *)
(*                                                                         *)
(* UnionBoot: what a start, an end or a loss of power leaves can be        *)
(* started again, and a start is refused only for a cause.                 *)
(*                                                                         *)
(* HostRegistry: the table is rewritten from memory by whoever holds the   *)
(* mutex, so the invariant says what the holder's clone and the table have *)
(* in common with memory at each of its awaits.                            *)
(*                                                                         *)
(* AgentEnrollment: the secrets of two machines are different, and the row *)
(* holds a secret of one of them; a request that is served carries the     *)
(* secret of the row, so it comes from the machine that owns the row.  On  *)
(* a machine with one process that process is past the files it looks for, *)
(* or they are absent.                                                     *)
(*                                                                         *)
(* HostTelemetry: a report is refused for a cause only, a host that        *)
(* reports is shown online and within range, and exported points go        *)
(* forward in time.                                                        *)
(***************************************************************************)
EXTENDS HostRegistry, AgentEnrollment, UnionBoot, HostTelemetry, FiniteSetTheorems, TLAPS

USE DEF NoKey, Torn, Foreign, Given

-----------------------------------------------------------------------------
(* The inductive invariant. *)

InDatabase == {"connect", "create", "lock", "migrate", "commit", "settings", "seed"}
HasKey == InDatabase \cup {"config", "create config", "rename", "sync", "bind", "serving"}

\* A process that has a key has the one the next start will use.
KeyIsRead ==
    /\ \A p \in Servers :
          /\ server[p].at \in HasKey => server[p].key = CurrentKey /\ CurrentKey > Torn
          /\ server[p].at \in {"create key", "write key"} => deployment.key = NoKey
          /\ server[p].at = "write key" => keyFile = Torn
    /\ \A p, q \in Servers : server[p].at = "write key" /\ server[q].at = "write key" => p = q
    /\ keyIsDurable /\ deployment.key = NoKey => keyFile > Torn

\* Where a process stands that is bound to the port, and which database it is at work on.
StandsRight(p) ==
    /\ port = p => server[p].at \in InDatabase \cup {"rename", "sync", "serving"}
    /\ server[p].at = "serving" => port = p
    /\ server[p].at \in InDatabase => server[p].target # NoUrl
    /\ server[p].at \in {"lock", "migrate", "commit", "settings", "seed"} => Db(p).exists
    /\ server[p].at \notin {"stopped", "refused"} /\ port # p =>
          IF deployment.url # NoUrl THEN server[p].target = deployment.url
          ELSE server[p].target # NoUrl /\ server[p].at # "bind" =>
                  config.made /\ server[p].at \notin {"create config", "rename"}
    /\ server[p].at = "sync" => config.made
StandRight == \A p \in Servers : StandsRight(p)

ConfigIsRight ==
    /\ saved.made => config.made
    /\ \A c \in {config, saved} : ~c.made => c.url = NoUrl

\* Nobody comes past a configuration that cannot be made.
PastConfig == InDatabase \cup {"rename", "sync", "bind", "serving"}
AdministratorIsMade ==
    ~PasswordIsUsable => ~config.made /\ \A p \in Servers : server[p].at \notin PastConfig

\* The ledger says what ran, and the holder of the lock of a database knows what is missing.
Migrated(p, d) == \A v \in Versions : Has(p, v) => databases[d].ledger[v] = server[p].build[v]
Migrates(p) ==
    /\ server[p].at \in {"migrate", "commit"} => Db(p).lock = p
    /\ server[p].at = "commit" => ~Edited(p) /\ server[p].applies = Missing(p)
    /\ port # p /\ server[p].at \in {"settings", "seed", "bind"} /\ server[p].target # NoUrl =>
          Migrated(p, server[p].target)
    /\ port = p /\ opened # NoUrl => Migrated(p, opened)
LedgerIsTrue ==
    /\ \A d \in Databases : databases[d].ran = {v \in Versions : databases[d].ledger[v] # 0}
    /\ \A p \in Servers : Migrates(p)

\* What a loss of power does not take.
KeyIsKept == deployment.key # NoKey \/ keyIsDurable
\* The next start can open the database.
Ready(d) == databases[d].exists /\ databases[d].settings = CurrentKey /\ KeyIsKept

\* What is sealed can be opened again, and what the configuration names is sealed so.
SealedBy(d) == databases[d].settings \in {NoKey, Foreign} \/ (databases[d].settings = CurrentKey /\ KeyIsKept)
IsBacked(p) ==
    /\ server[p].at \in InDatabase \cup {"bind"} \/ port = p => KeyIsKept /\ saved.made
    /\ (server[p].at = "bind" \/ (server[p].at = "rename" /\ port = p)) /\ server[p].target # NoUrl =>
          Ready(server[p].target)
NamedIsReady == deployment.url = NoUrl => \A c \in {config, saved} : c.url # NoUrl => Ready(c.url)
GivenIsReady == deployment.url # NoUrl /\ port # Nobody => Ready(deployment.url)
SealedRight ==
    ~early =>
       /\ \A d \in Databases : SealedBy(d)
       /\ \A p \in Servers : IsBacked(p)
       /\ NamedIsReady /\ GivenIsReady

IInv == BootTypeOK /\ KeyIsRead /\ StandRight /\ ConfigIsRight /\ AdministratorIsMade /\ LedgerIsTrue /\ SealedRight

-----------------------------------------------------------------------------
(* Steps. *)

StartStep(p) ==
    \/ StartUp(p) \/ ReadKey(p) \/ CreateKey(p) \/ WriteKey(p) \/ ReadConfig(p) \/ CreateConfig(p)
    \/ Connect(p) \/ CreateDatabase(p) \/ LockSchema(p) \/ Migrate(p) \/ CommitSchema(p)
    \/ LoadSettings(p) \/ Seed(p) \/ Bind(p) \/ End(p) \/ Rename(p) \/ Sync(p)
    \/ \E d \in Databases : ChangeDatabase(p, d)

\* Constants and the types of what a process and a database are.
LEMMA Constants ==
    /\ Nobody \notin Servers /\ NoUrl \notin Databases /\ NoSum \notin Nat
    /\ \A e \in Deployments : e.key \in {0, 3} /\ e.production \in BOOLEAN /\ e.url \in Databases \cup {NoUrl}
  BY BootAssumption DEF BootAssumption, NoSum

ServerType == [at : Places, build : [Versions -> Nat], run : Nat, key : Nat,
               target : Databases \cup {NoUrl}, applies : SUBSET Versions]
DatabaseType == [exists : BOOLEAN, lock : Servers \cup {Nobody}, ledger : [Versions -> Nat \cup {NoSum}],
                 ran : SUBSET Versions, settings : Nat]

LEMMA GoesType ==
    ASSUME BootTypeOK, NEW p \in Servers, NEW place \in Places, GoesTo(p, place)
    PROVE  /\ server' \in [Servers -> ServerType]
           /\ server'[p].at = place /\ server'[p].key = server[p].key
           /\ server'[p].build = server[p].build /\ server'[p].target = server[p].target
           /\ server'[p].applies = server[p].applies /\ server'[p].run = server[p].run
           /\ \A q \in Servers : q # p => server'[q] = server[q]
  BY DEF BootTypeOK, ServerType, GoesTo

LEMMA UnlockedIs ==
    ASSUME BootTypeOK, NEW p \in Servers
    PROVE  /\ Unlocked(p) \in [Databases -> DatabaseType]
           /\ \A d \in Databases :
                 /\ Unlocked(p)[d].exists = databases[d].exists /\ Unlocked(p)[d].ledger = databases[d].ledger
                 /\ Unlocked(p)[d].ran = databases[d].ran /\ Unlocked(p)[d].settings = databases[d].settings
                 /\ Unlocked(p)[d].lock = IF databases[d].lock = p THEN Nobody ELSE databases[d].lock
<1>1. databases \in [Databases -> DatabaseType] /\ p \in Servers
  BY DEF BootTypeOK, DatabaseType
<1>2. ASSUME NEW d \in Databases
      PROVE  [databases[d] EXCEPT !.lock = IF @ = p THEN Nobody ELSE @] \in DatabaseType
  BY <1>1 DEF DatabaseType
<1>3. Unlocked(p) \in [Databases -> DatabaseType]
  BY <1>2 DEF Unlocked
<1>4. ASSUME NEW d \in Databases
      PROVE  /\ Unlocked(p)[d].exists = databases[d].exists /\ Unlocked(p)[d].ledger = databases[d].ledger
             /\ Unlocked(p)[d].ran = databases[d].ran /\ Unlocked(p)[d].settings = databases[d].settings
             /\ Unlocked(p)[d].lock = IF databases[d].lock = p THEN Nobody ELSE databases[d].lock
  BY <1>1 DEF Unlocked, DatabaseType
<1> QED BY <1>3, <1>4

LEMMA InitType == BootInit => BootTypeOK
<1> SUFFICES ASSUME BootInit PROVE BootTypeOK
  OBVIOUS
<1>1. databases \in [Databases -> DatabaseType]
  <2>1. \A d \in Databases : Schema(d) \in [Versions -> Nat \cup {NoSum}]
    BY DEF Schema
  <2> QED BY <2>1 DEF BootInit, DatabaseType
<1>2. server \in [Servers -> ServerType]
  <2>1. PICK build \in Builds :
           server = [p \in Servers |-> [at |-> "stopped", build |-> build[p], run |-> 0,
                                        key |-> NoKey, target |-> NoUrl, applies |-> {}]]
    BY DEF BootInit
  <2>2. \A p \in Servers : build[p] \in [Versions -> Nat]
    BY BootAssumption DEF BootAssumption
  <2> QED BY <2>1, <2>2 DEF ServerType, Places
<1> QED BY <1>1, <1>2 DEF BootInit, BootTypeOK, NoConfig, Configs, ServerType, DatabaseType

\* A step of a process changes nothing of another, nor what it is built with.
LEMMA OthersStay ==
    ASSUME BootTypeOK, NEW p \in Servers, StartStep(p)
    PROVE  /\ \A q \in Servers : q # p => server'[q] = server[q]
           /\ deployment' = deployment
           /\ server'[p].build = server[p].build
           /\ \A q \in Servers : q # p => (port' = q <=> port = q)
<1> USE DEF StartStep, GoesTo, TakesKey
<1>0. server \in [Servers -> ServerType]
  BY DEF BootTypeOK, ServerType
<1>1. CASE \E place \in Places : GoesTo(p, place) /\ UNCHANGED <<deployment, port>>
  BY <1>0, <1>1 DEF ServerType
<1>2. CASE StartUp(p)
  BY <1>0, <1>2 DEF StartUp, ServerType
<1>3. CASE (\E key : TakesKey(p, key)) /\ UNCHANGED <<deployment, port>>
  BY <1>0, <1>3 DEF ServerType
<1>4. CASE Migrate(p)
  BY <1>0, <1>4 DEF Migrate, Fails, ServerType
<1>5. CASE CommitSchema(p)
  BY <1>0, <1>5 DEF CommitSchema, Fails, ServerType
<1>6. CASE \E d \in Databases : ChangeDatabase(p, d)
  BY <1>0, <1>6 DEF ChangeDatabase, ServerType
<1>7. CASE Bind(p)
  BY <1>0, <1>7, Constants DEF Bind, Fails, ServerType
<1>8. CASE End(p)
  <2>1. server' = [server EXCEPT ![p] = Ended(p)] /\ deployment' = deployment
        /\ (IF port = p THEN port' = Nobody ELSE port' = port)
    BY <1>8 DEF End
  <2> QED BY <1>0, <2>1, Constants DEF Ended, ServerType
<1>9. CASE CreateKey(p) \/ ReadKey(p) \/ WriteKey(p)
  <2>1. (\E place \in Places : GoesTo(p, place)) \/ (\E key : TakesKey(p, key))
    BY <1>9, Zenon DEF CreateKey, ReadKey, WriteKey, Fails, Places
  <2> QED BY <1>1, <1>3, <1>9, <2>1 DEF CreateKey, ReadKey, WriteKey
<1> QED
  BY <1>1, <1>2, <1>4, <1>5, <1>6, <1>7, <1>8, <1>9
  DEF ReadConfig, CreateConfig, Connect, CreateDatabase, LockSchema, LoadSettings, Seed, Rename, Sync,
      Fails, WithConfig, Places

LEMMA DatabasesType ==
    ASSUME BootTypeOK, NEW p \in Servers, StartStep(p), StandsRight(p)
    PROVE  databases' \in [Databases -> DatabaseType]
<1> USE DEF StartStep
<1>0. databases \in [Databases -> DatabaseType] /\ server[p] \in ServerType
  BY DEF BootTypeOK, ServerType, DatabaseType
<1>1. CASE UNCHANGED databases
  BY <1>0, <1>1
<1>2. CASE databases' = Unlocked(p)
  BY <1>2, UnlockedIs
<1>3. CASE CreateDatabase(p) /\ databases' # Unlocked(p)
  <2>1. databases' = [databases EXCEPT ![server[p].target].exists = TRUE]
    BY <1>3 DEF CreateDatabase, Fails
  <2>2. \A d \in Databases : [databases[d] EXCEPT !.exists = TRUE] \in DatabaseType
    BY <1>0 DEF DatabaseType
  <2> QED BY <1>0, <2>1, <2>2
<1>4. CASE LockSchema(p)
  <2>1. databases' = [databases EXCEPT ![server[p].target].lock = p]
    BY <1>4 DEF LockSchema
  <2>2. \A d \in Databases : [databases[d] EXCEPT !.lock = p] \in DatabaseType
    BY <1>0 DEF DatabaseType
  <2> QED BY <1>0, <2>1, <2>2
<1>5. CASE CommitSchema(p)
  <2>1. CASE server[p].applies \subseteq Missing(p)
    <3> DEFINE t == server[p].target
               new == [v \in Versions |->
                        IF v \in server[p].applies \/ (Has(p, v) /\ databases[t].ledger[v] = NoSum)
                        THEN server[p].build[v] ELSE databases[t].ledger[v]]
    <3>1. t \in Databases
      BY <1>0, <1>5 DEF CommitSchema, StandsAt, StandsRight, InDatabase, ServerType
    <3>2. databases' = [Unlocked(p) EXCEPT ![t].ran = @ \cup server[p].applies, ![t].ledger = new]
      <4>1. Unlocked(p)[t].ledger = databases[t].ledger
        BY <3>1, UnlockedIs
      <4>2. databases' = [Unlocked(p) EXCEPT ![t].ran = @ \cup server[p].applies,
               ![t].ledger = [v \in Versions |->
                   IF v \in server[p].applies \/ (Has(p, v) /\ Unlocked(p)[t].ledger[v] = NoSum)
                   THEN server[p].build[v] ELSE Unlocked(p)[t].ledger[v]]]
        BY <1>5, <2>1 DEF CommitSchema
      <4> QED BY <4>1, <4>2
    <3>3. new \in [Versions -> Nat \cup {NoSum}]
      BY <1>0, <3>1 DEF ServerType, DatabaseType
    <3>4. Unlocked(p) \in [Databases -> DatabaseType] /\ server[p].applies \in SUBSET Versions
      BY <1>0, UnlockedIs DEF ServerType
    <3> DEFINE old == Unlocked(p)[t]
    <3>5. [old EXCEPT !.ran = @ \cup server[p].applies, !.ledger = new] \in DatabaseType
      <4>1. old \in DatabaseType
        BY <3>1, <3>4
      <4> HIDE DEF old, new
      <4> QED BY <4>1, <3>3, <3>4 DEF DatabaseType
    <3>6. databases' = [Unlocked(p) EXCEPT ![t] = [old EXCEPT !.ran = @ \cup server[p].applies, !.ledger = new]]
      BY <3>1, <3>2, <3>4
    <3> HIDE DEF new, t, old
    <3> QED BY <3>1, <3>4, <3>5, <3>6
  <2>2. CASE ~ server[p].applies \subseteq Missing(p)
    BY <1>5, <2>2, UnlockedIs DEF CommitSchema, Fails
  <2> QED BY <2>1, <2>2
<1>6. CASE Seed(p)
  <2>1. databases' = [databases EXCEPT ![server[p].target].settings = server[p].key]
    BY <1>6 DEF Seed
  <2>2. \A d \in Databases : [databases[d] EXCEPT !.settings = server[p].key] \in DatabaseType
    BY <1>0 DEF DatabaseType, ServerType
  <2> QED BY <1>0, <2>1, <2>2
<1> QED
  BY <1>1, <1>2, <1>3, <1>4, <1>5, <1>6
  DEF StartUp, ReadKey, CreateKey, WriteKey, ReadConfig, CreateConfig, Connect, Migrate, LoadSettings,
      Bind, End, Rename, Sync, ChangeDatabase, Fails

LEMMA ServersType ==
    ASSUME BootTypeOK, NEW p \in Servers, StartStep(p)
    PROVE  server' \in [Servers -> ServerType]
<1> USE DEF StartStep, GoesTo, TakesKey
<1>0. server \in [Servers -> ServerType] /\ Url \in Databases \cup {NoUrl} /\ deployment.key \in Nat
      /\ keyFile \in Nat /\ NewKey(p) \in Nat /\ starts + 1 \in Nat
  BY Constants DEF BootTypeOK, ServerType, Url, Configs, NewKey
<1>p. {"stopped", "refused", "key", "config", "commit", "settings", "connect"} \subseteq Places
  BY DEF Places
<1>1. CASE \E place \in Places : GoesTo(p, place)
  BY <1>0, <1>1 DEF ServerType
<1>2. CASE StartUp(p)
  <2> DEFINE r == [server[p] EXCEPT !.at = IF Fits THEN "key" ELSE "refused", !.run = starts + 1, !.target = Url]
  <2>1. r \in ServerType
    BY <1>0, <1>p DEF ServerType
  <2>2. server' = [server EXCEPT ![p] = r]
    BY <1>0, <1>2 DEF StartUp, ServerType
  <2> QED BY <1>0, <2>1, <2>2
<1>3. CASE \E key \in Nat : TakesKey(p, key)
  <2>1. PICK key \in Nat : TakesKey(p, key)
    BY <1>3
  <2> DEFINE r == [server[p] EXCEPT !.at = "config", !.key = key]
  <2>2. r \in ServerType
    BY <1>0, <1>p DEF ServerType
  <2>3. server' = [server EXCEPT ![p] = r]
    BY <1>0, <2>1 DEF ServerType
  <2> QED BY <1>0, <2>2, <2>3
<1>4. CASE Migrate(p)
  <2>1. Missing(p) \in SUBSET Versions
    BY DEF Missing
  <2>2. CASE server' = [server EXCEPT ![p].at = "commit", ![p].applies = Missing(p)]
    <3> DEFINE new == [server[p] EXCEPT !.at = "commit", !.applies = Missing(p)]
    <3>1. server[p] \in ServerType /\ p \in Servers
      BY <1>0, <1>p
    <3>2. new \in ServerType
      BY <2>1, <3>1 DEF ServerType, Places
    <3>3. server' = [server EXCEPT ![p] = new]
      BY <1>0, <2>2
    <3> HIDE DEF new
    <3> QED BY <1>0, <3>1, <3>2, <3>3
  <2>3. CASE Fails(p)
    BY <1>1, <2>3 DEF Fails, Places
  <2> QED BY <1>4, <2>2, <2>3 DEF Migrate
<1>5. CASE CommitSchema(p)
  <2>1. CASE Fails(p)
    BY <1>1, <2>1 DEF Fails, Places
  <2>2. CASE server' = [server EXCEPT ![p].at = "settings", ![p].applies = {}]
    BY <1>0, <1>p, <2>2 DEF ServerType
  <2> QED BY <1>5, <2>1, <2>2 DEF CommitSchema
<1>6. CASE \E d \in Databases : ChangeDatabase(p, d)
  <2>1. PICK d \in Databases : ChangeDatabase(p, d)
    BY <1>6
  <2> DEFINE r == [server[p] EXCEPT !.at = "connect", !.target = d]
  <2>2. r \in ServerType
    BY <1>0, <1>p DEF ServerType
  <2>3. server' = [server EXCEPT ![p] = r]
    BY <1>0, <2>1 DEF ChangeDatabase, ServerType
  <2> QED BY <1>0, <2>2, <2>3
<1>7. CASE End(p)
  <2>1. server' = [server EXCEPT ![p] = Ended(p)]
    BY <1>7 DEF End
  <2> QED BY <1>0, <1>p, <2>1 DEF Ended, ServerType
<1>8. CASE CreateKey(p) \/ ReadKey(p) \/ WriteKey(p)
  <2>1. (\E place \in Places : GoesTo(p, place)) \/ (\E key \in Nat : TakesKey(p, key))
    BY <1>0, <1>8, Zenon DEF CreateKey, ReadKey, WriteKey, Fails, Places
  <2> QED BY <1>1, <1>3, <2>1
<1> QED
  BY <1>1, <1>2, <1>4, <1>5, <1>6, <1>7, <1>8
  DEF ReadConfig, CreateConfig, Connect, CreateDatabase, LockSchema, LoadSettings, Seed, Rename, Sync,
      Bind, Fails, WithConfig, Places

LEMMA TypeStep ==
    ASSUME BootTypeOK, NEW p \in Servers, StartStep(p), StandsRight(p)
    PROVE  BootTypeOK'
<1>1. server' \in [Servers -> ServerType] /\ databases' \in [Databases -> DatabaseType]
  BY ServersType, DatabasesType
<1>2. deployment' = deployment
  BY OthersStay
<1>3. server[p].target \in Databases \cup {NoUrl} /\ NewKey(p) \in Nat
  BY DEF BootTypeOK, NewKey
<1>4. keyFile' \in Nat
  <2>1. keyFile \in Nat /\ Torn \in Nat
    BY DEF BootTypeOK
  <2> QED
    BY <1>3, <2>1, Zenon DEF StartStep, StartUp, ReadKey, CreateKey, WriteKey, ReadConfig,
       CreateConfig, Connect,
     CreateDatabase, LockSchema, Migrate, CommitSchema, LoadSettings, Seed, Bind, End, Rename, Sync, ChangeDatabase
<1>5. keyIsDurable' \in BOOLEAN
  BY Zenon DEF BootTypeOK, StartStep, StartUp, ReadKey, CreateKey, WriteKey, ReadConfig,
     CreateConfig, Connect,
     CreateDatabase, LockSchema, Migrate, CommitSchema, LoadSettings, Seed, Bind, End, Rename, Sync, ChangeDatabase
<1>6. starts' \in Nat
  <2>1. starts \in Nat /\ starts + 1 \in Nat
    BY DEF BootTypeOK
  <2> QED
    BY <2>1, Zenon DEF StartStep, StartUp, ReadKey, CreateKey, WriteKey, ReadConfig,
       CreateConfig, Connect,
     CreateDatabase, LockSchema, Migrate, CommitSchema, LoadSettings, Seed, Bind, End, Rename, Sync, ChangeDatabase
<1>8. config' \in Configs
  <2>1. [made |-> TRUE, url |-> server[p].target] \in Configs /\ config \in Configs
    BY <1>3 DEF BootTypeOK, Configs
  <2> QED
    BY <2>1, Zenon DEF StartStep, StartUp, ReadKey, CreateKey, WriteKey, ReadConfig,
       CreateConfig, Connect,
     CreateDatabase, LockSchema, Migrate, CommitSchema, LoadSettings, Seed, Bind, End, Rename, Sync, ChangeDatabase
<1>9. saved' \in Configs
  <2>1. saved \in Configs /\ config \in Configs
    BY DEF BootTypeOK
  <2> QED
    BY <2>1, Zenon DEF StartStep, StartUp, ReadKey, CreateKey, WriteKey, ReadConfig,
       CreateConfig, Connect,
     CreateDatabase, LockSchema, Migrate, CommitSchema, LoadSettings, Seed, Bind, End, Rename, Sync, ChangeDatabase
<1>10. port' \in Servers \cup {Nobody}
  BY DEF BootTypeOK, StartStep, StartUp, ReadKey, CreateKey, WriteKey, ReadConfig,
     CreateConfig, Connect,
     CreateDatabase, LockSchema, Migrate, CommitSchema, LoadSettings, Seed, Bind, End, Rename, Sync, ChangeDatabase
<1>11. opened' \in Databases \cup {NoUrl}
  BY <1>3 DEF BootTypeOK, StartStep, StartUp, ReadKey, CreateKey, WriteKey, ReadConfig,
     CreateConfig, Connect,
     CreateDatabase, LockSchema, Migrate, CommitSchema, LoadSettings, Seed, Bind, End, Rename, Sync, ChangeDatabase
<1>7. early' \in BOOLEAN
  <2>1. CASE ReadConfig(p)
    BY <2>1 DEF ReadConfig
  <2>2. CASE early' = early
    BY <2>2 DEF BootTypeOK
  <2> QED
    BY <2>1, <2>2 DEF StartStep, StartUp, ReadKey, CreateKey, WriteKey, CreateConfig, Connect,
       CreateDatabase, LockSchema, Migrate, CommitSchema, LoadSettings, Seed, Bind, End, Rename, Sync, ChangeDatabase
<1> QED BY <1>1, <1>2, <1>4, <1>5, <1>6, <1>7, <1>8, <1>9, <1>10, <1>11 DEF BootTypeOK, ServerType, DatabaseType

\* What a loss of power leaves.
LEMMA PowerLossLeaves ==
    ASSUME BootTypeOK, PowerLoss
    PROVE  /\ BootTypeOK'
           /\ \A p \in Servers : /\ server'[p].at = "stopped" /\ server'[p].applies = {}
                                 /\ server'[p].build = server[p].build
           /\ port' = Nobody /\ opened' = NoUrl
           /\ \A d \in Databases :
                 /\ databases'[d].exists = databases[d].exists /\ databases'[d].ledger = databases[d].ledger
                 /\ databases'[d].ran = databases[d].ran /\ databases'[d].settings = databases[d].settings
<1>1. server \in [Servers -> ServerType] /\ databases \in [Databases -> DatabaseType]
  BY DEF BootTypeOK, ServerType, DatabaseType
<1>p. "stopped" \in Places
  BY DEF Places
<1>2. server' = [p \in Servers |-> [server[p] EXCEPT !.at = "stopped", !.key = NoKey, !.applies = {}]]
  BY DEF PowerLoss, Ended
<1>3. databases' = [d \in Databases |-> [databases[d] EXCEPT !.lock = Nobody]]
  BY DEF PowerLoss
<1>4. server' \in [Servers -> ServerType]
  BY <1>1, <1>2, <1>p DEF ServerType
<1>5. databases' \in [Databases -> DatabaseType]
  BY <1>1, <1>3 DEF DatabaseType
<1>6. BootTypeOK'
  <2>1. keyFile' \in Nat /\ config' \in Configs /\ saved' \in Configs
    BY DEF BootTypeOK, PowerLoss
  <2>2. UNCHANGED <<deployment, keyIsDurable, early, starts>> /\ port' = Nobody /\ opened' = NoUrl
    BY DEF PowerLoss
  <2> QED BY <1>4, <1>5, <2>1, <2>2 DEF BootTypeOK, ServerType, DatabaseType
<1>7. \A p \in Servers : /\ server'[p].at = "stopped" /\ server'[p].applies = {}
                         /\ server'[p].build = server[p].build
  BY <1>1, <1>2 DEF ServerType
<1>8. \A d \in Databases :
         /\ databases'[d].exists = databases[d].exists /\ databases'[d].ledger = databases[d].ledger
         /\ databases'[d].ran = databases[d].ran /\ databases'[d].settings = databases[d].settings
  BY <1>1, <1>3 DEF DatabaseType
<1> QED BY <1>6, <1>7, <1>8 DEF PowerLoss

\* What a step of a process leaves of the databases.
Applies(p) == StandsAt(p, "commit") /\ server[p].applies \subseteq Missing(p)
LEMMA DatabasesStay ==
    ASSUME BootTypeOK, NEW p \in Servers, StartStep(p), StandsRight(p), NEW d \in Databases
    PROVE  /\ databases[d].exists => databases'[d].exists
           /\ \A q \in Servers : q # p /\ databases[d].lock = q => databases'[d].lock = q
           /\ ~ (Seed(p) /\ d = server[p].target) => databases'[d].settings = databases[d].settings
           /\ ~ (CommitSchema(p) /\ Applies(p) /\ d = server[p].target) =>
                 databases'[d].ledger = databases[d].ledger /\ databases'[d].ran = databases[d].ran
<1> USE DEF StartStep
<1> DEFINE Goal == /\ databases[d].exists => databases'[d].exists
                   /\ \A q \in Servers : q # p /\ databases[d].lock = q => databases'[d].lock = q
                   /\ ~ (Seed(p) /\ d = server[p].target) => databases'[d].settings = databases[d].settings
                   /\ ~ (CommitSchema(p) /\ Applies(p) /\ d = server[p].target) =>
                         databases'[d].ledger = databases[d].ledger /\ databases'[d].ran = databases[d].ran
<1>0. databases \in [Databases -> DatabaseType] /\ server[p] \in ServerType
  BY DEF BootTypeOK, ServerType, DatabaseType
<1>1. CASE UNCHANGED databases
  BY <1>0, <1>1
<1>2. CASE databases' = Unlocked(p)
  BY <1>2, UnlockedIs, Constants
<1>3. CASE CreateDatabase(p) /\ databases' # Unlocked(p)
  <2>1. databases' = [databases EXCEPT ![server[p].target].exists = TRUE]
    BY <1>3 DEF CreateDatabase, Fails
  <2>2. \A x \in Databases : [databases[x] EXCEPT !.exists = TRUE] \in DatabaseType
    BY <1>0 DEF DatabaseType
  <2> QED BY <1>0, <2>1, <2>2
<1>4. CASE LockSchema(p)
  BY <1>0, <1>4, Constants DEF LockSchema, Db, DatabaseType
<1>5. CASE CommitSchema(p)
  <2>1. CASE server[p].applies \subseteq Missing(p)
    <3> DEFINE t == server[p].target
    <3>1. PICK ran, ledger : databases' = [Unlocked(p) EXCEPT ![t].ran = ran, ![t].ledger = ledger]
      <4>1. databases' = [Unlocked(p) EXCEPT
               ![t].ran = Unlocked(p)[t].ran \cup server[p].applies,
               ![t].ledger = [v \in Versions |->
                   IF v \in server[p].applies \/ (Has(p, v) /\ Unlocked(p)[t].ledger[v] = NoSum)
                   THEN server[p].build[v] ELSE Unlocked(p)[t].ledger[v]]]
        BY <1>5, <2>1 DEF CommitSchema
      <4> QED BY <4>1
    <3>2. t \in Databases
      BY <1>0, <1>5 DEF CommitSchema, StandsAt, StandsRight, InDatabase, ServerType
    <3>3. Applies(p)
      BY <1>5, <2>1 DEF Applies, CommitSchema
    <3>4. databases'[d].exists = Unlocked(p)[d].exists /\ databases'[d].lock = Unlocked(p)[d].lock
          /\ databases'[d].settings = Unlocked(p)[d].settings
          /\ (d # t => databases'[d].ledger = Unlocked(p)[d].ledger /\ databases'[d].ran = Unlocked(p)[d].ran)
      BY <3>1, <3>2, UnlockedIs DEF DatabaseType
    <3> QED BY <1>5, <3>3, <3>4, UnlockedIs, Constants
  <2>2. CASE ~ server[p].applies \subseteq Missing(p)
    BY <1>2, <1>5, <2>2 DEF CommitSchema, Fails
  <2> QED BY <2>1, <2>2
<1>6. CASE Seed(p)
  BY <1>0, <1>6 DEF Seed, DatabaseType, ServerType
<1> QED
  BY <1>1, <1>2, <1>3, <1>4, <1>5, <1>6
  DEF StartUp, ReadKey, CreateKey, WriteKey, ReadConfig, CreateConfig, Connect, Migrate, LoadSettings,
      Bind, End, Rename, Sync, ChangeDatabase, Fails

LEMMA ConfigStep ==
    ASSUME BootTypeOK, NEW p \in Servers, StartStep(p), ConfigIsRight
    PROVE  ConfigIsRight' /\ (config.made => config'.made)
<1> USE DEF ConfigIsRight
<1>1. CASE Rename(p)
  <2>1. config' = [made |-> TRUE, url |-> server[p].target] /\ saved' = saved
    BY <1>1 DEF Rename
  <2> QED BY <2>1
<1>2. CASE Sync(p)
  <2>1. config' = config /\ saved' = config
    BY <1>2 DEF Sync
  <2> QED BY <2>1
<1>3. CASE UNCHANGED <<config, saved>>
  BY <1>3
<1> QED
  <2>1. Rename(p) \/ Sync(p) \/ UNCHANGED <<config, saved>>
    BY Zenon DEF StartStep, StartUp, ReadKey, CreateKey, WriteKey, ReadConfig, CreateConfig,
       Connect, Migrate, LoadSettings,
       Bind, End, ChangeDatabase, CreateDatabase, LockSchema, CommitSchema, Seed
  <2> QED BY <1>1, <1>2, <1>3, <2>1

\* Another process stands as right as before.
LEMMA OthersStandRight ==
    ASSUME BootTypeOK, NEW p \in Servers, StartStep(p), StandsRight(p), ConfigIsRight,
           NEW q \in Servers, q # p, StandsRight(q)
    PROVE  StandsRight(q)'
<1>1. server'[q] = server[q] /\ deployment' = deployment /\ (port' = q <=> port = q)
  BY OthersStay
<1>2. config.made => config'.made
  BY ConfigStep
<1>3. server[q].target # NoUrl /\ Db(q).exists => databases'[server[q].target].exists
  BY DatabasesStay DEF Db, BootTypeOK
<1>4. server[q].at \in {"lock", "migrate", "commit", "settings", "seed"} => server[q].target # NoUrl
  BY DEF StandsRight, InDatabase
<1> QED BY <1>1, <1>2, <1>3, <1>4 DEF StandsRight, Db

\* What CreateDatabase, LockSchema and Seed write.
LEMMA DatabasesWritten ==
    ASSUME BootTypeOK, NEW p \in Servers, server[p].target \in Databases
    PROVE  /\ CreateDatabase(p) => databases'[server[p].target].exists \/ Fails(p)
           /\ LockSchema(p) => databases'[server[p].target].lock = p
           /\ Seed(p) => databases'[server[p].target].settings = server[p].key
  BY DEF BootTypeOK, CreateDatabase, LockSchema, Seed

\* And a process itself.
LEMMA ItStandsRight ==
    ASSUME BootTypeOK, NEW p \in Servers, StartStep(p), StandsRight(p), ConfigIsRight
    PROVE  StandsRight(p)'
<1> DEFINE t == server[p].target
<1>0. server \in [Servers -> ServerType] /\ p # Nobody /\ deployment' = deployment
      /\ databases \in [Databases -> DatabaseType] /\ NoUrl \notin Databases
  BY OthersStay, Constants DEF BootTypeOK, ServerType, DatabaseType
<1>1. /\ config.made => config'.made
      /\ t \in Databases /\ databases[t].exists => databases'[t].exists
  BY ConfigStep, DatabasesStay
<1> USE DEF GoesTo, Db, InDatabase
<1>2. CASE StartUp(p)
  <2>1. server'[p].at \in {"key", "refused"} /\ server'[p].target = Url /\ port' = port /\ config' = config
    BY <1>0, <1>2, Zenon DEF StartUp, ServerType
  <2>2. port # p
    BY <1>2 DEF StandsRight, StartUp
  <2> QED BY <1>0, <2>1, <2>2 DEF StandsRight, Url, ConfigIsRight
<1>3. CASE ReadKey(p) \/ CreateKey(p) \/ WriteKey(p)
  <2>1. /\ server'[p].at \in {"create key", "write key", "config"} \/ server'[p].at = IF port = p THEN "serving" ELSE "refused"
        /\ server'[p].target = t /\ port' = port /\ config' = config
    <3>1. CASE \E key : TakesKey(p, key) /\ UNCHANGED <<port, config>>
      BY <1>0, <3>1 DEF TakesKey, ServerType
    <3>2. CASE \E place \in {"create key", "write key"} : GoesTo(p, place) /\ UNCHANGED <<port, config>>
      <4>1. PICK place \in {"create key", "write key"} : GoesTo(p, place)
        BY <3>2
      <4>2. server'[p].at = place /\ server'[p].target = t
        BY <1>0, <4>1 DEF ServerType
      <4> QED BY <3>2, <4>2
    <3>3. CASE Fails(p) /\ UNCHANGED <<port, config>>
      BY <1>0, <3>3 DEF Fails, ServerType
    <3> HIDE DEF GoesTo
    <3> QED BY <1>3, <3>1, <3>2, <3>3, Zenon DEF ReadKey, CreateKey, WriteKey
  <2>2. port # p /\ server[p].at \in {"key", "create key", "write key"}
    BY <1>3 DEF StandsRight, ReadKey, CreateKey, WriteKey, StandsAt
  <2> QED BY <1>0, <2>1, <2>2 DEF StandsRight
<1>4. CASE ReadConfig(p) \/ CreateConfig(p)
  <2>1. /\ server'[p].at \in {"create config", "rename", "refused"} \/ server'[p].at = WithConfig(p)
        /\ server'[p].target = t /\ port' = port /\ config' = config
        /\ config.made => server'[p].at = WithConfig(p) \/ StandsAt(p, "create config")
        /\ ~config.made => server'[p].at # WithConfig(p)
    <3>1. CASE ReadConfig(p)
      BY <1>0, <3>1 DEF ReadConfig, ServerType, WithConfig
    <3>2. CASE CreateConfig(p)
      BY <1>0, <3>2 DEF CreateConfig, Fails, StandsAt, StandsRight, ServerType, WithConfig
    <3> QED BY <1>4, <3>1, <3>2
  <2>2. port # p /\ server[p].at \in {"config", "create config"}
    BY <1>4 DEF StandsRight, ReadConfig, CreateConfig, StandsAt
  <2> QED BY <1>0, <2>1, <2>2 DEF StandsRight, WithConfig, StandsAt
<1>5. CASE Rename(p)
  <2>1. server'[p].at = "sync" /\ server'[p].target = t /\ port' = port /\ config'.made
    BY <1>0, <1>5 DEF Rename, ServerType
  <2> QED BY <1>0, <1>5, <2>1 DEF StandsRight, Rename, StandsAt
<1>6. CASE Sync(p)
  <2>1. server'[p].at = IF port = p THEN "serving" ELSE WithConfig(p)
    BY <1>0, <1>6 DEF Sync, ServerType
  <2>2. server'[p].target = t /\ port' = port /\ config' = config
    BY <1>0, <1>6 DEF Sync, ServerType
  <2> QED BY <1>0, <1>6, <2>1, <2>2 DEF StandsRight, Sync, StandsAt, WithConfig
<1>7. CASE Connect(p) \/ CreateDatabase(p) \/ LockSchema(p) \/ Migrate(p) \/ CommitSchema(p)
  <2>1. t \in Databases /\ server[p].at \in {"connect", "create", "lock", "migrate", "commit"}
    BY <1>0, <1>7 DEF Connect, CreateDatabase, LockSchema, Migrate, CommitSchema, StandsAt,
       StandsRight, ServerType
  <2>2. server'[p].target = t /\ port' = port /\ config' = config
    <3>1. port' = port /\ config' = config
      BY <1>7 DEF Connect, CreateDatabase, LockSchema, Migrate, CommitSchema
    <3>2. CASE Migrate(p)
      BY <1>0, <3>2 DEF Migrate, Fails, ServerType
    <3>3. CASE ~Migrate(p)
      <4>1. ASSUME NEW place, GoesTo(p, place) PROVE server'[p].target = t
        BY <1>0, <4>1 DEF ServerType
      <4>2. CASE Connect(p)
        BY <4>1, <4>2 DEF Connect, Fails
      <4>3. CASE CreateDatabase(p)
        BY <4>1, <4>3 DEF CreateDatabase, Fails
      <4>4. CASE LockSchema(p)
        BY <4>1, <4>4 DEF LockSchema
      <4>5. CASE CommitSchema(p)
        BY <4>1, <4>5 DEF CommitSchema, Fails
      <4> HIDE DEF GoesTo
      <4> QED BY <1>7, <3>3, <4>2, <4>3, <4>4, <4>5
    <3> QED BY <3>1, <3>2, <3>3
  <2>3. \/ server'[p].at = IF port = p THEN "serving" ELSE "refused"
        \/ server'[p].at = "create"
        \/ server'[p].at \in {"lock", "migrate", "commit", "settings"} /\ databases'[t].exists
    <3>0. server[p].at \notin {"connect", "create"} => databases'[t].exists
      BY <1>1, <2>1 DEF StandsRight
    <3>1. CASE Fails(p)
      BY <1>0, <3>1 DEF Fails, ServerType
    <3>2. CASE Connect(p) /\ ~Fails(p)
      BY <1>0, <1>1, <2>1, <3>2 DEF Connect, ServerType
    <3>3. CASE CreateDatabase(p) /\ ~Fails(p)
      BY <1>0, <2>1, <3>3, DatabasesWritten DEF CreateDatabase, ServerType
    <3>4. CASE LockSchema(p)
      BY <1>0, <3>0, <3>4 DEF LockSchema, StandsAt, ServerType
    <3>5. CASE Migrate(p) /\ ~Fails(p)
      BY <1>0, <3>0, <3>5 DEF Migrate, StandsAt, ServerType
    <3>6. CASE CommitSchema(p) /\ ~Fails(p)
      BY <1>0, <3>0, <3>6 DEF CommitSchema, StandsAt, ServerType
    <3> QED BY <1>7, <3>1, <3>2, <3>3, <3>4, <3>5, <3>6
  <2> QED BY <1>0, <2>1, <2>2, <2>3 DEF StandsRight
<1>8. CASE LoadSettings(p) \/ Seed(p)
  <2>1. t \in Databases /\ server[p].at \in {"settings", "seed"}
    BY <1>0, <1>8 DEF LoadSettings, Seed, StandsAt, StandsRight, ServerType
  <2>2. server'[p].target = t /\ port' = port /\ config' = config
    BY <1>0, <1>8 DEF LoadSettings, Seed, Fails, ServerType
  <2>3. \/ server'[p].at = IF port = p THEN "serving" ELSE "refused"
        \/ server'[p].at = IF port = p THEN "rename" ELSE "bind"
        \/ server'[p].at = "seed" /\ databases'[t].exists
    <3>0. databases'[t].exists
      BY <1>1, <2>1 DEF StandsRight
    <3>1. CASE Fails(p)
      BY <1>0, <3>1 DEF Fails, ServerType
    <3>2. CASE LoadSettings(p) /\ ~Fails(p)
      BY <1>0, <3>0, <3>2 DEF LoadSettings, ServerType
    <3>3. CASE Seed(p)
      BY <1>0, <3>3 DEF Seed, ServerType
    <3> QED BY <1>8, <3>1, <3>2, <3>3
  <2> QED BY <1>0, <2>1, <2>2, <2>3 DEF StandsRight
<1>9. CASE Bind(p)
  <2>1. server[p].at = "bind" /\ port # p /\ server'[p].target = t /\ config' = config
    BY <1>0, <1>9 DEF Bind, Fails, StandsRight, StandsAt, ServerType
  <2>2. \/ server'[p].at = "serving" /\ port' = p
        \/ server'[p].at = "refused" /\ port' = port
    BY <1>0, <1>9, <2>1 DEF Bind, Fails, ServerType
  <2> QED BY <1>0, <2>1, <2>2 DEF StandsRight
<1>10. CASE End(p)
  <2>1. server'[p].at = "stopped"
    BY <1>0, <1>10 DEF End, Ended, ServerType
  <2>2. port' # p
    BY <1>0, <1>10 DEF End
  <2> QED BY <1>0, <2>1, <2>2 DEF StandsRight
<1>11. CASE \E d \in Databases : ChangeDatabase(p, d)
  <2>1. PICK d \in Databases : ChangeDatabase(p, d)
    BY <1>11
  <2>2. server'[p].at = "connect" /\ server'[p].target = d /\ port' = port
    BY <1>0, <2>1 DEF ChangeDatabase, ServerType
  <2>3. port = p
    BY <2>1 DEF ChangeDatabase, StandsAt, StandsRight
  <2> QED BY <1>0, <2>2, <2>3 DEF StandsRight
<1> QED
  BY <1>2, <1>3, <1>4, <1>5, <1>6, <1>7, <1>8, <1>9, <1>10, <1>11 DEF StartStep

\* Only ReadKey, CreateKey and WriteKey read or make a key.
LEMMA KeyStays ==
    ASSUME BootTypeOK, NEW p \in Servers, StartStep(p), StandsRight(p),
           ~ReadKey(p), ~CreateKey(p), ~WriteKey(p)
    PROVE  /\ keyFile' = keyFile /\ server'[p].at \notin {"create key", "write key"}
           /\ server'[p].at \in HasKey => server[p].at \in HasKey /\ server'[p].key = server[p].key
<1>0. server \in [Servers -> ServerType]
  BY DEF BootTypeOK, ServerType
<1>1. keyFile' = keyFile
  BY Zenon DEF StartStep, StartUp, ReadConfig, CreateConfig, Connect, CreateDatabase,
     LockSchema, Migrate, CommitSchema,
     LoadSettings, Seed, Bind, End, Rename, Sync, ChangeDatabase
<1>2. CASE server[p].at \in HasKey /\ server'[p].key = server[p].key /\ server'[p].at \notin {"create key", "write key"}
  BY <1>1, <1>2
<1>3. CASE server'[p].at \in {"stopped", "refused", "key"}
  BY <1>1, <1>3 DEF HasKey, InDatabase
<1>4. CASE StartUp(p)
  <2>1. server'[p].at \in {"stopped", "refused", "key"}
    BY <1>0, <1>4 DEF StartUp, ServerType
  <2> QED BY <1>3, <2>1
<1>5. CASE End(p)
  <2>1. server'[p].at \in {"stopped", "refused", "key"}
    BY <1>0, <1>5 DEF End, Ended, ServerType
  <2> QED BY <1>3, <2>1
<1>6. CASE server[p].at \in HasKey /\ \E place \in Places \ {"create key", "write key"} : GoesTo(p, place)
  <2>1. server'[p].key = server[p].key /\ server'[p].at \notin {"create key", "write key"}
    BY <1>0, <1>6 DEF GoesTo, ServerType
  <2> QED BY <1>2, <1>6, <2>1
<1>7. CASE Fails(p) /\ server[p].at \in HasKey
  <2>1. \E place \in Places \ {"create key", "write key"} : GoesTo(p, place)
    BY <1>7 DEF Fails, Places
  <2> QED BY <1>6, <1>7, <2>1
<1>8. CASE ReadConfig(p) \/ CreateConfig(p) \/ Rename(p) \/ Sync(p) \/ Bind(p) \/ LoadSettings(p) \/ Seed(p)
  <2>1. server[p].at \in HasKey
    BY <1>8, Zenon DEF ReadConfig, CreateConfig, Rename, Sync, Bind, LoadSettings, Seed,
       StandsAt, HasKey, InDatabase
  <2>2. Fails(p) \/ \E place \in {"create config", "rename", "sync", "serving", "bind", "connect", "seed"} : GoesTo(p, place)
    BY <1>8 DEF ReadConfig, CreateConfig, Rename, Sync, Bind, LoadSettings, Seed, WithConfig
  <2>3. {"create config", "rename", "sync", "serving", "bind", "connect", "seed"} \subseteq Places \ {"create key", "write key"}
    BY DEF Places
  <2> QED BY <1>6, <1>7, <2>1, <2>2, <2>3
<1>9. CASE Connect(p) \/ CreateDatabase(p) \/ LockSchema(p)
  <2>1. server[p].at \in HasKey
    BY <1>9, Zenon DEF Connect, CreateDatabase, LockSchema, StandsAt, HasKey, InDatabase
  <2>2. Fails(p) \/ \E place \in {"lock", "create", "migrate"} : GoesTo(p, place)
    BY <1>9 DEF Connect, CreateDatabase, LockSchema
  <2>3. {"lock", "create", "migrate"} \subseteq Places \ {"create key", "write key"}
    BY DEF Places
  <2> QED BY <1>6, <1>7, <2>1, <2>2, <2>3
<1>10. CASE Migrate(p) \/ CommitSchema(p)
  <2>1. server[p].at \in HasKey
    BY <1>10, Zenon DEF Migrate, CommitSchema, StandsAt, HasKey, InDatabase
  <2>2. CASE ~Fails(p)
    <3>1. server'[p].key = server[p].key /\ server'[p].at \in {"commit", "settings"}
      BY <1>0, <1>10, <2>2 DEF Migrate, CommitSchema, ServerType
    <3> QED BY <1>2, <2>1, <3>1
  <2> QED BY <1>7, <2>1, <2>2
<1>11. CASE \E d \in Databases : ChangeDatabase(p, d)
  <2>1. server[p].at = "serving" /\ server'[p].at = "connect" /\ server'[p].key = server[p].key
    BY <1>0, <1>11 DEF ChangeDatabase, StandsAt, ServerType
  <2> QED BY <1>2, <2>1 DEF HasKey, InDatabase
<1> QED
  BY <1>4, <1>5, <1>8, <1>9, <1>10, <1>11 DEF StartStep

\* What is durable changes only when a directory is synced.
LEMMA DurableStep ==
    ASSUME BootTypeOK, NEW p \in Servers, StartStep(p)
    PROVE  (keyIsDurable' <=> keyIsDurable) \/ (Sync(p) /\ keyIsDurable')
  BY Zenon DEF StartStep, StartUp, ReadKey, CreateKey, WriteKey, ReadConfig, CreateConfig,
     Connect, CreateDatabase,
     LockSchema, Migrate, CommitSchema, LoadSettings, Seed, Bind, End, Rename, Sync, ChangeDatabase

LEMMA KeyStep ==
    ASSUME BootTypeOK, NEW p \in Servers, StartStep(p), StandRight, KeyIsRead
    PROVE  KeyIsRead'
<1>0. server \in [Servers -> ServerType] /\ deployment.key \in {0, 3} /\ deployment' = deployment
      /\ keyFile \in Nat /\ starts \in Nat
  BY OthersStay, Constants DEF BootTypeOK, ServerType
<1>1. \A q \in Servers : q # p => server'[q] = server[q]
  BY OthersStay
<1>2. StandsRight(p)
  BY DEF StandRight
<1>3. CASE ~ReadKey(p) /\ ~CreateKey(p) /\ ~WriteKey(p)
  <2>1. /\ keyFile' = keyFile /\ server'[p].at \notin {"create key", "write key"}
        /\ server'[p].at \in HasKey => server[p].at \in HasKey /\ server'[p].key = server[p].key
    BY <1>2, <1>3, KeyStays
  <2>2. CurrentKey' = CurrentKey
    BY <1>0, <2>1 DEF CurrentKey
  <2>3. keyIsDurable' /\ deployment.key = NoKey => keyFile > Torn
    <3>1. Sync(p) => server[p].at \in HasKey
      BY DEF Sync, StandsAt, HasKey
    <3> QED BY <3>1, DurableStep DEF KeyIsRead, CurrentKey
  <2>4. \A q \in Servers : /\ server'[q].at \in HasKey => server'[q].key = CurrentKey' /\ CurrentKey' > Torn
                           /\ server'[q].at \in {"create key", "write key"} => deployment'.key = NoKey
                           /\ server'[q].at = "write key" => keyFile' = Torn
    BY <1>0, <1>1, <2>1, <2>2 DEF KeyIsRead
  <2>5. \A q, r \in Servers : server'[q].at = "write key" /\ server'[r].at = "write key" => q = r
    BY <1>1, <2>1 DEF KeyIsRead
  <2> QED BY <1>0, <2>1, <2>3, <2>4, <2>5 DEF KeyIsRead
<1>4. CASE ReadKey(p) \/ (CreateKey(p) /\ keyFile # NoKey)
  <2>1. UNCHANGED <<keyFile, keyIsDurable, port>>
    BY <1>4 DEF ReadKey, CreateKey
  <2>2. CurrentKey' = CurrentKey
    BY <1>0, <2>1 DEF CurrentKey
  <2>3. port # p
    BY <1>2, <1>4 DEF ReadKey, CreateKey, StandsAt, StandsRight, InDatabase
  <2>4. \/ server'[p].at = "refused"
        \/ server'[p].at = "create key" /\ deployment.key = NoKey
        \/ server'[p].at = "config" /\ server'[p].key = CurrentKey /\ CurrentKey > Torn
    <3>1. CASE Fails(p)
      BY <1>0, <2>3, <3>1 DEF Fails, GoesTo, ServerType
    <3>2. CASE GoesTo(p, "create key") /\ deployment.key = NoKey
      BY <1>0, <3>2 DEF GoesTo, ServerType
    <3>3. CASE TakesKey(p, CurrentKey) /\ CurrentKey > Torn
      BY <1>0, <3>3 DEF TakesKey, ServerType
    <3>4. CASE CreateKey(p) /\ keyFile # NoKey
      <4>1. deployment.key = NoKey
        BY <3>4 DEF KeyIsRead, CreateKey, StandsAt
      <4> QED BY <3>1, <3>3, <3>4, <4>1 DEF CreateKey, CurrentKey
    <3>5. CASE ReadKey(p)
      <4>1. deployment.key # NoKey => deployment.key > Torn
        BY <1>0
      <4> QED BY <3>1, <3>2, <3>3, <3>5, <4>1 DEF ReadKey, CurrentKey
    <3> QED BY <1>4, <3>4, <3>5
  <2>5. \A q \in Servers : /\ server'[q].at \in HasKey => server'[q].key = CurrentKey' /\ CurrentKey' > Torn
                           /\ server'[q].at \in {"create key", "write key"} => deployment'.key = NoKey
                           /\ server'[q].at = "write key" => keyFile' = Torn
    BY <1>0, <1>1, <2>1, <2>2, <2>4 DEF KeyIsRead, HasKey, InDatabase
  <2>6. \A q, r \in Servers : server'[q].at = "write key" /\ server'[r].at = "write key" => q = r
    BY <1>1, <2>4 DEF KeyIsRead
  <2> QED BY <1>0, <2>1, <2>5, <2>6 DEF KeyIsRead
<1>5. CASE CreateKey(p) /\ keyFile = NoKey
  <2>kb. keyFile = 0
    BY <1>5
  <2>kc. keyFile # Torn /\ ~(keyFile > Torn)
    BY <2>kb
  <2>1. keyFile' = Torn /\ (keyIsDurable' <=> keyIsDurable) /\ server'[p].at = "write key" /\ deployment.key = NoKey
    <3>1. UNCHANGED keyIsDurable /\ deployment.key = NoKey
      BY <1>5, Zenon DEF CreateKey, StandsAt, KeyIsRead
    <3>2. keyFile' = Torn
      BY <1>5, <2>kc, Zenon DEF CreateKey
    <3>3. GoesTo(p, "write key")
      BY <1>5, <2>kc, Zenon DEF CreateKey
    <3>4. server'[p].at = "write key"
      BY <1>0, <3>3 DEF GoesTo, ServerType
    <3> QED BY <3>1, <3>2, <3>4, Zenon
  <2>kd. CurrentKey = 0
    BY <2>1, <2>kb DEF CurrentKey
  <2>k. keyFile = 0 /\ CurrentKey = 0 /\ ~(keyFile > Torn) /\ ~(CurrentKey > Torn) /\ keyFile # Torn
    BY <2>kb, <2>kd
  <2>2. \A q \in Servers : server[q].at \notin HasKey /\ server[q].at # "write key"
    BY <2>k, Zenon DEF KeyIsRead
  <2>3. "write key" \notin HasKey
    BY DEF HasKey, InDatabase
  <2>4. ~keyIsDurable
    BY <2>1, <2>k, Zenon DEF KeyIsRead
  <2>5. \A q \in Servers : server'[q].at \notin HasKey /\ (server'[q].at = "write key" => q = p)
                           /\ (server'[q].at = "create key" => deployment'.key = NoKey)
    BY <1>0, <1>1, <2>1, <2>2, <2>3
  <2>6. ~keyIsDurable'
    BY <2>1, <2>4
  <2> QED BY <1>0, <2>1, <2>5, <2>6 DEF KeyIsRead
<1>6. CASE WriteKey(p)
  <2>1. keyFile' = NewKey(p) /\ (keyIsDurable' <=> keyIsDurable) /\ server'[p].at = "config" /\ server'[p].key = NewKey(p)
    BY <1>0, <1>6 DEF WriteKey, TakesKey, ServerType
  <2>2. deployment.key = NoKey /\ keyFile = Torn /\ server[p].at = "write key"
    BY <1>6 DEF WriteKey, StandsAt, KeyIsRead
  <2>ka. CurrentKey = keyFile
    BY <2>2, Zenon DEF CurrentKey
  <2>kb. keyFile = 1
    BY <2>2, Zenon
  <2>k. ~(CurrentKey > Torn)
    BY <2>ka, <2>kb
  <2>3. \A q \in Servers : server[q].at \notin HasKey /\ (q # p => server[q].at # "write key")
    BY <2>2, <2>k, Zenon DEF KeyIsRead
  <2>4. NewKey(p) > Torn
    BY <1>0 DEF NewKey, ServerType
  <2>5. CurrentKey' = NewKey(p)
    BY <1>0, <2>1, <2>2 DEF CurrentKey
  <2>6. \A q \in Servers : /\ server'[q].at \in HasKey => q = p
                           /\ server'[q].at # "write key"
    BY <1>1, <2>1, <2>3
  <2> QED BY <1>0, <2>1, <2>2, <2>4, <2>5, <2>6 DEF KeyIsRead
<1> QED BY <1>3, <1>4, <1>5, <1>6

\* What a commit writes.
LEMMA CommitWrites ==
    ASSUME BootTypeOK, NEW p \in Servers, CommitSchema(p), Applies(p), server[p].target \in Databases
    PROVE  LET t == server[p].target IN
           /\ databases'[t].ran = databases[t].ran \cup server[p].applies
           /\ \A v \in Versions : databases'[t].ledger[v] =
                 IF v \in server[p].applies \/ (Has(p, v) /\ databases[t].ledger[v] = NoSum)
                 THEN server[p].build[v] ELSE databases[t].ledger[v]
<1> DEFINE t == server[p].target
<1>1. databases' = [Unlocked(p) EXCEPT
         ![t].ran = Unlocked(p)[t].ran \cup server[p].applies,
         ![t].ledger = [v \in Versions |->
             IF v \in server[p].applies \/ (Has(p, v) /\ Unlocked(p)[t].ledger[v] = NoSum)
             THEN server[p].build[v] ELSE Unlocked(p)[t].ledger[v]]]
  BY DEF CommitSchema, Applies
<1> DEFINE ran == Unlocked(p)[t].ran \cup server[p].applies
           new == [v \in Versions |->
                     IF v \in server[p].applies \/ (Has(p, v) /\ Unlocked(p)[t].ledger[v] = NoSum)
                     THEN server[p].build[v] ELSE Unlocked(p)[t].ledger[v]]
<1>2. databases' = [Unlocked(p) EXCEPT ![t].ran = ran, ![t].ledger = new]
  BY <1>1
<1>3. Unlocked(p) \in [Databases -> DatabaseType] /\ t \in Databases
  BY UnlockedIs
<1>4. databases'[t].ran = ran /\ databases'[t].ledger = new
  <2> HIDE DEF ran, new, t
  <2> QED BY <1>2, <1>3 DEF DatabaseType
<1>5. Unlocked(p)[t].ledger = databases[t].ledger /\ Unlocked(p)[t].ran = databases[t].ran
  BY UnlockedIs
<1> QED BY <1>4, <1>5

\* A checksum is registered once and for all.
LEMMA LedgerKeeps ==
    ASSUME BootTypeOK, NEW p \in Servers, StartStep(p), StandsRight(p), NEW d \in Databases, NEW v \in Versions,
           databases[d].ledger[v] \notin {0, NoSum}
    PROVE  databases'[d].ledger[v] = databases[d].ledger[v]
<1>1. CASE CommitSchema(p) /\ Applies(p) /\ d = server[p].target
  BY <1>1, CommitWrites DEF Applies, Missing, Db
<1>2. CASE ~(CommitSchema(p) /\ Applies(p) /\ d = server[p].target)
  BY <1>2, DatabasesStay
<1> QED BY <1>1, <1>2

\* What is migrated for a process stays so.
LEMMA MigratedStays ==
    ASSUME BootTypeOK, NEW p \in Servers, StartStep(p), StandsRight(p), NEW q \in Servers, NEW d \in Databases,
           Migrated(q, d)
    PROVE  \A v \in Versions : server'[q].build[v] # 0 => databases'[d].ledger[v] = server'[q].build[v]
<1>1. server'[q].build = server[q].build
  BY OthersStay
<1>2. SUFFICES ASSUME NEW v \in Versions, server[q].build[v] # 0
               PROVE  databases'[d].ledger[v] = server[q].build[v]
  BY <1>1 DEF Migrated, Has
<1>3. databases[d].ledger[v] = server[q].build[v] /\ server[q].build[v] \in Nat
  BY <1>2 DEF Migrated, Has, BootTypeOK
<1>4. databases[d].ledger[v] \notin {0, NoSum}
  BY <1>2, <1>3, Constants
<1> QED BY <1>3, <1>4, LedgerKeeps

LEMMA RanStep ==
    ASSUME BootTypeOK, NEW p \in Servers, StartStep(p), StandsRight(p), LedgerIsTrue, NEW d \in Databases
    PROVE  databases'[d].ran = {v \in Versions : databases'[d].ledger[v] # 0}
<1>0. databases[d].ran = {v \in Versions : databases[d].ledger[v] # 0}
  BY DEF LedgerIsTrue
<1>1. CASE CommitSchema(p) /\ Applies(p) /\ d = server[p].target
  <2>1. databases'[d].ran = databases[d].ran \cup server[p].applies
    BY <1>1, CommitWrites
  <2>2. \A v \in Versions : databases'[d].ledger[v] =
                 IF v \in server[p].applies \/ (Has(p, v) /\ databases[d].ledger[v] = NoSum)
                 THEN server[p].build[v] ELSE databases[d].ledger[v]
    BY <1>1, CommitWrites
  <2>3. \A v \in server[p].applies : v \in Versions /\ server[p].build[v] # 0
    BY <1>1 DEF Applies, Missing, Has
  <2>4. \A v \in Versions : databases[d].ledger[v] = NoSum => databases[d].ledger[v] # 0
    BY DEF NoSum
  <2>5. \A v \in Versions : databases'[d].ledger[v] # 0 <=> v \in server[p].applies \/ databases[d].ledger[v] # 0
    BY <2>2, <2>3, <2>4, Zenon DEF Has
  <2> QED BY <1>0, <2>1, <2>3, <2>5
<1>2. CASE ~(CommitSchema(p) /\ Applies(p) /\ d = server[p].target)
  BY <1>0, <1>2, DatabasesStay
<1> QED BY <1>1, <1>2

\* The schema a process has seen is not changed by another while it holds the lock.
LEMMA OthersMigrate ==
    ASSUME BootTypeOK, NEW p \in Servers, StartStep(p), StandRight, LedgerIsTrue, NEW q \in Servers, q # p
    PROVE  Migrates(q)'
<1> DEFINE t == server[q].target
<1>0. Migrates(q) /\ Migrates(p) /\ StandsRight(p) /\ StandsRight(q)
  BY DEF LedgerIsTrue, StandRight
<1>1. server'[q] = server[q] /\ (port' = q <=> port = q)
  BY OthersStay
<1>2. port = q => opened' = opened
  BY Constants DEF StartStep, StartUp, ReadKey, CreateKey, WriteKey, ReadConfig, CreateConfig,
     Connect, CreateDatabase,
     LockSchema, Migrate, CommitSchema, LoadSettings, Seed, Bind, End, Rename, Sync, ChangeDatabase
<1>3. server[q].at \in {"migrate", "commit"} =>
         t \in Databases /\ databases'[t].lock = q /\ databases'[t].ledger = databases[t].ledger
  <2> SUFFICES ASSUME server[q].at \in {"migrate", "commit"}
               PROVE  t \in Databases /\ databases'[t].lock = q /\ databases'[t].ledger = databases[t].ledger
    OBVIOUS
  <2>1. t \in Databases /\ databases[t].lock = q
    BY <1>0 DEF StandsRight, InDatabase, Migrates, Db, BootTypeOK
  <2>2. ~(CommitSchema(p) /\ Applies(p) /\ t = server[p].target)
    BY <1>0, <2>1 DEF Applies, StandsAt, Migrates, Db
  <2> QED BY <1>0, <2>1, <2>2, DatabasesStay
<1>4. server[q].at \in {"migrate", "commit"} => (Db(q).ledger)' = Db(q).ledger /\ (Db(q).lock)' = q
  BY <1>1, <1>3 DEF Db
<1>5. server[q].at = "commit" => ~Edited(q)' /\ server'[q].applies = Missing(q)'
  <2> SUFFICES ASSUME server[q].at = "commit" PROVE ~Edited(q)' /\ server'[q].applies = Missing(q)'
    OBVIOUS
  <2>1. (Db(q).ledger)' = Db(q).ledger /\ ~Edited(q) /\ server[q].applies = Missing(q)
    BY <1>0, <1>4 DEF Migrates
  <2>2. \A v \in Versions : Has(q, v)' <=> Has(q, v)
    BY <1>1 DEF Has
  <2>3. ~Edited(q)'
    BY <1>1, <2>1, <2>2 DEF Edited
  <2>4. Missing(q)' = Missing(q)
    BY <2>1, <2>2 DEF Missing
  <2> QED BY <1>1, <2>1, <2>3, <2>4
<1>6. port # q /\ server[q].at \in {"settings", "seed", "bind"} /\ t # NoUrl => Migrated(q, t)'
  <2>1. t \in Databases \cup {NoUrl}
    BY DEF BootTypeOK
  <2>2. port # q /\ server[q].at \in {"settings", "seed", "bind"} /\ t # NoUrl => t \in Databases /\ Migrated(q, t)
    BY <1>0, <2>1 DEF Migrates
  <2> QED BY <1>0, <1>1, <2>2, MigratedStays DEF Migrated, Has
<1>7. port = q /\ opened # NoUrl => Migrated(q, opened)'
  <2>1. opened \in Databases \cup {NoUrl}
    BY DEF BootTypeOK
  <2>2. port = q /\ opened # NoUrl => Migrated(q, opened)
    BY <1>0 DEF Migrates
  <2> QED BY <1>0, <1>2, <2>1, <2>2, MigratedStays DEF Migrated, Has
<1>8. (server[q].at \in {"migrate", "commit"} => Db(q).lock = q)'
  BY <1>1, <1>4
<1>9. (server[q].at = "commit" => ~Edited(q) /\ server[q].applies = Missing(q))'
  BY <1>1, <1>5
<1>10. (port # q /\ server[q].at \in {"settings", "seed", "bind"} /\ server[q].target # NoUrl =>
           Migrated(q, server[q].target))'
  BY <1>1, <1>6
<1>11. (port = q /\ opened # NoUrl => Migrated(q, opened))'
  BY <1>1, <1>2, <1>7
<1> QED BY <1>8, <1>9, <1>10, <1>11, Zenon DEF Migrates

\* And a process itself holds the lock, and has applied what was missing.
LEMMA ItMigrates ==
    ASSUME BootTypeOK, NEW p \in Servers, StartStep(p), StandRight, LedgerIsTrue
    PROVE  Migrates(p)'
<1> DEFINE t == server[p].target
           Away == server'[p].at \notin {"migrate", "commit", "settings", "seed", "bind"}
<1>0. Migrates(p) /\ StandsRight(p) /\ server \in [Servers -> ServerType] /\ p # Nobody
      /\ t \in Databases \cup {NoUrl} /\ server'[p].build = server[p].build
  BY OthersStay, Constants DEF LedgerIsTrue, StandRight, BootTypeOK, ServerType
<1>1. \A d \in Databases : Migrated(p, d) =>
         \A v \in Versions : server'[p].build[v] # 0 => databases'[d].ledger[v] = server'[p].build[v]
  BY <1>0, MigratedStays
<1>2. (port = p /\ opened # NoUrl => Migrated(p, opened))'
  <2>1. CASE port = p
    <3>1. opened' = opened \/ opened' = NoUrl
      BY <1>0, <2>1, Constants DEF StartStep, StartUp, ReadKey, CreateKey, WriteKey,
         ReadConfig, CreateConfig, Connect,
         CreateDatabase, LockSchema, Migrate, CommitSchema, LoadSettings, Seed, Bind, End, Rename, Sync, ChangeDatabase
    <3>2. opened # NoUrl => opened \in Databases /\ Migrated(p, opened)
      BY <1>0, <2>1 DEF Migrates, BootTypeOK
    <3> QED BY <1>1, <3>1, <3>2 DEF Migrated, Has
  <2>2. CASE port # p
    <3> SUFFICES ASSUME port' = p, opened' # NoUrl PROVE Migrated(p, opened)'
      OBVIOUS
    <3>1. server[p].at = "bind" /\ opened' = t
      BY <1>0, <2>2 DEF StartStep, StartUp, ReadKey, CreateKey, WriteKey, ReadConfig,
         CreateConfig, Connect, StandsAt,
         CreateDatabase, LockSchema, Migrate, CommitSchema, LoadSettings, Seed, Bind, End, Rename, Sync, ChangeDatabase
    <3>2. t \in Databases /\ Migrated(p, t)
      BY <1>0, <2>2, <3>1 DEF Migrates
    <3> QED BY <1>1, <3>1, <3>2 DEF Migrated, Has
  <2> QED BY <2>1, <2>2
<1>3. CASE Away
  BY <1>2, <1>3, Zenon DEF Migrates
<1>4. CASE StartUp(p) \/ CreateKey(p) \/ ReadKey(p) \/ WriteKey(p)
  <2>1. \/ \E place \in {"refused", "serving", "create key", "write key"} : GoesTo(p, place)
        \/ \E key : TakesKey(p, key)
        \/ StartUp(p)
    BY <1>4, Zenon DEF CreateKey, ReadKey, WriteKey, Fails
  <2>2. CASE \E place \in {"refused", "serving", "create key", "write key"} : GoesTo(p, place)
    BY <1>0, <1>3, <2>2 DEF GoesTo, ServerType
  <2>3. CASE \E key : TakesKey(p, key)
    BY <1>0, <1>3, <2>3 DEF TakesKey, ServerType
  <2>4. CASE StartUp(p)
    BY <1>0, <1>3, <2>4 DEF StartUp, ServerType
  <2> QED BY <2>1, <2>2, <2>3, <2>4
<1>5. CASE Fails(p)
  BY <1>0, <1>3, <1>5 DEF Fails, GoesTo, ServerType
<1>6. CASE (CreateConfig(p) \/ Rename(p) \/ Connect(p) \/ CreateDatabase(p) \/ Bind(p)) /\ ~Fails(p)
  <2>1. \E place \in {"rename", "sync", "lock", "create", "serving"} : GoesTo(p, place)
    BY <1>6 DEF CreateConfig, Rename, Connect, CreateDatabase, Bind
  <2> QED BY <1>0, <1>3, <2>1 DEF GoesTo, ServerType
<1>7. CASE End(p) \/ \E d \in Databases : ChangeDatabase(p, d)
  <2>1. CASE End(p)
    <3>1. server'[p].at = "stopped"
      BY <1>0, <2>1 DEF End, Ended, ServerType
    <3> QED BY <1>3, <3>1
  <2>2. CASE \E d \in Databases : ChangeDatabase(p, d)
    BY <1>0, <1>3, <2>2 DEF ChangeDatabase, ServerType
  <2> QED BY <1>7, <2>1, <2>2
<1>8. CASE ReadConfig(p) \/ Sync(p)
  <2>1. \/ \E place \in {"create config", "connect", "serving"} : GoesTo(p, place)
        \/ GoesTo(p, "bind") /\ t = NoUrl
    BY <1>8 DEF ReadConfig, Sync, WithConfig
  <2>2. CASE \E place \in {"create config", "connect", "serving"} : GoesTo(p, place)
    BY <1>0, <1>3, <2>2 DEF GoesTo, ServerType
  <2>3. CASE GoesTo(p, "bind") /\ t = NoUrl
    <3>1. server'[p].at = "bind" /\ server'[p].target = NoUrl
      BY <1>0, <2>3 DEF GoesTo, ServerType
    <3> QED BY <1>2, <3>1 DEF Migrates
  <2> QED BY <2>1, <2>2, <2>3
<1>9. CASE LockSchema(p)
  <2>1. server'[p].at = "migrate" /\ server'[p].target = t /\ t \in Databases
    BY <1>0, <1>9 DEF LockSchema, GoesTo, StandsAt, StandsRight, InDatabase, ServerType
  <2>2. (Db(p).lock = p)'
    BY <1>9, <2>1, DatabasesWritten DEF Db
  <2> QED BY <1>2, <2>1, <2>2 DEF Migrates
<1>10. CASE Migrate(p) /\ ~Fails(p)
  <2>1. server' = [server EXCEPT ![p].at = "commit", ![p].applies = Missing(p)] /\ databases' = databases
        /\ ~Edited(p) /\ server[p].at = "migrate"
    BY <1>10 DEF Migrate, StandsAt
  <2>2. server'[p].at = "commit" /\ server'[p].applies = Missing(p) /\ server'[p].target = t
    BY <1>0, <2>1 DEF ServerType
  <2>3. (Db(p).lock = p)'
    BY <1>0, <2>1, <2>2 DEF Db, Migrates
  <2>4. Db(p)' = Db(p) /\ \A v \in Versions : Has(p, v)' <=> Has(p, v)
    BY <1>0, <2>1, <2>2 DEF Db, Has
  <2>5. ~Edited(p)'
    BY <1>0, <2>1, <2>4 DEF Edited
  <2>6. Missing(p)' = Missing(p)
    BY <2>4 DEF Missing
  <2> QED BY <1>2, <2>2, <2>3, <2>5, <2>6 DEF Migrates
<1>11. CASE CommitSchema(p) /\ ~Fails(p)
  <2>1. server[p].at = "commit" /\ t \in Databases /\ Applies(p)
    BY <1>0, <1>11 DEF CommitSchema, Applies, StandsAt, StandsRight, InDatabase
  <2>2. server'[p].at = "settings" /\ server'[p].target = t
    BY <1>0, <1>11 DEF CommitSchema, ServerType
  <2>3. ~Edited(p) /\ server[p].applies = Missing(p)
    BY <1>0, <2>1 DEF Migrates
  <2>4. \A v \in Versions : server[p].build[v] # 0 => databases'[t].ledger[v] = server[p].build[v]
    <3> SUFFICES ASSUME NEW v \in Versions, server[p].build[v] # 0
                 PROVE  databases'[t].ledger[v] = server[p].build[v]
      OBVIOUS
    <3>1. databases[t].ledger[v] \in {0, NoSum, server[p].build[v]}
      BY <2>3 DEF Edited, Has, Db
    <3>2. databases[t].ledger[v] = 0 => v \in server[p].applies
      BY <2>3 DEF Missing, Has, Db
    <3>3. databases'[t].ledger[v] =
             IF v \in server[p].applies \/ (Has(p, v) /\ databases[t].ledger[v] = NoSum)
             THEN server[p].build[v] ELSE databases[t].ledger[v]
      BY <1>11, <2>1, CommitWrites
    <3> QED BY <3>1, <3>2, <3>3 DEF Has
  <2>5. Migrated(p, server[p].target)'
    BY <1>0, <2>2, <2>4 DEF Migrated, Has
  <2> QED BY <1>2, <2>2, <2>5 DEF Migrates
<1>12. CASE (LoadSettings(p) \/ Seed(p)) /\ ~Fails(p)
  <2>1. server[p].at \in {"settings", "seed"} /\ t \in Databases /\ port' = port
    BY <1>0, <1>12 DEF LoadSettings, Seed, StandsAt, StandsRight, InDatabase
  <2>2. \E place \in {"seed", "rename", "bind"} : GoesTo(p, place)
    BY <1>12 DEF LoadSettings, Seed
  <2>3. server'[p].at \in {"seed", "rename", "bind"} /\ server'[p].target = t
    BY <1>0, <2>2 DEF GoesTo, ServerType
  <2>4. t # NoUrl
    BY <2>1, Constants
  <2>5. port # p => Migrated(p, t)
    BY <1>0, <2>1, <2>4 DEF Migrates
  <2>6. port # p => Migrated(p, server[p].target)'
    BY <1>1, <2>1, <2>3, <2>5 DEF Migrated, Has
  <2> QED BY <1>2, <2>1, <2>3, <2>6 DEF Migrates
<1> QED
  BY <1>4, <1>5, <1>6, <1>7, <1>8, <1>9, <1>10, <1>11, <1>12 DEF StartStep

LEMMA LedgerStep ==
    ASSUME BootTypeOK, NEW p \in Servers, StartStep(p), StandRight, LedgerIsTrue
    PROVE  LedgerIsTrue'
<1>1. \A d \in Databases : databases'[d].ran = {v \in Versions : databases'[d].ledger[v] # 0}
  BY RanStep DEF StandRight
<1>2. \A q \in Servers : Migrates(q)'
  BY ItMigrates, OthersMigrate
<1> QED BY <1>1, <1>2 DEF LedgerIsTrue

\* How a process gets to a database, to the port and to a database that is ready.
LEMMA Arrives ==
    ASSUME BootTypeOK, NEW p \in Servers, StartStep(p), StandsRight(p)
    PROVE  /\ server'[p].at \in InDatabase \cup {"bind"} =>
                 \/ server[p].at \in InDatabase \cup {"bind"} \/ port = p
                 \/ Sync(p) \/ (ReadConfig(p) /\ config.made)
           /\ port' = port \/ (port' = p /\ Bind(p) /\ server[p].at = "bind") \/ port' = Nobody
           /\ (server'[p].at = "bind" \/ (server'[p].at = "rename" /\ port' = p)) /\ server'[p].target # NoUrl =>
                 /\ server'[p].target = server[p].target
                 /\ (LoadSettings(p) /\ Opens(p) /\ Db(p).settings # NoKey) \/ Seed(p)
<1> DEFINE t == server[p].target
           Gets == server'[p].at \in InDatabase \cup {"bind"} =>
                     \/ server[p].at \in InDatabase \cup {"bind"} \/ port = p
                     \/ Sync(p) \/ (ReadConfig(p) /\ config.made)
           IsReady == (server'[p].at = "bind" \/ (server'[p].at = "rename" /\ port' = p)) /\ server'[p].target # NoUrl =>
                        /\ server'[p].target = server[p].target
                        /\ (LoadSettings(p) /\ Opens(p) /\ Db(p).settings # NoKey) \/ Seed(p)
<1>0. server \in [Servers -> ServerType] /\ p # Nobody
  BY Constants DEF BootTypeOK, ServerType
<1>1. port' = port \/ (port' = p /\ Bind(p) /\ server[p].at = "bind") \/ port' = Nobody
  BY Zenon DEF StartStep, StartUp, ReadKey, CreateKey, WriteKey, ReadConfig, CreateConfig,
     Connect, StandsAt,
     CreateDatabase, LockSchema, Migrate, CommitSchema, LoadSettings, Seed, Bind, End, Rename, Sync, ChangeDatabase
<1>2. CASE server[p].at \in InDatabase /\ server'[p].at \notin {"bind", "rename"}
  BY <1>2, Zenon, <1>1
<1>3. CASE server'[p].at \notin InDatabase \cup {"bind", "rename"}
  BY <1>1, <1>3
<1>4. CASE StartUp(p) \/ CreateKey(p) \/ ReadKey(p) \/ WriteKey(p)
  <2>1. \/ \E place \in {"refused", "serving", "create key", "write key"} : GoesTo(p, place)
        \/ \E key : TakesKey(p, key)
        \/ StartUp(p)
    BY <1>4, Zenon DEF CreateKey, ReadKey, WriteKey, Fails
  <2>2. CASE \E place \in {"refused", "serving", "create key", "write key"} : GoesTo(p, place)
    BY <1>0, <1>3, <2>2 DEF GoesTo, ServerType, InDatabase
  <2>3. CASE \E key : TakesKey(p, key)
    BY <1>0, <1>3, <2>3 DEF TakesKey, ServerType, InDatabase
  <2>4. CASE StartUp(p)
    BY <1>0, <1>3, <2>4 DEF StartUp, ServerType, InDatabase
  <2> QED BY <2>1, <2>2, <2>3, <2>4
<1>5. CASE Fails(p)
  BY <1>0, <1>3, <1>5 DEF Fails, GoesTo, ServerType, InDatabase
<1>6. CASE (Rename(p) \/ Bind(p) \/ End(p)) /\ ~Fails(p)
  <2>1. server'[p].at \in {"sync", "serving", "stopped"}
    BY <1>0, <1>6 DEF Rename, Bind, End, Ended, GoesTo, ServerType
  <2> QED BY <1>3, <2>1 DEF InDatabase
<1>7. CASE CreateConfig(p) /\ ~Fails(p)
  <2>1. server'[p].at = "rename" /\ port' = port /\ port # p
    BY <1>0, <1>7 DEF CreateConfig, GoesTo, ServerType, StandsRight, StandsAt, InDatabase
  <2> QED BY <1>1, <2>1 DEF InDatabase
<1>8. CASE ReadConfig(p) \/ Sync(p)
  <2>1. \/ \E place \in {"create config", "serving"} : GoesTo(p, place)
        \/ GoesTo(p, WithConfig(p)) /\ (Sync(p) \/ (ReadConfig(p) /\ config.made))
    BY <1>8 DEF ReadConfig, Sync
  <2>2. CASE \E place \in {"create config", "serving"} : GoesTo(p, place)
    BY <1>0, <1>3, <2>2 DEF GoesTo, ServerType, InDatabase
  <2>3. CASE GoesTo(p, WithConfig(p)) /\ (Sync(p) \/ (ReadConfig(p) /\ config.made))
    <3>1. server'[p].target = t /\ server'[p].at = IF t = NoUrl THEN "bind" ELSE "connect"
      BY <1>0, <2>3 DEF GoesTo, ServerType, WithConfig
    <3> QED BY <1>1, <2>3, <3>1
  <2> QED BY <2>1, <2>2, <2>3
<1>9. CASE (Connect(p) \/ CreateDatabase(p) \/ LockSchema(p) \/ Migrate(p) \/ CommitSchema(p)) /\ ~Fails(p)
  <2>1. server[p].at \in InDatabase
    BY <1>9, Zenon DEF Connect, CreateDatabase, LockSchema, Migrate, CommitSchema, StandsAt,
       InDatabase
  <2>2. server'[p].at \notin {"bind", "rename"}
    <3>1. CASE Connect(p) \/ CreateDatabase(p) \/ LockSchema(p)
      BY <1>0, <1>9, <3>1 DEF Connect, CreateDatabase, LockSchema, GoesTo, ServerType
    <3>2. CASE Migrate(p) \/ CommitSchema(p)
      BY <1>0, <1>9, <3>2 DEF Migrate, CommitSchema, GoesTo, ServerType
    <3> QED BY <1>9, <3>1, <3>2
  <2> QED BY <1>2, <2>1, <2>2
<1>10. CASE LoadSettings(p) /\ ~Fails(p)
  <2>1. server[p].at = "settings" /\ server'[p].target = t /\ port' = port /\ Opens(p)
        /\ server'[p].at = IF Db(p).settings = NoKey THEN "seed" ELSE IF port = p THEN "rename" ELSE "bind"
    BY <1>0, <1>10 DEF LoadSettings, GoesTo, StandsAt, ServerType
  <2> QED BY <1>1, <1>10, <2>1 DEF InDatabase
<1>11. CASE Seed(p)
  <2>1. server[p].at = "seed" /\ server'[p].target = t
    BY <1>0, <1>11 DEF Seed, GoesTo, StandsAt, ServerType
  <2> QED BY <1>1, <1>11, <2>1 DEF InDatabase
<1>12. CASE \E d \in Databases : ChangeDatabase(p, d)
  <2>1. port = p /\ server'[p].at = "connect"
    BY <1>0, <1>12 DEF ChangeDatabase, StandsAt, StandsRight, ServerType
  <2> QED BY <1>1, <2>1
<1> QED
  BY <1>4, <1>5, <1>6, <1>7, <1>8, <1>9, <1>10, <1>11, <1>12 DEF StartStep

\* What no process has come up on too early stays so.
LEMMA EarlyStep ==
    ASSUME BootTypeOK, NEW p \in Servers, StartStep(p), ~early'
    PROVE  ~early /\ (ReadConfig(p) /\ config.made => config = saved /\ KeyIsKept)
<1>1. CASE ReadConfig(p)
  BY <1>1, Zenon DEF ReadConfig, KeyIsKept
<1>2. CASE ~ReadConfig(p)
  <2>1. early' = early
    BY <1>2, Zenon DEF StartStep, StartUp, ReadKey, CreateKey, WriteKey, CreateConfig, Connect,
       CreateDatabase, LockSchema,
       Migrate, CommitSchema, LoadSettings, Seed, Bind, End, Rename, Sync, ChangeDatabase
  <2> QED BY <1>2, <2>1
<1> QED BY <1>1, <1>2

\* A key that is kept is never replaced.
LEMMA KeptKeyStays ==
    ASSUME BootTypeOK, NEW p \in Servers, StartStep(p), StandRight, KeyIsRead, KeyIsKept
    PROVE  CurrentKey' = CurrentKey /\ KeyIsKept'
<1>0. deployment' = deployment
  BY OthersStay
<1>1. CASE deployment.key # NoKey
  BY <1>0, <1>1 DEF CurrentKey, KeyIsKept
<1>2. CASE deployment.key = NoKey
  <2>1. keyIsDurable /\ keyFile > Torn
    BY <1>2, Zenon DEF KeyIsKept, KeyIsRead
  <2>2. keyFile # Torn /\ keyFile # NoKey
    BY <2>1 DEF BootTypeOK
  <2>3. ~WriteKey(p)
    BY <2>2, Zenon DEF WriteKey, StandsAt, KeyIsRead
  <2>4. keyFile' = keyFile
    <3>1. ReadKey(p) => keyFile' = keyFile
      BY Zenon DEF ReadKey
    <3>2. CreateKey(p) => keyFile' = keyFile
      BY <2>2, Zenon DEF CreateKey
    <3> QED BY <2>3, <3>1, <3>2, KeyStays DEF StandRight
  <2>5. keyIsDurable'
    BY <2>1, DurableStep
  <2> QED BY <1>0, <1>2, <2>4, <2>5, Zenon DEF CurrentKey, KeyIsKept
<1> QED BY <1>1, <1>2

\* What is ready stays ready.
LEMMA ReadyStays ==
    ASSUME BootTypeOK, NEW p \in Servers, StartStep(p), StandRight, KeyIsRead, NEW d \in Databases, Ready(d)
    PROVE  databases'[d].exists /\ databases'[d].settings = CurrentKey' /\ KeyIsKept'
<1>1. CurrentKey' = CurrentKey /\ KeyIsKept'
  BY KeptKeyStays DEF Ready
<1>2. databases[d].exists /\ databases[d].settings = CurrentKey /\ StandsRight(p)
  BY DEF Ready, StandRight
<1>3. CASE Seed(p) /\ d = server[p].target
  <2>1. databases'[d].settings = server[p].key
    BY <1>3, DatabasesWritten
  <2>2. server[p].key = CurrentKey
    BY <1>3, Zenon DEF Seed, StandsAt, KeyIsRead, HasKey, InDatabase
  <2> QED BY <1>1, <1>2, <2>1, <2>2, DatabasesStay
<1>4. CASE ~(Seed(p) /\ d = server[p].target)
  BY <1>1, <1>2, <1>4, DatabasesStay
<1> QED BY <1>3, <1>4

\* The configuration on the disk.
LEMMA ConfigMoves ==
    ASSUME BootTypeOK, NEW p \in Servers, StartStep(p)
    PROVE  \/ UNCHANGED <<config, saved>>
           \/ Rename(p) /\ saved' = saved /\ config' = [made |-> TRUE, url |-> server[p].target]
           \/ Sync(p) /\ saved' = config /\ config' = config /\ keyIsDurable'
  BY Zenon DEF StartStep, StartUp, ReadKey, CreateKey, WriteKey, ReadConfig, CreateConfig,
     Connect, CreateDatabase,
     LockSchema, Migrate, CommitSchema, LoadSettings, Seed, Bind, End, Rename, Sync, ChangeDatabase

\* A step of a process while the key is kept.
LEMMA KeptSealedStep ==
    ASSUME BootTypeOK, NEW p \in Servers, StartStep(p), KeyIsRead, StandRight, ConfigIsRight, SealedRight,
           ~early', KeyIsKept
    PROVE  SealedRight'
<1> DEFINE t == server[p].target
<1>0. ~early /\ (ReadConfig(p) /\ config.made => config = saved /\ KeyIsKept) /\ StandsRight(p)
      /\ deployment' = deployment
  BY EarlyStep, OthersStay DEF StandRight
<1>1. /\ \A d \in Databases : SealedBy(d)
      /\ \A q \in Servers : IsBacked(q)
      /\ NamedIsReady /\ GivenIsReady
  BY <1>0 DEF SealedRight
<1>2. CurrentKey' = CurrentKey /\ KeyIsKept'
  BY KeptKeyStays
<1>3. \A d \in Databases : Ready(d) =>
         databases'[d].exists /\ databases'[d].settings = CurrentKey' /\ KeyIsKept'
  BY ReadyStays
<1>4. t \in Databases \cup {NoUrl} /\ config.url \in Databases \cup {NoUrl} /\ saved.url \in Databases \cup {NoUrl}
      /\ deployment.url \in Databases \cup {NoUrl} /\ NoUrl \notin Databases
  BY Constants DEF BootTypeOK, Configs
<1>5. saved.made => saved'.made
  <2>1. Rename(p) => saved' = saved
    BY DEF Rename
  <2> QED BY <2>1, ConfigMoves DEF ConfigIsRight
<1>6. \A d \in Databases : SealedBy(d)'
  <2> SUFFICES ASSUME NEW d \in Databases PROVE SealedBy(d)'
    OBVIOUS
  <2>1. CASE Seed(p) /\ d = t
    <3>1. databases'[d].settings = server[p].key
      BY <2>1, DatabasesWritten
    <3>2. server[p].key = CurrentKey
      BY <2>1, Zenon DEF Seed, StandsAt, KeyIsRead, HasKey, InDatabase
    <3> QED BY <1>2, <3>1, <3>2 DEF SealedBy
  <2>2. CASE ~(Seed(p) /\ d = t)
    <3>1. databases'[d].settings = databases[d].settings
      BY <1>0, <2>2, DatabasesStay
    <3> QED BY <1>1, <1>2, <3>1 DEF SealedBy
  <2> QED BY <2>1, <2>2
\* The database a process has brought up.
<1>7. t # NoUrl /\ ((LoadSettings(p) /\ Opens(p) /\ Db(p).settings # NoKey) \/ Seed(p)) =>
         databases'[t].exists /\ databases'[t].settings = CurrentKey'
  <2> SUFFICES ASSUME t # NoUrl, (LoadSettings(p) /\ Opens(p) /\ Db(p).settings # NoKey) \/ Seed(p)
               PROVE  databases'[t].exists /\ databases'[t].settings = CurrentKey'
    OBVIOUS
  <2>1. server[p].at \in {"settings", "seed"} /\ t \in Databases
    BY <1>4, Zenon DEF LoadSettings, Seed, StandsAt
  <2>2. server[p].key = CurrentKey /\ databases[t].exists
    BY <1>0, <2>1 DEF KeyIsRead, HasKey, InDatabase, StandsRight, Db
  <2>3. databases'[t].exists
    BY <1>0, <2>1, <2>2, DatabasesStay
  <2>4. CASE Seed(p)
    BY <1>2, <2>1, <2>2, <2>3, <2>4, DatabasesWritten
  <2>5. CASE Opens(p) /\ Db(p).settings # NoKey /\ ~Seed(p)
    <3>1. databases[t].settings = CurrentKey
      BY <2>2, <2>5 DEF Opens, Db
    <3>2. databases'[t].settings = databases[t].settings
      BY <1>0, <2>1, <2>5, DatabasesStay
    <3> QED BY <1>2, <2>3, <3>1, <3>2
  <2> QED BY <2>4, <2>5
<1>8. IsBacked(p)'
  <2>1. server'[p].at \in InDatabase \cup {"bind"} \/ port' = p => saved'.made
    <3>1. server[p].at \in InDatabase \cup {"bind"} \/ port = p => saved'.made
      BY <1>1, <1>5 DEF IsBacked
    <3>2. Sync(p) => saved'.made
      BY <1>0 DEF Sync, StandsAt, StandsRight
    <3>3. ReadConfig(p) /\ config.made => saved'.made
      BY <1>0, <1>5
    <3> QED BY <1>0, <3>1, <3>2, <3>3, Arrives, Constants
  <2>2. (server'[p].at = "bind" \/ (server'[p].at = "rename" /\ port' = p)) /\ server'[p].target # NoUrl =>
           Ready(server[p].target)'
    BY <1>0, <1>2, <1>7, Arrives DEF Ready
  <2> QED BY <1>2, <2>1, <2>2 DEF IsBacked
<1>9. \A q \in Servers : IsBacked(q)'
  <2> SUFFICES ASSUME NEW q \in Servers, q # p PROVE IsBacked(q)'
    BY <1>8
  <2>1. server'[q] = server[q] /\ (port' = q <=> port = q)
    BY OthersStay
  <2>2. server[q].target \in Databases \cup {NoUrl} /\ IsBacked(q)
    BY <1>1 DEF BootTypeOK
  <2>3. server[q].at \in InDatabase \cup {"bind"} \/ port = q => saved'.made
    BY <1>5, <2>2 DEF IsBacked
  <2>4. (server[q].at = "bind" \/ (server[q].at = "rename" /\ port = q)) /\ server[q].target # NoUrl =>
          Ready(server[q].target)'
    BY <1>3, <2>1, <2>2 DEF IsBacked, Ready
  <2> QED BY <1>2, <2>1, <2>3, <2>4 DEF IsBacked
<1>10. NamedIsReady'
  <2> SUFFICES ASSUME deployment.url = NoUrl, NEW c \in {config', saved'}, c.url # NoUrl
               PROVE  c.url \in Databases /\ databases'[c.url].exists /\ databases'[c.url].settings = CurrentKey' /\ KeyIsKept'
    BY <1>0 DEF NamedIsReady, Ready
  <2>1. \A e \in {config, saved} : e.url # NoUrl => e.url \in Databases /\ Ready(e.url)
    BY <1>1, <1>4 DEF NamedIsReady
  <2>2. Rename(p) /\ t # NoUrl => t \in Databases /\ Ready(t)
    <3>1. Rename(p) /\ t # NoUrl => port = p /\ server[p].at = "rename"
      BY <1>0 DEF Rename, StandsAt, StandsRight
    <3> QED BY <1>1, <1>4, <3>1 DEF IsBacked
  <2>3. CASE c \in {config, saved}
    BY <1>3, <2>1, <2>3
  <2>4. CASE Rename(p) /\ c = [made |-> TRUE, url |-> t]
    BY <1>3, <2>2, <2>4
  <2> QED BY <2>3, <2>4, ConfigMoves
<1>11. GivenIsReady'
  <2> SUFFICES ASSUME deployment.url # NoUrl, port' # Nobody
               PROVE  databases'[deployment.url].exists /\ databases'[deployment.url].settings = CurrentKey' /\ KeyIsKept'
    BY <1>0 DEF GivenIsReady, Ready
  <2>1. deployment.url \in Databases
    BY <1>4
  <2>2. CASE port' = port
    BY <1>1, <1>3, <2>1, <2>2 DEF GivenIsReady
  <2>3. CASE Bind(p) /\ server[p].at = "bind" /\ port' = p
    <3>1. t = deployment.url
      BY <1>0, <2>3 DEF StandsRight, InDatabase
    <3>2. Ready(t)
      BY <1>1, <2>3, <3>1 DEF IsBacked
    <3> QED BY <1>3, <2>1, <3>1, <3>2
  <2> QED BY <1>0, <2>2, <2>3, Arrives
<1> QED BY <1>6, <1>9, <1>10, <1>11, Zenon DEF SealedRight

\* While the key is not kept nobody is at work on a database, and nothing is sealed.
LEMMA NothingIsSealed ==
    ASSUME SealedRight, ~early, ~KeyIsKept
    PROVE  /\ \A d \in Databases : databases[d].settings \in {NoKey, Foreign} /\ ~Ready(d)
           /\ \A q \in Servers : server[q].at \notin InDatabase \cup {"bind"} /\ port # q
           /\ deployment.url = NoUrl => config.url = NoUrl /\ saved.url = NoUrl
  BY DEF SealedRight, SealedBy, IsBacked, NamedIsReady, Ready

\* A step of a process while the key is not kept.
LEMMA OpenSealedStep ==
    ASSUME BootTypeOK, NEW p \in Servers, StartStep(p), StandRight, ConfigIsRight, SealedRight, ~early', ~KeyIsKept
    PROVE  SealedRight'
<1> DEFINE t == server[p].target
<1>0. ~early /\ ~(ReadConfig(p) /\ config.made) /\ StandsRight(p) /\ deployment' = deployment
  BY EarlyStep, OthersStay DEF StandRight
<1>1. /\ \A d \in Databases : databases[d].settings \in {NoKey, Foreign} /\ ~Ready(d)
      /\ \A q \in Servers : server[q].at \notin InDatabase \cup {"bind"} /\ port # q
      /\ deployment.url = NoUrl => config.url = NoUrl /\ saved.url = NoUrl
  BY <1>0, NothingIsSealed
<1>2. port' = Nobody
  BY <1>1, Arrives, <1>0 DEF BootTypeOK
<1>3. \A d \in Databases : SealedBy(d)'
  <2>1. ~Seed(p)
    BY <1>1 DEF Seed, StandsAt, InDatabase
  <2>2. \A d \in Databases : databases'[d].settings = databases[d].settings
    BY <1>0, <2>1, DatabasesStay
  <2> QED BY <1>1, <2>2 DEF SealedBy
<1>4. IsBacked(p)'
  <2>1. server'[p].at \in InDatabase \cup {"bind"} => KeyIsKept' /\ saved'.made
    <3>1. server'[p].at \in InDatabase \cup {"bind"} => Sync(p)
      BY <1>0, <1>1, Arrives
    <3>2. Sync(p) => keyIsDurable' /\ saved'.made
      BY <1>0, Zenon DEF Sync, StandsAt, StandsRight
    <3> QED BY <3>1, <3>2 DEF KeyIsKept
  <2>2. ~((server'[p].at = "bind" \/ (server'[p].at = "rename" /\ port' = p)) /\ server'[p].target # NoUrl)
    <3>1. ~LoadSettings(p) /\ ~Seed(p)
      BY <1>1 DEF LoadSettings, Seed, StandsAt, InDatabase
    <3> QED BY <1>0, <3>1, Arrives
  <2> QED BY <1>2, <2>1, <2>2, Constants DEF IsBacked
<1>5. \A q \in Servers : IsBacked(q)'
  <2> SUFFICES ASSUME NEW q \in Servers, q # p PROVE IsBacked(q)'
    BY <1>4
  <2>1. server'[q] = server[q] /\ port' # q
    BY <1>2, OthersStay, Constants
  <2> QED BY <1>1, <2>1 DEF IsBacked
<1>6. NamedIsReady'
  <2> SUFFICES ASSUME deployment.url = NoUrl PROVE config'.url = NoUrl /\ saved'.url = NoUrl
    BY <1>0 DEF NamedIsReady
  <2>1. Rename(p) => t = NoUrl
    BY <1>0, <1>1 DEF Rename, StandsAt, StandsRight
  <2> QED BY <1>1, <2>1, ConfigMoves
<1>7. GivenIsReady'
  BY <1>2 DEF GivenIsReady
<1> QED BY <1>3, <1>5, <1>6, <1>7, Zenon DEF SealedRight

LEMMA AdministratorStep ==
    ASSUME BootTypeOK, NEW p \in Servers, StartStep(p), StandRight, AdministratorIsMade
    PROVE  AdministratorIsMade'
<1>0. server \in [Servers -> ServerType] /\ StandsRight(p) /\ deployment' = deployment
  BY OthersStay DEF BootTypeOK, ServerType, StandRight
<1>1. PasswordIsUsable' <=> PasswordIsUsable
  BY <1>0 DEF PasswordIsUsable
<1> SUFFICES ASSUME ~PasswordIsUsable
             PROVE  ~config'.made /\ server'[p].at \notin PastConfig
  BY <1>1, OthersStay DEF AdministratorIsMade
<1>2. ~config.made /\ server[p].at \notin PastConfig /\ port # p
  BY <1>0 DEF AdministratorIsMade, StandsRight, PastConfig
<1>3. ~config'.made
  <2>1. ~Rename(p) /\ ~Sync(p)
    BY <1>2 DEF Rename, Sync, StandsAt, PastConfig
  <2> QED BY <1>2, <2>1, ConfigMoves
<1>4. StartUp(p) \/ ReadKey(p) \/ CreateKey(p) \/ WriteKey(p) \/ ReadConfig(p) \/ CreateConfig(p) \/ End(p)
  BY <1>2, Zenon DEF StartStep, Connect, CreateDatabase, LockSchema, Migrate, CommitSchema,
     LoadSettings, Seed, Bind, Rename,
     Sync, ChangeDatabase, StandsAt, PastConfig, InDatabase
<1>5. \/ StartUp(p) \/ End(p) \/ \E key : TakesKey(p, key)
      \/ \E place \in {"create key", "write key", "create config", "refused"} : GoesTo(p, place)
  BY <1>2, <1>4, Zenon DEF ReadKey, CreateKey, WriteKey, ReadConfig, CreateConfig, Fails
<1>6. server'[p].at \in {"create key", "write key", "create config", "refused", "key", "config", "stopped"}
  <2>1. CASE StartUp(p)
    BY <1>0, <2>1 DEF StartUp, ServerType
  <2>2. CASE End(p)
    BY <1>0, <2>2 DEF End, Ended, ServerType
  <2>3. CASE \E key : TakesKey(p, key)
    BY <1>0, <2>3 DEF TakesKey, ServerType
  <2>4. CASE \E place \in {"create key", "write key", "create config", "refused"} : GoesTo(p, place)
    BY <1>0, <2>4 DEF GoesTo, ServerType
  <2> QED BY <1>5, <2>1, <2>2, <2>3, <2>4
<1> QED BY <1>3, <1>6 DEF PastConfig, InDatabase

-----------------------------------------------------------------------------
(* The invariant holds. *)

LEMMA InitInvariant == BootInit => IInv
<1> SUFFICES ASSUME BootInit PROVE IInv
  OBVIOUS
<1>0. BootTypeOK
  BY InitType
<1>1. PICK build \in Builds :
         server = [p \in Servers |-> [at |-> "stopped", build |-> build[p], run |-> 0,
                                      key |-> NoKey, target |-> NoUrl, applies |-> {}]]
  BY DEF BootInit
<1>2. \A p \in Servers : server[p].at = "stopped" /\ port # p
  BY <1>1, Constants DEF BootInit
<1>3. \A d \in Databases : /\ databases[d].ran = {v \in Versions : databases[d].ledger[v] # 0}
                           /\ databases[d].settings \in {NoKey, Foreign}
  BY DEF BootInit
<1>4. KeyIsRead
  <2>1. ~keyIsDurable
    BY Zenon DEF BootInit
  <2> QED BY <1>2, <2>1 DEF KeyIsRead, HasKey, InDatabase
<1>5. StandRight
  BY <1>2 DEF StandRight, StandsRight, InDatabase
<1>6. ConfigIsRight
  BY DEF BootInit, ConfigIsRight, NoConfig
<1>9. AdministratorIsMade
  BY <1>2 DEF BootInit, AdministratorIsMade, PastConfig, InDatabase, NoConfig
<1>7. LedgerIsTrue
  BY <1>2, <1>3 DEF LedgerIsTrue, Migrates
<1>8. SealedRight
  <2>1. config.url = NoUrl /\ saved.url = NoUrl /\ port = Nobody
    BY DEF BootInit, NoConfig
  <2> QED BY <1>2, <1>3, <2>1 DEF SealedRight, SealedBy, IsBacked, NamedIsReady, GivenIsReady, InDatabase
<1> QED BY <1>0, <1>4, <1>5, <1>6, <1>7, <1>8, <1>9 DEF IInv

LEMMA ProcessStep == ASSUME IInv, NEW p \in Servers, StartStep(p) PROVE IInv'
<1> USE DEF IInv
<1>1. BootTypeOK'
  BY TypeStep DEF StandRight
<1>2. KeyIsRead'
  BY KeyStep
<1>3. StandRight'
  BY ItStandsRight, OthersStandRight DEF StandRight
<1>4. ConfigIsRight'
  BY ConfigStep
<1>5. LedgerIsTrue' /\ AdministratorIsMade'
  BY LedgerStep, AdministratorStep
<1>6. SealedRight'
  <2>1. CASE early'
    BY <2>1, Zenon DEF SealedRight
  <2>2. CASE ~early' /\ KeyIsKept
    BY <2>2, KeptSealedStep
  <2>3. CASE ~early' /\ ~KeyIsKept
    BY <2>3, OpenSealedStep
  <2> QED BY <2>1, <2>2, <2>3
<1> QED BY <1>1, <1>2, <1>3, <1>4, <1>5, <1>6

LEMMA PowerLossStep == ASSUME IInv, PowerLoss PROVE IInv'
<1>0. BootTypeOK /\ KeyIsRead /\ ConfigIsRight /\ LedgerIsTrue /\ SealedRight
  BY DEF IInv
<1>1. /\ BootTypeOK'
      /\ \A p \in Servers : /\ server'[p].at = "stopped" /\ server'[p].applies = {}
                            /\ server'[p].build = server[p].build
      /\ port' = Nobody /\ opened' = NoUrl
      /\ \A d \in Databases :
            /\ databases'[d].exists = databases[d].exists /\ databases'[d].ledger = databases[d].ledger
            /\ databases'[d].ran = databases[d].ran /\ databases'[d].settings = databases[d].settings
  BY <1>0, PowerLossLeaves
<1>2. \A p \in Servers : port' # p
  BY <1>1, Constants
<1>3. /\ config' \in {config, saved} /\ saved' = config' /\ deployment' = deployment
      /\ keyFile' \in IF keyIsDurable THEN {keyFile} ELSE {keyFile, NoKey}
  BY DEF PowerLoss
<1>4. UNCHANGED <<keyIsDurable, early>>
  BY DEF PowerLoss
<1>5. KeyIsRead'
  <2>1. keyIsDurable' /\ deployment.key = NoKey => keyFile' > Torn
    <3>1. keyIsDurable => keyFile' = keyFile
      BY <1>3
    <3> QED BY <1>0, <1>4, <3>1, Zenon DEF KeyIsRead
  <2> QED BY <1>1, <1>3, <2>1 DEF KeyIsRead, HasKey, InDatabase
<1>6. StandRight'
  BY <1>1, <1>2 DEF StandRight, StandsRight, InDatabase
<1>7. ConfigIsRight'
  BY <1>0, <1>3 DEF ConfigIsRight
<1>8. LedgerIsTrue'
  BY <1>0, <1>1, <1>2 DEF LedgerIsTrue, Migrates
<1>10. AdministratorIsMade'
  <2>1. PasswordIsUsable' <=> PasswordIsUsable
    BY <1>3 DEF PasswordIsUsable
  <2>2. ~config.made => ~config'.made
    BY <1>0, <1>3 DEF ConfigIsRight
  <2> QED BY <1>1, <2>1, <2>2 DEF IInv, AdministratorIsMade, PastConfig, InDatabase
<1>9. SealedRight'
  <2> SUFFICES ASSUME ~early PROVE SealedRight'
    BY <1>4, Zenon DEF SealedRight
  <2>1. \A p \in Servers : IsBacked(p)'
    BY <1>1, <1>2 DEF IsBacked, InDatabase
  <2>2. GivenIsReady'
    BY <1>1 DEF GivenIsReady
  <2>3. CASE KeyIsKept
    <3>1. KeyIsKept' /\ CurrentKey' = CurrentKey
      <4>1. CASE deployment.key # NoKey
        BY <1>3, <4>1 DEF KeyIsKept, CurrentKey
      <4>2. CASE deployment.key = NoKey /\ keyIsDurable
        <5>1. keyFile' = keyFile
          BY <1>3, <4>2
        <5> QED BY <1>3, <1>4, <4>2, <5>1, Zenon DEF KeyIsKept, CurrentKey
      <4> QED BY <2>3, <4>1, <4>2 DEF KeyIsKept
    <3>2. \A d \in Databases : SealedBy(d)'
      BY <1>0, <1>1, <3>1 DEF SealedRight, SealedBy
    <3>3. NamedIsReady'
      <4>1. config.url \in Databases \cup {NoUrl} /\ saved.url \in Databases \cup {NoUrl}
        BY <1>0 DEF BootTypeOK, Configs
      <4>2. deployment.url = NoUrl => \A c \in {config, saved} : c.url # NoUrl => c.url \in Databases /\ Ready(c.url)
        BY <1>0, <4>1 DEF SealedRight, NamedIsReady
      <4> QED BY <1>1, <1>3, <3>1, <4>2 DEF NamedIsReady, Ready
    <3> QED BY <2>1, <2>2, <3>2, <3>3, Zenon DEF SealedRight
  <2>4. CASE ~KeyIsKept
    <3>1. /\ \A d \in Databases : databases[d].settings \in {NoKey, Foreign}
          /\ deployment.url = NoUrl => config.url = NoUrl /\ saved.url = NoUrl
      BY <1>0, <2>4, NothingIsSealed
    <3>2. \A d \in Databases : SealedBy(d)'
      BY <1>1, <3>1 DEF SealedBy
    <3>3. NamedIsReady'
      BY <1>3, <3>1 DEF NamedIsReady
    <3> QED BY <2>1, <2>2, <3>2, <3>3, Zenon DEF SealedRight
  <2> QED BY <2>3, <2>4
<1> QED BY <1>1, <1>5, <1>6, <1>7, <1>8, <1>9, <1>10 DEF IInv

LEMMA StutterStep == ASSUME IInv, UNCHANGED bootVars PROVE IInv'
<1> USE DEF bootVars
<1>1. BootTypeOK'
  BY DEF IInv, BootTypeOK
<1>2. \A p \in Servers : /\ (StandsRight(p) => StandsRight(p)') /\ (Migrates(p) => Migrates(p)')
                         /\ (IsBacked(p) => IsBacked(p)')
  <2> SUFFICES ASSUME NEW p \in Servers
               PROVE  /\ (StandsRight(p) => StandsRight(p)') /\ (Migrates(p) => Migrates(p)')
                      /\ (IsBacked(p) => IsBacked(p)')
    OBVIOUS
  <2>1. StandsRight(p) => StandsRight(p)'
    BY DEF StandsRight, Db
  <2>2. IsBacked(p) => IsBacked(p)'
    BY DEF IsBacked, Ready, CurrentKey, KeyIsKept
  <2>3. /\ Edited(p)' <=> Edited(p)
        /\ Missing(p)' = Missing(p)
        /\ Migrated(p, server[p].target)' <=> Migrated(p, server[p].target)
        /\ Migrated(p, opened)' <=> Migrated(p, opened)
    BY DEF Edited, Missing, Has, Migrated, Db
  <2>4. Migrates(p) => Migrates(p)'
    BY <2>3 DEF Migrates, Db
  <2> QED BY <2>1, <2>2, <2>4
<1>3. KeyIsRead' /\ ConfigIsRight' /\ AdministratorIsMade'
  BY DEF IInv, KeyIsRead, ConfigIsRight, CurrentKey, AdministratorIsMade, PasswordIsUsable
<1>4. StandRight' /\ LedgerIsTrue'
  BY <1>2 DEF IInv, StandRight, LedgerIsTrue
<1>5. SealedRight'
  <2>1. /\ NamedIsReady => NamedIsReady'
        /\ GivenIsReady => GivenIsReady'
        /\ \A d \in Databases : SealedBy(d) => SealedBy(d)'
    BY DEF NamedIsReady, GivenIsReady, SealedBy, Ready, CurrentKey, KeyIsKept
  <2> QED BY <1>2, <2>1 DEF IInv, SealedRight
<1> QED BY <1>1, <1>3, <1>4, <1>5 DEF IInv

LEMMA Next_is_a_step == BootNext => PowerLoss \/ \E p \in Servers : StartStep(p)
  BY Zenon DEF BootNext, StartStep

\* The inductive invariant is one.
THEOREM Invariant == BootSpec => []IInv
<1>1. IInv /\ [BootNext]_bootVars => IInv'
  BY ProcessStep, PowerLossStep, StutterStep, Next_is_a_step
<1> QED BY <1>1, InitInvariant, PTL DEF BootSpec

\* BootTypeCorrect: every value is of its type.
THEOREM BootTypeCorrect == BootSpec => []BootTypeOK
  BY Invariant, PTL DEF IInv

\* StartsAgainAlways: whatever a start, a kill or a loss of power left half done, the next
\* start can open what was sealed, and the migrations that are registered have run.
LEMMA InvariantStartsAgain == IInv => StartsAgain
<1> SUFFICES ASSUME IInv PROVE StartsAgain
  OBVIOUS
<1>0. BootTypeOK /\ KeyIsRead /\ StandRight /\ LedgerIsTrue /\ SealedRight
  BY DEF IInv
<1>1. \A d \in Databases : /\ databases[d].ran = {v \in Versions : databases[d].ledger[v] # 0}
                           /\ early \/ databases[d].settings \in {NoKey, Foreign, CurrentKey}
  BY <1>0 DEF LedgerIsTrue, SealedRight, SealedBy
<1>2. port # Nobody => port \in Servers
  BY <1>0 DEF BootTypeOK
<1>3. (port # Nobody /\ opened # NoUrl) =>
         \A v \in Versions : Has(port, v) => databases[opened].ledger[v] = server[port].build[v]
  BY <1>0, <1>2 DEF LedgerIsTrue, Migrates, Migrated
<1>4. (port # Nobody /\ ~early) =>
         /\ saved.made /\ CurrentKey = server[port].key
         /\ Url # NoUrl => databases[Url].exists /\ databases[Url].settings = CurrentKey
  <2> SUFFICES ASSUME port # Nobody, ~early
               PROVE  /\ saved.made /\ CurrentKey = server[port].key
                      /\ Url # NoUrl => databases[Url].exists /\ databases[Url].settings = CurrentKey
    OBVIOUS
  <2>1. saved.made
    BY <1>0, <1>2 DEF SealedRight, IsBacked
  <2>2. server[port].at \in HasKey
    BY <1>0, <1>2 DEF StandRight, StandsRight, HasKey
  <2>3. CurrentKey = server[port].key
    BY <1>0, <1>2, <2>2 DEF KeyIsRead
  <2>4. Url # NoUrl => Ready(Url)
    BY <1>0, Zenon DEF SealedRight, NamedIsReady, GivenIsReady, Url
  <2> QED BY <2>1, <2>3, <2>4 DEF Ready
<1> QED BY <1>1, <1>3, <1>4 DEF StartsAgain

THEOREM StartsAgainAlways == BootSpec => []StartsAgain
  BY Invariant, InvariantStartsAgain, PTL

\* StartRefusedForCauseAlways: what another process, or one that was killed, left half
\* done in a database never refuses a start.
LEMMA StopsForCause ==
    ASSUME IInv, NEW p \in Servers, StartStep(p), Stops(p)
    PROVE  Cause(p)
<1>0. server \in [Servers -> ServerType] /\ StandsRight(p) /\ Migrates(p) /\ KeyIsRead
      /\ server[p].target \in Databases \cup {NoUrl}
  BY DEF IInv, BootTypeOK, ServerType, StandRight, LedgerIsTrue
<1>1. server'[p].at \in {"refused", "serving"} /\ (server'[p].at = "serving" => server[p].at \notin {"bind", "sync", "serving"})
  BY DEF Stops
<1>2. server[p].at \in InDatabase => server[p].target # NoUrl
  BY <1>0 DEF StandsRight
<1>3. CASE StartUp(p)
  <2>1. server'[p].at = IF Fits THEN "key" ELSE "refused"
    BY <1>0, <1>3 DEF StartUp, ServerType
  <2> QED BY <1>1, <2>1 DEF Cause
<1>4. /\ \A place : GoesTo(p, place) => server'[p].at = place
      /\ \A key : TakesKey(p, key) => server'[p].at = "config"
  BY <1>0 DEF GoesTo, TakesKey, ServerType
<1>5. /\ ~GoesTo(p, "create key") /\ ~GoesTo(p, "write key") /\ ~GoesTo(p, "create config") /\ ~GoesTo(p, "rename")
      /\ ~GoesTo(p, "sync") /\ ~GoesTo(p, "connect") /\ ~GoesTo(p, "create") /\ ~GoesTo(p, "lock")
      /\ ~GoesTo(p, "migrate") /\ ~GoesTo(p, "seed") /\ ~GoesTo(p, "bind")
  BY <1>1, <1>4
<1>6. \A key : ~TakesKey(p, key)
  BY <1>1, <1>4
<1>7. CASE ReadKey(p) \/ CreateKey(p) \/ WriteKey(p)
  <2>1. CASE ReadKey(p)
    <3>1. deployment.key = NoKey /\ (deployment.production \/ keyFile = Torn)
      BY <1>5, <1>6, <2>1, Zenon DEF ReadKey
    <3> QED BY <3>1 DEF Cause
  <2>2. CASE CreateKey(p)
    <3>1. keyFile = Torn
      BY <1>5, <1>6, <2>2, Zenon DEF CreateKey
    <3>2. deployment.key = NoKey
      BY <1>0, <2>2 DEF CreateKey, KeyIsRead, StandsAt
    <3> QED BY <3>1, <3>2 DEF Cause
  <2> QED BY <1>6, <1>7, <2>1, <2>2 DEF WriteKey
<1>8. CASE ReadConfig(p) \/ CreateConfig(p) \/ Rename(p) \/ Sync(p)
  <2>1. ~ReadConfig(p)
    BY <1>5 DEF ReadConfig, WithConfig
  <2>2. CASE CreateConfig(p)
    <3>1. ~PasswordIsUsable
      BY <1>5, <2>2 DEF CreateConfig
    <3>2. ~config.made
      BY <3>1 DEF IInv, AdministratorIsMade
    <3> QED BY <3>1, <3>2 DEF Cause
  <2>3. ~Rename(p)
    BY <1>5 DEF Rename
  <2>4. ~Sync(p)
    <3>1. Sync(p) => server[p].at = "sync" /\ GoesTo(p, IF port = p THEN "serving" ELSE WithConfig(p))
      BY DEF Sync, StandsAt
    <3> QED BY <1>0, <1>1, <1>4, <3>1 DEF WithConfig
  <2> QED BY <1>8, <2>1, <2>2, <2>3, <2>4
<1>9. CASE Connect(p) \/ CreateDatabase(p) \/ LockSchema(p)
  <2>1. CASE Connect(p)
    BY <1>5, <2>1, Zenon DEF Connect, Cause
  <2>2. CASE CreateDatabase(p)
    BY <1>5, <2>2, Zenon DEF CreateDatabase, Cause
  <2>3. ~LockSchema(p)
    BY <1>5 DEF LockSchema
  <2> QED BY <1>9, <2>1, <2>2, <2>3
<1>10. CASE Migrate(p)
  <2>1. server[p].at = "migrate" /\ server[p].target \in Databases
    BY <1>0, <1>2, <1>10 DEF Migrate, StandsAt, InDatabase
  <2>2. Missing(p) \cap Db(p).ran = {}
    <3>1. Db(p).ran = {v \in Versions : Db(p).ledger[v] # 0}
      BY <2>1 DEF IInv, LedgerIsTrue, Db
    <3> QED BY <3>1 DEF Missing
  <2>3. server'[p].at # "commit"
    BY <1>1
  <2>4. Edited(p)
    <3>1. server' = [server EXCEPT ![p].at = "commit", ![p].applies = Missing(p)] => server'[p].at = "commit"
      BY <1>0 DEF ServerType
    <3> QED BY <1>10, <2>2, <2>3, <3>1 DEF Migrate
  <2> QED BY <2>1, <2>4, Constants DEF Cause
<1>11. ~CommitSchema(p)
  <2> SUFFICES ASSUME CommitSchema(p) PROVE FALSE
    OBVIOUS
  <2>1. server[p].applies = Missing(p)
    BY <1>0 DEF CommitSchema, StandsAt, Migrates
  <2>2. server' = [server EXCEPT ![p].at = "settings", ![p].applies = {}]
    BY <2>1 DEF CommitSchema
  <2> QED BY <1>0, <1>1, <2>2 DEF ServerType
<1>12. CASE LoadSettings(p) \/ Seed(p)
  <2>1. CASE LoadSettings(p)
    <3>1. ~Opens(p)
      BY <1>5, <2>1 DEF LoadSettings
    <3>2. server[p].target # NoUrl
      BY <1>2, <2>1 DEF LoadSettings, StandsAt, InDatabase
    <3> QED BY <3>1, <3>2 DEF Cause
  <2>2. ~Seed(p)
    BY <1>5 DEF Seed
  <2> QED BY <1>12, <2>1, <2>2
<1>13. CASE Bind(p)
  <2>1. server[p].at = "bind"
    BY <1>13 DEF Bind, StandsAt
  <2>2. server'[p].at = "refused"
    BY <1>1, <2>1
  <2>3. port # Nobody
    BY <1>4, <1>13, <2>2 DEF Bind
  <2> QED BY <2>1, <2>3 DEF Cause, StandsAt
<1>14. ~End(p)
  <2>1. End(p) => server'[p].at = "stopped"
    BY <1>0 DEF End, Ended, ServerType
  <2> QED BY <1>1, <2>1
<1>15. ~ \E d \in Databases : ChangeDatabase(p, d)
  <2>1. \A d \in Databases : ChangeDatabase(p, d) => server'[p].at = "connect"
    BY <1>0 DEF ChangeDatabase, ServerType
  <2> QED BY <1>1, <2>1
<1> QED
  BY <1>3, <1>7, <1>8, <1>9, <1>10, <1>11, <1>12, <1>13, <1>14, <1>15 DEF StartStep

THEOREM StartRefusedForCauseAlways == BootSpec => StartRefusedForCause
<1>1. IInv /\ [BootNext]_bootVars => [\A p \in Servers : Stops(p) => Cause(p)]_bootVars
  <2> SUFFICES ASSUME IInv, BootNext, NEW p \in Servers, Stops(p) PROVE Cause(p)
    OBVIOUS
  <2>1. BootTypeOK
    BY DEF IInv
  <2>2. server'[p] # server[p] /\ server'[p].at # "stopped"
    BY DEF Stops, StandsAt
  <2>3. ~PowerLoss
    BY <2>1, <2>2, PowerLossLeaves
  <2>4. PICK q \in Servers : StartStep(q)
    BY <2>3, Next_is_a_step
  <2>5. q = p
    BY <2>1, <2>2, <2>4, OthersStay
  <2> QED BY <2>4, <2>5, StopsForCause
<1> QED BY <1>1, Invariant, PTL DEF BootSpec, StartRefusedForCause

-----------------------------------------------------------------------------
(* The registries of hosts. *)

HIDE DEF NoKey, Torn, Foreign, Given
USE HostAssumption, EnrollmentAssumption

Holding == {"edit", "save", "audit", "publish", "probe"}

\* Only the holder of the mutex is past Lock, and its target is a host.
Exclusive ==
    \A r \in Requests : /\ await[r] \in Holding => lock = r
                        /\ await[r] # "idle" => target[r] \in Hosts

\* The holder's clone differs from memory in its target at most.
CopyIsFresh ==
    \A r \in Requests : await[r] \in {"save", "audit", "publish"} =>
        /\ copy[r][target[r]] = value[r]
        /\ \A h \in Kind(target[r]) \ {target[r]} : copy[r][h] = mem[h]

\* After the commit the target is unsettled and stored, after Publish also in
\* memory.
Committed ==
    \A r \in Requests :
        /\ await[r] \in {"audit", "publish", "probe"} =>
              target[r] \in unsettled /\ db[target[r]] = value[r]
        /\ await[r] = "probe" => mem[target[r]] = value[r]

HostInv == HostTypeOK /\ Exclusive /\ CopyIsFresh /\ Committed /\ AckedEditsSurvive

LEMMA KindHasHost == ASSUME NEW h \in Hosts PROVE h \in Kind(h) /\ Kind(h) \subseteq Hosts
  BY HostAssumption DEF Kind

LEMMA HostInitInv == HostInit => HostInv
  BY DEF HostInit, HostInv, HostTypeOK, Exclusive, CopyIsFresh, Committed, AckedEditsSurvive,
         Holding, Awaits, Ops, Registry, Empty

LEMMA HostNextInv == HostInv /\ [HostNext]_hostVars => HostInv'
  <1> SUFFICES ASSUME HostInv, [HostNext]_hostVars PROVE HostInv'
    OBVIOUS
  <1>. USE DEF HostInv, HostTypeOK, Exclusive, CopyIsFresh, Committed, AckedEditsSurvive,
               Holding, Awaits, Ops, Registry, Empty
  <1>1. ASSUME NEW r \in Requests, NEW h \in Hosts, NEW kind \in Ops, NEW new \in Nat,
               Arrive(r, kind, h, new)
        PROVE HostInv'
    BY <1>1 DEF Arrive
  <1>2. ASSUME NEW r \in Requests, NEW h \in Hosts,
               Create(r, h) \/ Update(r, h) \/ Delete(r, h)
        PROVE HostInv'
    <2>1. edits + 1 \in Nat /\ 0 \in Nat
      OBVIOUS
    <2>. QED BY <1>1, <1>2, <2>1 DEF Create, Update, Delete
  <1>3. ASSUME NEW r \in Requests, Lock(r) PROVE HostInv'
    BY <1>3 DEF Lock, Goto
  <1>4. ASSUME NEW r \in Requests, Edit(r) PROVE HostInv'
    <2>1. CASE op[r] # "create" /\ mem[target[r]] = 0 /\ Done(r)
      BY <1>4, <2>1 DEF Edit, Done
    <2>2. CASE ~(op[r] # "create" /\ mem[target[r]] = 0 /\ Done(r))
      <3>1. target[r] \in Hosts /\ Kind(target[r]) \subseteq Hosts
        BY <1>4, KindHasHost DEF Edit
      <3>2. /\ await' = [await EXCEPT ![r] = "save"]
            /\ UNCHANGED <<op, target, value, lock, mem, db, edits, acked, unsettled>>
            /\ copy' \in [Requests -> Registry]
            /\ \A q \in Requests : q # r => copy'[q] = copy[q]
            /\ copy'[r][target[r]] = value[r]
            /\ \A h \in Kind(target[r]) \ {target[r]} : copy'[r][h] = mem[h]
        <4>. DEFINE c == [h \in Hosts |-> IF h = target[r] THEN value[r]
                                         ELSE IF h \in Kind(target[r]) THEN mem[h] ELSE 0]
        <4>1. copy' = [copy EXCEPT ![r] = c] /\ Goto(r, "save")
              /\ UNCHANGED <<lock, mem, db, edits, acked, unsettled>>
          BY <1>4, <2>2 DEF Edit
        <4>2. c \in Registry /\ c[target[r]] = value[r]
          BY <3>1
        <4>3. \A h \in Kind(target[r]) \ {target[r]} : c[h] = mem[h]
          BY <3>1
        <4>. QED BY <4>1, <4>2, <4>3 DEF Goto
      <3>3. CopyIsFresh'
        <4> SUFFICES ASSUME NEW q \in Requests, await'[q] \in {"save", "audit", "publish"}
                     PROVE /\ copy'[q][target[q]] = value[q]
                           /\ \A h \in Kind(target[q]) \ {target[q]} : copy'[q][h] = mem[h]
          BY <3>2 DEF Kind
        <4>. QED BY <3>2
      <3>. QED BY <3>2, <3>3, <1>4 DEF Edit
    <2>. QED BY <2>1, <2>2
  <1>5. ASSUME NEW r \in Requests, await[r] = "save", Commit(r)
        PROVE /\ db' \in Registry
              /\ unsettled' \subseteq Hosts
              /\ db'[target[r]] = value[r]
              /\ \A h \in Hosts \ unsettled' : mem[h] = db'[h]
    BY <1>5, KindHasHost DEF Commit, Settings
  <1>6. ASSUME NEW r \in Requests, Save(r) PROVE HostInv'
    <2>1. CASE Commit(r) /\ Goto(r, IF target[r] \in Sunshine THEN "audit" ELSE "publish")
               /\ UNCHANGED <<copy, lock>>
      BY <1>6, <2>1, <1>5 DEF Save, Goto, Commit
    <2>2. CASE Commit(r) /\ Done(r)
      BY <1>6, <2>2, <1>5 DEF Save, Done, Commit
    <2>3. CASE UNCHANGED <<db, unsettled>> /\ Done(r)
      BY <1>6, <2>3 DEF Save, Done
    <2>. QED BY <1>6, <2>1, <2>2, <2>3 DEF Save
  <1>7. ASSUME NEW r \in Requests, Audit(r) PROVE HostInv'
    BY <1>7 DEF Audit, Goto
  <1>8. ASSUME NEW r \in Requests, AuditFails(r) PROVE HostInv'
    BY <1>8 DEF AuditFails, Done
  <1>9. ASSUME NEW r \in Requests, Publish(r) PROVE HostInv'
    BY <1>9, KindHasHost DEF Publish, Goto
  <1>10. ASSUME NEW r \in Requests, Answer(r) PROVE HostInv'
    BY <1>10 DEF Answer, Done
  <1>11. ASSUME NEW r \in Requests, Cancel(r) PROVE HostInv'
    <2>1. CASE await[r] = "save" /\ Commit(r)
      BY <1>11, <2>1, <1>5 DEF Cancel, Done, Commit
    <2>2. CASE UNCHANGED <<db, unsettled>>
      BY <1>11, <2>2 DEF Cancel, Done
    <2>. QED BY <1>11, <2>1, <2>2 DEF Cancel
  <1>12. CASE Restart
    BY <1>12 DEF Restart
  <1>13. CASE UNCHANGED hostVars
    BY <1>13 DEF hostVars, local, Kind
  <1>. QED
    BY <1>2, <1>3, <1>4, <1>6, <1>7, <1>8, <1>9, <1>10, <1>11, <1>12, <1>13
    DEF HostNext, HostStep

\* Whatever the requests and the hosts, every variable of the registry keeps its
\* type (routes/*/hosts.rs, database/settings.rs).
THEOREM TypeCorrect == HostSpec => []HostTypeOK
  <1>1. HostInv => HostTypeOK
    BY DEF HostInv
  <1>. QED
    BY HostInitInv, HostNextInv, <1>1, PTL DEF HostSpec

\* An acknowledged edit is in memory and in the table until a later edit of the
\* same host, for any number of concurrent edits, failures and restarts.
THEOREM AckedCorrect == HostSpec => []AckedEditsSurvive
  <1>1. HostInv => AckedEditsSurvive
    BY DEF HostInv
  <1>. QED
    BY HostInitInv, HostNextInv, <1>1, PTL DEF HostSpec

-----------------------------------------------------------------------------
\* A secret is made once, on one machine, and is all a machine keeps and sends.
SecretsApart ==
    /\ \A m \in Machines : made[m] \subseteq 1 .. fresh
    /\ \A m, n \in Machines : m # n => made[m] \cap made[n] = {}
    /\ \A m \in Machines : secretFile[m] # Absent => secretFile[m] \in made[m]
    /\ \A p \in Processes :
         pc[p] \in {"sent", "answered"} => secret[p] \in made[MachineOf[p]]
    /\ \A s \in late : \E m \in Machines : s \in made[m]

\* Whoever was answered, or keeps a token, has the secret of the row.
RowOwned ==
    /\ \A p \in Processes : At(p, "answered") => secret[p] = rowSecret
    /\ \A m \in Machines : tokenFile[m] # Absent => rowSecret \in made[m]

\* A process without company makes a secret only if there never was one.
OneSecret ==
    \A m \in Machines : Alone(m) =>
        /\ \A s \in made[m] : s = secretFile[m]
        /\ \A p \in Processes : MachineOf[p] = m /\ At(p, "make") => secretFile[m] = Absent

\* A process without company asks for a token only if none is kept.
OneToken ==
    \A m \in Machines : Alone(m) =>
        /\ \A p \in Processes :
             MachineOf[p] = m /\ pc[p] \in {"secret", "make", "sent", "answered"}
               => tokenFile[m] = Absent
        /\ \A p \in Processes :
             MachineOf[p] = m /\ At(p, "answered") => token[p] = rowToken \/ overtaken
        /\ tokenFile[m] # Absent => tokenFile[m] = rowToken \/ overtaken

Inv == TypeOK /\ SecretsApart /\ RowOwned /\ OneSecret /\ OneToken

LEMMA InitInv == Init => Inv
  <1>. SUFFICES ASSUME Init PROVE Inv
    OBVIOUS
  <1>. USE DEF Init, Absent, Numbers
  <1>1. TypeOK
    <2>1. 0 \in 0 .. MaxFresh /\ {} \in SUBSET Numbers
      OBVIOUS
    <2>2. made \in [Machines -> SUBSET Numbers] /\ late \subseteq Numbers
      BY <2>1
    <2>. QED BY <2>1, <2>2 DEF TypeOK, Pcs
  <1>2. SecretsApart
    BY DEF SecretsApart
  <1>3. RowOwned /\ OneSecret /\ OneToken
    BY DEF RowOwned, OneSecret, OneToken, Alone, At
  <1>. QED BY <1>1, <1>2, <1>3 DEF Inv

\* The steps that leave for_host, or go back to its start.
Quiet(p) ==
    /\ \E there \in {"off", "load", "failed"} : Goes(p, there)
    /\ Abandon(p)
    /\ UNCHANGED <<secret, token, disk, row, fresh, made, overtaken>>

LEMMA QuietInv == ASSUME Inv, NEW p \in Processes, Quiet(p) PROVE Inv'
  <1>. USE DEF Inv, Quiet, Goes, Abandon, At, disk, row
  <1>1. TypeOK'
    <2>1. At(p, "sent") => secret[p] \in Numbers
      BY DEF TypeOK, SecretsApart
    <2>. QED BY <2>1 DEF TypeOK, Pcs
  <1>2. SecretsApart'
    BY DEF TypeOK, SecretsApart
  <1>3. RowOwned'
    BY DEF TypeOK, RowOwned
  <1>4. OneSecret'
    BY DEF TypeOK, OneSecret, Alone
  <1>5. OneToken'
    BY DEF TypeOK, OneToken, Alone
  <1>. QED BY <1>1, <1>2, <1>3, <1>4, <1>5

LEMMA LoadInv == ASSUME Inv, NEW p \in Processes, Load(p) PROVE Inv'
  <1>. USE DEF Inv, Load, Goes, At, disk, row, TokenOf
  <1>1. TypeOK'
    BY DEF TypeOK, Pcs
  <1>2. SecretsApart'
    BY DEF TypeOK, SecretsApart
  <1>3. RowOwned'
    BY DEF TypeOK, RowOwned
  <1>4. OneSecret'
    BY DEF TypeOK, OneSecret, Alone
  <1>5. OneToken'
    BY DEF TypeOK, OneToken, Alone
  <1>. QED BY <1>1, <1>2, <1>3, <1>4, <1>5

LEMMA FindSecretInv == ASSUME Inv, NEW p \in Processes, FindSecret(p) PROVE Inv'
  <1>. USE DEF Inv, FindSecret, Goes, At, disk, row, SecretOf
  <1>1. TypeOK'
    BY DEF TypeOK, Pcs
  <1>2. SecretsApart'
    BY DEF TypeOK, SecretsApart
  <1>3. RowOwned'
    BY DEF TypeOK, RowOwned
  <1>4. OneSecret'
    BY DEF TypeOK, OneSecret, Alone
  <1>5. OneToken'
    BY DEF TypeOK, OneToken, Alone
  <1>. QED BY <1>1, <1>2, <1>3, <1>4, <1>5

LEMMA MakeSecretInv == ASSUME Inv, NEW p \in Processes, MakeSecret(p) PROVE Inv'
  <1>. USE DEF Inv, MakeSecret, MakesSecret, Makes, Goes, At, row
  <1>. PICK n \in Numbers : /\ MakesSecret(p, n)
                            /\ secretFile' = [secretFile EXCEPT ![MachineOf[p]] = n]
    OBVIOUS
  <1>1. TypeOK'
    BY DEF TypeOK, Pcs, Numbers
  <1>2. \A m \in Machines : n \notin made[m]
    BY DEF SecretsApart, TypeOK, Numbers
  <1>3. SecretsApart'
    BY <1>2 DEF TypeOK, SecretsApart, Numbers, Absent
  <1>4. RowOwned'
    BY DEF TypeOK, RowOwned
  <1>5. OneSecret'
    BY DEF TypeOK, OneSecret, SecretsApart, Alone, Numbers, Absent
  <1>6. OneToken'
    BY DEF TypeOK, OneToken, Alone
  <1>. QED BY <1>1, <1>3, <1>4, <1>5, <1>6

\* A registration with a secret of machine l changes the row, and only for l.
Renewed(l, n) ==
    /\ Makes(n)
    /\ rowSecret' \in made[l]
    /\ rowSecret # Absent => rowSecret' = rowSecret
    /\ rowToken' = n

LEMMA RegistersRenews ==
    ASSUME Inv, NEW l \in Machines, NEW s \in made[l], NEW n \in Numbers, Registers(s, n)
    PROVE  Renewed(l, n)
  BY DEF Registers, Admits, Renewed

LEMMA RegisterInv == ASSUME Inv, NEW p \in Processes, Register(p) PROVE Inv'
  <1>. DEFINE l == MachineOf[p]
  <1>. PICK n \in Numbers : Registers(secret[p], n) /\ token' = [token EXCEPT ![p] = n]
    BY DEF Register
  <1>. USE DEF Inv, Goes, At, disk
  <1>1. l \in Machines /\ secret[p] \in made[l] /\ pc[p] = "sent"
    BY DEF Register, SecretsApart
  <1>2. Renewed(l, n) /\ rowSecret' = secret[p]
    BY <1>1, RegistersRenews DEF Registers, Admits
  <1>3. TypeOK'
    <2>1. n \in 0 .. MaxFresh /\ secret[p] \in 0 .. MaxFresh
      BY DEF TypeOK, Numbers
    <2>2. /\ pc' = [pc EXCEPT ![p] = "answered"]
          /\ UNCHANGED <<secret, secretFile, tokenFile, late, made>>
          /\ fresh' = n /\ rowToken' = n /\ rowSecret' = secret[p] /\ overtaken' = FALSE
      BY <1>2 DEF Register, Renewed, Makes
    <2>. QED BY <2>1, <2>2 DEF TypeOK, Pcs
  <1>4. SecretsApart'
    BY <1>1, <1>2 DEF TypeOK, SecretsApart, Register, Renewed, Makes, Numbers
  <1>5. RowOwned'
    BY <1>1, <1>2 DEF TypeOK, RowOwned, SecretsApart, Register, Renewed, Absent
  <1>6. OneSecret'
    BY DEF TypeOK, OneSecret, Alone, Register
  <1>7. OneToken'
    BY <1>1, <1>2 DEF TypeOK, OneToken, RowOwned, SecretsApart, Alone, Register, Renewed,
       Absent
  <1>. QED BY <1>3, <1>4, <1>5, <1>6, <1>7

LEMMA PersistInv == ASSUME Inv, NEW p \in Processes, Persist(p) PROVE Inv'
  <1>. USE DEF Inv, Persist, Goes, At, row
  <1>1. TypeOK'
    BY DEF TypeOK, Pcs
  <1>2. SecretsApart'
    BY DEF TypeOK, SecretsApart
  <1>3. RowOwned'
    BY DEF TypeOK, RowOwned, SecretsApart
  <1>4. OneSecret'
    BY DEF TypeOK, OneSecret, Alone
  <1>5. OneToken'
    BY DEF TypeOK, OneToken, Alone
  <1>. QED BY <1>1, <1>2, <1>3, <1>4, <1>5

LEMMA RegisterLateInv == ASSUME Inv, NEW s \in Numbers, RegisterLate(s) PROVE Inv'
  <1>. PICK n \in Numbers : Registers(s, n)
    BY DEF RegisterLate
  <1>. PICK l \in Machines : s \in made[l]
    BY DEF RegisterLate, Inv, SecretsApart
  <1>. USE DEF Inv, process, disk, RegisterLate
  <1>1. Renewed(l, n)
    BY RegistersRenews
  <1>2. TypeOK'
    BY <1>1 DEF TypeOK, Renewed, Makes, Numbers, SecretsApart
  <1>3. SecretsApart'
    BY <1>1 DEF TypeOK, SecretsApart, Renewed, Makes, Numbers
  <1>4. RowOwned'
    BY <1>1 DEF TypeOK, RowOwned, SecretsApart, Renewed, Absent, Numbers, At
  <1>5. OneSecret'
    BY DEF TypeOK, OneSecret, Alone, At
  <1>6. OneToken'
    BY DEF TypeOK, OneToken, Alone, At
  <1>. QED BY <1>2, <1>3, <1>4, <1>5, <1>6

LEMMA NextInv == Inv /\ [Next]_vars => Inv'
  <1>. SUFFICES ASSUME Inv, [Next]_vars PROVE Inv'
    OBVIOUS
  <1>1. ASSUME NEW p \in Processes, Start(p) \/ Refuse(p) \/ Retry(p) \/ GiveUp(p) \/ Ends(p)
        PROVE  Inv'
    <2>1. Quiet(p)
      BY <1>1 DEF Quiet, Start, Refuse, Retry, GiveUp, Ends, Abandon, Goes
    <2>. QED BY <2>1, QuietInv
  <1>2. ASSUME NEW p \in Processes,
               \/ Load(p) \/ FindSecret(p) \/ MakeSecret(p) \/ Register(p) \/ Persist(p)
        PROVE  Inv'
    BY <1>2, LoadInv, FindSecretInv, MakeSecretInv, RegisterInv, PersistInv
  <1>3. ASSUME NEW s \in Numbers, RegisterLate(s) PROVE Inv'
    BY <1>3, RegisterLateInv
  <1>4. CASE UNCHANGED vars
    BY <1>4 DEF vars, process, disk, row, Inv, TypeOK, SecretsApart, RowOwned, OneSecret,
                OneToken, Alone, At
  <1>. QED BY <1>1, <1>2, <1>3, <1>4 DEF Next, Step

\* What the theorems below rest on: whose secret the row, the files and the requests hold.
THEOREM Invariance == Spec => []Inv
  BY InitInv, NextInv, PTL DEF Spec

\* A host id belongs to the machine that registered it: the machine that keeps a token,
\* or is about to, is that one, for any number of machines and processes.
THEOREM HostBelongsToOneCorrect == Spec => []HostBelongsToOne
  <1>1. Inv => HostBelongsToOne
    BY DEF Inv, HostBelongsToOne, RowOwned, SecretsApart, At
  <1>. QED BY <1>1, Invariance, PTL

\* The machine of one process that registered the host keeps the proof for the next time.
THEOREM ProofIsKeptCorrect == Spec => []ProofIsKept
  <1>1. Inv => ProofIsKept
    BY DEF Inv, ProofIsKept, OneSecret
  <1>. QED BY <1>1, Invariance, PTL

\* The token kept by a machine of one process is accepted, unless a request given up
\* before has been answered with a new one.
THEOREM KeptTokenIsAcceptedCorrect == Spec => []KeptTokenIsAccepted
  <1>1. Inv => KeptTokenIsAccepted
    BY DEF Inv, KeptTokenIsAccepted, OneToken
  <1>. QED BY <1>1, Invariance, PTL

-----------------------------------------------------------------------------
(* Finite sets of numbers.  A set that would break a claim and has no smaller one that   *)
(* does so too is what induction over finite sets comes down to.                         *)

\* Among subsets of a finite set that share a property there is a smallest one.
LEMMA SmallestSubset ==
  ASSUME NEW S, IsFiniteSet(S), NEW Bad, Bad \subseteq SUBSET S, Bad # {}
  PROVE  \E T \in Bad : \A U \in Bad : U \subseteq T => U = T
  <1>. DEFINE R == StrictSubsetOrdering(S)
  <1>1. IsWellFoundedOn(R, SUBSET S)
    BY FS_StrictSubsetOrderingWellFounded, FS_FiniteSubsetsOfFinite
  <1>2. PICK T \in Bad : \A U \in Bad : ~ (<<U, T>> \in R)
    BY <1>1, WFMin
  <1>. QED BY <1>2 DEF StrictSubsetOrdering

\* A finite set of integers that has a member has a greatest.
LEMMA FiniteHasMax ==
  ASSUME NEW S, S \subseteq Int, IsFiniteSet(S), S # {}
  PROVE  Max(S) \in S /\ \A x \in S : x <= Max(S)
  <1>1. \E m \in S : \A x \in S : m >= x
    <2>. DEFINE Bad == {T \in SUBSET S : T # {} /\ ~ \E m \in T : \A x \in T : m >= x}
    <2>. SUFFICES ASSUME Bad # {} PROVE FALSE
      OBVIOUS
    <2>1. Bad \subseteq SUBSET S
      OBVIOUS
    <2>2. \E T \in Bad : \A U \in Bad : U \subseteq T => U = T
      <3>. HIDE DEF Bad
      <3>1. IsFiniteSet(S)
        OBVIOUS
      <3>2. Bad # {}
        OBVIOUS
      <3>. QED BY ONLY <2>1, <3>1, <3>2, SmallestSubset
    <2>3. PICK T \in Bad : \A U \in Bad : U \subseteq T => U = T
      BY <2>2
    <2>4. PICK x \in T : TRUE
      OBVIOUS
    <2>5. T \subseteq Int /\ ~ \E m \in T : \A y \in T : m >= y
      OBVIOUS
    <2>6. T \ {x} # {}
      BY <2>4, <2>5
    <2>7. T \ {x} \notin Bad
      BY <2>3, <2>4
    <2>8. PICK m \in T \ {x} : \A y \in T \ {x} : m >= y
      BY <2>6, <2>7
    <2>. QED BY <2>4, <2>5, <2>8
  <1>2. PICK m \in S : \A x \in S : m >= x
    BY <1>1
  <1>3. Max(S) \in S /\ \A x \in S : Max(S) >= x
    BY <1>2 DEF Max
  <1>. QED BY <1>3

\* And so has one whose members are bounded.
LEMMA BoundedHasMax ==
  ASSUME NEW low \in Int, NEW high \in Int, NEW S, S \subseteq low .. high, S # {}
  PROVE  Max(S) \in S
  <1>1. IsFiniteSet(low .. high)
    BY FS_Interval
  <1>2. S \in SUBSET (low .. high)
    OBVIOUS
  <1>3. IsFiniteSet(S)
    BY ONLY <1>1, <1>2, FS_Subset, Zenon
  <1>4. S \subseteq Int
    OBVIOUS
  <1>. QED BY <1>3, <1>4, FiniteHasMax

\* The greater and the smaller of two integers.
LEMMA MaxOfTwo ==
  ASSUME NEW a \in Int, NEW b \in Int
  PROVE  /\ Max({a, b}) = IF a >= b THEN a ELSE b
         /\ Min({a, b}) = IF a <= b THEN a ELSE b
  <1>1. Max({a, b}) \in {a, b} /\ \A x \in {a, b} : Max({a, b}) >= x
    <2>1. \E m \in {a, b} : \A x \in {a, b} : m >= x
      OBVIOUS
    <2>. QED BY <2>1 DEF Max
  <1>2. Min({a, b}) \in {a, b} /\ \A x \in {a, b} : Min({a, b}) <= x
    <2>1. \E m \in {a, b} : \A x \in {a, b} : m <= x
      OBVIOUS
    <2>. QED BY <2>1 DEF Min
  <1>. QED BY <1>1, <1>2

Picked(T) == CHOOSE x \in T : TRUE
Rest(T) == T \ {Picked(T)}
\* How SumFunctionOnSet goes through a set.
AddsUp(f, h, T) ==
    h = [U \in SUBSET T |-> IF U = {} THEN 0 ELSE f[Picked(U)] + h[Rest(U)]]

\* Two functions that go through the same set so have the same sum.
LEMMA SumsAgree ==
  ASSUME NEW f, NEW S, IsFiniteSet(S), NEW g, NEW h, NEW A \in SUBSET S, NEW B \in SUBSET S,
         AddsUp(f, g, A), AddsUp(f, h, B), NEW T \in SUBSET A, T \in SUBSET B
  PROVE  g[T] = h[T]
  <1>. DEFINE Bad == {U \in SUBSET T : g[U] # h[U]}
  <1>. SUFFICES ASSUME Bad # {} PROVE FALSE
    OBVIOUS
  <1>1. IsFiniteSet(T)
    BY FS_Subset
  <1>2. PICK U \in Bad : \A V \in Bad : V \subseteq U => V = U
    <2>1. Bad \subseteq SUBSET T
      OBVIOUS
    <2>. HIDE DEF Bad
    <2>. QED BY <1>1, <2>1, SmallestSubset
  <1>3. U \in SUBSET A /\ U \in SUBSET B /\ g[U] # h[U]
    OBVIOUS
  <1>4. U # {}
    BY <1>3 DEF AddsUp
  <1>5. Picked(U) \in U
    BY <1>4 DEF Picked
  <1>6. Rest(U) \subseteq U /\ Rest(U) # U /\ Rest(U) \in SUBSET T
    BY <1>5 DEF Rest
  <1>7. g[Rest(U)] = h[Rest(U)]
    BY <1>2, <1>6
  <1>8. g[U] = f[Picked(U)] + g[Rest(U)]
    BY <1>3, <1>4 DEF AddsUp
  <1>9. h[U] = f[Picked(U)] + h[Rest(U)]
    BY <1>3, <1>4 DEF AddsUp
  <1>. QED BY <1>3, <1>7, <1>8, <1>9

\* There is one for every finite set.
LEMMA SumsExist ==
  ASSUME NEW f, NEW S, IsFiniteSet(S)
  PROVE  \E h : AddsUp(f, h, S)
  <1>. DEFINE Bad == {U \in SUBSET S : ~ \E h : AddsUp(f, h, U)}
  <1>. SUFFICES ASSUME Bad # {} PROVE FALSE
    OBVIOUS
  <1>2. PICK T \in Bad : \A V \in Bad : V \subseteq T => V = T
    <2>1. Bad \subseteq SUBSET S
      OBVIOUS
    <2>. HIDE DEF Bad
    <2>. QED BY <2>1, SmallestSubset
  <1>. DEFINE Of(U) == CHOOSE h : AddsUp(f, h, U)
              h == [U \in SUBSET T |-> IF U = T THEN (IF T = {} THEN 0 ELSE f[Picked(T)] + Of(Rest(T))[Rest(T)])
                                       ELSE Of(U)[U]]
  <1>3. \A U \in SUBSET T : U # T => AddsUp(f, Of(U), U)
    BY <1>2
  <1>4. \A U : U # {} => Picked(U) \in U /\ Rest(U) \in SUBSET U /\ Rest(U) # U
    BY DEF Picked, Rest
  <1>5. ASSUME NEW U \in SUBSET T PROVE h[U] = IF U = {} THEN 0 ELSE f[Picked(U)] + h[Rest(U)]
    <2>1. CASE U = T
      <3>. HIDE DEF Of
      <3>1. U # {} => Rest(U) \in SUBSET T /\ Rest(U) # T
        BY <2>1, <1>4
      <3>2. U # {} => h[Rest(U)] = Of(Rest(U))[Rest(U)]
        BY <3>1
      <3>. QED BY <2>1, <3>2
    <2>2. CASE U # T /\ U = {}
      <3>. HIDE DEF Of
      <3>1. AddsUp(f, Of(U), U) /\ h[U] = Of(U)[U]
        BY <2>2, <1>3
      <3>2. Of(U)[U] = 0
        BY <3>1, <2>2 DEF AddsUp
      <3>. QED BY <2>2, <3>1, <3>2
    <2>3. CASE U # T /\ U # {}
      <3>1. AddsUp(f, Of(U), U) /\ Rest(U) \in SUBSET U /\ Rest(U) # U /\ Rest(U) \in SUBSET T /\ Rest(U) # T
        BY <2>3, <1>3, <1>4
      <3>2. AddsUp(f, Of(Rest(U)), Rest(U))
        BY <3>1, <1>3
      <3>3. Of(U)[Rest(U)] = Of(Rest(U))[Rest(U)]
        <4>1. U \in SUBSET S /\ Rest(U) \in SUBSET S
          BY <3>1, <1>2
        <4>2. PICK g, h1, V : g = Of(U) /\ h1 = Of(Rest(U)) /\ V = Rest(U)
          OBVIOUS
        <4>. HIDE DEF Of
        <4>3. AddsUp(f, g, U) /\ AddsUp(f, h1, V) /\ V \in SUBSET U /\ V \in SUBSET S
          BY <3>1, <3>2, <4>1, <4>2
        <4>4. IsFiniteSet(S) /\ U \in SUBSET S /\ V \in SUBSET V
          BY <4>1
        <4>5. g[V] = h1[V]
          BY ONLY <4>3, <4>4, SumsAgree
        <4>. QED BY <4>2, <4>5
      <3>4. Of(U)[U] = f[Picked(U)] + Of(U)[Rest(U)]
        <4>. HIDE DEF Of
        <4>. QED BY <3>1, <2>3 DEF AddsUp
      <3>5. h[U] = Of(U)[U] /\ h[Rest(U)] = Of(Rest(U))[Rest(U)]
        <4>. HIDE DEF Of
        <4>. QED BY <3>1, <2>3
      <3>. QED BY <2>3, <3>3, <3>4, <3>5
    <2>. QED BY <2>1, <2>2, <2>3
  <1>6. AddsUp(f, h, T)
    <2>. HIDE DEF h
    <2>1. DOMAIN h = SUBSET T /\ h = [U \in SUBSET T |-> h[U]]
      BY DEF h
    <2>. QED BY <2>1, <1>5 DEF AddsUp
  <1>. QED BY <1>2, <1>6

\* The sum of the community modules is one.
LEMMA SumAddsUp ==
  ASSUME NEW f, NEW S, IsFiniteSet(S)
  PROVE  \E h : AddsUp(f, h, S) /\ SumFunctionOnSet(f, S) = h[S]
  <1>1. SumFunctionOnSet(f, S) = (CHOOSE h : AddsUp(f, h, S))[S]
    BY DEF SumFunctionOnSet, FoldFunctionOnSet, MapThenFoldSet, AddsUp, Picked, Rest
  <1>. QED BY <1>1, SumsExist

\* Sums of naturals are naturals, and go by their summands.
LEMMA SumIsMonotone ==
  ASSUME NEW f, NEW g, NEW S, IsFiniteSet(S), \A x \in S : f[x] \in Nat /\ g[x] \in Nat /\ f[x] <= g[x]
  PROVE  /\ SumFunctionOnSet(f, S) \in Nat /\ SumFunctionOnSet(g, S) \in Nat
         /\ SumFunctionOnSet(f, S) <= SumFunctionOnSet(g, S)
  <1>1. PICK h : AddsUp(f, h, S) /\ SumFunctionOnSet(f, S) = h[S]
    BY SumAddsUp
  <1>2. PICK k : AddsUp(g, k, S) /\ SumFunctionOnSet(g, S) = k[S]
    BY SumAddsUp
  <1>. DEFINE Bad == {U \in SUBSET S : ~(h[U] \in Nat /\ k[U] \in Nat /\ h[U] <= k[U])}
  <1>. SUFFICES ASSUME Bad # {} PROVE FALSE
    BY <1>1, <1>2
  <1>3. PICK T \in Bad : \A V \in Bad : V \subseteq T => V = T
    <2>1. Bad \subseteq SUBSET S
      OBVIOUS
    <2>. HIDE DEF Bad
    <2>. QED BY <2>1, SmallestSubset
  <1>4. T # {}
    BY <1>1, <1>2 DEF AddsUp
  <1>5. Picked(T) \in T /\ Rest(T) \in SUBSET T /\ Rest(T) # T
    BY <1>4 DEF Picked, Rest
  <1>6. h[Rest(T)] \in Nat /\ k[Rest(T)] \in Nat /\ h[Rest(T)] <= k[Rest(T)]
    BY <1>3, <1>5
  <1>7. h[T] = f[Picked(T)] + h[Rest(T)]
    BY <1>1, <1>4 DEF AddsUp
  <1>8. k[T] = g[Picked(T)] + k[Rest(T)]
    BY <1>2, <1>4 DEF AddsUp
  <1>. QED BY <1>3, <1>5, <1>6, <1>7, <1>8

\* A part in a hundred.
LEMMA PercentLow == ASSUME NEW u \in Nat, NEW t \in Nat, u <= t, t > 0 PROVE (u * 100) \div t \in 0 .. 100
  OBVIOUS

-----------------------------------------------------------------------------
(* The reports of a machine in time (HostTelemetry).  The invariant says when the timer  *)
(* of each phase ends, counted from the last sample; what a report that is under way has *)
(* to do with the clock and the counters since it was made; and that the reports that    *)
(* wait are in the order of their times, behind the points that were sent last.          *)
\* The shortest and the longest time between two rounds.
Quickest == Min(Spread(Interval))
Slowest == Max(Spread(Interval))

\* The reports that Sample makes.
FiniteInts == {s \in SUBSET Int : IsFiniteSet(s)}
Report ==
    [id : Nat \ {0}, collected : Int, interval : Nat, uptime : Nat, total : Nat, rate : Nat,
     memory : {r.memory : r \in Readings}, disks : {r.disks : r \in Readings},
     gpus : {r.gpus : r \in Readings}, sensors : FiniteInts, made : Nat, busy : Nat]

TelemetryTypes ==
    /\ now \in Nat /\ ahead \in Clocks /\ back \in BOOLEAN
    /\ boot \in 0 .. now /\ total \in Nat
    /\ phase \in {"down", "warmup", "sleep", "send", "flush", "replay"} /\ since \in Nat
    /\ answer \in {"none", "accepted", "refused"}
    /\ sampled \in 0 .. now /\ sensors \in FiniteInts
    /\ hand \in Report \cup {NoReport} /\ next \in Nat \ {0}
    /\ spool \subseteq Report /\ copies \in Seq(Report)
    /\ host.seen \in 0 .. now /\ host.latest \in Report \cup {NoReport}
    /\ stored \subseteq Nat
    /\ busy \in Nat /\ streak \in 0 .. 2

\* What each phase has in hand and in the spool.
PhaseIsRight ==
    /\ phase # "down" => Configured
    /\ Sending <=> hand # NoReport
    /\ answer # "none" => Sending
    /\ streak > 0 => phase \in {"sleep", "send"}
    /\ phase = "send" => spool = {}
    /\ phase = "replay" => hand \in spool /\ IsOldest(hand)

\* When a phase ends, counted from the last sample, and how long it has lasted.
TimersAreRight ==
    /\ phase = "warmup" => since = sampled + Warmup /\ now <= since + busy
    /\ phase = "sleep" =>
          now <= since /\ sampled + Shortest <= since /\ since <= sampled + Warmup + busy + Slowest
    /\ phase \in {"send", "flush", "replay"} => now <= sampled + busy
    /\ Sending => since <= now /\ now <= since + Timeout

\* A report was made no later than the last sample, from an interval that the agent
\* accounts for; if the clock was never set back, its time is not ahead of the clock by
\* more than now; its counter is at most the machine's unless that has started since.
IsRight(r) ==
    /\ Configured
    /\ r.made <= now /\ (phase # "down" => r.made <= sampled)
    /\ r.id < next
    /\ Shortest <= r.interval /\ r.interval <= Warmup + r.busy + Slowest
    /\ ~back => r.collected <= r.made + ahead
    /\ r.total <= total \/ r.made <= boot
Pending == spool \cup ({hand} \ {NoReport})
Known == Pending \cup ({host.latest} \ {NoReport}) \cup Range(copies)
ReportsAreRight == \A r \in Known : IsRight(r)

\* Points of x may be sent before those of y.
Before(x, y) ==
    /\ x.collected <= y.collected
    /\ y.total < x.total => y.collected - y.uptime >= x.collected
SpoolIsInOrder ==
    \A x, y \in spool :
        \/ x = y
        \/ x.collected < y.collected /\ Before(x, y)
        \/ y.collected < x.collected /\ Before(y, x)
CopiesAreInOrder ==
    /\ \A x \in Range(copies), y \in Pending : Before(x, y)
    /\ \A i, j \in DOMAIN copies : i < j => Before(copies[i], copies[j])
LastIsBehind(x) ==
    /\ copied = Points(x) /\ IsRight(x)
    /\ ~back => \A y \in Pending \cup Range(copies) : Before(x, y)
OrderIsRight ==
    /\ ~back => SpoolIsInOrder /\ CopiesAreInOrder
    /\ copied = {} \/ \E x \in Report : LastIsBehind(x)

\* What the server has made of the report under way and of those before.
JudgedRight ==
    /\ \A n \in stored : n < next
    /\ phase = "send" /\ answer = "none" =>
          /\ hand.id \notin stored
          /\ ~back /\ host.latest # NoReport => host.latest.collected <= hand.collected
    /\ phase = "send" /\ answer = "accepted" /\ ~back => host.latest = hand
    /\ Sending /\ answer = "accepted" => since <= host.seen
    /\ host.latest # NoReport => Consistent(host.latest)
    /\ RefusedHasCause
\* Reports that arrive in a row keep the silence and the interval of the newest in bounds.
StreakIsRight ==
    /\ streak > 0 => since <= host.seen + Timeout + Slowest
    /\ streak > 0 /\ phase = "sleep" => sampled + Quickest <= since
    /\ streak > 0 /\ phase = "send" => Quickest <= hand.interval
    /\ streak = 2 /\ ~back => host.latest # NoReport /\ Quickest <= host.latest.interval

\* What the timer draws is between the shortest and the longest time.
LEMMA SpreadIsAnInterval ==
  ASSUME Configured
  PROVE  /\ Quickest \in Nat /\ Slowest \in Nat
         /\ \A d \in Spread(Interval) : d \in Nat /\ Shortest <= d /\ Quickest <= d /\ d <= Slowest
  <1>. DEFINE low == (Interval * (100 - Jitter)) \div 100
              high == (Interval * (100 + Jitter)) \div 100
  <1>1. low \in Nat /\ high \in Nat /\ low <= high
    <2>1. /\ Interval \in Nat /\ Jitter \in 0 .. 50
      BY TelemetryAssumption DEF Configured
    <2>2. Interval * (100 - Jitter) \in Nat /\ Interval * (100 + Jitter) \in Nat
      BY <2>1
    <2>3. Interval * (100 - Jitter) <= Interval * (100 + Jitter)
      BY <2>1
    <2>4. \A m, n \in Nat : m <= n => m \div 100 \in Nat /\ n \div 100 \in Nat /\ m \div 100 <= n \div 100
      OBVIOUS
    <2>. HIDE DEF low, high
    <2>. QED BY <2>2, <2>3, <2>4 DEF low, high
  <1>. HIDE DEF low, high
  <1>2. Spread(Interval) = low .. high
    BY DEF Spread, low, high
  <1>3. Slowest = high
    <2>1. high \in low .. high /\ \A d \in low .. high : high >= d
      BY <1>1
    <2>2. \A m \in low .. high : (\A d \in low .. high : m >= d) => m = high
      BY <1>1
    <2>. QED BY <1>2, <2>1, <2>2 DEF Slowest, Max
  <1>4. Quickest = low
    <2>1. low \in low .. high /\ \A d \in low .. high : low <= d
      BY <1>1
    <2>2. \A m \in low .. high : (\A d \in low .. high : m <= d) => m = low
      BY <1>1
    <2>. QED BY <1>2, <2>1, <2>2 DEF Quickest, Min
  <1>. QED BY <1>1, <1>2, <1>3, <1>4, TelemetryAssumption

LEMMA NoReportIsNone == NoReport \notin Report
  BY DEF NoReport, Report

\* A sample of any reading is a report.
LEMMA SampleIsReport ==
  ASSUME TelemetryTypes, NEW reading \in Readings, NEW bytes \in Traffic, NEW wall \in Clocks
  PROVE  Sample(reading, bytes, wall) \in Report
  <1>1. /\ bytes \in Nat /\ wall \in Int /\ IsReading(reading)
    BY TelemetryAssumption
  <1>2. /\ now \in Nat /\ sampled \in 0 .. now /\ boot \in 0 .. now /\ total \in Nat /\ busy \in Nat
        /\ next \in Nat \ {0} /\ sensors \in FiniteInts
    BY DEF TelemetryTypes
  <1>3. now - sampled \in Nat /\ now - boot \in Nat /\ total + bytes \in Nat /\ now + wall \in Int
    BY <1>1, <1>2
  <1>4. PerSecond(bytes, now - sampled) \in Nat
    <2>. DEFINE m == Max({1, now - sampled})
    <2>1. m \in Nat \ {0}
      BY <1>3, MaxOfTwo
    <2>2. \A u \in Nat, v \in Nat \ {0} : (2 * u + v) \div (2 * v) \in Nat
      OBVIOUS
    <2>. HIDE DEF m
    <2>. QED BY <1>1, <2>1, <2>2 DEF PerSecond, m
  <1>5. (IF slow = Never \/ now - slow >= SlowInterval THEN reading.sensors ELSE sensors) \in FiniteInts
    BY <1>1, <1>2 DEF IsReading, FiniteInts
  <1>. HIDE DEF PerSecond
  <1>. QED BY <1>2, <1>3, <1>4, <1>5 DEF Sample, Report

\* What a round does with its report.
Sent(r) ==
    /\ phase' = "send" /\ since' = now /\ hand' = r
    /\ spool = {} /\ UNCHANGED <<spool, streak>>
Kept(r) ==
    /\ spool' = spool \cup {r} /\ streak' = 0 /\ UNCHANGED hand
    /\ \/ phase' = "flush" /\ since' = now
       \/ phase' = "sleep" /\ \E d \in Spread(Interval) : since' = now + d
Collects(r, wall) ==
    /\ phase = "sleep" /\ now >= since
    /\ wall \in Clocks
    /\ ahead' = wall /\ back' = (back \/ wall < ahead)
    /\ next' = next + 1 /\ r.id = next
    /\ r.collected = now + wall /\ r.interval = now - sampled /\ r.uptime = now - boot
    /\ total' = r.total /\ r.total >= total
    /\ r.made = now /\ r.busy = busy
    /\ sampled' = now /\ busy' = 0 /\ sensors' = r.sensors
    /\ Sent(r) \/ Kept(r)
    /\ UNCHANGED <<now, boot, answer, export, records>>

\* A round is that for some report.
LEMMA SomethingIsCollected ==
  ASSUME TelemetryTypes, NEW reading \in Readings, NEW bytes \in Traffic, NEW wall \in Clocks,
         Collect(reading, bytes, wall)
  PROVE  \E r \in Report : Collects(r, wall)
  <1>. DEFINE r == Sample(reading, bytes, wall)
  <1>1. r \in Report
    BY SampleIsReport
  <1>2. /\ r.id = next /\ r.collected = now + wall /\ r.interval = now - sampled /\ r.uptime = now - boot
        /\ r.total = total + bytes /\ r.made = now /\ r.busy = busy
    BY DEF Sample
  <1>3. total + bytes >= total
    BY TelemetryAssumption DEF TelemetryTypes
  <1>. HIDE DEF r
  <1>4. /\ phase = "sleep" /\ now >= since /\ ahead' = wall /\ back' = (back \/ wall < ahead)
        /\ next' = next + 1 /\ total' = total + bytes
        /\ sampled' = now /\ busy' = 0 /\ sensors' = r.sensors
        /\ UNCHANGED <<now, boot, answer, export, records>>
    BY DEF Collect, r
  <1>5. Sent(r) \/ Kept(r)
    BY DEF Collect, r, Sent, Kept
  <1>. QED BY <1>1, <1>2, <1>3, <1>4, <1>5 DEF Collects

LEMMA TypesHold ==
  ASSUME TelemetryTypes, PhaseIsRight, TelemetryNext
  PROVE  TelemetryTypes'
  <1>. USE DEF clock, machine, sampler, backlog, export, records
  <1>1. CASE StartService
    <2>1. {} \in FiniteInts
      BY FS_EmptySet DEF FiniteInts
    <2>2. now + Warmup \in Nat /\ now \in 0 .. now
      BY TelemetryAssumption DEF TelemetryTypes
    <2>. QED BY <1>1, <2>1, <2>2 DEF StartService, TelemetryTypes
  <1>2. CASE Enrolled
    BY <1>2 DEF Enrolled, TelemetryTypes
  <1>3. CASE Replay
    BY <1>3 DEF Replay, TelemetryTypes
  <1>4. CASE Flushed
    <2>1. \A d \in Spread(Interval) : now + d \in Nat
      BY <1>4, SpreadIsAnInterval DEF Flushed, PhaseIsRight, TelemetryTypes
    <2>. QED BY <1>4, <2>1 DEF Flushed, Succeeds, Sleeps, TelemetryTypes
  <1>5. CASE Serve
    <2>1. answer' \in {"none", "accepted", "refused"}
      BY <1>5 DEF Serve
    <2>2. hand \in Report
      BY <1>5 DEF Serve, TelemetryTypes, PhaseIsRight
    <2>3. hand.id \in Nat
      BY <2>2 DEF Report
    <2>4. /\ host'.seen \in 0 .. now /\ host'.latest \in Report \cup {NoReport}
          /\ stored' \subseteq Nat
      <3>1. CASE Store(hand)
        <4>1. host'.latest \in {hand, host.latest} /\ host'.seen = now /\ stored' = stored \cup {hand.id}
          BY <3>1 DEF Store
        <4>2. now \in 0 .. now /\ host.latest \in Report \cup {NoReport} /\ stored \subseteq Nat
          BY DEF TelemetryTypes
        <4>. QED BY <4>1, <4>2, <2>2, <2>3
      <3>2. CASE UNCHANGED records
        BY <3>2 DEF TelemetryTypes, records
      <3>. QED BY <1>5, <3>1, <3>2 DEF Serve
    <2>. QED BY <1>5, <2>1, <2>4 DEF Serve, TelemetryTypes
  <1>6. CASE Delivered
    <2>1. hand \in Report /\ Configured
      BY <1>6 DEF Delivered, TelemetryTypes, PhaseIsRight, Sending
    <2>2. \A d \in Spread(Interval) : now + d \in Nat
      BY <2>1, SpreadIsAnInterval DEF TelemetryTypes
    <2>3. since' \in Nat /\ phase' \in {"sleep", "flush"}
      BY <1>6, <2>2 DEF Delivered, Succeeds, Sleeps, TelemetryTypes
    <2>4. copies' \in Seq(Report)
      BY <1>6, <2>1 DEF Delivered, TryExport, TelemetryTypes
    <2>5. streak' \in 0 .. 2
      <3>1. Min({2, streak + 1}) \in 0 .. 2
        <4>1. streak \in 0 .. 2
          BY DEF TelemetryTypes
        <4>2. PICK n \in Int : n = streak + 1
          BY <4>1
        <4>3. Min({2, n}) = IF 2 <= n THEN 2 ELSE n
          BY ONLY MaxOfTwo
        <4>. QED BY <4>1, <4>2, <4>3
      <3>. QED BY <1>6, <3>1 DEF Delivered, TelemetryTypes
    <2>6. spool' \subseteq Report
      BY <1>6 DEF Delivered, TelemetryTypes
    <2>. QED BY <1>6, <2>3, <2>4, <2>5, <2>6 DEF Delivered, TelemetryTypes
  <1>7. CASE SendFails
    <2>1. hand \in Report /\ Configured
      BY <1>7 DEF SendFails, TelemetryTypes, PhaseIsRight, Sending
    <2>2. \A d \in Spread(Interval) : now + d \in Nat
      BY <2>1, SpreadIsAnInterval DEF TelemetryTypes
    <2>. QED BY <1>7, <2>1, <2>2 DEF SendFails, Sleeps, TelemetryTypes
  <1>8. CASE Export
    BY <1>8 DEF Export, TelemetryTypes
  <1>9. CASE EndService
    BY <1>9, FS_EmptySet DEF EndService, TelemetryTypes, FiniteInts
  <1>10. CASE Tick
    BY <1>10 DEF Tick, TelemetryTypes
  <1>11. ASSUME NEW reading \in Readings, NEW bytes \in Traffic, NEW wall \in Clocks,
                Collect(reading, bytes, wall)
         PROVE  TelemetryTypes'
    <2>1. PICK r \in Report : Collects(r, wall)
      BY <1>11, SomethingIsCollected
    <2>2. next + 1 \in Nat \ {0} /\ r.sensors \in FiniteInts /\ r.total \in Nat
      BY DEF TelemetryTypes, Report
    <2>3. \A d \in Spread(Interval) : now + d \in Nat
      BY <1>11, SpreadIsAnInterval DEF Collect, PhaseIsRight, TelemetryTypes
    <2>4. back' \in BOOLEAN
      BY <2>1 DEF Collects, TelemetryTypes
    <2>5. \/ since' = now /\ hand' = r /\ UNCHANGED <<spool, streak>>
          \/ /\ spool' = spool \cup {r} /\ streak' = 0 /\ UNCHANGED hand
             /\ since' = now \/ \E d \in Spread(Interval) : since' = now + d
      BY <2>1 DEF Collects, Sent, Kept
    <2>6. since' \in Nat /\ spool' \subseteq Report /\ hand' \in Report \cup {NoReport}
      BY <2>3, <2>5 DEF TelemetryTypes
    <2>7. streak' \in 0 .. 2
      BY <2>5 DEF TelemetryTypes
    <2>. QED BY <2>1, <2>2, <2>4, <2>5, <2>6, <2>7 DEF Collects, Sent, Kept, TelemetryTypes
  <1>. QED BY <1>1, <1>2, <1>3, <1>4, <1>5, <1>6, <1>7, <1>8, <1>9, <1>10, <1>11 DEF TelemetryNext

LEMMA PhaseHolds ==
  ASSUME TelemetryTypes, PhaseIsRight, TelemetryNext
  PROVE  PhaseIsRight'
  <1>. USE DEF clock, machine, sampler, backlog, export, records, PhaseIsRight, Sending
  <1>1. CASE StartService
    BY <1>1 DEF StartService
  <1>2. CASE Enrolled
    BY <1>2 DEF Enrolled
  <1>3. CASE Replay
    BY <1>3, NoReportIsNone DEF Replay, IsOldest, TelemetryTypes
  <1>4. CASE Flushed
    BY <1>4 DEF Flushed, Succeeds, Sleeps
  <1>5. CASE Serve
    BY <1>5 DEF Serve, Store, IsOldest
  <1>6. CASE Delivered
    BY <1>6 DEF Delivered, Succeeds, Sleeps, TelemetryTypes
  <1>7. CASE SendFails
    BY <1>7 DEF SendFails, Sleeps
  <1>8. CASE Export
    BY <1>8 DEF Export, IsOldest
  <1>9. CASE EndService
    BY <1>9 DEF EndService
  <1>10. CASE Tick
    BY <1>10 DEF Tick, IsOldest
  <1>11. ASSUME NEW reading \in Readings, NEW bytes \in Traffic, NEW wall \in Clocks,
                Collect(reading, bytes, wall)
         PROVE  PhaseIsRight'
    <2>1. PICK r \in Report : Collects(r, wall)
      BY <1>11, SomethingIsCollected
    <2>. QED BY <2>1, NoReportIsNone DEF Collects, Sent, Kept
  <1>. QED BY <1>1, <1>2, <1>3, <1>4, <1>5, <1>6, <1>7, <1>8, <1>9, <1>10, <1>11 DEF TelemetryNext

LEMMA TimersHold ==
  ASSUME TelemetryTypes, PhaseIsRight, TimersAreRight, TelemetryNext
  PROVE  TimersAreRight'
  <1>. USE DEF clock, machine, sampler, backlog, export, records, TimersAreRight, Sending
  <1>0. /\ {now, since, sampled, busy, Warmup, Shortest, Timeout} \subseteq Nat
        /\ sampled <= now /\ Shortest <= Warmup
        /\ phase # "down" => Configured
    BY TelemetryAssumption DEF TelemetryTypes, PhaseIsRight
  <1>a. /\ phase # "down" => Slowest \in Nat /\ Quickest \in Nat
        /\ \A d \in Spread(Interval) : phase # "down" => d \in Nat /\ Shortest <= d /\ d <= Slowest
    BY <1>0, SpreadIsAnInterval
  <1>1. CASE StartService
    BY <1>0, <1>1 DEF StartService
  <1>2. CASE Enrolled
    BY <1>0, <1>a, <1>2 DEF Enrolled
  <1>3. CASE Replay
    BY <1>0, <1>3 DEF Replay
  <1>4. CASE Flushed
    BY <1>0, <1>a, <1>4 DEF Flushed, Succeeds, Sleeps
  <1>5. CASE Serve
    BY <1>5 DEF Serve
  <1>6. CASE Delivered
    BY <1>0, <1>a, <1>6 DEF Delivered, Succeeds, Sleeps
  <1>7. CASE SendFails
    BY <1>0, <1>a, <1>7 DEF SendFails, Sleeps
  <1>8. CASE Export
    BY <1>8 DEF Export
  <1>9. CASE EndService
    BY <1>9 DEF EndService
  <1>10. CASE Tick
    BY <1>0, <1>a, <1>10 DEF Tick
  <1>11. ASSUME NEW reading \in Readings, NEW bytes \in Traffic, NEW wall \in Clocks,
                Collect(reading, bytes, wall)
         PROVE  TimersAreRight'
    <2>1. PICK r \in Report : Collects(r, wall)
      BY <1>11, SomethingIsCollected
    <2>2. phase = "sleep" /\ now' = now /\ sampled' = now /\ busy' = 0
      BY <2>1 DEF Collects
    <2>3. CASE phase' \in {"send", "flush"} /\ since' = now
      BY <1>0, <2>2, <2>3
    <2>4. CASE phase' = "sleep" /\ \E d \in Spread(Interval) : since' = now + d
      BY <1>0, <1>a, <2>2, <2>4
    <2>. QED BY <2>1, <2>3, <2>4 DEF Collects, Sent, Kept
  <1>. QED BY <1>1, <1>2, <1>3, <1>4, <1>5, <1>6, <1>7, <1>8, <1>9, <1>10, <1>11 DEF TelemetryNext

\* No step makes a report wrong that was right,
LEMMA RightStays ==
  ASSUME TelemetryTypes, PhaseIsRight, TimersAreRight, TelemetryNext, NEW r \in Report, IsRight(r)
  PROVE  IsRight(r)'
  <1>. USE DEF clock, machine, sampler, backlog, export, records, IsRight
  <1>0. /\ {now, sampled, total, r.made, r.total} \subseteq Nat /\ {next, r.id, r.collected} \subseteq Int
        /\ sampled <= now /\ boot <= now /\ boot \in Nat /\ ahead \in Int
    BY TelemetryAssumption DEF TelemetryTypes, Report
  <1>1. CASE StartService
    BY <1>0, <1>1 DEF StartService
  <1>2. CASE Enrolled
    BY <1>0, <1>2 DEF Enrolled
  <1>3. CASE Replay
    BY <1>3 DEF Replay
  <1>4. CASE Flushed
    BY <1>4 DEF Flushed, Succeeds, Sleeps
  <1>5. CASE Serve
    BY <1>5 DEF Serve, Store
  <1>6. CASE Delivered
    BY <1>6 DEF Delivered, Succeeds, Sleeps, Sending
  <1>7. CASE SendFails
    BY <1>7 DEF SendFails, Sleeps, Sending
  <1>8. CASE Export
    BY <1>8 DEF Export
  <1>9. CASE EndService
    BY <1>0, <1>9 DEF EndService
  <1>10. CASE Tick
    BY <1>0, <1>10 DEF Tick
  <1>11. ASSUME NEW reading \in Readings, NEW bytes \in Traffic, NEW wall \in Clocks,
                Collect(reading, bytes, wall)
         PROVE  IsRight(r)'
    <2>1. PICK new \in Report : Collects(new, wall)
      BY <1>11, SomethingIsCollected
    <2>2. /\ phase # "down" /\ now' = now /\ sampled' = now /\ next' = next + 1 /\ boot' = boot
          /\ ahead' = wall /\ total' >= total /\ total' \in Nat /\ wall \in Int
      BY <2>1, TelemetryAssumption DEF Collects, Report
    <2>3. ~back' => ~back /\ ~(wall < ahead)
      BY <2>1 DEF Collects
    <2>4. ~back' => r.collected <= r.made + ahead'
      BY <1>0, <2>2, <2>3
    <2>5. r.total <= total' \/ r.made <= boot'
      BY <1>0, <2>2
    <2>. QED BY <1>0, <2>2, <2>4, <2>5
  <1>. QED BY <1>1, <1>2, <1>3, <1>4, <1>5, <1>6, <1>7, <1>8, <1>9, <1>10, <1>11 DEF TelemetryNext

\* ... the report of a round is right,
LEMMA FreshIsRight ==
  ASSUME TelemetryTypes, PhaseIsRight, TimersAreRight, NEW r \in Report, NEW wall, Collects(r, wall)
  PROVE  IsRight(r)'
  <1>1. /\ {now, since, sampled, busy, next, r.total, Warmup, Shortest, Slowest} \subseteq Nat
        /\ sampled <= now /\ Configured
    BY TelemetryAssumption, SpreadIsAnInterval DEF TelemetryTypes, PhaseIsRight, Collects,
       Report
  <1>2. /\ now' = now /\ sampled' = now /\ next' = next + 1 /\ ahead' = wall /\ wall \in Int /\ total' = r.total
        /\ now >= since /\ now <= since
        /\ sampled + Shortest <= since /\ since <= sampled + Warmup + busy + Slowest
    BY TelemetryAssumption DEF Collects, TimersAreRight
  <1>3. r.made = now /\ r.id = next /\ r.collected = now + wall /\ r.interval = now - sampled /\ r.busy = busy
    BY DEF Collects
  <1>. QED BY <1>1, <1>2, <1>3 DEF IsRight

\* ... and comes after all the others.
LEMMA FreshIsLast ==
  ASSUME TelemetryTypes, PhaseIsRight, TimersAreRight, NEW r \in Report, NEW wall, Collects(r, wall), ~back',
         NEW x \in Report, IsRight(x)
  PROVE  x.collected < r.collected /\ Before(x, r)
  <1>1. /\ {now, since, sampled, total, boot, x.made, x.total, r.total} \subseteq Nat
        /\ {x.collected, ahead, wall} \subseteq Int
        /\ Shortest \in Nat \ {0}
    BY TelemetryAssumption DEF TelemetryTypes, Collects, Report
  <1>2. /\ ~back /\ wall >= ahead /\ total <= r.total
        /\ now >= since /\ sampled + Shortest <= since
        /\ x.made <= sampled /\ x.collected <= x.made + ahead
        /\ x.total <= total \/ x.made <= boot
    <2>1. ~back /\ ~(wall < ahead)
      BY DEF Collects
    <2>2. phase = "sleep" /\ now >= since /\ r.total >= total
      BY DEF Collects
    <2>. QED BY <1>1, <2>1, <2>2 DEF TimersAreRight, IsRight
  <1>3. r.collected = now + wall /\ r.uptime = now - boot
    BY DEF Collects
  <1>4. x.collected < now + wall
    <2>1. x.made < now
      BY <1>1, <1>2
    <2>2. x.collected <= x.made + wall
      BY <1>1, <1>2
    <2>. QED BY <1>1, <2>1, <2>2
  <1>5. ASSUME r.total < x.total PROVE r.collected - r.uptime >= x.collected
    <2>1. x.made <= boot
      BY <1>1, <1>2, <1>5
    <2>2. r.collected - r.uptime = boot + wall
      BY <1>1, <1>3
    <2>. QED BY <1>1, <1>2, <2>1, <2>2
  <1>. QED BY <1>1, <1>3, <1>4, <1>5 DEF Before

\* What waits grows by the report of a round only.
LEMMA PendingGrows ==
  ASSUME TelemetryTypes, PhaseIsRight, TelemetryNext
  PROVE  \/ Pending' \subseteq Pending
         \/ \E r \in Report, wall \in Clocks : Collects(r, wall) /\ Pending' \subseteq Pending \cup {r}
  <1>. USE DEF clock, machine, sampler, backlog, export, records, Pending
  <1>1. CASE StartService
    BY <1>1 DEF StartService
  <1>2. CASE Enrolled
    BY <1>2 DEF Enrolled
  <1>3. CASE Replay
    BY <1>3 DEF Replay
  <1>4. CASE Flushed
    BY <1>4 DEF Flushed
  <1>5. CASE Serve
    BY <1>5 DEF Serve
  <1>6. CASE Delivered
    BY <1>6 DEF Delivered
  <1>7. CASE SendFails
    <2>1. hand # NoReport /\ spool' = spool \cup {hand} /\ hand' = NoReport
      BY <1>7 DEF SendFails, PhaseIsRight
    <2>. QED BY <2>1
  <1>8. CASE Export
    BY <1>8 DEF Export
  <1>9. CASE EndService
    BY <1>9 DEF EndService
  <1>10. CASE Tick
    BY <1>10 DEF Tick
  <1>11. ASSUME NEW reading \in Readings, NEW bytes \in Traffic, NEW wall \in Clocks,
                Collect(reading, bytes, wall)
         PROVE  \E r \in Report : Collects(r, wall) /\ Pending' \subseteq Pending \cup {r}
    <2>1. PICK r \in Report : Collects(r, wall)
      BY <1>11, SomethingIsCollected
    <2>. QED BY <2>1 DEF Collects, Sent, Kept
  <1>. QED BY <1>1, <1>2, <1>3, <1>4, <1>5, <1>6, <1>7, <1>8, <1>9, <1>10, <1>11 DEF TelemetryNext

\* What a step does with the copies and the points sent last.
LEMMA CopiesMove ==
  ASSUME TelemetryTypes, PhaseIsRight, TelemetryNext
  PROVE  \/ copies' \in {copies, <<>>} /\ copied' = copied
         \/ Delivered /\ copies' = Append(copies, hand) /\ hand \in Report /\ copied' = copied
         \/ /\ copies # <<>> /\ copies' = Tail(copies) /\ copied' = Points(Head(copies))
            /\ Pending' = Pending
  <1>. USE DEF clock, machine, sampler, backlog, export, records, Pending
  <1>1. CASE Delivered
    BY <1>1 DEF Delivered, TryExport, PhaseIsRight, TelemetryTypes
  <1>2. CASE Export
    BY <1>2 DEF Export
  <1>3. CASE \E reading \in Readings, bytes \in Traffic, wall \in Clocks : Collect(reading, bytes, wall)
    BY <1>3 DEF Collect
  <1>. QED
    BY <1>1, <1>2, <1>3 DEF TelemetryNext, StartService, Enrolled, Replay, Flushed, Serve,
       SendFails, EndService, Tick

\* The members of a sequence that grows at its end or shrinks at its front.
LEMMA RangeMoves ==
  ASSUME NEW S, NEW s \in Seq(S)
  PROVE  /\ \A x \in S : Range(Append(s, x)) \subseteq Range(s) \cup {x}
         /\ s # <<>> => Head(s) \in Range(s) /\ Range(Tail(s)) \subseteq Range(s)
         /\ Range(s) \subseteq S
  BY DEF Range

LEMMA ReportsHold ==
  ASSUME TelemetryTypes, PhaseIsRight, TimersAreRight, ReportsAreRight, TelemetryNext
  PROVE  ReportsAreRight'
  <1>1. \A x \in Known : x \in Report /\ IsRight(x)'
    <2>1. Known \subseteq Report
      BY RangeMoves DEF Known, Pending, TelemetryTypes
    <2>. QED BY <2>1, RightStays DEF ReportsAreRight
  <1>2. Range(copies') \subseteq Known
    <2>1. copies \in Seq(Report) /\ Range(copies) \subseteq Known
      BY DEF TelemetryTypes, Known
    <2>2. Range(<<>>) = {}
      BY DEF Range
    <2>3. Delivered => hand \in Known
      BY DEF Known, Pending, Delivered, PhaseIsRight
    <2>4. CASE copies' \in {copies, <<>>}
      BY <2>1, <2>2, <2>4
    <2>5. CASE Delivered /\ copies' = Append(copies, hand) /\ hand \in Report
      <3>1. Range(copies') \subseteq Range(copies) \cup {hand}
        BY <2>1, <2>5, RangeMoves
      <3>. QED BY <2>1, <2>3, <2>5, <3>1
    <2>6. CASE copies # <<>> /\ copies' = Tail(copies)
      <3>1. Range(copies') \subseteq Range(copies)
        BY <2>1, <2>6, RangeMoves
      <3>. QED BY <2>1, <3>1
    <2>. QED BY <2>4, <2>5, <2>6, CopiesMove
  <1>3. host'.latest \in {host.latest, hand}
    BY DEF TelemetryNext, StartService, Enrolled, Replay, Flushed, Serve, Store, Delivered,
       SendFails, Export,
           EndService, Tick, Collect, records
  <1>4. Known' \subseteq Pending' \cup Known
    BY <1>2, <1>3 DEF Known, Pending
  <1>5. \A x \in Pending' : IsRight(x)'
    <2>1. CASE Pending' \subseteq Pending
      BY <1>1, <2>1 DEF Known
    <2>2. ASSUME NEW r \in Report, NEW wall \in Clocks, Collects(r, wall), Pending' \subseteq Pending \cup {r}
          PROVE  \A x \in Pending' : IsRight(x)'
      BY <1>1, <2>2, FreshIsRight DEF Known
    <2>. QED BY <2>1, <2>2, PendingGrows
  <1>. QED BY <1>1, <1>4, <1>5 DEF ReportsAreRight

LEMMA BeforeItself == ASSUME NEW x \in Report PROVE Before(x, x)
  BY DEF Before, Report

\* Two reports of the spool are never of the same time.
LEMMA SpoolHolds ==
  ASSUME TelemetryTypes, PhaseIsRight, TimersAreRight, ReportsAreRight, TelemetryNext, ~back',
         SpoolIsInOrder
  PROVE  SpoolIsInOrder'
  <1>. USE DEF clock, machine, sampler, backlog, export, records
  <1>1. CASE spool' \subseteq spool
    BY <1>1 DEF SpoolIsInOrder
  <1>2. CASE SendFails
    <2>1. spool' = {hand} \/ spool' = spool
      BY <1>2 DEF SendFails, Sending, PhaseIsRight
    <2>. QED BY <2>1 DEF SpoolIsInOrder
  <1>3. ASSUME NEW reading \in Readings, NEW bytes \in Traffic, NEW wall \in Clocks,
               Collect(reading, bytes, wall)
        PROVE  SpoolIsInOrder'
    <2>1. PICK r \in Report : Collects(r, wall)
      BY <1>3, SomethingIsCollected
    <2>2. spool' \subseteq spool \cup {r}
      BY <2>1 DEF Collects, Sent, Kept
    <2>3. \A x \in spool : x \in Report /\ IsRight(x)
      BY DEF TelemetryTypes, ReportsAreRight, Known, Pending
    <2>4. \A x \in spool : x.collected < r.collected /\ Before(x, r)
      BY <2>1, <2>3, FreshIsLast
    <2>. QED BY <2>2, <2>4 DEF SpoolIsInOrder
  <1>. QED
    BY <1>1, <1>2, <1>3 DEF TelemetryNext, StartService, Enrolled, Replay, Flushed, Serve,
       Delivered, Export,
           EndService, Tick
\* Before a step that takes the copy of a report, the report was before all that are left.
LEMMA DeliveredIsFirst ==
  ASSUME TelemetryTypes, PhaseIsRight, Delivered, SpoolIsInOrder
  PROVE  \A y \in Pending' : Before(hand, y)
  <1>1. hand \in Report /\ hand' = NoReport
    BY DEF Delivered, TelemetryTypes, PhaseIsRight
  <1>2. CASE phase = "send"
    BY <1>1, <1>2 DEF Delivered, PhaseIsRight, Pending, backlog
  <1>3. CASE phase = "replay"
    <2>1. spool' = spool \ {hand} /\ hand \in spool /\ \A y \in spool : hand.collected <= y.collected
      BY <1>3 DEF Delivered, PhaseIsRight, IsOldest
    <2>2. \A y \in spool : hand.collected \in Int /\ y.collected \in Int
      BY <1>1 DEF TelemetryTypes, Report
    <2>3. \A y \in spool \ {hand} : Before(hand, y)
      BY <2>1, <2>2 DEF SpoolIsInOrder
    <2>. QED BY <1>1, <2>1, <2>3 DEF Pending
  <1>. QED BY <1>2, <1>3 DEF Delivered, Sending

LEMMA CopiesHold ==
  ASSUME TelemetryTypes, PhaseIsRight, TimersAreRight, ReportsAreRight, TelemetryNext, ~back',
         SpoolIsInOrder, CopiesAreInOrder
  PROVE  CopiesAreInOrder'
  <1>1. copies \in Seq(Report)
    BY DEF TelemetryTypes
  <1>2. \A x \in Range(copies), y \in Pending' : Before(x, y)
    <2>1. \A x \in Range(copies) : x \in Report /\ IsRight(x)
      BY <1>1, RangeMoves, NoReportIsNone DEF ReportsAreRight, Known
    <2>. QED BY <2>1, PendingGrows, FreshIsLast DEF CopiesAreInOrder
  <1>3. CASE copies' \in {copies, <<>>}
    BY <1>2, <1>3 DEF CopiesAreInOrder, Range
  <1>4. CASE Delivered /\ copies' = Append(copies, hand) /\ hand \in Report
    <2>1. \A x \in Range(copies), y \in {hand} : Before(x, y)
      BY <1>4, NoReportIsNone DEF CopiesAreInOrder, Pending
    <2>2. \A y \in Pending' : Before(hand, y)
      BY <1>4, DeliveredIsFirst
    <2>3. \A x \in Range(copies'), y \in Pending' : Before(x, y)
      BY <1>1, <1>2, <1>4, <2>2, RangeMoves
    <2>4. \A i, j \in DOMAIN copies' : i < j => Before(copies'[i], copies'[j])
      <3>. SUFFICES ASSUME NEW i \in DOMAIN copies', NEW j \in DOMAIN copies', i < j
                    PROVE  Before(copies'[i], copies'[j])
        OBVIOUS
      <3>1. i \in DOMAIN copies /\ copies'[i] = copies[i] /\ j \in 1 .. Len(copies) + 1
        BY <1>1, <1>4
      <3>2. CASE j \in DOMAIN copies
        BY <1>1, <1>4, <3>1, <3>2 DEF CopiesAreInOrder
      <3>3. CASE j = Len(copies) + 1
        BY <1>1, <1>4, <3>1, <3>3, <2>1 DEF Range
      <3>. QED BY <1>1, <3>1, <3>2, <3>3
    <2>. QED BY <2>3, <2>4 DEF CopiesAreInOrder
  <1>5. CASE copies # <<>> /\ copies' = Tail(copies)
    <2>1. \A x \in Range(copies'), y \in Pending' : Before(x, y)
      BY <1>1, <1>2, <1>5, RangeMoves
    <2>2. \A i, j \in DOMAIN copies' : i < j => Before(copies'[i], copies'[j])
      <3>. SUFFICES ASSUME NEW i \in DOMAIN copies', NEW j \in DOMAIN copies', i < j
                    PROVE  Before(copies'[i], copies'[j])
        OBVIOUS
      <3>1. /\ i + 1 \in DOMAIN copies /\ copies'[i] = copies[i + 1]
            /\ j + 1 \in DOMAIN copies /\ copies'[j] = copies[j + 1]
            /\ i + 1 < j + 1
        BY <1>1, <1>5
      <3>. QED BY <3>1 DEF CopiesAreInOrder
    <2>. QED BY <2>1, <2>2 DEF CopiesAreInOrder
  <1>. QED BY <1>3, <1>4, <1>5, CopiesMove

\* A clock that was set back stays so.
LEMMA BackStays ==
  ASSUME TelemetryTypes, TelemetryNext, ~back'
  PROVE  ~back
  <1>1. ASSUME NEW reading \in Readings, NEW bytes \in Traffic, NEW wall \in Clocks,
               Collect(reading, bytes, wall)
        PROVE  ~back
    <2>1. back' = (back \/ wall < ahead)
      BY <1>1 DEF Collect
    <2>. QED BY <2>1
  <1>2. CASE UNCHANGED back
    BY <1>2
  <1>. QED
    BY <1>1, <1>2 DEF TelemetryNext, StartService, Enrolled, Replay, Flushed, Serve, Delivered,
       SendFails,
           Export, EndService, Tick, clock

\* The points sent last are those of a report that comes before all that wait.
LEMMA LastHolds ==
  ASSUME TelemetryTypes, PhaseIsRight, TimersAreRight, ReportsAreRight, OrderIsRight, TelemetryNext
  PROVE  copied' = {} \/ \E x \in Report : LastIsBehind(x)'
  <1>1. copies \in Seq(Report)
    BY DEF TelemetryTypes
  <1>2. ASSUME NEW x \in Report, LastIsBehind(x), copied' = copied,
               Range(copies') \subseteq Range(copies) \cup Pending
        PROVE  LastIsBehind(x)'
    <2>1. IsRight(x)'
      BY <1>2, RightStays DEF LastIsBehind
    <2>2. ASSUME ~back', NEW y \in Pending' \cup Range(copies') PROVE Before(x, y)
      <3>1. \A z \in Pending \cup Range(copies) : Before(x, z)
        BY <1>2, <2>2, BackStays DEF LastIsBehind
      <3>2. \A r \in Report, wall \in Clocks : Collects(r, wall) => Before(x, r)
        BY <1>2, <2>2, FreshIsLast DEF LastIsBehind
      <3>. QED BY <1>2, <2>2, <3>1, <3>2, PendingGrows
    <2>. QED BY <1>2, <2>1, <2>2 DEF LastIsBehind
  <1>3. CASE copies' \in {copies, <<>>} /\ copied' = copied
    <2>1. Range(copies') \subseteq Range(copies)
      BY <1>3 DEF Range
    <2>. QED BY <1>2, <1>3, <2>1 DEF OrderIsRight
  <1>4. CASE Delivered /\ copies' = Append(copies, hand) /\ hand \in Report /\ copied' = copied
    <2>1. Range(copies') \subseteq Range(copies) \cup {hand}
      BY <1>1, <1>4, RangeMoves
    <2>2. hand \in Pending
      BY <1>4, NoReportIsNone DEF Pending
    <2>. QED BY <1>2, <1>4, <2>1, <2>2 DEF OrderIsRight
  <1>5. CASE /\ copies # <<>> /\ copies' = Tail(copies) /\ copied' = Points(Head(copies))
             /\ Pending' = Pending
    <2>. DEFINE x == copies[1]
    <2>1. x \in Report /\ x = Head(copies) /\ x \in Range(copies)
      BY <1>1, <1>5 DEF Range
    <2>2. IsRight(x)
      BY <2>1, NoReportIsNone DEF ReportsAreRight, Known
    <2>3. ASSUME ~back', NEW y \in Pending' \cup Range(copies') PROVE Before(x, y)
      <3>1. CopiesAreInOrder
        BY <2>3, BackStays DEF OrderIsRight
      <3>2. CASE y \in Pending'
        BY <1>5, <2>1, <3>1, <3>2 DEF CopiesAreInOrder
      <3>3. CASE y \in Range(copies')
        <4>1. PICK i \in DOMAIN copies' : y = copies'[i]
          BY <3>3 DEF Range
        <4>2. 1 \in DOMAIN copies /\ i + 1 \in DOMAIN copies /\ y = copies[i + 1] /\ 1 < i + 1
          BY <1>1, <1>5, <4>1
        <4>. QED BY <3>1, <4>2 DEF CopiesAreInOrder
      <3>. QED BY <2>3, <3>2, <3>3
    <2>. HIDE DEF x
    <2>4. PICK z : z = x
      OBVIOUS
    <2>5. IsRight(z)'
      BY <2>1, <2>2, <2>4, RightStays
    <2>6. copied' = Points(z)
      BY <1>5, <2>1, <2>4
    <2>7. LastIsBehind(z)'
      BY <2>3, <2>4, <2>5, <2>6 DEF LastIsBehind
    <2>. QED BY <2>1, <2>4, <2>7
  <1>. QED BY <1>3, <1>4, <1>5, CopiesMove

\* The server refuses a report for what the report says only.
LEMMA RefusalHasCause ==
  ASSUME TelemetryTypes, PhaseIsRight, ReportsAreRight, TelemetryNext, RefusedHasCause
  PROVE  RefusedHasCause'
  <1>. USE DEF clock, machine, sampler, backlog, export, records, RefusedHasCause
  <1>1. CASE Serve
    <2>1. hand \in Report /\ IsRight(hand)
      BY <1>1, NoReportIsNone DEF Serve, PhaseIsRight, TelemetryTypes, ReportsAreRight, Known,
         Pending
    <2>2. Slowest \in Nat /\ {Longest, Early, Warmup} \subseteq Nat /\ Shortest \in Nat
      BY <2>1, SpreadIsAnInterval, TelemetryAssumption DEF IsRight
    <2>3. /\ {hand.interval, hand.made, hand.busy, now} \subseteq Nat /\ hand.collected \in Int
      BY <2>1 DEF Report, TelemetryTypes
    <2>4. ASSUME ~Valid(hand), Consistent(hand)
          PROVE  hand.collected > hand.made + Early \/ Warmup + hand.busy + Slowest > Longest
      <3>1. ~(hand.interval \in Shortest .. Longest) \/ ~(hand.collected <= now + Early)
        BY <2>4 DEF Valid, Consistent
      <3>2. hand.made <= now /\ Shortest <= hand.interval /\ hand.interval <= Warmup + hand.busy + Slowest
        BY <2>1 DEF IsRight
      <3>. QED BY <2>2, <2>3, <3>1, <3>2
    <2>. QED BY <1>1, <2>4 DEF Serve, Slowest
  <1>2. CASE answer' = "none"
    BY <1>2
  <1>3. CASE UNCHANGED <<answer, hand>>
    BY <1>3
  <1>4. ASSUME NEW reading \in Readings, NEW bytes \in Traffic, NEW wall \in Clocks,
               Collect(reading, bytes, wall)
        PROVE  RefusedHasCause'
    BY <1>4 DEF Collect, PhaseIsRight, Sending
  <1>5. CASE Replay
    BY <1>5 DEF Replay, PhaseIsRight, Sending
  <1>. QED
    BY <1>1, <1>2, <1>3, <1>4, <1>5 DEF TelemetryNext, StartService, Enrolled, Flushed,
       Delivered, SendFails,
           Export, EndService, Tick

LEMMA JudgedHolds ==
  ASSUME TelemetryTypes, PhaseIsRight, TimersAreRight, ReportsAreRight, JudgedRight, TelemetryNext
  PROVE  JudgedRight'
  <1>. USE DEF clock, machine, sampler, backlog, export, records, Sending
  <1>0. RefusedHasCause'
    BY RefusalHasCause DEF JudgedRight
  <1>1. CASE Serve
    <2>1. hand \in Report /\ hand.id \in Nat /\ hand.id < next /\ next \in Nat
      BY <1>1, NoReportIsNone DEF Serve, PhaseIsRight, TelemetryTypes, ReportsAreRight, Known,
         Pending, IsRight,
                                  Report
    <2>2. since <= now
      BY <1>1 DEF Serve, TimersAreRight
    <2>3. UNCHANGED <<now, ahead, back, next, hand, phase, since>> /\ answer = "none"
      BY <1>1 DEF Serve
    <2>4. CASE Valid(hand) /\ Store(hand) /\ answer' = "accepted"
      <3>1. Consistent(hand)
        BY <2>4 DEF Valid, Consistent
      <3>2. stored' = stored \cup {hand.id} /\ host'.seen = now /\ host'.latest \in {hand, host.latest}
        BY <2>4 DEF Store
      <3>3. phase = "send" /\ ~back => host'.latest = hand
        <4>1. phase = "send" /\ ~back =>
                hand.id \notin stored /\ (host.latest = NoReport \/ host.latest.collected <= hand.collected)
          BY <2>3 DEF JudgedRight
        <4>. QED BY <2>4, <4>1 DEF Store
      <3>. QED BY <1>0, <2>1, <2>2, <2>3, <2>4, <3>1, <3>2, <3>3 DEF JudgedRight
    <2>5. CASE answer' = "refused" /\ UNCHANGED records
      BY <1>0, <2>3, <2>5 DEF JudgedRight
    <2>. QED BY <1>1, <2>4, <2>5 DEF Serve
  <1>2. ASSUME NEW reading \in Readings, NEW bytes \in Traffic, NEW wall \in Clocks,
               Collect(reading, bytes, wall)
        PROVE  JudgedRight'
    <2>1. PICK r \in Report : Collects(r, wall)
      BY <1>2, SomethingIsCollected
    <2>2. \A n \in stored : n < next + 1 /\ n # next
      BY DEF JudgedRight, TelemetryTypes
    <2>3. ~back' /\ host.latest # NoReport => host.latest.collected <= r.collected
      <3>1. host.latest # NoReport => host.latest \in Report /\ IsRight(host.latest)
        BY DEF TelemetryTypes, ReportsAreRight, Known
      <3>. QED BY <2>1, <3>1, FreshIsLast DEF Before
    <2>4. answer = "none" /\ answer' = "none"
      BY <2>1 DEF Collects, PhaseIsRight, TelemetryTypes
    <2>5. UNCHANGED <<host, stored>> /\ next' = next + 1 /\ r.id = next
      BY <2>1 DEF Collects
    <2>6. phase' = "send" => hand' = r
      BY <2>1 DEF Collects, Sent, Kept
    <2>. QED BY <1>0, <2>2, <2>3, <2>4, <2>5, <2>6 DEF JudgedRight
  <1>3. CASE Tick
    BY <1>0, <1>3 DEF Tick, JudgedRight
  <1>4. CASE phase' # "send" /\ answer' = "none" /\ UNCHANGED <<host, stored, next>>
    BY <1>0, <1>4 DEF JudgedRight
  <1>5. CASE Export
    BY <1>0, <1>5 DEF Export, JudgedRight
  <1>6. StartService \/ Enrolled \/ Replay \/ Flushed =>
           phase' # "send" /\ answer' = "none" /\ UNCHANGED <<host, stored, next>>
    BY DEF StartService, Enrolled, Replay, Flushed, Succeeds, Sleeps, PhaseIsRight,
       TelemetryTypes
  <1>7. Delivered \/ SendFails \/ EndService =>
           phase' # "send" /\ answer' = "none" /\ UNCHANGED <<host, stored, next>>
    BY DEF Delivered, SendFails, EndService, Succeeds, Sleeps
  <1>. QED
    BY <1>1, <1>2, <1>3, <1>4, <1>5, <1>6, <1>7 DEF TelemetryNext

LEMMA StreakHolds ==
  ASSUME TelemetryTypes, PhaseIsRight, TimersAreRight, JudgedRight, StreakIsRight, TelemetryNext
  PROVE  StreakIsRight'
  <1>. USE DEF clock, machine, sampler, backlog, export, records, Sending, StreakIsRight
  <1>0. /\ {now, since, sampled, host.seen, Timeout} \subseteq Nat /\ streak \in 0 .. 2
        /\ sampled <= now /\ host.seen <= now
        /\ phase # "down" => Configured
    BY TelemetryAssumption DEF TelemetryTypes, PhaseIsRight
  <1>a. /\ phase # "down" => Slowest \in Nat /\ Quickest \in Nat
        /\ \A d \in Spread(Interval) : phase # "down" => d \in Nat /\ Quickest <= d /\ d <= Slowest
    BY <1>0, SpreadIsAnInterval
  <1>1. CASE streak' = 0
    BY <1>1
  <1>2. CASE Serve
    <2>1. UNCHANGED <<phase, since, streak, hand, sampled, back>> /\ now <= since + Timeout /\ phase # "down"
      BY <1>2 DEF Serve, TimersAreRight
    <2>2. CASE UNCHANGED host
      BY <2>1, <2>2
    <2>3. CASE Store(hand)
      <3>1. host'.seen = now /\ host'.latest \in {hand, host.latest}
        BY <2>3 DEF Store
      <3>2. streak > 0 => phase = "send" /\ hand # NoReport
        BY <1>2 DEF Serve, PhaseIsRight
      <3>3. since <= now
        BY <1>2 DEF Serve, TimersAreRight
      <3>. QED BY <1>0, <1>a, <2>1, <3>1, <3>2, <3>3
    <2>. QED BY <1>2, <2>2, <2>3 DEF Serve
  <1>3. CASE Delivered
    <2>1. CASE phase = "replay"
      BY <1>0, <1>3, <2>1, <1>1 DEF Delivered, PhaseIsRight
    <2>2. CASE phase = "send"
      <3>1. /\ UNCHANGED <<sampled, host, back>> /\ phase' = "sleep"
            /\ streak' = Min({2, streak + 1})
        BY <1>3, <2>2 DEF Delivered, Succeeds, Sleeps
      <3>2. PICK d \in Spread(Interval) : since' = now + d
        BY <1>3, <2>2 DEF Delivered, Succeeds, Sleeps
      <3>3. since <= host.seen /\ now <= since + Timeout
        BY <1>3, <2>2 DEF Delivered, JudgedRight, TimersAreRight
      <3>4. ~back => host.latest = hand
        BY <1>3, <2>2 DEF Delivered, JudgedRight
      <3>5. hand # NoReport
        BY <1>3 DEF Delivered, PhaseIsRight
      <3>6. streak' = 2 => streak > 0
        <4>1. 2 \in Int /\ streak + 1 \in Int
          BY <1>0
        <4>2. streak' = IF 2 <= streak + 1 THEN 2 ELSE streak + 1
          BY <3>1, <4>1, MaxOfTwo
        <4>. QED BY <1>0, <4>2
      <3>7. streak' = 2 /\ ~back' => host'.latest # NoReport /\ Quickest <= host'.latest.interval
        BY <2>2, <3>1, <3>4, <3>5, <3>6
      <3>8. since' <= host'.seen + Timeout + Slowest /\ sampled' + Quickest <= since'
        BY <1>0, <1>a, <2>2, <3>1, <3>2, <3>3
      <3>. QED BY <3>1, <3>7, <3>8
    <2>. QED BY <1>3, <2>1, <2>2 DEF Delivered
  <1>4. ASSUME NEW reading \in Readings, NEW bytes \in Traffic, NEW wall \in Clocks,
               Collect(reading, bytes, wall)
        PROVE  StreakIsRight'
    <2>1. PICK r \in Report : Collects(r, wall)
      BY <1>4, SomethingIsCollected
    <2>2. CASE Sent(r)
      <3>1. /\ phase' = "send" /\ since' = now /\ hand' = r /\ streak' = streak /\ UNCHANGED host
            /\ r.interval = now - sampled /\ phase = "sleep" /\ now >= since /\ now <= since
        BY <2>1, <2>2 DEF Collects, Sent, TimersAreRight
      <3>2. ~back' => ~back
        BY <1>4, BackStays DEF TelemetryNext
      <3>. QED BY <1>0, <1>a, <3>1, <3>2
    <2>3. CASE Kept(r)
      BY <1>1, <2>3 DEF Kept
    <2>. QED BY <2>1, <2>2, <2>3 DEF Collects
  <1>5. CASE UNCHANGED <<back, host, since, phase, hand, sampled, streak>>
    BY <1>5
  <1>6. CASE StartService \/ Enrolled \/ Replay \/ Flushed
    BY <1>0, <1>1, <1>6 DEF StartService, Enrolled, Replay, Flushed, PhaseIsRight
  <1>. QED
    BY <1>1, <1>2, <1>3, <1>4, <1>5, <1>6 DEF TelemetryNext, SendFails, Export, EndService,
       Tick

-----------------------------------------------------------------------------
TelemetryInvariant ==
    /\ TelemetryTypes /\ PhaseIsRight /\ TimersAreRight /\ ReportsAreRight /\ OrderIsRight
    /\ JudgedRight /\ StreakIsRight

LEMMA TelemetryStarts == TelemetryInit => TelemetryInvariant
  <1>. SUFFICES ASSUME TelemetryInit PROVE TelemetryInvariant
    OBVIOUS
  <1>1. {} \in FiniteInts
    BY FS_EmptySet DEF FiniteInts
  <1>2. TelemetryTypes
    <2>1. host.seen = 0 /\ host.latest = NoReport
      BY DEF TelemetryInit
    <2>2. copies \in Seq(Report) /\ hand \in Report \cup {NoReport} /\ spool \subseteq Report
      BY DEF TelemetryInit
    <2>3. /\ now = 0 /\ ahead \in Clocks /\ back \in BOOLEAN /\ boot = 0 /\ total = 0 /\ phase = "down"
          /\ since = 0 /\ answer = "none" /\ sampled = 0 /\ sensors = {} /\ next = 1
          /\ stored = {} /\ busy = 0 /\ streak = 0
      BY DEF TelemetryInit
    <2>. QED BY <1>1, <2>1, <2>2, <2>3 DEF TelemetryTypes
  <1>3. Pending = {} /\ Range(copies) = {} /\ Known = {}
    BY DEF TelemetryInit, Pending, Known, Range
  <1>4. PhaseIsRight /\ TimersAreRight
    BY DEF TelemetryInit, PhaseIsRight, TimersAreRight, Sending
  <1>5. ReportsAreRight /\ OrderIsRight
    BY <1>3 DEF TelemetryInit, ReportsAreRight, OrderIsRight, SpoolIsInOrder, CopiesAreInOrder
  <1>6. JudgedRight /\ StreakIsRight
    BY DEF TelemetryInit, JudgedRight, StreakIsRight, RefusedHasCause, Sending
  <1>. QED BY <1>2, <1>4, <1>5, <1>6 DEF TelemetryInvariant

LEMMA TelemetryGoesOn == TelemetryInvariant /\ [TelemetryNext]_telemetryVars => TelemetryInvariant'
  <1>. SUFFICES ASSUME TelemetryInvariant, [TelemetryNext]_telemetryVars PROVE TelemetryInvariant'
    OBVIOUS
  <1>. USE DEF TelemetryInvariant
  <1>1. CASE TelemetryNext
    <2>1. TelemetryTypes' /\ PhaseIsRight' /\ TimersAreRight' /\ ReportsAreRight'
      BY <1>1, TypesHold, PhaseHolds, TimersHold, ReportsHold
    <2>2. OrderIsRight'
      BY <1>1, BackStays, SpoolHolds, CopiesHold, LastHolds DEF OrderIsRight
    <2>3. JudgedRight' /\ StreakIsRight'
      BY <1>1, JudgedHolds, StreakHolds
    <2>. QED BY <2>1, <2>2, <2>3
  <1>2. CASE UNCHANGED telemetryVars
    <2>. USE <1>2 DEF telemetryVars, clock, machine, sampler, backlog, export, records
    <2>1. TelemetryTypes' /\ PhaseIsRight' /\ TimersAreRight'
      BY DEF TelemetryTypes, PhaseIsRight, TimersAreRight, Sending, IsOldest
    <2>2. ReportsAreRight'
      BY DEF ReportsAreRight, Known, Pending, IsRight
    <2>3. OrderIsRight'
      BY DEF OrderIsRight, SpoolIsInOrder, CopiesAreInOrder, LastIsBehind, Pending, IsRight
    <2>4. JudgedRight' /\ StreakIsRight'
      BY DEF JudgedRight, StreakIsRight, RefusedHasCause, Sending
    <2>. QED BY <2>1, <2>2, <2>3, <2>4
  <1>. QED BY <1>1, <1>2

\* TelemetryInvariant is inductive, for any intervals, jitter, timeout, clocks and readings.
THEOREM TelemetryIsInvariant == TelemetrySpec => []TelemetryInvariant
  BY TelemetryStarts, TelemetryGoesOn, PTL DEF TelemetrySpec

-----------------------------------------------------------------------------
\* Only the counter of what was received starts with the machine.
LEMMA KindsOfPoints ==
  ASSUME NEW x, NEW p \in Points(x)
  PROVE  /\ p.time = x.collected
         /\ \/ /\ p.series = <<"io">> /\ p.value = x.total
               /\ p.start = Max({0, x.collected - x.uptime})
            \/ p.series # <<"io">> /\ p.start = 0
  <1>1. \A a, b : <<a, b>> # <<"io">>
    <2>. SUFFICES ASSUME NEW a, NEW b, <<a, b>> = <<"io">> PROVE FALSE
      OBVIOUS
    <2>1. Len(<<a, b>>) = 2 /\ Len(<<"io">>) = 1
      OBVIOUS
    <2>. QED BY <2>1
  <1>2. <<"memory">> # <<"io">> /\ <<"uptime">> # <<"io">>
    OBVIOUS
  <1>3. ASSUME NEW g, p \in GpuPoints(x, g)
        PROVE  \E s, v : p = Gauge(x, s, v) /\ s # <<"io">>
    <2>1. \E s, v : p = Gauge(x, <<s, g.vendor>>, v)
      BY <1>3 DEF GpuPoints
    <2>. QED BY <1>1, <2>1
  <1>4. \/ p = Gauge(x, <<"memory">>, x.memory.used)
        \/ p = Gauge(x, <<"uptime">>, x.uptime)
        \/ p = Counter(x, <<"io">>, x.total)
        \/ \E d \in x.disks : p = Gauge(x, <<"disk", d.name>>, d.total - d.available)
        \/ \E celsius \in x.sensors : p = Gauge(x, <<"temperature", celsius>>, celsius)
        \/ \E g \in x.gpus : p \in GpuPoints(x, g)
    BY DEF Points
  <1>5. CASE p = Counter(x, <<"io">>, x.total)
    BY <1>5 DEF Counter
  <1>6. CASE \E s, v : p = Gauge(x, s, v) /\ s # <<"io">>
    BY <1>6 DEF Gauge
  <1>. QED BY <1>1, <1>2, <1>3, <1>4, <1>5, <1>6

\* Points of reports in order are in order.
LEMMA PointsGoForward ==
  ASSUME NEW x, NEW y, Before(x, y), x.collected \in Int, y.collected \in Int, y.uptime \in Int,
         NEW p \in Points(x), NEW q \in Points(y), p.series = q.series
  PROVE  /\ p.time <= q.time
         /\ (p.start > 0 /\ q.value < p.value) => q.start >= p.time
  <1>1. p.time = x.collected /\ q.time = y.collected
    BY KindsOfPoints
  <1>2. ASSUME p.start > 0, q.value < p.value PROVE q.start >= p.time
    <2>1. p.series = <<"io">> /\ p.value = x.total
      <3>1. \/ p.series = <<"io">> /\ p.value = x.total
            \/ p.series # <<"io">> /\ p.start = 0
        BY KindsOfPoints
      <3>. QED BY <1>2, <3>1
    <2>2. q.value = y.total /\ q.start = Max({0, y.collected - y.uptime})
      <3>1. \/ q.series = <<"io">> /\ q.value = y.total /\ q.start = Max({0, y.collected - y.uptime})
            \/ q.series # <<"io">> /\ q.start = 0
        BY KindsOfPoints
      <3>. QED BY <2>1, <3>1
    <2>3. y.collected - y.uptime \in Int /\ 0 \in Int
      OBVIOUS
    <2>4. /\ Max({0, y.collected - y.uptime}) >= y.collected - y.uptime
          /\ Max({0, y.collected - y.uptime}) \in Int
      BY <2>3, MaxOfTwo
    <2>5. y.collected - y.uptime >= x.collected
      BY <1>2, <2>1, <2>2 DEF Before
    <2>. QED BY <1>1, <2>2, <2>3, <2>4, <2>5
  <1>. QED BY <1>1, <1>2 DEF Before

\* CopiesGoForward: whatever is restarted, lost or sent again, the points of a series that
\* are exported go forward in time, and a counter falls only to a later start.
THEOREM PointsOfASeriesGoForward == TelemetrySpec => CopiesGoForward
  <1>1. TelemetryInvariant /\ TelemetryInvariant' /\ [TelemetryNext]_telemetryVars => [SeriesGoForward]_telemetryVars
    <2>. SUFFICES ASSUME TelemetryInvariant, TelemetryInvariant', TelemetryNext, ~back',
                         NEW p \in copied, NEW q \in copied', p.series = q.series
                  PROVE  /\ p.time <= q.time
                         /\ (p.start > 0 /\ q.value < p.value) => q.start >= p.time
      BY DEF SeriesGoForward
    <2>1. PICK x \in Report : LastIsBehind(x)
      BY DEF TelemetryInvariant, OrderIsRight
    <2>2. CASE copied' = copied
      <3>1. p \in Points(x) /\ q \in Points(x) /\ Before(x, x)
        BY <2>1, <2>2, BeforeItself DEF LastIsBehind
      <3>2. x.collected \in Int /\ x.uptime \in Int
        BY DEF Report
      <3>. QED BY <3>1, <3>2, PointsGoForward
    <2>3. CASE copies # <<>> /\ copied' = Points(Head(copies))
      <3>1. copies \in Seq(Report)
        BY DEF TelemetryInvariant, TelemetryTypes
      <3>2. PICK y \in Report : y = Head(copies)
        BY <2>3, <3>1
      <3>3. Before(x, y)
        BY <2>1, <2>3, <3>1, <3>2, RangeMoves, BackStays DEF LastIsBehind, TelemetryInvariant
      <3>4. p \in Points(x) /\ q \in Points(y)
        BY <2>1, <2>3, <3>2 DEF LastIsBehind
      <3>5. x.collected \in Int /\ y.collected \in Int /\ y.uptime \in Int
        BY DEF Report
      <3>. QED BY <3>3, <3>4, <3>5, PointsGoForward
    <2>. QED BY <2>2, <2>3, CopiesMove DEF TelemetryInvariant
  <1>. QED BY <1>1, TelemetryIsInvariant, PTL DEF TelemetrySpec, CopiesGoForward

\* A host whose last reports arrived has not been silent for three of its intervals.
LEMMA SilenceIsShort ==
  ASSUME TelemetryInvariant, HasRoom, streak = 2, ~back
  PROVE  Status = "online"
  <1>. USE DEF TelemetryInvariant
  <1>1. phase \in {"sleep", "send"} /\ Configured
    BY DEF PhaseIsRight
  <1>2. /\ {now, since, host.seen, Timeout, Least, Longest, OnlineFor} \subseteq Nat
        /\ Slowest \in Nat /\ Quickest \in Nat
    BY <1>1, SpreadIsAnInterval, TelemetryAssumption DEF TelemetryTypes
  <1>3. now - host.seen <= Slowest + 2 * Timeout
    <2>1. since <= host.seen + Timeout + Slowest
      BY DEF StreakIsRight
    <2>2. now <= since + Timeout
      BY <1>1, <1>2 DEF TimersAreRight, Sending
    <2>. QED BY <1>2, <2>1, <2>2
  <1>4. /\ host.latest # NoReport /\ Quickest <= host.latest.interval
        /\ host.latest.interval \in Nat
    BY DEF StreakIsRight, TelemetryTypes, Report
  <1>. DEFINE Judged(i) == Max({Least, Min({Longest, i})})
              Silence(i) == Max({3 * Judged(i), OnlineFor})
  <1>. DEFINE Capped(i) == IF Longest <= i THEN Longest ELSE i
  <1>5. ASSUME NEW i \in Nat
        PROVE  Judged(i) = IF Least >= Capped(i) THEN Least ELSE Capped(i)
    <2>1. Longest \in Int /\ i \in Int /\ Least \in Int
      BY <1>2
    <2>2. Min({Longest, i}) = Capped(i)
      BY <2>1, MaxOfTwo
    <2>3. Capped(i) \in Int
      BY <2>1
    <2>. QED BY <2>1, <2>2, <2>3, MaxOfTwo
  <1>6. \A i, j \in Nat : i <= j => Judged(i) \in Nat /\ Judged(j) \in Nat /\ Judged(i) <= Judged(j)
    <2>. HIDE DEF Judged
    <2>. QED BY <1>2, <1>5
  <1>7. ASSUME NEW i \in Nat, NEW j \in Nat, i <= j
        PROVE  Silence(i) \in Int /\ Silence(j) \in Int /\ Silence(i) <= Silence(j)
    <2>. HIDE DEF Judged
    <2>1. Judged(i) \in Nat /\ Judged(j) \in Nat /\ Judged(i) <= Judged(j)
      BY <1>6, <1>7
    <2>2. 3 * Judged(i) \in Int /\ 3 * Judged(j) \in Int /\ OnlineFor \in Int
      BY <1>2, <2>1
    <2>3. Silence(i) = IF 3 * Judged(i) >= OnlineFor THEN 3 * Judged(i) ELSE OnlineFor
      BY <2>2, MaxOfTwo
    <2>4. Silence(j) = IF 3 * Judged(j) >= OnlineFor THEN 3 * Judged(j) ELSE OnlineFor
      BY <2>2, MaxOfTwo
    <2>. HIDE DEF Silence
    <2>. QED BY <1>2, <2>1, <2>3, <2>4
  <1>8. Slowest + 2 * Timeout <= Silence(Quickest)
    BY DEF HasRoom, Slowest, Quickest
  <1>9. Status = "online" <=> now - host.seen <= Silence(host.latest.interval)
    BY <1>4 DEF Status
  <1>. HIDE DEF Silence, Judged
  <1>. QED BY <1>2, <1>3, <1>4, <1>7, <1>8, <1>9

\* A share is a percentage, or unknown of nothing.
LEMMA ShareIsPercent ==
  ASSUME NEW u \in Nat, NEW t \in Nat, u <= t
  PROVE  Percent(u, t) \in {Never} \cup 0 .. 100
  BY PercentLow DEF Percent

\* What a report that was taken says is in range.
LEMMA TakenIsInRange ==
  ASSUME NEW r \in Report, Consistent(r)
  PROVE  LET summary == Summary(r) IN
         /\ {summary.memory, summary.gpu, summary.gpuMemory} \subseteq {Never} \cup 0 .. 100
         /\ summary.celsius \in {Never} \cup -273 .. 1000
         /\ summary.received \in Nat
  <1>1. /\ r.memory.used \in Nat /\ r.memory.total \in Nat
        /\ IsFiniteSet(r.gpus)
        /\ \A g \in r.gpus : g.used \in Nat /\ g.total \in Nat /\ g.utilization \in Nat \cup {Never}
    BY TelemetryAssumption DEF Report, IsReading
  <1>2. Percent(r.memory.used, r.memory.total) \in {Never} \cup 0 .. 100
    <2>1. r.memory.used <= r.memory.total
      BY DEF Consistent
    <2>. QED BY <1>1, <2>1, ShareIsPercent
  <1>3. r.sensors \subseteq -273 .. 1000
    BY DEF Consistent
  <1>4. Max({Never} \cup r.sensors) \in {Never} \cup -273 .. 1000
    <2>1. PICK low \in Int, high \in Int : low = -273 /\ high = 1000
      OBVIOUS
    <2>2. PICK M : M = {Never} \cup r.sensors
      OBVIOUS
    <2>3. M \subseteq low .. high /\ M # {}
      BY <1>3, <2>1, <2>2 DEF Never
    <2>4. Max(M) \in M
      BY ONLY <2>3, BoundedHasMax
    <2>. QED BY <1>3, <2>2, <2>4
  <1>5. Max({Never} \cup {g.utilization : g \in r.gpus}) \in {Never} \cup 0 .. 100
    <2>1. PICK low \in Int, high \in Int : low = -1 /\ high = 100
      OBVIOUS
    <2>2. PICK M : M = {Never} \cup {g.utilization : g \in r.gpus}
      OBVIOUS
    <2>3. \A g \in r.gpus : g.utilization <= 100
      BY DEF Consistent
    <2>4. \A g \in r.gpus : g.utilization \in {Never} \cup 0 .. 100
      BY <1>1, <2>3 DEF Never
    <2>5. M \subseteq {Never} \cup 0 .. 100 /\ M # {}
      BY <2>2, <2>4
    <2>6. M \subseteq low .. high
      BY <2>1, <2>5 DEF Never
    <2>7. Max(M) \in M
      BY ONLY <2>5, <2>6, BoundedHasMax
    <2>. QED BY <2>2, <2>5, <2>7
  <1>6. ASSUME NEW f, NEW h, f = [g \in r.gpus |-> g.used], h = [g \in r.gpus |-> g.total]
        PROVE  Percent(SumFunction(f), SumFunction(h)) \in {Never} \cup 0 .. 100
    <2>0. \A g \in r.gpus : g.used <= g.total
      BY DEF Consistent
    <2>1. \A g \in r.gpus : f[g] \in Nat /\ h[g] \in Nat /\ f[g] <= h[g]
      BY <1>1, <1>6, <2>0
    <2>2. SumFunction(f) = SumFunctionOnSet(f, r.gpus) /\ SumFunction(h) = SumFunctionOnSet(h, r.gpus)
      BY <1>6 DEF SumFunction
    <2>3. /\ SumFunction(f) \in Nat /\ SumFunction(h) \in Nat /\ SumFunction(f) <= SumFunction(h)
      BY <1>1, <2>1, <2>2, SumIsMonotone
    <2>. QED BY <2>3, ShareIsPercent
  <1>7. r.rate \in Nat
    BY DEF Report
  <1>. DEFINE used == [g \in r.gpus |-> g.used]
              all == [g \in r.gpus |-> g.total]
              share == Percent(SumFunction(used), SumFunction(all))
  <1>8. share \in {Never} \cup 0 .. 100
    BY <1>6
  <1>9. /\ Summary(r).memory = Percent(r.memory.used, r.memory.total)
        /\ Summary(r).received = r.rate
        /\ Summary(r).celsius = Max({Never} \cup r.sensors)
        /\ Summary(r).gpu = Max({Never} \cup {g.utilization : g \in r.gpus})
        /\ Summary(r).gpuMemory = share
    BY DEF Summary
  <1>. HIDE DEF share, used, all
  <1>10. {Summary(r).memory, Summary(r).gpu, Summary(r).gpuMemory} \subseteq {Never} \cup 0 .. 100
    BY <1>2, <1>5, <1>8, <1>9
  <1>11. Summary(r).celsius \in {Never} \cup -273 .. 1000 /\ Summary(r).received \in Nat
    BY <1>4, <1>7, <1>9
  <1>. QED BY <1>10, <1>11

\* ReportsAreJudged: a report is refused for a cause only, what is shown of a host is in
\* range, and a host whose reports arrive is online if the configuration leaves it room.
THEOREM ReportsAreJudgedRight == TelemetrySpec => []ReportsAreJudged
  <1>1. TelemetryInvariant => ReportsAreJudged
    <2>. SUFFICES ASSUME TelemetryInvariant PROVE ReportsAreJudged
      OBVIOUS
    <2>1. RefusedHasCause
      BY DEF TelemetryInvariant, JudgedRight
    <2>2. HealthyIsOnline
      BY SilenceIsShort DEF HealthyIsOnline
    <2>3. ShownInRange
      <3>1. TelemetryTypes /\ JudgedRight
        BY DEF TelemetryInvariant
      <3>2. host.latest # NoReport => host.latest \in Report
        BY <3>1 DEF TelemetryTypes
      <3>3. host.latest # NoReport => Consistent(host.latest)
        BY <3>1 DEF JudgedRight
      <3>. QED BY <3>2, <3>3, TakenIsInRange DEF ShownInRange
    <2>. QED BY <2>1, <2>2, <2>3 DEF ReportsAreJudged
  <1>. QED BY <1>1, TelemetryIsInvariant, PTL
=============================================================================
