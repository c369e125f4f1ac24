----------------------------- MODULE RamRemote -----------------------------
(***************************************************************************)
(* The accounts of a remote ram (union: ram_auth/service.rs, rules.rs,     *)
(* ram_instances.rs, database/audit/accounts.rs; ram: handle_admin_auth,   *)
(* persist_auth_rules, args.rs).                                           *)
(*                                                                         *)
(* union reads the accounts, completes what the request leaves empty from  *)
(* them, replaces them in a transaction and sends them to ram with the     *)
(* password the administrator had before.  PostgreSQL runs at READ         *)
(* COMMITTED: each statement sees what was committed when it began, waits  *)
(* for rows that another transaction has deleted, and skips those gone     *)
(* when that transaction has ended.                                        *)
(*                                                                         *)
(* A password is a number, 0 when there is none: 1 is the one ram was      *)
(* started with, u + 1 the one update u brings.  Ordinary rules are about  *)
(* directories below the root; that of the administrator is "/:rw".        *)
(***************************************************************************)
EXTENDS Naturals

CONSTANTS
    Users,      \* names that rules may have
    Admin,      \* a name that is the administrator's only
    Management, \* account_key of the administrator's account
    Everyone,   \* account_key of the rule without a name
    NoName,     \* the request removes the administrator
    MaxUpdates  \* bound: updates of the accounts

ASSUME RemoteAssumption ==
    /\ Management \notin Users \cup {Everyone} /\ Everyone \notin Users
    /\ NoName \notin Users \cup {Admin}
    /\ MaxUpdates \in Nat

VARIABLES
    phase,      \* phase[u]: where update_auth_for stands
    next,       \* next[u]: the accounts it stores
    credential, \* credential[u]: the account it authenticates with at ram
    view,       \* view[u]: the rows its statement has begun to delete
    held,       \* held[u]: the rows whose permissions its transaction has deleted
    accounts,   \* service_accounts of this ram
    exists,     \* whether ram_instances has it
    ram,        \* ram[u]: where handle_admin_auth stands
    memory,     \* Server.auth: password and reach of each name, and if all may come in
    temporary,  \* the .tmp beside the state file
    file,       \* the state file
    started,    \* the rules of the command line
    persists,   \* whether ram was started with --auth-state-file
    linked,     \* whether union had the accounts of ram from the start
    kept,       \* history: kept[u]: the names whose password update u left empty
    single,     \* history: single[u]: no other update was under way
    prior,      \* history: prior[u]: the last update committed when it began
    latest,     \* history: the last update committed
    forgotten   \* history: ram lost its rules in a restart

sending == <<next, credential, kept, prior>>
ramState == <<memory, temporary, file>>
ramStart == <<started, persists, linked>>
tables == <<view, held, accounts, exists>>
marks == <<single, latest, forgotten>>
remoteVars == <<phase, sending, tables, ram, ramState, ramStart, marks>>

Updates == 1 .. MaxUpdates
Names == Users \cup {Admin}
NoOne == [name |-> NoName, password |-> 0]
Ended == {"applied", "unapplied", "failed"}
Pending(u) == ram[u] # "none"
UnderWay(u) == phase[u] \notin Ended \cup {"new"} \/ Pending(u)

\* A row of service_accounts; `by` tells apart rows of one key.
Row(key, name, password, by) == [key |-> key, name |-> name, password |-> password, by |-> by]
Rows(new, by) ==
    {Row(n, n, new.rules[n], by) : n \in {m \in Users : new.rules[m] # 0}} \cup
    (IF new.everyone THEN {Row(Everyone, NoName, 0, by)} ELSE {}) \cup
    IF new.admin = NoOne THEN {} ELSE {Row(Management, new.admin.name, new.admin.password, by)}

IsOrdinary(row) == row.key # Management
Password(rows, n) == IF \E r \in rows : IsOrdinary(r) /\ r.name = n
                       THEN (CHOOSE r \in rows : IsOrdinary(r) /\ r.name = n).password
                       ELSE 0
Administrator(rows) ==
    IF \E r \in rows : r.key = Management
      THEN LET r == CHOOSE r \in rows : r.key = Management
           IN [name |-> r.name, password |-> r.password]
      ELSE NoOne

\* format_auth_rule and the rule put before all others: who may log in at ram, and
\* whether with the whole tree.  A rule with the administrator's name gives way to his;
\* the rule without a name gives way when there is no administrator.
Served(new) ==
    [names |-> [n \in Names |->
         IF n = new.admin.name THEN [password |-> new.admin.password, root |-> TRUE]
         ELSE [password |-> IF n \in Users THEN new.rules[n] ELSE 0, root |-> FALSE]],
     everyone |-> new.everyone /\ new.admin # NoOne]

NoAccounts == [rules |-> [n \in Users |-> 0], admin |-> NoOne, everyone |-> FALSE]
Silent == Served(NoAccounts)
HasUsers(served) == \E n \in Names : served.names[n].password # 0

-----------------------------------------------------------------------------
\* ram has been started by hand; union knows its accounts or has just been told of it.
RemoteInit ==
    /\ linked \in BOOLEAN
    /\ \E known \in SUBSET Users, everyone \in BOOLEAN :
         LET new == [rules |-> [n \in Users |-> IF n \in known THEN 1 ELSE 0],
                     admin |-> [name |-> Admin, password |-> 1], everyone |-> everyone]
         IN /\ started = Served(new)
            /\ accounts = IF linked THEN Rows(new, 0) ELSE {}
    /\ memory = started
    /\ temporary = Silent /\ file = Silent
    /\ persists \in BOOLEAN
    /\ exists = TRUE
    /\ phase = [u \in Updates |-> "new"]
    /\ next = [u \in Updates |-> NoAccounts]
    /\ credential = [u \in Updates |-> NoOne]
    /\ view = [u \in Updates |-> {}]
    /\ held = [u \in Updates |-> {}]
    /\ ram = [u \in Updates |-> "none"]
    /\ kept = [u \in Updates |-> {}]
    /\ single = [u \in Updates |-> FALSE]
    /\ prior = [u \in Updates |-> 0]
    /\ latest = 0
    /\ forgotten = FALSE

\* existing_passwords
Stored(n) == Password(accounts, n)

\* resolve_password: 0 is an empty field.
Resolve(n, password) == IF password # 0 THEN password ELSE Stored(n)

\* normalize_management_auth, when a name is given.
ResolveAdmin(name, password, submitted) ==
    IF password # 0 THEN password
    ELSE IF name \in Users /\ submitted[name] # 0 THEN submitted[name]
    ELSE IF Administrator(accounts).name = name THEN Administrator(accounts).password
    ELSE 0

\* What may be typed for the administrator: nothing, something new, or, as long as union
\* does not know it, the password ram was started with.
Passwords(u) == {0, u + 1} \cup IF Administrator(accounts) = NoOne THEN {1} ELSE {}

\* Rules and administrator as the request has them, completed; ordinary rules of
\* `empty` are kept as they are, `dropped` are left out.
Complete(u, dropped, empty, who, password, everyone) ==
    LET submitted == [n \in Users |->
            IF n \in dropped THEN 0 ELSE Resolve(n, IF n \in empty THEN 0 ELSE u + 1)]
    IN [rules |-> submitted,
        admin |-> IF who = NoName THEN NoOne
                  ELSE [name |-> who, password |-> ResolveAdmin(who, password, submitted)],
        everyone |-> everyone]

\* Mutant: ram is asked with the new password.
Credential_New(new) == IF new.admin = NoOne THEN Administrator(accounts) ELSE new.admin

\* The account ram knows is the one stored so far, or else the one that comes.
Credential(new) == IF Administrator(accounts) = NoOne THEN new.admin ELSE Administrator(accounts)

Takes(u, new) ==
    /\ next' = [next EXCEPT ![u] = new]
    /\ credential' = [credential EXCEPT ![u] = Credential(new)]
    /\ prior' = [prior EXCEPT ![u] = latest]
    /\ single' = [v \in Updates |->
         IF v = u THEN \A w \in Updates \ {u} : ~UnderWay(w) ELSE single[v] /\ ~UnderWay(v)]

\* update_auth_for up to the transaction: a new name without a password is refused,
\* and so is a ram without an administrator, and neither has any effect.
Read(u) ==
    /\ phase[u] = "new"
    /\ \A v \in Updates : v < u => phase[v] # "new"
    /\ \E dropped \in SUBSET Users, who \in Names \cup {NoName}, password \in Passwords(u) :
       \E empty \in SUBSET (Users \ dropped), everyone \in BOOLEAN :
         LET new == Complete(u, dropped, empty, who, password, everyone)
         IN /\ \A n \in Users \ dropped : new.rules[n] # 0
            /\ who # NoName => new.admin.password # 0
            /\ Credential(new) # NoOne
            /\ Takes(u, new)
            /\ kept' = [kept EXCEPT ![u] = empty]
    /\ phase' = [phase EXCEPT ![u] = "read"]
    /\ UNCHANGED <<tables, ram, ramState, ramStart, latest, forgotten>>

\* BEGIN, on another connection, and the first DELETE begins.
Begin(u) ==
    /\ phase[u] = "read"
    /\ phase' = [phase EXCEPT ![u] = "permissions"]
    /\ view' = [view EXCEPT ![u] = {r \in accounts : IsOrdinary(r)}]
    /\ UNCHANGED <<sending, held, accounts, exists, ram, ramState, ramStart, marks>>

\* What another transaction has begun to delete and not yet committed.
Locked(u) == UNION {held[v] : v \in Updates \ {u}}

\* DELETE FROM service_account_permissions, and the other DELETE begins.  The account
\* of the administrator has no permissions: here its row is waited for by nobody.
DeletePermissions(u) ==
    /\ phase[u] = "permissions"
    /\ view[u] \cap Locked(u) = {}
    /\ held' = [held EXCEPT ![u] = view[u] \cap accounts]
    /\ view' = [view EXCEPT ![u] = accounts]
    /\ phase' = [phase EXCEPT ![u] = "accounts"]
    /\ UNCHANGED <<sending, accounts, exists, ram, ramState, ramStart, marks>>

Leaves(u) == /\ view' = [view EXCEPT ![u] = {}]
             /\ held' = [held EXCEPT ![u] = {}]

\* UNIQUE (service_name, account_key)
Clashes(rows, others) == \E r \in rows, o \in others : r.key = o.key

\* DELETE FROM service_accounts ends, the new rows are inserted, COMMIT.
Replace(u) ==
    /\ phase[u] = "accounts"
    /\ view[u] \cap Locked(u) = {}
    /\ ~Clashes(Rows(next[u], u), accounts \ view[u])
    /\ accounts' = (accounts \ view[u]) \cup Rows(next[u], u)
    /\ Leaves(u)
    /\ latest' = u
    /\ phase' = [phase EXCEPT ![u] = "saved"]
    /\ UNCHANGED <<sending, exists, ram, ramState, ramStart, single, forgotten>>

\* A key is taken, a statement fails, or the client goes: nothing is stored.  (If the
\* client goes at the COMMIT it may be: Replace and GiveUp.)
RollBack(u) ==
    /\ phase[u] \in {"read", "permissions", "accounts"}
    /\ Leaves(u)
    /\ phase' = [phase EXCEPT ![u] = "failed"]
    /\ UNCHANGED <<sending, accounts, exists, ram, ramState, ramStart, marks>>

\* insert_audit, then apply_remote_auth: the record is read and the PUT goes out.
SendRules(u) ==
    /\ phase[u] = "saved"
    /\ exists
    /\ phase' = [phase EXCEPT ![u] = "sent"]
    /\ ram' = [ram EXCEPT ![u] = "sent"]
    /\ UNCHANGED <<sending, tables, ramState, ramStart, marks>>

\* The audit record fails, the ram is gone from the table or cannot be reached, ten
\* seconds have passed, or the client goes.  What was sent may still be served.
GiveUp(u) ==
    /\ phase[u] \in {"saved", "sent"}
    /\ phase' = [phase EXCEPT ![u] = "unapplied"]
    /\ UNCHANGED <<sending, tables, ram, ramState, ramStart, marks>>

\* delete_ram_instance
DeleteInstance ==
    /\ exists
    /\ exists' = FALSE
    /\ accounts' = {}
    /\ UNCHANGED <<phase, sending, view, held, ram, ramState, ramStart, marks>>

-----------------------------------------------------------------------------
\* ram answers; union may have given up.
Answers(u, result) ==
    /\ ram' = [ram EXCEPT ![u] = "none"]
    /\ phase' = [phase EXCEPT ![u] = IF @ = "sent" THEN result ELSE @]

Accepted(account) ==
    /\ account.name \in Names
    /\ memory.names[account.name] = [password |-> account.password, root |-> TRUE]

\* guard("/", PUT); the read lock is given back.
Admit(u) ==
    /\ ram[u] = "sent"
    /\ Accepted(credential[u])
    /\ ram' = [ram EXCEPT ![u] = "admitted"]
    /\ UNCHANGED <<phase, sending, tables, ramState, ramStart, marks>>

\* 401
Refuse(u) ==
    /\ ram[u] = "sent"
    /\ ~Accepted(credential[u])
    /\ Answers(u, "unapplied")
    /\ UNCHANGED <<sending, tables, ramState, ramStart, marks>>

\* 400: no rules, or none with a name.
Reject(u) ==
    /\ ram[u] = "admitted"
    /\ ~HasUsers(Served(next[u]))
    /\ Answers(u, "unapplied")
    /\ UNCHANGED <<sending, tables, ramState, ramStart, marks>>

\* Mutant: the rules are not kept on disk.
Persist_Never(u) ==
    /\ ram[u] = "admitted"
    /\ HasUsers(Served(next[u]))
    /\ ram' = [ram EXCEPT ![u] = "stored"]
    /\ UNCHANGED <<phase, sending, tables, ramState, ramStart, marks>>

\* persist_auth_rules up to the rename; the temporary file has one name for all.
Persist(u) ==
    /\ ram[u] = "admitted"
    /\ HasUsers(Served(next[u]))
    /\ IF persists
         THEN /\ temporary' = Served(next[u])
              /\ ram' = [ram EXCEPT ![u] = "written"]
         ELSE ram' = [ram EXCEPT ![u] = "stored"] /\ UNCHANGED temporary
    /\ UNCHANGED <<phase, sending, tables, memory, file, ramStart, marks>>

RenameState(u) ==
    /\ ram[u] = "written"
    /\ temporary # Silent
    /\ file' = temporary /\ temporary' = Silent
    /\ ram' = [ram EXCEPT ![u] = "stored"]
    /\ UNCHANGED <<phase, sending, tables, memory, ramStart, marks>>

\* Another request has taken the temporary file, or the disk is full: 500.
RenameFails(u) ==
    /\ ram[u] = "written"
    /\ Answers(u, "unapplied")
    /\ UNCHANGED <<sending, tables, ramState, ramStart, marks>>

\* *self.auth.write().await = next
Store(u) ==
    /\ ram[u] = "stored"
    /\ memory' = Served(next[u])
    /\ Answers(u, "applied")
    /\ UNCHANGED <<sending, tables, temporary, file, ramStart, marks>>

\* Args::parse: the state file, when there is one, is taken instead of --auth.
Restart ==
    /\ memory' = IF file # Silent THEN file ELSE started
    /\ ram' = [u \in Updates |-> "none"]
    /\ forgotten' = (forgotten \/ ~persists)
    /\ UNCHANGED <<phase, sending, tables, temporary, file, ramStart, single, latest>>

-----------------------------------------------------------------------------
UpdateStep(u) ==
    \/ Read(u) \/ Begin(u) \/ DeletePermissions(u) \/ Replace(u) \/ RollBack(u) \/ SendRules(u) \/ GiveUp(u)
    \/ Admit(u) \/ Refuse(u) \/ Reject(u) \/ Persist(u) \/ RenameState(u) \/ RenameFails(u) \/ Store(u)

RemoteNext == DeleteInstance \/ Restart \/ \E u \in Updates : UpdateStep(u)

RemoteSpec == RemoteInit /\ [][RemoteNext]_remoteVars

-----------------------------------------------------------------------------
Account == [name : Names \cup {NoName}, password : 0 .. MaxUpdates + 1]
Accounts == [rules : [Users -> 0 .. MaxUpdates + 1], admin : Account, everyone : BOOLEAN]
NamedRows == [key : Users \cup {Management}, name : Names, password : 0 .. MaxUpdates + 1, by : 0 .. MaxUpdates]
Table == SUBSET (NamedRows \cup [key : {Everyone}, name : {NoName}, password : {0}, by : 0 .. MaxUpdates])
ServedRules ==
    [names : [Names -> [password : 0 .. MaxUpdates + 1, root : BOOLEAN]], everyone : BOOLEAN]

RemoteTypeOK ==
    /\ phase \in [Updates -> Ended \cup {"new", "read", "permissions", "accounts", "saved", "sent"}]
    /\ next \in [Updates -> Accounts] /\ credential \in [Updates -> Account]
    /\ view \in [Updates -> Table] /\ held \in [Updates -> Table] /\ accounts \in Table
    /\ ram \in [Updates -> {"none", "sent", "admitted", "written", "stored"}]
    /\ {memory, temporary, file, started} \subseteq ServedRules
    /\ {exists, persists, linked, forgotten} \subseteq BOOLEAN
    /\ kept \in [Updates -> SUBSET Users] /\ single \in [Updates -> BOOLEAN]
    /\ prior \in [Updates -> 0 .. MaxUpdates] /\ latest \in 0 .. MaxUpdates

Quiet == \A u \in Updates : ~UnderWay(u)

\* What the rows of a table say of logins, and of everybody.
Admits(rows, n, login) ==
    IF n = Administrator(rows).name
      THEN login = [password |-> Administrator(rows).password, root |-> TRUE]
      ELSE login = [password |-> Password(rows, n), root |-> FALSE]
OpenTo(rows) == \E r \in rows : r.key = Everyone

\* "已热更新" (ram_auth/service.rs:224): when an update that met no other was answered as
\* applied, the database has its accounts, and the memory of ram and its state file admit
\* whom the database does, with the same passwords, whatever updates were refused before or
\* after, and across restarts of ram.  Everybody comes in as the database says as long as
\* it has an administrator; without one ram lets nobody in whom it has no account of.
AppliedIsServed ==
    Quiet /\ exists /\ latest # 0 /\ single[latest] /\ phase[latest] = "applied" /\ ~forgotten =>
        /\ accounts = Rows(next[latest], latest)
        /\ \A n \in Names : Admits(accounts, n, memory.names[n])
        /\ memory.everyone <=> OpenTo(accounts) /\ Administrator(accounts) # NoOne
        /\ persists => file = memory

\* After update u, 0 for the start, union and ram share an administrator.
Agreed(u) == IF u = 0 THEN linked ELSE phase[u] = "applied" /\ single[u] /\ next[u].admin # NoOne

\* HAZARD: the account union authenticates with is committed before ram has taken it.
\* ram refuses an update that met no other only if it was restarted without a state file, or
\* the last one before was not applied, met another, or removed the administrator.
RefusedForCause == \A u \in Updates :
    Refuse(u) /\ single[u] /\ exists => forgotten \/ ~Agreed(prior[u])

\* HAZARD: a password left empty is completed from accounts that were read outside the
\* transaction.  It stays what it is unless another update was under way.
KeepsPasswords == \A u \in Updates :
    Replace(u) /\ single[u] /\ exists =>
        \A n \in kept[u] : Password(accounts', n) = Password(accounts, n)

UpdatesAreSound == [][RefusedForCause /\ KeepsPasswords]_remoteVars
=============================================================================
