---------------------------- MODULE HostRegistry ----------------------------
(***************************************************************************)
(* The registries of Sunshine and Proxmox hosts of union                   *)
(* (routes/sunshine/hosts.rs, routes/proxmox/hosts.rs,                     *)
(* database/settings.rs): two lists in memory, one table that every edit   *)
(* rewrites in one transaction from both lists, and one mutex.             *)
(*                                                                         *)
(* A step is the code between two awaits; a handler is dropped when its    *)
(* client disconnects.  A host is a version number, 0 when absent.         *)
(***************************************************************************)
EXTENDS Naturals

CONSTANTS
    Requests,   \* concurrent HTTP requests
    Hosts,      \* host ids
    Sunshine,   \* those of them that are Sunshine hosts; the others are Proxmox
    NoHost,
    NoRequest,  \* settings_lock is free
    MaxEdits    \* bound: edits that arrive

ASSUME HostAssumption ==
    /\ Sunshine \subseteq Hosts
    /\ NoHost \notin Hosts
    /\ NoRequest \notin Requests
    /\ MaxEdits \in Nat

VARIABLES
    await,      \* await[r]: the await at which request r stands
    op,         \* op[r]: what it does to a host
    target,     \* target[r]: that host
    value,      \* value[r]: what it stores, 0 to delete
    copy,       \* copy[r]: its clone of the registries
    lock,       \* HostState.settings_lock
    mem,        \* HostState.sunshine and HostState.proxmox
    db,         \* external_hosts
    edits,      \* edits so far: the next version
    acked,      \* history: what the clients were last told
    unsettled   \* history: hosts with a later edit that was not acknowledged

local == <<await, op, target, value, copy>>
hostVars == <<local, lock, mem, db, edits, acked, unsettled>>

Awaits == {"idle", "lock", "edit", "save", "audit", "publish", "probe"}
Ops == {"create", "update", "delete"}
Kind(h) == IF h \in Sunshine THEN Sunshine ELSE Hosts \ Sunshine
Registry == [Hosts -> Nat]
Empty == [h \in Hosts |-> 0]

-----------------------------------------------------------------------------
HostInit ==
    /\ await = [r \in Requests |-> "idle"]
    /\ op = [r \in Requests |-> "update"]
    /\ target = [r \in Requests |-> NoHost]
    /\ value = [r \in Requests |-> 0]
    /\ copy = [r \in Requests |-> Empty]
    /\ lock = NoRequest
    /\ mem \in [Hosts -> {0, 1}]
    /\ db = mem
    /\ acked = mem
    /\ unsettled = {}
    /\ edits = 1

Goto(r, label) == await' = [await EXCEPT ![r] = label] /\ UNCHANGED <<op, target, value>>

\* The handler returns or is dropped: so is its guard.
Done(r) ==
    /\ await' = [await EXCEPT ![r] = "idle"]
    /\ op' = [op EXCEPT ![r] = "update"]
    /\ target' = [target EXCEPT ![r] = NoHost]
    /\ value' = [value EXCEPT ![r] = 0]
    /\ copy' = [copy EXCEPT ![r] = Empty]
    /\ lock' = IF lock = r THEN NoRequest ELSE lock

\* create_host, update_host and delete_host of either kind.
Arrive(r, kind, h, new) ==
    /\ await[r] = "idle"
    /\ edits <= MaxEdits
    /\ edits' = edits + 1
    /\ await' = [await EXCEPT ![r] = "lock"]
    /\ op' = [op EXCEPT ![r] = kind]
    /\ target' = [target EXCEPT ![r] = h]
    /\ value' = [value EXCEPT ![r] = new]
    /\ UNCHANGED <<copy, lock, mem, db, acked, unsettled>>

\* The id of a new host is a fresh UUID: nobody knows it yet.
Create(r, h) ==
    /\ mem[h] = 0 /\ db[h] = 0
    /\ \A q \in Requests : target[q] # h
    /\ Arrive(r, "create", h, edits + 1)
Update(r, h) == Arrive(r, "update", h, edits + 1)
Delete(r, h) == Arrive(r, "delete", h, 0)

\* Mutant: the mutex is not taken.
Lock_Free(r) ==
    /\ await[r] = "lock"
    /\ lock' = r
    /\ Goto(r, "edit")
    /\ UNCHANGED <<copy, mem, db, edits, acked, unsettled>>

Lock(r) ==
    /\ await[r] = "lock"
    /\ lock = NoRequest
    /\ lock' = r
    /\ Goto(r, "edit")
    /\ UNCHANGED <<copy, mem, db, edits, acked, unsettled>>

\* The list of the own kind is cloned and edited.  An update or a delete of a
\* host that is not, or no longer, in memory is refused.
Edit(r) ==
    /\ await[r] = "edit"
    /\ \/ /\ op[r] = "create" \/ mem[target[r]] # 0
          /\ copy' = [copy EXCEPT ![r] = [h \in Hosts |->
                IF h = target[r] THEN value[r]
                ELSE IF h \in Kind(target[r]) THEN mem[h] ELSE 0]]
          /\ Goto(r, "save")
          /\ UNCHANGED lock
       \/ op[r] # "create" /\ mem[target[r]] = 0 /\ Done(r)
    /\ UNCHANGED <<mem, db, edits, acked, unsettled>>

\* settings_with_hosts: the other kind comes from memory.
Settings(r) ==
    [h \in Hosts |-> IF h \in Kind(target[r]) THEN copy[r][h] ELSE mem[h]]

\* save_app_settings: delete all, insert all, commit.
Commit(r) ==
    /\ db' = Settings(r)
    /\ unsettled' = unsettled \cup {target[r]}

Save(r) ==
    /\ await[r] = "save"
    /\ \/ /\ Commit(r)
          /\ Goto(r, IF target[r] \in Sunshine THEN "audit" ELSE "publish")
          /\ UNCHANGED <<copy, lock>>
       \/ Commit(r) /\ Done(r)                       \* the answer to COMMIT is lost
       \/ UNCHANGED <<db, unsettled>> /\ Done(r)     \* rolled back
    /\ UNCHANGED <<mem, edits, acked>>

Audit(r) ==
    /\ await[r] = "audit"
    /\ Goto(r, "publish")
    /\ UNCHANGED <<copy, lock, mem, db, edits, acked, unsettled>>

AuditFails(r) ==
    /\ await[r] = "audit"
    /\ Done(r)
    /\ UNCHANGED <<mem, db, edits, acked, unsettled>>

Publish(r) ==
    /\ await[r] = "publish"
    /\ mem' = [h \in Hosts |-> IF h \in Kind(target[r]) THEN copy[r][h] ELSE mem[h]]
    /\ Goto(r, "probe")
    /\ UNCHANGED <<copy, lock, db, edits, acked, unsettled>>

\* An update probes the host before it answers, and holds the mutex meanwhile.
Answer(r) ==
    /\ await[r] = "probe"
    /\ acked' = [acked EXCEPT ![target[r]] = value[r]]
    /\ unsettled' = unsettled \ {target[r]}
    /\ Done(r)
    /\ UNCHANGED <<mem, db, edits>>

\* A dropped handler; the transaction it waited for may have been committed.
Cancel(r) ==
    /\ await[r] # "idle"
    /\ Done(r)
    /\ \/ await[r] = "save" /\ Commit(r)
       \/ UNCHANGED <<db, unsettled>>
    /\ UNCHANGED <<mem, edits, acked>>

\* load_or_seed_app_settings reads the table back.
Restart ==
    /\ mem' = db
    /\ lock' = NoRequest
    /\ await' = [r \in Requests |-> "idle"]
    /\ op' = [r \in Requests |-> "update"]
    /\ target' = [r \in Requests |-> NoHost]
    /\ value' = [r \in Requests |-> 0]
    /\ copy' = [r \in Requests |-> Empty]
    /\ UNCHANGED <<db, edits, acked, unsettled>>

HostStep(r) ==
    \/ \E h \in Hosts : Create(r, h) \/ Update(r, h) \/ Delete(r, h)
    \/ Lock(r) \/ Edit(r) \/ Save(r) \/ Audit(r) \/ AuditFails(r) \/ Publish(r) \/ Answer(r)
    \/ Cancel(r)

HostNext == (\E r \in Requests : HostStep(r)) \/ Restart

HostSpec == HostInit /\ [][HostNext]_hostVars

-----------------------------------------------------------------------------
HostTypeOK ==
    /\ await \in [Requests -> Awaits]
    /\ op \in [Requests -> Ops]
    /\ target \in [Requests -> Hosts \cup {NoHost}]
    /\ value \in [Requests -> Nat]
    /\ copy \in [Requests -> Registry]
    /\ lock \in Requests \cup {NoRequest}
    /\ mem \in Registry /\ db \in Registry /\ acked \in Registry
    /\ edits \in Nat
    /\ unsettled \subseteq Hosts

\* HAZARD: every edit rewrites the whole table, with the hosts of both kinds,
\* from what is in memory.  An edit that was acknowledged stays, in memory and in
\* the table, until a later edit of the same host: no concurrent edit of another
\* host, failed save, failed audit, dropped request or restart takes it back.
AckedEditsSurvive ==
    \A h \in Hosts \ unsettled : mem[h] = acked[h] /\ db[h] = acked[h]
=============================================================================
