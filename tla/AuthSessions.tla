---------------------------- MODULE AuthSessions ----------------------------
(***************************************************************************)
(* The administrator's password, sessions and login throttle of union      *)
(* (routes/auth.rs, routes/access_control.rs, app_config/runtime.rs; the   *)
(* copies in unionc differ only in names).                                 *)
(*                                                                         *)
(* A step is the code between two awaits.  bcrypt runs on a blocking       *)
(* thread that owns its permit: when the client disconnects the handler    *)
(* is dropped, the thread goes on.  Passwords are the numbers of the       *)
(* writes that stored them, 0 is a password never set; a bcrypt hash is    *)
(* the password it verifies.  A list of instants is kept as its counts: the   *)
(* number of instants younger than k ticks, for k up to the window.        *)
(***************************************************************************)
EXTENDS Naturals, FiniteSets

CONSTANTS
    Requests,   \* concurrent HTTP requests
    Names,      \* user names that appear in logins
    Admin,      \* the configured administrator
    Watched,    \* names whose refused passwords the history records
    Tokens,     \* session tokens
    NoToken,
    MaxUser,    \* MAX_LOGIN_ATTEMPTS
    MaxGlobal,  \* MAX_GLOBAL_LOGIN_ATTEMPTS
    Window,     \* LOGIN_WINDOW, in ticks
    MaxBcrypt,  \* permits of bcrypt_limit
    MaxWrites   \* bound: writes of the local configuration

ASSUME AuthAssumption ==
    /\ Admin \in Names
    /\ Watched \subseteq Names
    /\ NoToken \notin Tokens
    /\ IsFiniteSet(Requests)
    /\ MaxUser \in Nat \ {0}
    /\ MaxGlobal \in Nat \ {0}
    /\ Window \in Nat \ {0}
    /\ MaxBcrypt \in Nat \ {0}
    /\ MaxWrites \in Nat

VARIABLES
    pc,         \* pc[r]: the await at which request r stands
    name,       \* name[r]: user name of a login
    pw,         \* pw[r]: the password the client sent
    tok,        \* tok[r]: the session cookie of a change of password
    hash,       \* hash[r]: the hash r read, or the one it wrote
    mem,        \* AuthState.local_config
    disk,       \* the configuration file
    writes,     \* number of writes: the next version
    sessions,   \* AuthState.sessions: the password that opened t, 0 for none
    expired,    \* sessions past their 7 days, not yet swept
    free,       \* free bcrypt permits
    orphans,    \* bcrypt threads whose request was dropped
    global,     \* login_attempts.global
    byUser,     \* login_attempts.by_username
    acked,      \* history: newest versions reported as stored
    floor,      \* history: floor[r]: password in force when r arrived
    spared,     \* history: the session the last purge kept
    late,       \* history: sessions opened by a password already replaced
    unpurged,   \* history: a write was not followed by its purge
    wrong       \* history: wrong[n]: the refused passwords of n

local   == <<pc, name, pw, tok, hash, floor>>
config  == <<mem, disk, writes, acked>>
session == <<sessions, expired, spared, late, unpurged>>
permits == <<free, orphans>>
limiter == <<global, byUser, wrong>>
vars == <<local, config, session, permits, limiter>>

LoginPcs  == {"readHash", "loginTask", "clear", "session"}
ChangePcs == {"currentHash", "checkTask", "newHash", "hashTask", "write", "purge"}
Pcs == {"idle", "writeUrl"} \cup LoginPcs \cup ChangePcs
Tasks == {"loginTask", "checkTask", "hashTask"}     \* a bcrypt thread runs
Holding == Tasks \cup {"readHash"}                  \* a permit is held
Configs == [hash : Nat, url : Nat]

\* Counts of instants; retain drops those older than the window before they
\* are counted.
Counts == {c \in [0..Window -> Nat] :
              c[0] = 0 /\ \A j, k \in 0..Window : j <= k => c[j] <= c[k]}
None == [k \in 0..Window |-> 0]
AndNow(counts) == [k \in 0..Window |-> IF k = 0 THEN 0 ELSE counts[k] + 1]
Older(counts) == [k \in 0..Window |-> IF k = 0 THEN 0 ELSE counts[k - 1]]
InWindow(counts) == counts[Window]

Stored == {t \in Tokens : sessions[t] # 0}
Live == Stored \ expired
Admits(n) == InWindow(global) < MaxGlobal /\ InWindow(byUser[n]) < MaxUser

-----------------------------------------------------------------------------
Init ==
    /\ pc = [r \in Requests |-> "idle"]
    /\ name = [r \in Requests |-> Admin]
    /\ pw = [r \in Requests |-> 0]
    /\ tok = [r \in Requests |-> NoToken]
    /\ hash = [r \in Requests |-> 0]
    /\ floor = [r \in Requests |-> 0]
    /\ mem = [hash |-> 1, url |-> 1]
    /\ disk = mem
    /\ acked = mem
    /\ writes = 1
    /\ sessions = [t \in Tokens |-> 0]
    /\ expired = {}
    /\ spared = {}
    /\ late = {}
    /\ unpurged = FALSE
    /\ free = MaxBcrypt
    /\ orphans = 0
    /\ global = None
    /\ byUser = [n \in Names |-> None]
    /\ wrong = [n \in Watched |-> None]

Goto(r, label) == pc' = [pc EXCEPT ![r] = label]

\* The response is sent, or the handler's future dropped.
Done(r) ==
    /\ Goto(r, "idle")
    /\ name' = [name EXCEPT ![r] = Admin]
    /\ pw' = [pw EXCEPT ![r] = 0]
    /\ tok' = [tok EXCEPT ![r] = NoToken]
    /\ hash' = [hash EXCEPT ![r] = 0]
    /\ floor' = [floor EXCEPT ![r] = 0]

\* HashMap::retain on the sessions, and what the history says of those kept.
\* Every lookup and insertion first retains the live ones.
RetainSessions(kept) ==
    /\ sessions' = [t \in Tokens |-> IF t \in kept THEN sessions[t] ELSE 0]
    /\ expired' = expired \cap kept
    /\ spared' = spared \cap kept
    /\ late' = late \cap kept

Tick ==
    /\ global' = Older(global)
    /\ byUser' = [n \in Names |-> Older(byUser[n])]
    /\ wrong' = [n \in Watched |-> Older(wrong[n])]
    /\ UNCHANGED <<local, config, session, permits>>

\* 7 days have passed since the login.
Expire(t) ==
    /\ t \in Live
    /\ expired' = expired \cup {t}
    /\ UNCHANGED <<local, config, sessions, spared, late, unpurged, permits, limiter>>

-----------------------------------------------------------------------------
(* login and basic_login. *)

\* Mutant: slots are left to be taken by the verdict.
Admit_NoSlot(r, n, p) ==
    /\ pc[r] = "idle"
    /\ Admits(n)
    /\ free > 0
    /\ free' = free - 1
    /\ Goto(r, "readHash")
    /\ name' = [name EXCEPT ![r] = n]
    /\ pw' = [pw EXCEPT ![r] = p]
    /\ floor' = [floor EXCEPT ![r] = mem.hash]
    /\ UNCHANGED <<tok, hash, config, session, orphans, limiter>>

\* The slot is taken before the permit and stays taken when there is none.
Admit(r, n, p) ==
    /\ pc[r] = "idle"
    /\ Admits(n)
    /\ global' = AndNow(global)
    /\ byUser' = [byUser EXCEPT ![n] = AndNow(@)]
    /\ IF free = 0
       THEN UNCHANGED <<local, free>>
       ELSE /\ free' = free - 1
            /\ Goto(r, "readHash")
            /\ name' = [name EXCEPT ![r] = n]
            /\ pw' = [pw EXCEPT ![r] = p]
            /\ floor' = [floor EXCEPT ![r] = mem.hash]
            /\ UNCHANGED <<tok, hash>>
    /\ UNCHANGED <<config, session, orphans, wrong>>

\* Mutant: the hash comes from the file.
ReadHash_File(r) ==
    /\ pc[r] = "readHash"
    /\ hash' = [hash EXCEPT ![r] = disk.hash]
    /\ Goto(r, "loginTask")
    /\ UNCHANGED <<name, pw, tok, floor, config, session, permits, limiter>>

\* The hash is cloned under the read lock, the comparison runs without it.
\* For an unknown name the dummy hash is verified.
ReadHash(r) ==
    /\ pc[r] = "readHash"
    /\ hash' = [hash EXCEPT ![r] = mem.hash]
    /\ Goto(r, "loginTask")
    /\ UNCHANGED <<name, pw, tok, floor, config, session, permits, limiter>>

LoginTask(r) ==
    /\ pc[r] = "loginTask"
    /\ free' = free + 1
    /\ \/ /\ name[r] = Admin /\ pw[r] = hash[r]
          /\ Goto(r, "clear")
          /\ pw' = [pw EXCEPT ![r] = 0]      \* moved into the thread
          /\ UNCHANGED <<name, tok, hash, floor, wrong>>
       \/ /\ name[r] # Admin \/ pw[r] # hash[r]
          /\ wrong' = [wrong EXCEPT ![name[r]] = AndNow(@)]
          /\ Done(r)
    /\ UNCHANGED <<config, session, orphans, global, byUser>>

\* A success forgets the attempts on this name, never the global ones.
ClearAttempts(r) ==
    /\ pc[r] = "clear"
    /\ byUser' = [byUser EXCEPT ![name[r]] = None]
    /\ wrong' = [wrong EXCEPT ![name[r]] = None]
    /\ Goto(r, "session")
    /\ UNCHANGED <<name, pw, tok, hash, floor, config, session, permits, global>>

\* A token is a fresh UUID: none that is stored or presented by a request.
CreateSession(r) ==
    /\ pc[r] = "session"
    /\ \E t \in Tokens :
          /\ t \notin Stored
          /\ \A s \in Requests : tok[s] # t
          /\ sessions' = [s \in Tokens |-> CASE s = t -> hash[r]
                                            [] s \in Live -> sessions[s]
                                            [] OTHER -> 0]
          /\ late' = (late \cap Live) \cup (IF hash[r] = mem.hash THEN {} ELSE {t})
    /\ expired' = {}
    /\ spared' = spared \cap Live
    /\ Done(r)
    /\ UNCHANGED <<config, unpurged, permits, limiter>>

-----------------------------------------------------------------------------
(* logout, and any other authenticated request: the lookup sweeps. *)

Logout(t) ==
    /\ t \in Live
    /\ RetainSessions(Live \ {t})
    /\ UNCHANGED <<local, config, unpurged, permits, limiter>>

-----------------------------------------------------------------------------
(* change_password. *)

StartChange(r, t, p) ==
    /\ pc[r] = "idle"
    /\ t \in Live
    /\ RetainSessions(Live)
    /\ Goto(r, "currentHash")
    /\ tok' = [tok EXCEPT ![r] = t]
    /\ pw' = [pw EXCEPT ![r] = p]
    /\ floor' = [floor EXCEPT ![r] = mem.hash]
    /\ UNCHANGED <<name, hash, config, unpurged, permits, limiter>>

CurrentHash(r) ==
    /\ pc[r] = "currentHash"
    /\ IF free = 0
       THEN Done(r) /\ UNCHANGED free
       ELSE /\ free' = free - 1
            /\ hash' = [hash EXCEPT ![r] = mem.hash]
            /\ Goto(r, "checkTask")
            /\ UNCHANGED <<name, pw, tok, floor>>
    /\ UNCHANGED <<config, session, orphans, limiter>>

\* The second disjunct also stands for a new password that is too short.
CheckTask(r) ==
    /\ pc[r] = "checkTask"
    /\ free' = free + 1
    /\ \/ /\ pw[r] = hash[r]
          /\ Goto(r, "newHash")
          /\ pw' = [pw EXCEPT ![r] = 0]      \* both moved into the thread
          /\ hash' = [hash EXCEPT ![r] = 0]
          /\ UNCHANGED <<name, tok, floor>>
       \/ Done(r)
    /\ UNCHANGED <<config, session, orphans, limiter>>

\* The second permit is asked for anew: others may have taken it.
NewHash(r) ==
    /\ pc[r] = "newHash"
    /\ IF free = 0
       THEN Done(r) /\ UNCHANGED free
       ELSE free' = free - 1 /\ Goto(r, "hashTask") /\ UNCHANGED <<name, pw, tok, hash, floor>>
    /\ UNCHANGED <<config, session, orphans, limiter>>

HashTask(r) ==
    /\ pc[r] = "hashTask"
    /\ free' = free + 1
    /\ Goto(r, "write")
    /\ UNCHANGED <<name, pw, tok, hash, floor, config, session, orphans, limiter>>

\* save_local_config writes the whole configuration to a temporary file and
\* renames it; an error before the rename leaves the old file, one after it
\* (sync of the directory, mode of the file) the new one.
\* Mutant Saved_Swallowed: errors of the save are ignored.
Saved_Swallowed == disk' \in {disk, mem'}
Saved == disk' = mem'
SaveFailed == disk' \in {disk, mem'}

\* Memory is assigned first, under the write lock that covers the save.
WriteConfig(r) ==
    /\ pc[r] = "write"
    /\ writes <= MaxWrites
    /\ writes' = writes + 1
    /\ mem' = [mem EXCEPT !.hash = writes']
    /\ \/ /\ Saved
          /\ hash' = [hash EXCEPT ![r] = writes']
          /\ Goto(r, "purge")
          /\ UNCHANGED <<name, pw, tok, floor, unpurged>>
       \/ SaveFailed /\ unpurged' = TRUE /\ Done(r)
    /\ UNCHANGED <<acked, sessions, expired, spared, late, permits, limiter>>

\* Mutant: only the expired sessions are removed.
Purge_Expired(r) ==
    /\ pc[r] = "purge"
    /\ RetainSessions(Live)
    /\ unpurged' = FALSE
    /\ acked' = [acked EXCEPT !.hash = IF @ < hash[r] THEN hash[r] ELSE @]
    /\ Done(r)
    /\ UNCHANGED <<mem, disk, writes, permits, limiter>>

Purge(r) ==
    /\ pc[r] = "purge"
    /\ sessions' = [t \in Tokens |-> IF t = tok[r] THEN sessions[t] ELSE 0]
    /\ expired' = expired \cap {tok[r]}
    /\ late' = late \cap {tok[r]}
    /\ spared' = {tok[r]} \cap Stored
    /\ unpurged' = FALSE
    /\ acked' = [acked EXCEPT !.hash = IF @ < hash[r] THEN hash[r] ELSE @]
    /\ Done(r)
    /\ UNCHANGED <<mem, disk, writes, permits, limiter>>

-----------------------------------------------------------------------------
(* update_database_config: the candidate is connected and migrated, then the *)
(* same configuration is rewritten.                                          *)

StartUrl(r) ==
    /\ pc[r] = "idle"
    /\ Live # {}
    /\ Goto(r, "writeUrl")
    /\ UNCHANGED <<name, pw, tok, hash, floor, config, session, permits, limiter>>

WriteUrl(r) ==
    /\ pc[r] = "writeUrl"
    /\ writes <= MaxWrites
    /\ writes' = writes + 1
    /\ mem' = [mem EXCEPT !.url = writes']
    /\ \/ Saved /\ acked' = [acked EXCEPT !.url = writes']
       \/ SaveFailed /\ UNCHANGED acked
    /\ Done(r)
    /\ UNCHANGED <<session, permits, limiter>>

-----------------------------------------------------------------------------
(* Dropped requests and restarts. *)

Cancel(r) ==
    /\ pc[r] # "idle"
    /\ free' = IF pc[r] = "readHash" THEN free + 1 ELSE free
    /\ orphans' = IF pc[r] \in Tasks THEN orphans + 1 ELSE orphans
    /\ unpurged' = (unpurged \/ pc[r] = "purge")
    /\ Done(r)
    /\ UNCHANGED <<config, sessions, expired, spared, late, limiter>>

\* Mutant: the permit was forgotten.
OrphanEnds_Forgets ==
    /\ orphans > 0
    /\ orphans' = orphans - 1
    /\ UNCHANGED <<free, local, config, session, limiter>>

OrphanEnds ==
    /\ orphans > 0
    /\ orphans' = orphans - 1
    /\ free' = free + 1
    /\ UNCHANGED <<local, config, session, limiter>>

\* Sessions, attempts and permits live in memory, the configuration is reloaded.
Restart ==
    /\ pc' = [r \in Requests |-> "idle"]
    /\ name' = [r \in Requests |-> Admin]
    /\ pw' = [r \in Requests |-> 0]
    /\ tok' = [r \in Requests |-> NoToken]
    /\ hash' = [r \in Requests |-> 0]
    /\ floor' = [r \in Requests |-> 0]
    /\ mem' = disk
    /\ sessions' = [t \in Tokens |-> 0]
    /\ expired' = {}
    /\ spared' = {}
    /\ late' = {}
    /\ unpurged' = FALSE
    /\ free' = MaxBcrypt
    /\ orphans' = 0
    /\ global' = None
    /\ byUser' = [n \in Names |-> None]
    /\ wrong' = [n \in Watched |-> None]
    /\ UNCHANGED <<disk, writes, acked>>

-----------------------------------------------------------------------------
Passwords == 0..writes

Login(r) == \/ \E n \in Names, p \in Passwords : Admit(r, n, p)
            \/ ReadHash(r) \/ LoginTask(r) \/ ClearAttempts(r) \/ CreateSession(r)
Change(r) == \/ \E t \in Tokens, p \in Passwords : StartChange(r, t, p)
             \/ CurrentHash(r) \/ CheckTask(r) \/ NewHash(r) \/ HashTask(r)
             \/ WriteConfig(r) \/ Purge(r)

Next ==
    \/ \E r \in Requests : Login(r) \/ Change(r) \/ StartUrl(r) \/ WriteUrl(r) \/ Cancel(r)
    \/ \E t \in Tokens : Logout(t) \/ Expire(t)
    \/ Tick
    \/ OrphanEnds
    \/ Restart

Spec == Init /\ [][Next]_vars

\* Time passes, and a bcrypt computation ends.
Fairness ==
    /\ WF_vars(Tick)
    /\ WF_vars(OrphanEnds)
    /\ \A r \in Requests :
          /\ WF_vars(ReadHash(r))
          /\ WF_vars(LoginTask(r) \/ CheckTask(r) \/ HashTask(r))

FairSpec == Spec /\ Fairness

-----------------------------------------------------------------------------
RequestType ==
    /\ pc \in [Requests -> Pcs]
    /\ name \in [Requests -> Names]
    /\ pw \in [Requests -> Nat]
    /\ tok \in [Requests -> Tokens \cup {NoToken}]
    /\ hash \in [Requests -> Nat]
    /\ floor \in [Requests -> Nat]

ConfigType ==
    /\ mem \in Configs /\ disk \in Configs /\ acked \in Configs
    /\ writes \in Nat

SessionType ==
    /\ sessions \in [Tokens -> Nat]
    /\ expired \subseteq Stored
    /\ spared \subseteq Tokens /\ late \subseteq Tokens
    /\ unpurged \in BOOLEAN

PermitType == free \in Nat /\ orphans \in Nat

LimiterType ==
    /\ global \in Counts
    /\ byUser \in [Names -> Counts]
    /\ wrong \in [Watched -> Counts]

TypeOK == RequestType /\ ConfigType /\ SessionType /\ PermitType /\ LimiterType

\* HAZARD: bcrypt is expensive; a permit released while its thread still runs,
\* or never released, would exceed or exhaust bcrypt_limit (a dropped request
\* leaves the thread running with its permit).
PermitsConserved ==
    free + orphans + Cardinality({r \in Requests : pc[r] \in Holding}) = MaxBcrypt

\* HAZARD: attempts in flight when older ones leave the window are counted by
\* neither.  The slots and the permits together still bound the answers "wrong
\* password" for a name within one window (without a success in between).
GuessesBounded ==
    \A n \in Watched : InWindow(wrong[n]) <= MaxUser + MaxBcrypt

\* HAZARD: a change reported as done is in the file that the next start reads,
\* whatever writes of the other field, failed saves and restarts came between.
AckedIsDurable ==
    disk.hash >= acked.hash /\ disk.url >= acked.url

\* HAZARD: bcrypt runs without the lock.  A password that was no longer in force
\* when a login arrived never opens a session, not even after a failed save.
OldPasswordIsDead ==
    \A r \in Requests : pc[r] \in {"clear", "session"} => hash[r] >= floor[r]

\* HAZARD: a session opened by a replaced password survives only because the
\* purge kept it, is still to run or was skipped (failed save, dropped request),
\* or because its login had verified the old hash before the write.
OldSessionsHaveExcuse ==
    \A t \in Stored : sessions[t] # mem.hash =>
        t \in spared \cup late \/ unpurged \/ \E r \in Requests : pc[r] = "purge"

\* HAZARD (liveness): attempts that the limit refuses take no slot, so a name is admitted
\* again and again however many requests arrive.
LockoutEnds == \A n \in Names : []<>Admits(n)

\* HAZARD (liveness): permits come back, also those of dropped requests.
PermitsReturn == (free = 0) ~> (free > 0)

\* Both: no name and no permit stays taken for ever.  Who gets the next slot is not said:
\* a stream of wrong passwords may take each one that comes free.
LimitsEnd == LockoutEnds /\ PermitsReturn

\* Violated.  "修改密码，使其他设备会话失效" (auth.rs:259): a session that a change has ended
\* does not replace the new password.  The session is looked up on arrival only.
EndedSessionChangesNothing ==
    [][\A r \in Requests : pc[r] = "write" /\ pc'[r] = "purge" =>
          tok[r] \in Stored \/ spared = {} \/ floor[r] = mem.hash]_vars
=============================================================================
