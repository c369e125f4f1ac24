----------------------------- MODULE AuthProofs -----------------------------
(***************************************************************************)
(* Who comes through to the handlers of union.  Invariants of AuthSessions *)
(* for every set of requests, names and session tokens and every limit;    *)
(* and GateIsSound of RequestGate for any clients, sessions, tickets and   *)
(* times.                                                                  *)
(***************************************************************************)
EXTENDS AuthSessions, RequestGate, FiniteSetTheorems, TLAPS

USE AuthAssumption

-----------------------------------------------------------------------------
(* Types. *)

\* The operators on counts of instants keep their type.
LEMMA CountsType ==
    /\ None \in Counts
    /\ \A c \in Counts :
          /\ AndNow(c) \in Counts
          /\ Older(c) \in Counts
          /\ InWindow(c) \in Nat
<1>1. None \in Counts
  BY DEF None, Counts
<1>2. ASSUME NEW c \in Counts
      PROVE  AndNow(c) \in Counts /\ Older(c) \in Counts /\ InWindow(c) \in Nat
  <2>1. \A k \in 0 .. Window : k # 0 => k - 1 \in 0 .. Window
    OBVIOUS
  <2>2. \A k \in 0 .. Window : c[k] \in Nat
    BY DEF Counts
  <2>3. AndNow(c) \in Counts
    BY <2>2 DEF AndNow, Counts
  <2>4. Older(c) \in Counts
    BY <2>1, <2>2 DEF Older, Counts
  <2> QED BY <2>2, <2>3, <2>4 DEF InWindow
<1> QED BY <1>1, <1>2

LEMMA TypeInit == Init => TypeOK
<1> SUFFICES ASSUME Init PROVE TypeOK
  OBVIOUS
<1>1. RequestType
  BY DEF Init, RequestType, Pcs
<1>2. ConfigType /\ PermitType
  BY DEF Init, ConfigType, PermitType, Configs
<1>3. SessionType
  BY DEF Init, SessionType, Stored
<1>4. LimiterType
  BY CountsType DEF Init, LimiterType
<1> QED BY <1>1, <1>2, <1>3, <1>4 DEF TypeOK

\* A request that moves on, and one that ends, keep the types of the requests.
LEMMA RequestStep ==
    ASSUME RequestType, NEW r \in Requests
    PROVE  /\ Done(r) => RequestType'
           /\ \A l \in Pcs : Goto(r, l) => pc' \in [Requests -> Pcs]
  BY DEF RequestType, Done, Goto, Pcs

\* Sweeping keeps the types of the sessions.
LEMMA RetainType ==
    ASSUME SessionType, NEW kept, RetainSessions(kept), unpurged' \in BOOLEAN
    PROVE  SessionType'
  BY DEF SessionType, RetainSessions, Stored

LEMMA TypeLogin ==
    ASSUME TypeOK, NEW r \in Requests, Login(r)
    PROVE  TypeOK'
<1> USE DEF TypeOK, local, config, session, permits, limiter
<1> USE DEF ConfigType, PermitType, LimiterType
<1>1. ASSUME NEW n \in Names, NEW p \in Passwords, Admit(r, n, p)
      PROVE  TypeOK'
  <2>1. RequestType'
    BY <1>1 DEF Admit, RequestType, Goto, Pcs, LoginPcs, Passwords, Configs
  <2>2. LimiterType'
    BY <1>1, CountsType DEF Admit
  <2>3. ConfigType' /\ SessionType' /\ PermitType'
    BY <1>1 DEF Admit, SessionType, Stored
  <2> QED BY <2>1, <2>2, <2>3
<1>2. CASE ReadHash(r)
  <2>1. RequestType'
    BY <1>2 DEF ReadHash, RequestType, Goto, Pcs, LoginPcs, Configs
  <2>2. ConfigType' /\ SessionType' /\ PermitType' /\ LimiterType'
    BY <1>2 DEF ReadHash, SessionType, Stored
  <2> QED BY <2>1, <2>2
<1>3. CASE LoginTask(r)
  <2>1. RequestType'
    BY <1>3, RequestStep DEF LoginTask, RequestType, Goto, Pcs, LoginPcs
  <2>2. LimiterType'
    BY <1>3, CountsType DEF LoginTask
  <2>3. ConfigType' /\ SessionType' /\ PermitType'
    BY <1>3 DEF LoginTask, SessionType, Stored
  <2> QED BY <2>1, <2>2, <2>3
<1>4. CASE ClearAttempts(r)
  <2>1. RequestType'
    BY <1>4 DEF ClearAttempts, RequestType, Goto, Pcs, LoginPcs
  <2>2. LimiterType'
    BY <1>4, CountsType DEF ClearAttempts
  <2>3. ConfigType' /\ SessionType' /\ PermitType'
    BY <1>4 DEF ClearAttempts, SessionType, Stored
  <2> QED BY <2>1, <2>2, <2>3
<1>5. CASE CreateSession(r)
  <2>1. RequestType'
    BY <1>5, RequestStep DEF CreateSession
  <2>2. SessionType'
    BY <1>5 DEF CreateSession, SessionType, RequestType, Stored, Live
  <2>3. ConfigType' /\ PermitType' /\ LimiterType'
    BY <1>5 DEF CreateSession
  <2> QED BY <2>1, <2>2, <2>3
<1> QED BY <1>1, <1>2, <1>3, <1>4, <1>5 DEF Login

LEMMA TypeChange ==
    ASSUME TypeOK, NEW r \in Requests, Change(r)
    PROVE  TypeOK'
<1> USE DEF TypeOK, local, config, session, permits, limiter
<1> USE DEF ConfigType, PermitType, LimiterType
<1>1. ASSUME NEW t \in Tokens, NEW p \in Passwords, StartChange(r, t, p)
      PROVE  TypeOK'
  <2>1. RequestType'
    BY <1>1 DEF StartChange, RequestType, Goto, Pcs, ChangePcs, Passwords, Configs
  <2>2. SessionType'
    BY <1>1, RetainType DEF StartChange, SessionType
  <2>3. ConfigType' /\ PermitType' /\ LimiterType'
    BY <1>1 DEF StartChange
  <2> QED BY <2>1, <2>2, <2>3
<1>2. CASE CurrentHash(r)
  <2>1. RequestType'
    BY <1>2, RequestStep DEF CurrentHash, RequestType, Goto, Pcs, ChangePcs, Configs
  <2>2. ConfigType' /\ SessionType' /\ PermitType' /\ LimiterType'
    BY <1>2 DEF CurrentHash, SessionType, Stored
  <2> QED BY <2>1, <2>2
<1>3. CASE CheckTask(r)
  <2>1. RequestType'
    BY <1>3, RequestStep DEF CheckTask, RequestType, Goto, Pcs, ChangePcs
  <2>2. ConfigType' /\ SessionType' /\ PermitType' /\ LimiterType'
    BY <1>3 DEF CheckTask, SessionType, Stored
  <2> QED BY <2>1, <2>2
<1>4. CASE NewHash(r)
  <2>1. RequestType'
    BY <1>4, RequestStep DEF NewHash, RequestType, Goto, Pcs, ChangePcs
  <2>2. ConfigType' /\ SessionType' /\ PermitType' /\ LimiterType'
    BY <1>4 DEF NewHash, SessionType, Stored
  <2> QED BY <2>1, <2>2
<1>5. CASE HashTask(r)
  <2>1. RequestType'
    BY <1>5 DEF HashTask, RequestType, Goto, Pcs, ChangePcs
  <2>2. ConfigType' /\ SessionType' /\ PermitType' /\ LimiterType'
    BY <1>5 DEF HashTask, SessionType, Stored
  <2> QED BY <2>1, <2>2
<1>6. CASE WriteConfig(r)
  <2>1. ConfigType'
    BY <1>6 DEF WriteConfig, Saved, SaveFailed, Configs
  <2>2. RequestType'
    BY <1>6, RequestStep DEF WriteConfig, RequestType, Goto, Pcs, ChangePcs
  <2>3. SessionType' /\ PermitType' /\ LimiterType'
    BY <1>6 DEF WriteConfig, SessionType, Stored
  <2> QED BY <2>1, <2>2, <2>3
<1>7. CASE Purge(r)
  <2>1. ConfigType'
    BY <1>7 DEF Purge, Configs, RequestType
  <2>2. RequestType'
    BY <1>7, RequestStep DEF Purge
  <2>3. SessionType'
    BY <1>7 DEF Purge, SessionType, RequestType, Stored
  <2>4. PermitType' /\ LimiterType'
    BY <1>7 DEF Purge
  <2> QED BY <2>1, <2>2, <2>3, <2>4
<1> QED BY <1>1, <1>2, <1>3, <1>4, <1>5, <1>6, <1>7 DEF Change

LEMMA TypeRest ==
    ASSUME TypeOK,
           \/ \E r \in Requests : StartUrl(r) \/ WriteUrl(r) \/ Cancel(r)
           \/ \E t \in Tokens : Logout(t) \/ Expire(t)
           \/ Tick \/ OrphanEnds \/ Restart \/ UNCHANGED vars
    PROVE  TypeOK'
<1> USE DEF TypeOK, local, config, session, permits, limiter
<1> USE DEF ConfigType, PermitType, LimiterType
<1>1. ASSUME NEW r \in Requests, StartUrl(r)
      PROVE  TypeOK'
  <2>1. RequestType'
    BY <1>1 DEF StartUrl, RequestType, Goto, Pcs
  <2>2. ConfigType' /\ SessionType' /\ PermitType' /\ LimiterType'
    BY <1>1 DEF StartUrl, SessionType, Stored
  <2> QED BY <2>1, <2>2
<1>2. ASSUME NEW r \in Requests, WriteUrl(r)
      PROVE  TypeOK'
  <2>1. ConfigType'
    BY <1>2 DEF WriteUrl, Saved, SaveFailed, Configs
  <2>2. RequestType' /\ SessionType' /\ PermitType' /\ LimiterType'
    BY <1>2, RequestStep DEF WriteUrl, SessionType, Stored
  <2> QED BY <2>1, <2>2
<1>3. ASSUME NEW r \in Requests, Cancel(r)
      PROVE  TypeOK'
  <2>1. RequestType' /\ ConfigType' /\ PermitType' /\ LimiterType'
    BY <1>3, RequestStep DEF Cancel
  <2>2. SessionType'
    BY <1>3 DEF Cancel, SessionType, Stored
  <2> QED BY <2>1, <2>2
<1>4. ASSUME NEW t \in Tokens, Logout(t)
      PROVE  TypeOK'
  <2>1. SessionType'
    BY <1>4, RetainType DEF Logout, SessionType
  <2>2. RequestType' /\ ConfigType' /\ PermitType' /\ LimiterType'
    BY <1>4 DEF Logout, RequestType
  <2> QED BY <2>1, <2>2
<1>5. ASSUME NEW t \in Tokens, Expire(t)
      PROVE  TypeOK'
  BY <1>5 DEF Expire, RequestType, SessionType, Stored, Live
<1>6. CASE Tick
  <2>1. LimiterType'
    BY <1>6, CountsType DEF Tick
  <2>2. RequestType' /\ ConfigType' /\ SessionType' /\ PermitType'
    BY <1>6 DEF Tick, RequestType, SessionType, Stored
  <2> QED BY <2>1, <2>2
<1>7. CASE OrphanEnds
  BY <1>7 DEF OrphanEnds, RequestType, SessionType, Stored
<1>8. CASE Restart
  <2>1. RequestType'
    BY <1>8 DEF Restart, RequestType, Pcs
  <2>2. SessionType'
    BY <1>8 DEF Restart, SessionType, Stored
  <2>3. ConfigType' /\ PermitType' /\ LimiterType'
    BY <1>8, CountsType DEF Restart
  <2> QED BY <2>1, <2>2, <2>3
<1>9. CASE UNCHANGED vars
  BY <1>9 DEF vars, RequestType, SessionType, Stored
<1> QED BY <1>1, <1>2, <1>3, <1>4, <1>5, <1>6, <1>7, <1>8, <1>9

LEMMA TypeNext == TypeOK /\ [Next]_vars => TypeOK'
  BY TypeLogin, TypeChange, TypeRest DEF Next

\* Every reachable state has its types: what a request carries between two awaits,
\* the configuration in memory and in the file, the sessions and the attempts.
THEOREM TypeCorrect == Spec => []TypeOK
  BY TypeInit, TypeNext, PTL DEF Spec

-----------------------------------------------------------------------------
(* The configuration.  A version is reported only when it is in the file,   *)
(* the file never has a newer field than memory, and a change that has been *)
(* saved but not yet reported is in the file too.                           *)

FileFollowsMemory ==
    /\ acked.hash <= disk.hash /\ disk.hash <= mem.hash /\ mem.hash <= writes
    /\ acked.url <= disk.url /\ disk.url <= mem.url /\ mem.url <= writes

SavedIsDurable == \A r \in Requests : pc[r] = "purge" => hash[r] <= disk.hash

ConfigInv == TypeOK /\ FileFollowsMemory /\ SavedIsDurable

\* A write, saved or not, keeps the order of the three copies.
LEMMA WriteKeepsOrder ==
    ASSUME ConfigInv, writes' = writes + 1,
           \/ mem' = [mem EXCEPT !.hash = writes']
           \/ mem' = [mem EXCEPT !.url = writes'],
           disk' \in {disk, mem'}
    PROVE  /\ acked' = acked => FileFollowsMemory'
           /\ disk.hash <= disk'.hash
           /\ disk' = mem' /\ acked' = [acked EXCEPT !.url = mem'.url] => FileFollowsMemory'
  BY DEF ConfigInv, FileFollowsMemory, TypeOK, ConfigType, Configs

LEMMA ConfigStep ==
    ASSUME ConfigInv, [Next]_vars
    PROVE  FileFollowsMemory' /\ SavedIsDurable'
<1> USE DEF local, config, session, permits, limiter
<1>0. TypeOK /\ TypeOK' /\ FileFollowsMemory /\ SavedIsDurable
  BY TypeNext DEF ConfigInv
<1> USE DEF TypeOK, RequestType
<1>1. ASSUME NEW r \in Requests, Login(r)
      PROVE  FileFollowsMemory' /\ SavedIsDurable'
  <2>1. UNCHANGED config
    BY <1>1 DEF Login, Admit, ReadHash, LoginTask, ClearAttempts, CreateSession
  <2>2. \A s \in Requests : pc'[s] = "purge" => pc[s] = "purge" /\ hash'[s] = hash[s]
    BY <1>0, <1>1 DEF Login, Admit, ReadHash, LoginTask, ClearAttempts, CreateSession, Goto, Done
  <2> QED BY <1>0, <2>1, <2>2 DEF FileFollowsMemory, SavedIsDurable
<1>2. ASSUME NEW r \in Requests, NEW t \in Tokens, NEW p \in Passwords, StartChange(r, t, p)
      PROVE  FileFollowsMemory' /\ SavedIsDurable'
  BY <1>0, <1>2 DEF StartChange, Goto, FileFollowsMemory, SavedIsDurable
<1>3. ASSUME NEW r \in Requests, CurrentHash(r) \/ CheckTask(r) \/ NewHash(r) \/ HashTask(r)
      PROVE  FileFollowsMemory' /\ SavedIsDurable'
  <2>1. UNCHANGED config
    BY <1>3 DEF CurrentHash, CheckTask, NewHash, HashTask
  <2>2. \A s \in Requests : pc'[s] = "purge" => pc[s] = "purge" /\ hash'[s] = hash[s]
    BY <1>0, <1>3 DEF CurrentHash, CheckTask, NewHash, HashTask, Goto, Done
  <2> QED BY <1>0, <2>1, <2>2 DEF FileFollowsMemory, SavedIsDurable
<1>4. ASSUME NEW r \in Requests, WriteConfig(r)
      PROVE  FileFollowsMemory' /\ SavedIsDurable'
  <2>1. disk' \in {disk, mem'} /\ disk.hash <= disk'.hash /\ FileFollowsMemory'
    BY <1>4, WriteKeepsOrder DEF WriteConfig, Saved, SaveFailed
  <2>2. ASSUME NEW s \in Requests, pc'[s] = "purge"
        PROVE  hash'[s] <= disk'.hash
    <3>1. CASE s = r
      <4>1. hash'[r] = writes' /\ disk' = mem' /\ mem'.hash = writes'
        BY <1>0, <1>4, <2>2, <3>1 DEF WriteConfig, Saved, Done, Goto, ConfigType, Configs
      <4> QED BY <1>0, <3>1, <4>1 DEF ConfigType
    <3>2. CASE s # r
      <4>1. pc[s] = "purge" /\ hash'[s] = hash[s]
        BY <1>0, <1>4, <2>2, <3>2 DEF WriteConfig, Done, Goto
      <4> QED BY <1>0, <2>1, <4>1 DEF SavedIsDurable, ConfigType, Configs
    <3> QED BY <3>1, <3>2
  <2> QED BY <2>1, <2>2 DEF SavedIsDurable
<1>5. ASSUME NEW r \in Requests, Purge(r)
      PROVE  FileFollowsMemory' /\ SavedIsDurable'
  <2>1. FileFollowsMemory'
    BY <1>0, <1>5 DEF Purge, FileFollowsMemory, SavedIsDurable, ConfigType, Configs
  <2>2. SavedIsDurable'
    BY <1>0, <1>5 DEF Purge, SavedIsDurable, Done, Goto
  <2> QED BY <2>1, <2>2
<1>6. ASSUME NEW r \in Requests, WriteUrl(r)
      PROVE  FileFollowsMemory' /\ SavedIsDurable'
  <2>1. disk' \in {disk, mem'} /\ disk.hash <= disk'.hash
    BY <1>6, WriteKeepsOrder DEF WriteUrl, Saved, SaveFailed
  <2>2. FileFollowsMemory'
    <3>1. CASE Saved /\ acked' = [acked EXCEPT !.url = writes']
      <4>1. mem'.url = writes'
        BY <1>0, <1>6 DEF WriteUrl, ConfigType, Configs
      <4> QED BY <1>6, <2>1, <3>1, <4>1, WriteKeepsOrder DEF WriteUrl, Saved
    <3>2. CASE SaveFailed /\ UNCHANGED acked
      BY <1>6, <2>1, <3>2, WriteKeepsOrder DEF WriteUrl
    <3> QED BY <1>6, <3>1, <3>2 DEF WriteUrl
  <2>3. \A s \in Requests : pc'[s] = "purge" => pc[s] = "purge" /\ hash'[s] = hash[s]
    BY <1>0, <1>6 DEF WriteUrl, Done, Goto
  <2> QED BY <1>0, <2>1, <2>2, <2>3 DEF SavedIsDurable, ConfigType, Configs
<1>7. ASSUME NEW r \in Requests, StartUrl(r) \/ Cancel(r)
      PROVE  FileFollowsMemory' /\ SavedIsDurable'
  BY <1>0, <1>7 DEF StartUrl, Cancel, Goto, Done, FileFollowsMemory, SavedIsDurable
<1>8. ASSUME NEW t \in Tokens, Logout(t) \/ Expire(t)
      PROVE  FileFollowsMemory' /\ SavedIsDurable'
  BY <1>0, <1>8 DEF Logout, Expire, FileFollowsMemory, SavedIsDurable
<1>9. CASE Tick \/ OrphanEnds \/ UNCHANGED vars
  BY <1>0, <1>9 DEF Tick, OrphanEnds, vars, FileFollowsMemory, SavedIsDurable
<1>10. CASE Restart
  BY <1>0, <1>10 DEF Restart, FileFollowsMemory, SavedIsDurable, ConfigType, Configs
<1> QED
  BY <1>1, <1>2, <1>3, <1>4, <1>5, <1>6, <1>7, <1>8, <1>9, <1>10 DEF Next, Change

LEMMA ConfigInvariant == Spec => []ConfigInv
<1>1. Init => ConfigInv
  BY TypeInit DEF Init, ConfigInv, FileFollowsMemory, SavedIsDurable
<1>2. ConfigInv /\ [Next]_vars => ConfigInv'
  BY TypeNext, ConfigStep DEF ConfigInv
<1> QED BY <1>1, <1>2, PTL DEF Spec

\* A password or a database URL that was reported as stored is in the file that the
\* next start reads: the handlers answer only after save_local_config has renamed it.
THEOREM AckedIsDurableAlways == Spec => []AckedIsDurable
<1>1. ConfigInv => AckedIsDurable
  BY DEF ConfigInv, FileFollowsMemory, AckedIsDurable, TypeOK, ConfigType, Configs
<1> QED BY <1>1, ConfigInvariant, PTL

-----------------------------------------------------------------------------
(* Logins.  The hash in memory only moves forward while the process lives,  *)
(* and a login reads it after it arrived.                                   *)

LoginInv ==
    \A r \in Requests :
        /\ floor[r] <= mem.hash
        /\ pc[r] \in {"loginTask", "clear", "session"} => floor[r] <= hash[r]

LEMMA LoginStep ==
    ASSUME ConfigInv, LoginInv, [Next]_vars
    PROVE  LoginInv'
<1> USE DEF local, config, session, permits, limiter
<1>0. TypeOK /\ TypeOK' /\ FileFollowsMemory
  BY TypeNext DEF ConfigInv
<1> USE DEF TypeOK, RequestType, ConfigType, Configs, LoginInv
<1>1. ASSUME NEW r \in Requests, Login(r)
      PROVE  LoginInv'
  <2>1. CASE \E n \in Names, p \in Passwords : Admit(r, n, p)
    BY <1>0, <2>1 DEF Admit, Goto
  <2>2. CASE ReadHash(r)
    BY <1>0, <2>2 DEF ReadHash, Goto
  <2>3. CASE LoginTask(r) \/ ClearAttempts(r) \/ CreateSession(r)
    BY <1>0, <2>3 DEF LoginTask, ClearAttempts, CreateSession, Goto, Done
  <2> QED BY <1>1, <2>1, <2>2, <2>3 DEF Login
<1>2. ASSUME NEW r \in Requests, NEW t \in Tokens, NEW p \in Passwords, StartChange(r, t, p)
      PROVE  LoginInv'
  BY <1>0, <1>2 DEF StartChange, Goto
<1>3. ASSUME NEW r \in Requests, CurrentHash(r) \/ CheckTask(r) \/ NewHash(r) \/ HashTask(r)
      PROVE  LoginInv'
  BY <1>0, <1>3 DEF CurrentHash, CheckTask, NewHash, HashTask, Goto, Done
<1>4. ASSUME NEW r \in Requests, WriteConfig(r)
      PROVE  LoginInv'
  <2>1. mem.hash <= mem'.hash
    BY <1>0, <1>4 DEF WriteConfig, FileFollowsMemory
  <2>2. \A s \in Requests : floor'[s] \in {0, floor[s]} /\ (s # r => hash'[s] = hash[s])
    BY <1>0, <1>4 DEF WriteConfig, Goto, Done
  <2>3. /\ \A s \in Requests : s # r => pc'[s] = pc[s] /\ floor'[s] = floor[s]
        /\ pc'[r] \in {"purge", "idle"}
    BY <1>0, <1>4 DEF WriteConfig, Goto, Done
  <2> QED BY <1>0, <2>1, <2>2, <2>3
<1>5. ASSUME NEW r \in Requests, Purge(r) \/ StartUrl(r) \/ Cancel(r)
      PROVE  LoginInv'
  BY <1>0, <1>5 DEF Purge, StartUrl, Cancel, Goto, Done
<1>6. ASSUME NEW r \in Requests, WriteUrl(r)
      PROVE  LoginInv'
  <2>1. mem'.hash = mem.hash
    BY <1>0, <1>6 DEF WriteUrl
  <2> QED BY <1>0, <1>6, <2>1 DEF WriteUrl, Done, Goto
<1>7. ASSUME NEW t \in Tokens, Logout(t) \/ Expire(t)
      PROVE  LoginInv'
  BY <1>0, <1>7 DEF Logout, Expire
<1>8. CASE Tick \/ OrphanEnds \/ UNCHANGED vars
  BY <1>0, <1>8 DEF Tick, OrphanEnds, vars
<1>9. CASE Restart
  BY <1>0, <1>9 DEF Restart
<1> QED
  BY <1>1, <1>2, <1>3, <1>4, <1>5, <1>6, <1>7, <1>8, <1>9 DEF Next, Change

\* A login opens a session only with a password that was in force when it arrived or
\* later, although bcrypt compares without the lock on the configuration and other
\* requests replace the password meanwhile.
THEOREM OldPasswordIsDeadAlways == Spec => []OldPasswordIsDead
<1>1. Init => LoginInv
  BY DEF Init, LoginInv
<1>2. ConfigInv /\ LoginInv /\ [Next]_vars => LoginInv'
  BY LoginStep
<1>3. ConfigInv /\ LoginInv => OldPasswordIsDead
  BY DEF ConfigInv, LoginInv, OldPasswordIsDead, TypeOK, RequestType
<1> QED BY <1>1, <1>2, <1>3, ConfigInvariant, PTL DEF Spec

-----------------------------------------------------------------------------
(* Sessions. *)

\* What excuses the session t of a replaced password.
Excused(t) == t \in spared \cup late \/ unpurged \/ \E r \in Requests : pc[r] = "purge"

\* Sweeping the sessions takes no excuse from those it keeps, as long as the password
\* and the requests about to purge are the same.
LEMMA SweepKeepsExcuses ==
    ASSUME OldSessionsHaveExcuse, mem'.hash = mem.hash, NEW kept,
           RetainSessions(kept), unpurged' = unpurged,
           \A r \in Requests : pc[r] = "purge" => pc'[r] = "purge"
    PROVE  OldSessionsHaveExcuse'
  BY DEF OldSessionsHaveExcuse, RetainSessions, Stored

\* A step that leaves sessions and password alone and lets no purge be skipped.
LEMMA QuietKeepsExcuses ==
    ASSUME OldSessionsHaveExcuse, mem'.hash = mem.hash,
           UNCHANGED <<sessions, spared, late>>, unpurged => unpurged',
           \A r \in Requests : pc[r] = "purge" => pc'[r] = "purge" \/ unpurged'
    PROVE  OldSessionsHaveExcuse'
  BY DEF OldSessionsHaveExcuse, Stored

LEMMA SessionStep ==
    ASSUME TypeOK, OldSessionsHaveExcuse, [Next]_vars
    PROVE  OldSessionsHaveExcuse'
<1> USE DEF local, config, session, permits, limiter
<1>0. TypeOK'
  BY TypeNext
<1> USE DEF TypeOK, RequestType
<1>1. ASSUME NEW r \in Requests,
             \/ \E n \in Names, p \in Passwords : Admit(r, n, p)
             \/ ReadHash(r) \/ LoginTask(r) \/ ClearAttempts(r)
      PROVE  OldSessionsHaveExcuse'
  BY <1>1, QuietKeepsExcuses DEF Admit, ReadHash, LoginTask, ClearAttempts, Goto, Done
<1>2. ASSUME NEW r \in Requests, CreateSession(r)
      PROVE  OldSessionsHaveExcuse'
  <2>1. PICK t \in Tokens :
          /\ t \notin Stored
          /\ sessions' = [s \in Tokens |-> CASE s = t -> hash[r]
                                            [] s \in Live -> sessions[s]
                                            [] OTHER -> 0]
          /\ late' = (late \cap Live) \cup (IF hash[r] = mem.hash THEN {} ELSE {t})
    BY <1>2 DEF CreateSession
  <2>2. ASSUME NEW s \in Stored', sessions'[s] # mem'.hash
        PROVE  Excused(s)'
    <3>1. CASE s = t
      <4>1. sessions'[t] = hash[r]
        BY <2>1 DEF Live
      <4>2. mem' = mem
        BY <1>2 DEF CreateSession
      <4>3. t \in late'
        BY <2>1, <2>2, <3>1, <4>1, <4>2
      <4> QED BY <3>1, <4>3 DEF Excused
    <3>2. CASE s # t
      <4>1. s \in Live /\ sessions'[s] = sessions[s] /\ s \in Stored
        BY <2>1, <2>2, <3>2 DEF Stored, Live
      <4>2. Excused(s)
        BY <1>2, <2>2, <4>1 DEF CreateSession, OldSessionsHaveExcuse, Excused
      <4>3. /\ s \in spared \cup late => s \in spared' \cup late'
            /\ \A q \in Requests : pc[q] = "purge" => pc'[q] = "purge"
        BY <1>2, <2>1, <4>1 DEF CreateSession, Done, Goto
      <4> QED BY <1>2, <4>2, <4>3 DEF CreateSession, Excused
    <3> QED BY <3>1, <3>2
  <2> QED BY <2>2 DEF OldSessionsHaveExcuse, Excused
<1>3. ASSUME NEW r \in Requests, NEW t \in Tokens, NEW p \in Passwords, StartChange(r, t, p)
      PROVE  OldSessionsHaveExcuse'
  BY <1>3, SweepKeepsExcuses DEF StartChange, Goto
<1>4. ASSUME NEW r \in Requests, CurrentHash(r) \/ CheckTask(r) \/ NewHash(r) \/ HashTask(r)
      PROVE  OldSessionsHaveExcuse'
  BY <1>4, QuietKeepsExcuses DEF CurrentHash, CheckTask, NewHash, HashTask, Goto, Done
<1>5. ASSUME NEW r \in Requests, WriteConfig(r)
      PROVE  OldSessionsHaveExcuse'
  BY <1>5 DEF WriteConfig, OldSessionsHaveExcuse, Goto
<1>6. ASSUME NEW r \in Requests, Purge(r)
      PROVE  OldSessionsHaveExcuse'
  BY <1>6 DEF Purge, OldSessionsHaveExcuse, Stored
<1>7. ASSUME NEW r \in Requests, WriteUrl(r)
      PROVE  OldSessionsHaveExcuse'
  <2>1. mem'.hash = mem.hash
    BY <1>7 DEF WriteUrl, ConfigType, Configs
  <2>2. UNCHANGED <<sessions, spared, late, unpurged>>
    BY <1>7 DEF WriteUrl
  <2>3. \A s \in Requests : pc[s] = "purge" => pc'[s] = "purge"
    BY <1>7 DEF WriteUrl, Goto, Done
  <2> QED BY <2>1, <2>2, <2>3, QuietKeepsExcuses
<1>8. ASSUME NEW r \in Requests, StartUrl(r) \/ Cancel(r)
      PROVE  OldSessionsHaveExcuse'
  <2>1. UNCHANGED <<mem, sessions, spared, late>>
    BY <1>8 DEF StartUrl, Cancel
  <2>2. unpurged => unpurged'
    BY <1>8, Zenon DEF StartUrl, Cancel
  <2>3. pc[r] = "purge" => unpurged'
    BY <1>8 DEF StartUrl, Cancel
  <2>4. \A s \in Requests : s # r => pc'[s] = pc[s]
    BY <1>8 DEF StartUrl, Cancel, Goto, Done
  <2> QED BY <2>1, <2>2, <2>3, <2>4, QuietKeepsExcuses
<1>9. ASSUME NEW t \in Tokens, Logout(t)
      PROVE  OldSessionsHaveExcuse'
  BY <1>9, SweepKeepsExcuses DEF Logout
<1>10. CASE \/ \E t \in Tokens : Expire(t)
            \/ Tick \/ OrphanEnds \/ UNCHANGED vars
  BY <1>10, QuietKeepsExcuses DEF Expire, Tick, OrphanEnds, vars
<1>11. CASE Restart
  BY <1>11 DEF Restart, OldSessionsHaveExcuse, Stored
<1> QED
  BY <1>1, <1>2, <1>3, <1>4, <1>5, <1>6, <1>7, <1>8, <1>9, <1>10, <1>11
  DEF Next, Login, Change

\* A session opened with a replaced password outlives the change only if the purge
\* kept it, is still to run or was skipped, or its login had read the older hash.
THEOREM OldSessionsHaveExcuseAlways == Spec => []OldSessionsHaveExcuse
<1>1. Init => OldSessionsHaveExcuse
  BY DEF Init, OldSessionsHaveExcuse, Stored
<1>2. TypeOK /\ OldSessionsHaveExcuse /\ [Next]_vars => OldSessionsHaveExcuse'
  BY SessionStep
<1> QED BY <1>1, <1>2, TypeCorrect, PTL DEF Spec

-----------------------------------------------------------------------------
(* The permits of bcrypt_limit. *)

Holders == {r \in Requests : pc[r] \in Holding}

\* Sets of requests are finite, and grow and shrink by one.
LEMMA CountRequests ==
    ASSUME NEW S \in SUBSET Requests, NEW r \in Requests
    PROVE  /\ Cardinality(S) \in Nat
           /\ \A T \in SUBSET S : Cardinality(T) \in Nat /\ Cardinality(T) <= Cardinality(S)
           /\ r \notin S => Cardinality(S \cup {r}) = Cardinality(S) + 1
           /\ r \in S => Cardinality(S \ {r}) = Cardinality(S) - 1
<1>1. IsFiniteSet(S)
  BY FS_Subset
<1>2. \A T \in SUBSET S : Cardinality(T) \in Nat /\ Cardinality(T) <= Cardinality(S)
  BY <1>1, FS_Subset, FS_CardinalityType
<1>3. Cardinality(S) \in Nat
  BY <1>1, FS_CardinalityType
<1>4. r \notin S => Cardinality(S \cup {r}) = Cardinality(S) + 1
  BY <1>1, FS_AddElement
<1>5. r \in S => Cardinality(S \ {r}) = Cardinality(S) - 1
  BY <1>1, FS_RemoveElement
<1> QED BY <1>2, <1>3, <1>4, <1>5

\* A permit that changes hands between the pool, the requests and the threads of
\* dropped requests.
LEMMA PermitMoves ==
    ASSUME TypeOK, PermitsConserved, NEW r \in Requests,
           \/ Holders' = Holders /\ free' = free /\ orphans' = orphans
           \/ r \notin Holders /\ Holders' = Holders \cup {r} /\ free' = free - 1 /\ orphans' = orphans
           \/ r \in Holders /\ Holders' = Holders \ {r} /\ free' = free + 1 /\ orphans' = orphans
           \/ r \in Holders /\ Holders' = Holders \ {r} /\ free' = free /\ orphans' = orphans + 1
    PROVE  PermitsConserved'
<1>1. Holders \in SUBSET Requests
  BY DEF Holders
<1>2. /\ Cardinality(Holders) \in Nat
      /\ r \notin Holders => Cardinality(Holders \cup {r}) = Cardinality(Holders) + 1
      /\ r \in Holders => Cardinality(Holders \ {r}) = Cardinality(Holders) - 1
  BY <1>1, CountRequests
<1>3. /\ free \in Nat /\ orphans \in Nat
      /\ free + orphans + Cardinality(Holders) = MaxBcrypt
  BY DEF TypeOK, PermitType, PermitsConserved, Holders
<1>4. free' + orphans' + Cardinality(Holders') = MaxBcrypt
  <2>1. CASE Holders' = Holders /\ free' = free /\ orphans' = orphans
    BY <1>3, <2>1
  <2>2. CASE r \notin Holders /\ Holders' = Holders \cup {r} /\ free' = free - 1 /\ orphans' = orphans
    <3>1. Cardinality(Holders') = Cardinality(Holders) + 1
      BY <1>2, <2>2
    <3>2. free' = free - 1 /\ orphans' = orphans
      BY <2>2
    <3>3. Cardinality(Holders) \in Nat
      BY <1>2
    <3> QED BY <1>3, <3>1, <3>2, <3>3
  <2>3. CASE r \in Holders /\ Holders' = Holders \ {r} /\ free' = free + 1 /\ orphans' = orphans
    BY <1>2, <1>3, <2>3
  <2>4. CASE r \in Holders /\ Holders' = Holders \ {r} /\ free' = free /\ orphans' = orphans + 1
    BY <1>2, <1>3, <2>4
  <2> QED BY <2>1, <2>2, <2>3, <2>4
<1> QED BY <1>4 DEF PermitsConserved, Holders

LEMMA PermitStep ==
    ASSUME TypeOK, PermitsConserved, [Next]_vars
    PROVE  PermitsConserved'
<1> USE DEF local, config, session, permits, limiter
<1>0. RequestType /\ PermitType /\ RequestType' /\ PermitType'
  BY TypeNext DEF TypeOK
<1> USE DEF RequestType, PermitType
<1>1. ASSUME NEW r \in Requests, NEW n \in Names, NEW p \in Passwords, Admit(r, n, p)
      PROVE  PermitsConserved'
  <2>1. CASE free = 0
    <3>1. Holders' = Holders /\ free' = free /\ orphans' = orphans
      BY <1>1, <2>1 DEF Admit, Holders
    <3> QED BY <1>0, <3>1, PermitMoves
  <2>2. CASE free # 0
    <3>1. r \notin Holders /\ Holders' = Holders \cup {r}
      BY <1>0, <1>1, <2>2 DEF Admit, Goto, Holders, Holding, Tasks
    <3>2. free' = free - 1 /\ orphans' = orphans
      BY <1>0, <1>1, <2>2 DEF Admit
    <3> QED BY <1>0, <3>1, <3>2, PermitMoves
  <2> QED BY <2>1, <2>2
<1>2. ASSUME NEW r \in Requests, ReadHash(r) \/ ClearAttempts(r) \/ CreateSession(r)
      PROVE  PermitsConserved'
  <2>1. Holders' = Holders
    BY <1>0, <1>2 DEF ReadHash, ClearAttempts, CreateSession, Goto, Done, Holders, Holding, Tasks
  <2>2. free' = free /\ orphans' = orphans
    BY <1>2 DEF ReadHash, ClearAttempts, CreateSession
  <2> QED BY <1>0, <2>1, <2>2, PermitMoves
<1>3. ASSUME NEW r \in Requests, LoginTask(r) \/ CheckTask(r) \/ HashTask(r)
      PROVE  PermitsConserved'
  <2>1. r \in Holders /\ Holders' = Holders \ {r}
    BY <1>0, <1>3 DEF LoginTask, CheckTask, HashTask, Goto, Done, Holders, Holding, Tasks
  <2>2. free' = free + 1 /\ orphans' = orphans
    <3>1. free' = free + 1 /\ orphans' = orphans
      BY <1>3 DEF LoginTask, CheckTask, HashTask
    <3> QED BY <1>0, <3>1
  <2> QED BY <1>0, <2>1, <2>2, PermitMoves
<1>4. ASSUME NEW r \in Requests, CurrentHash(r) \/ NewHash(r)
      PROVE  PermitsConserved'
  <2>1. CASE free = 0
    <3>1. Holders' = Holders
      BY <1>0, <1>4, <2>1 DEF CurrentHash, NewHash, Done, Goto, Holders, Holding, Tasks
    <3>2. free' = free /\ orphans' = orphans
      BY <1>4, <2>1 DEF CurrentHash, NewHash
    <3> QED BY <1>0, <3>1, <3>2, PermitMoves
  <2>2. CASE free # 0
    <3>1. r \notin Holders /\ Holders' = Holders \cup {r}
      BY <1>0, <1>4, <2>2 DEF CurrentHash, NewHash, Goto, Holders, Holding, Tasks
    <3>2. free' = free - 1 /\ orphans' = orphans
      <4>1. free' = free - 1 /\ orphans' = orphans
        BY <1>4, <2>2 DEF CurrentHash, NewHash
      <4> QED BY <1>0, <4>1
    <3> QED BY <1>0, <3>1, <3>2, PermitMoves
  <2> QED BY <2>1, <2>2
<1>5. ASSUME NEW r \in Requests,
             \/ \E t \in Tokens, p \in Passwords : StartChange(r, t, p)
             \/ WriteConfig(r) \/ Purge(r) \/ StartUrl(r) \/ WriteUrl(r)
      PROVE  PermitsConserved'
  <2>1. Holders' = Holders
    BY <1>0, <1>5
    DEF StartChange, WriteConfig, Purge, StartUrl, WriteUrl, Goto, Done, Holders, Holding, Tasks
  <2>2. free' = free /\ orphans' = orphans
    BY <1>5 DEF StartChange, WriteConfig, Purge, StartUrl, WriteUrl
  <2> QED BY <1>0, <2>1, <2>2, PermitMoves
<1>6. ASSUME NEW r \in Requests, Cancel(r)
      PROVE  PermitsConserved'
  <2>1. CASE r \in Holders
    <3>1. Holders' = Holders \ {r}
      BY <1>0, <1>6, <2>1 DEF Cancel, Goto, Done, Holders, Holding, Tasks
    <3>2. \/ free' = free + 1 /\ orphans' = orphans
          \/ free' = free /\ orphans' = orphans + 1
      BY <1>0, <1>6, <2>1 DEF Cancel, Holders, Holding, Tasks
    <3> QED BY <1>0, <2>1, <3>1, <3>2, PermitMoves
  <2>2. CASE r \notin Holders
    <3>1. Holders' = Holders
      BY <1>0, <1>6, <2>2 DEF Cancel, Goto, Done, Holders, Holding, Tasks
    <3>2. free' = free /\ orphans' = orphans
      BY <1>0, <1>6, <2>2 DEF Cancel, Holders, Holding, Tasks
    <3> QED BY <1>0, <3>1, <3>2, PermitMoves
  <2> QED BY <2>1, <2>2
<1>7. CASE OrphanEnds
  BY <1>0, <1>7 DEF OrphanEnds, PermitsConserved
<1>8. CASE (\E t \in Tokens : Logout(t) \/ Expire(t)) \/ Tick \/ UNCHANGED vars
  BY <1>8 DEF Logout, Expire, Tick, vars, PermitsConserved
<1>9. CASE Restart
  <2>1. Holders' = {}
    BY <1>9 DEF Restart, Holders, Holding, Tasks
  <2> QED BY <1>9, <2>1, FS_EmptySet DEF Restart, PermitsConserved, Holders
<1> QED
  BY <1>1, <1>2, <1>3, <1>4, <1>5, <1>6, <1>7, <1>8, <1>9 DEF Next, Login, Change

\* bcrypt never runs on more than MaxBcrypt threads, and no permit is lost: it is free,
\* held by a request or by the thread that a dropped request left running.
THEOREM PermitsAreConserved == Spec => []PermitsConserved
<1>1. Init => PermitsConserved
  <2> SUFFICES ASSUME Init PROVE PermitsConserved
    OBVIOUS
  <2>1. {r \in Requests : pc[r] \in Holding} = {}
    BY DEF Init, Holding, Tasks
  <2> QED BY <2>1, FS_EmptySet DEF Init, PermitsConserved
<1>2. TypeOK /\ PermitsConserved /\ [Next]_vars => PermitsConserved'
  BY PermitStep
<1> QED BY <1>1, <1>2, TypeCorrect, PTL DEF Spec

-----------------------------------------------------------------------------
(* Refused passwords.  Every one had a slot and a permit.  Its slot may have *)
(* left the window or been cleared before the verdict; then the request was  *)
(* in flight at that moment, and held one of the MaxBcrypt permits.  So, for *)
(* every age, the verdicts younger than it and the requests in flight exceed *)
(* the younger slots by no more than the permits.                            *)

InFlight(n) == {r \in Requests : pc[r] \in {"readHash", "loginTask"} /\ name[r] = n}

SlotsPay ==
    \A n \in Watched, k \in 0 .. Window :
        wrong[n][k] + Cardinality(InFlight(n)) <= byUser[n][k] + MaxBcrypt

SlotsLimited == \A n \in Names : InWindow(byUser[n]) <= MaxUser

GuessInv == SlotsPay /\ SlotsLimited

\* Those in flight hold permits, which are not among the free ones.
LEMMA InFlightBounded ==
    ASSUME TypeOK, PermitsConserved, NEW n \in Watched
    PROVE  /\ InFlight(n) \in SUBSET Requests
           /\ Cardinality(InFlight(n)) \in Nat
           /\ free + Cardinality(InFlight(n)) <= MaxBcrypt
           /\ free \in Nat
<1>1. InFlight(n) \in SUBSET Requests /\ Holders \in SUBSET Requests
  BY DEF InFlight, Holders
<1>2. InFlight(n) \in SUBSET Holders
  BY DEF InFlight, Holders, Holding, Tasks
<1>3. IsFiniteSet(Holders)
  BY <1>1, FS_Subset
<1>4. /\ Cardinality(InFlight(n)) \in Nat /\ Cardinality(Holders) \in Nat
      /\ Cardinality(InFlight(n)) <= Cardinality(Holders)
  BY <1>2, <1>3, FS_Subset, FS_CardinalityType
<1>5. free \in Nat /\ orphans \in Nat /\ free + orphans + Cardinality(Holders) = MaxBcrypt
  BY DEF TypeOK, PermitType, PermitsConserved, Holders
<1> QED BY <1>1, <1>4, <1>5

\* What the operators on counts do to the count of each age.
LEMMA CountsAt ==
    ASSUME NEW c \in Counts, NEW k \in 0 .. Window
    PROVE  /\ c[k] \in Nat
           /\ k = 0 => c[k] = 0
           /\ k # 0 => c[k - 1] \in Nat /\ c[k - 1] <= c[k]
           /\ None[k] = 0
           /\ AndNow(c)[k] = IF k = 0 THEN 0 ELSE c[k] + 1
           /\ k # 0 => Older(c)[k] = c[k - 1] /\ k - 1 \in 0 .. Window
           /\ k = 0 => Older(c)[k] = 0
  BY DEF Counts, None, AndNow, Older

\* A step that leaves the attempts alone and lets no login in.
LEMMA QuietKeepsSlots ==
    ASSUME TypeOK, PermitsConserved, GuessInv, UNCHANGED <<byUser, wrong>>,
           \A n \in Watched : InFlight(n)' \subseteq InFlight(n)
    PROVE  GuessInv'
<1>1. ASSUME NEW n \in Watched, NEW k \in 0 .. Window
      PROVE  wrong[n][k] + Cardinality(InFlight(n)') <= byUser[n][k] + MaxBcrypt
  <2>1. /\ Cardinality(InFlight(n)') \in Nat
        /\ Cardinality(InFlight(n)') <= Cardinality(InFlight(n))
        /\ Cardinality(InFlight(n)) \in Nat
    <3>1. IsFiniteSet(InFlight(n))
      BY InFlightBounded, FS_Subset
    <3> QED BY <3>1, FS_Subset, FS_CardinalityType
  <2>2. wrong[n][k] \in Nat /\ byUser[n][k] \in Nat
    BY CountsAt DEF TypeOK, LimiterType
  <2>3. wrong[n][k] + Cardinality(InFlight(n)) <= byUser[n][k] + MaxBcrypt
    BY DEF GuessInv, SlotsPay
  <2> QED BY <2>1, <2>2, <2>3
<1>2. SlotsPay'
  BY <1>1 DEF SlotsPay
<1>3. SlotsLimited'
  BY DEF GuessInv, SlotsLimited
<1> QED BY <1>2, <1>3 DEF GuessInv

LEMMA GuessAdmit ==
    ASSUME TypeOK, PermitsConserved, GuessInv,
           NEW r \in Requests, NEW m \in Names, NEW p \in Passwords, Admit(r, m, p)
    PROVE  GuessInv'
<1> USE DEF local, config, session, permits, limiter
<1>0. /\ RequestType /\ byUser \in [Names -> Counts] /\ wrong \in [Watched -> Counts]
      /\ wrong' = wrong
      /\ byUser' = [byUser EXCEPT ![m] = AndNow(@)]
  BY DEF TypeOK, LimiterType, Admit
<1>1. ASSUME NEW n \in Watched, NEW k \in 0 .. Window
      PROVE  wrong'[n][k] + Cardinality(InFlight(n)') <= byUser'[n][k] + MaxBcrypt
  <2>1. /\ InFlight(n) \in SUBSET Requests /\ Cardinality(InFlight(n)) \in Nat
        /\ free + Cardinality(InFlight(n)) <= MaxBcrypt /\ free \in Nat
    BY InFlightBounded
  <2>2. /\ wrong[n][k] \in Nat /\ byUser[n][k] \in Nat
        /\ k = 0 => wrong[n][k] = 0
        /\ byUser'[n][k] = IF n = m /\ k # 0 THEN byUser[n][k] + 1 ELSE byUser[n][k]
    <3>1. byUser[n] \in Counts /\ wrong[n] \in Counts /\ byUser[m] \in Counts
      BY <1>0
    <3>2. byUser'[n] = IF n = m THEN AndNow(byUser[n]) ELSE byUser[n]
      BY <1>0
    <3> QED BY <3>1, <3>2, CountsAt
  <2>3. wrong[n][k] + Cardinality(InFlight(n)) <= byUser[n][k] + MaxBcrypt
    BY DEF GuessInv, SlotsPay
  <2>4. \/ InFlight(n)' = InFlight(n)
        \/ n = m /\ free # 0 /\ r \notin InFlight(n) /\ InFlight(n)' = InFlight(n) \cup {r}
    BY <1>0 DEF Admit, InFlight, Goto, RequestType
  <2>5. CASE InFlight(n)' = InFlight(n)
    BY <1>0, <2>1, <2>2, <2>3, <2>5
  <2>6. CASE n = m /\ free # 0 /\ r \notin InFlight(n) /\ InFlight(n)' = InFlight(n) \cup {r}
    <3>1. Cardinality(InFlight(n)') = Cardinality(InFlight(n)) + 1
      BY <2>1, <2>6, CountRequests
    <3>2. k = 0 \/ byUser'[n][k] = byUser[n][k] + 1
      BY <2>2, <2>6
    <3> QED BY <1>0, <2>1, <2>2, <2>3, <2>6, <3>1, <3>2
  <2> QED BY <2>4, <2>5, <2>6
<1>2. ASSUME NEW n \in Names
      PROVE  InWindow(byUser'[n]) <= MaxUser
  <2>1. byUser[n] \in Counts /\ Window \in 0 .. Window /\ Window # 0
    BY <1>0
  <2>2. CASE n = m
    <3>1. byUser'[n] = AndNow(byUser[n]) /\ byUser[n][Window] < MaxUser
      BY <1>0, <2>2 DEF Admit, Admits, InWindow
    <3>2. byUser'[n][Window] = byUser[n][Window] + 1 /\ byUser[n][Window] \in Nat
      BY <2>1, <3>1, CountsAt
    <3> QED BY <3>1, <3>2 DEF InWindow
  <2>3. CASE n # m
    BY <1>0, <2>3 DEF GuessInv, SlotsLimited
  <2> QED BY <2>2, <2>3
<1> QED BY <1>1, <1>2 DEF GuessInv, SlotsPay, SlotsLimited

LEMMA GuessLoginTask ==
    ASSUME TypeOK, PermitsConserved, GuessInv, NEW r \in Requests, LoginTask(r)
    PROVE  GuessInv'
<1> USE DEF local, config, session, permits, limiter
<1>0. /\ RequestType /\ byUser \in [Names -> Counts] /\ wrong \in [Watched -> Counts]
      /\ byUser' = byUser
  BY DEF TypeOK, LimiterType, LoginTask
<1>1. CASE wrong' = wrong
  <2>1. \A n \in Watched : InFlight(n)' \subseteq InFlight(n)
    BY <1>0 DEF LoginTask, InFlight, Goto, Done, RequestType
  <2> QED BY <1>0, <1>1, <2>1, QuietKeepsSlots
<1>2. CASE wrong' = [wrong EXCEPT ![name[r]] = AndNow(@)] /\ Done(r)
  <2>1. ASSUME NEW n \in Watched, NEW k \in 0 .. Window
        PROVE  wrong'[n][k] + Cardinality(InFlight(n)') <= byUser[n][k] + MaxBcrypt
    <3>1. InFlight(n) \in SUBSET Requests /\ Cardinality(InFlight(n)) \in Nat
      BY InFlightBounded
    <3>2. /\ wrong[n][k] \in Nat /\ byUser[n][k] \in Nat
          /\ AndNow(wrong[n])[k] \in {wrong[n][k], wrong[n][k] + 1}
      BY <1>0, CountsAt
    <3>3. wrong[n][k] + Cardinality(InFlight(n)) <= byUser[n][k] + MaxBcrypt
      BY DEF GuessInv, SlotsPay
    <3>4. CASE n = name[r]
      <4>1. r \in InFlight(n) /\ InFlight(n)' = InFlight(n) \ {r}
        BY <1>0, <1>2, <3>4 DEF LoginTask, InFlight, Goto, Done, RequestType
      <4>2. Cardinality(InFlight(n)') = Cardinality(InFlight(n)) - 1
        BY <3>1, <4>1, CountRequests
      <4>3. wrong'[n][k] = AndNow(wrong[n])[k]
        BY <1>0, <1>2, <3>4
      <4> QED BY <3>1, <3>2, <3>3, <4>2, <4>3
    <3>5. CASE n # name[r]
      <4>1. InFlight(n)' = InFlight(n)
        BY <1>0, <1>2, <3>5 DEF LoginTask, InFlight, Goto, Done, RequestType
      <4>2. wrong'[n][k] = wrong[n][k]
        BY <1>0, <1>2, <3>5
      <4> QED BY <3>1, <3>2, <3>3, <4>1, <4>2
    <3> QED BY <3>4, <3>5
  <2>2. SlotsLimited'
    BY <1>0 DEF GuessInv, SlotsLimited
  <2> QED BY <1>0, <2>1, <2>2 DEF GuessInv, SlotsPay
<1> QED BY <1>1, <1>2 DEF LoginTask

LEMMA GuessClear ==
    ASSUME TypeOK, PermitsConserved, GuessInv, NEW r \in Requests, ClearAttempts(r)
    PROVE  GuessInv'
<1>0. /\ RequestType /\ byUser \in [Names -> Counts] /\ wrong \in [Watched -> Counts]
      /\ byUser' = [byUser EXCEPT ![name[r]] = None]
      /\ wrong' = [wrong EXCEPT ![name[r]] = None]
  BY DEF TypeOK, LimiterType, ClearAttempts
<1>1. ASSUME NEW n \in Watched, NEW k \in 0 .. Window
      PROVE  wrong'[n][k] + Cardinality(InFlight(n)') <= byUser'[n][k] + MaxBcrypt
  <2>1. /\ Cardinality(InFlight(n)) \in Nat
        /\ free + Cardinality(InFlight(n)) <= MaxBcrypt /\ free \in Nat
    BY InFlightBounded
  <2>2. wrong[n][k] + Cardinality(InFlight(n)) <= byUser[n][k] + MaxBcrypt
    BY DEF GuessInv, SlotsPay
  <2>3. InFlight(n)' = InFlight(n)
    BY <1>0 DEF ClearAttempts, InFlight, Goto, RequestType
  <2>4. CASE n = name[r]
    <3>1. wrong'[n][k] = 0 /\ byUser'[n][k] = 0
      BY <1>0, <2>4 DEF None
    <3> QED BY <2>1, <2>3, <3>1
  <2>5. CASE n # name[r]
    BY <1>0, <2>2, <2>3, <2>5
  <2> QED BY <2>4, <2>5
<1>2. ASSUME NEW n \in Names
      PROVE  InWindow(byUser'[n]) <= MaxUser
  BY <1>0 DEF GuessInv, SlotsLimited, InWindow, None
<1> QED BY <1>1, <1>2 DEF GuessInv, SlotsPay, SlotsLimited

LEMMA GuessTick ==
    ASSUME TypeOK, PermitsConserved, GuessInv, Tick
    PROVE  GuessInv'
<1> USE DEF local
<1>0. byUser \in [Names -> Counts] /\ wrong \in [Watched -> Counts]
  BY DEF TypeOK, LimiterType
<1>1. ASSUME NEW n \in Watched, NEW k \in 0 .. Window
      PROVE  wrong'[n][k] + Cardinality(InFlight(n)') <= byUser'[n][k] + MaxBcrypt
  <2>1. /\ Cardinality(InFlight(n)) \in Nat
        /\ free + Cardinality(InFlight(n)) <= MaxBcrypt /\ free \in Nat
    BY InFlightBounded
  <2>2. InFlight(n)' = InFlight(n)
    BY DEF Tick, InFlight
  <2>3. wrong'[n] = Older(wrong[n]) /\ byUser'[n] = Older(byUser[n])
    BY DEF Tick
  <2>4. CASE k = 0
    <3>1. wrong'[n][k] = 0 /\ byUser'[n][k] = 0
      BY <1>0, <2>3, <2>4, CountsAt
    <3> QED BY <2>1, <2>2, <3>1
  <2>5. CASE k # 0
    <3>1. /\ wrong'[n][k] = wrong[n][k - 1] /\ byUser'[n][k] = byUser[n][k - 1]
          /\ k - 1 \in 0 .. Window
      BY <1>0, <2>3, <2>5, CountsAt
    <3>2. wrong[n][k - 1] + Cardinality(InFlight(n)) <= byUser[n][k - 1] + MaxBcrypt
      BY <3>1 DEF GuessInv, SlotsPay
    <3> QED BY <2>2, <3>1, <3>2
  <2> QED BY <2>4, <2>5
<1>2. ASSUME NEW n \in Names
      PROVE  InWindow(byUser'[n]) <= MaxUser
  <2>1. InWindow(byUser'[n]) = byUser[n][Window - 1]
    BY <1>0, CountsAt DEF Tick, InWindow
  <2>2. /\ byUser[n][Window - 1] \in Nat /\ byUser[n][Window] \in Nat
        /\ byUser[n][Window - 1] <= byUser[n][Window]
    BY <1>0, CountsAt
  <2>3. MaxUser \in Nat /\ byUser[n][Window] <= MaxUser
    BY DEF GuessInv, SlotsLimited, InWindow
  <2> QED BY <2>1, <2>2, <2>3
<1> QED BY <1>1, <1>2 DEF GuessInv, SlotsPay, SlotsLimited

LEMMA GuessStep ==
    ASSUME TypeOK, PermitsConserved, GuessInv, [Next]_vars
    PROVE  GuessInv'
<1> USE DEF local, config, session, permits, limiter
<1>0. RequestType
  BY DEF TypeOK
<1>1. ASSUME NEW r \in Requests, Login(r)
      PROVE  GuessInv'
  <2>1. CASE ReadHash(r) \/ CreateSession(r)
    <3>1. \A n \in Watched : InFlight(n)' \subseteq InFlight(n)
      BY <1>0, <2>1 DEF ReadHash, CreateSession, InFlight, Goto, Done, RequestType
    <3>2. UNCHANGED <<byUser, wrong>>
      BY <2>1 DEF ReadHash, CreateSession
    <3> QED BY <3>1, <3>2, QuietKeepsSlots
  <2> QED BY <1>1, <2>1, GuessAdmit, GuessLoginTask, GuessClear DEF Login
<1>2. ASSUME NEW r \in Requests, Change(r) \/ StartUrl(r) \/ WriteUrl(r) \/ Cancel(r)
      PROVE  GuessInv'
  <2>1. \A n \in Watched : InFlight(n)' \subseteq InFlight(n)
    <3>1. CASE \E t \in Tokens, p \in Passwords : StartChange(r, t, p)
      BY <1>0, <3>1 DEF StartChange, InFlight, Goto, RequestType
    <3>2. CASE CurrentHash(r) \/ CheckTask(r) \/ NewHash(r) \/ HashTask(r)
      BY <1>0, <3>2 DEF CurrentHash, CheckTask, NewHash, HashTask, InFlight, Goto, Done, RequestType
    <3>3. CASE WriteConfig(r) \/ Purge(r)
      BY <1>0, <3>3 DEF WriteConfig, Purge, InFlight, Goto, Done, RequestType
    <3>4. CASE StartUrl(r) \/ WriteUrl(r) \/ Cancel(r)
      BY <1>0, <3>4 DEF StartUrl, WriteUrl, Cancel, InFlight, Goto, Done, RequestType
    <3> QED BY <1>2, <3>1, <3>2, <3>3, <3>4 DEF Change
  <2>2. UNCHANGED <<byUser, wrong>>
    BY <1>2 DEF Change, StartChange, CurrentHash, CheckTask, NewHash, HashTask, WriteConfig,
                Purge, StartUrl, WriteUrl, Cancel
  <2> QED BY <2>1, <2>2, QuietKeepsSlots
<1>3. CASE (\E t \in Tokens : Logout(t) \/ Expire(t)) \/ OrphanEnds \/ UNCHANGED vars
  <2>1. UNCHANGED <<pc, name, byUser, wrong>>
    BY <1>3 DEF Logout, Expire, OrphanEnds, vars
  <2>2. \A n \in Watched : InFlight(n)' \subseteq InFlight(n)
    BY <2>1 DEF InFlight
  <2> QED BY <2>1, <2>2, QuietKeepsSlots
<1>4. CASE Restart
  <2>1. ASSUME NEW n \in Watched
        PROVE  InFlight(n)' = {}
    BY <1>4 DEF Restart, InFlight
  <2>2. ASSUME NEW n \in Watched, NEW k \in 0 .. Window
        PROVE  wrong'[n][k] + Cardinality(InFlight(n)') <= byUser'[n][k] + MaxBcrypt
    <3>1. Cardinality(InFlight(n)') = 0
      BY <2>1, FS_EmptySet
    <3>2. wrong'[n][k] = 0 /\ byUser'[n][k] = 0
      BY <1>4 DEF Restart, None
    <3> QED BY <3>1, <3>2
  <2>3. \A n \in Names : InWindow(byUser'[n]) <= MaxUser
    BY <1>4 DEF Restart, InWindow, None
  <2> QED BY <2>2, <2>3 DEF GuessInv, SlotsPay, SlotsLimited
<1> QED BY <1>1, <1>2, <1>3, <1>4, GuessTick DEF Next

\* Within one window, and without a success in between, no more than MaxUser + MaxBcrypt
\* passwords of a name are answered as wrong, however the requests overlap and whenever
\* their slots leave the window.
THEOREM GuessesAreBounded == Spec => []GuessesBounded
<1>1. Init => GuessInv
  <2> SUFFICES ASSUME Init PROVE GuessInv
    OBVIOUS
  <2>1. ASSUME NEW n \in Watched, NEW k \in 0 .. Window
        PROVE  wrong[n][k] + Cardinality(InFlight(n)) <= byUser[n][k] + MaxBcrypt
    <3>1. InFlight(n) = {}
      BY DEF Init, InFlight
    <3>2. wrong[n][k] = 0 /\ byUser[n][k] = 0
      BY DEF Init, None
    <3> QED BY <3>1, <3>2, FS_EmptySet
  <2>2. \A n \in Names : InWindow(byUser[n]) <= MaxUser
    BY DEF Init, InWindow, None
  <2> QED BY <2>1, <2>2 DEF GuessInv, SlotsPay, SlotsLimited
<1>2. TypeOK /\ PermitsConserved /\ GuessInv /\ [Next]_vars => GuessInv'
  BY GuessStep
<1>3. TypeOK /\ PermitsConserved /\ GuessInv => GuessesBounded
  <2> SUFFICES ASSUME TypeOK, PermitsConserved, GuessInv, NEW n \in Watched
               PROVE  InWindow(wrong[n]) <= MaxUser + MaxBcrypt
    BY DEF GuessesBounded
  <2>1. wrong[n][Window] \in Nat /\ byUser[n][Window] \in Nat /\ Cardinality(InFlight(n)) \in Nat
    BY InFlightBounded, CountsAt DEF TypeOK, LimiterType
  <2>2. /\ wrong[n][Window] + Cardinality(InFlight(n)) <= byUser[n][Window] + MaxBcrypt
        /\ byUser[n][Window] <= MaxUser
    BY DEF GuessInv, SlotsPay, SlotsLimited, InWindow
  <2> QED BY <2>1, <2>2 DEF InWindow
<1> QED BY <1>1, <1>2, <1>3, TypeCorrect, PermitsAreConserved, PTL DEF Spec

-----------------------------------------------------------------------------
(* The gate.  A handler runs long after what it goes by was looked at: the *)
(* session before a ping, the database when a ping was answered, the       *)
(* ticket when it was redeemed.  The invariant dates what a request goes   *)
(* by, at each of its awaits.                                              *)

HIDE AuthAssumption
USE GateAssumption

GateRequest ==
    [at : {"idle", "database", "ping", "store", "run"}, path : Paths,
     token : Bearers \cup {Nothing}, key : Keys \cup {Nothing}, since : Int, sample : BOOLEAN]

GateTypeOK ==
    /\ now \in 0 .. MaxTime
    /\ production \in BOOLEAN /\ reachable \in BOOLEAN
    /\ other \in Int /\ Never <= other /\ other <= now
    /\ request \in [Clients -> GateRequest]
    /\ stored \subseteq Bearers /\ expires \in [Bearers -> Int] /\ left \in [Bearers -> Int]
    /\ tickets \subseteq Keys /\ issued \in [Keys -> Int]
    /\ holder \in [Keys -> Bearers \cup {Nothing}]
    /\ streams \in [Keys -> {0, 1}]
    /\ health \in [at : Int, available : BOOLEAN]

\* The instant at which what a request goes by was looked at.
Looked(c) ==
    CASE request[c].at = "run"             -> now - MaxPing
      [] request[c].at \in {"ping", "store"} -> request[c].since
      [] OTHER                             -> now

\* A ping is no older than MaxPing.
PingsEnd == \A c \in Clients : Looked(c) <= now /\ now <= Looked(c) + MaxPing

\* A token is out of the store before it is logged out, and one of a request was open
\* when it was looked up.
SessionsWereOpen ==
    /\ \A t \in Bearers : t \in stored \/ expires[t] = Never => left[t] = MaxTime + 1
    /\ \A t \in stored : expires[t] # Never
    /\ \A c \in Clients : request[c].token # Nothing => OpenAt(request[c].token, Looked(c))

\* A request has a session or a ticket, and a ticket for the stream alone.
OneOrTheOther ==
    \A c \in Clients :
        IF request[c].key = Nothing THEN request[c].at = "idle" <=> request[c].token = Nothing
        ELSE /\ request[c].at # "idle" /\ request[c].token = Nothing
             /\ request[c].path = "/api/events"

\* A ticket is stored, or in the hands of one request, or has opened its stream.
TicketsAreOnce ==
    /\ \A k \in tickets : issued[k] # Never /\ streams[k] = 0
    /\ \A k \in Keys : streams[k] = 1 => issued[k] # Never
    /\ \A c \in Clients : request[c].key # Nothing =>
          request[c].key \notin tickets /\ issued[request[c].key] # Never
            /\ streams[request[c].key] = 0
    /\ \A c, d \in Clients :
          c # d /\ request[c].key = request[d].key => request[c].key = Nothing

\* A ticket was issued to a session, and redeemed in time.
TicketsWereGood ==
    /\ \A k \in Keys : issued[k] # Never =>
          holder[k] \in Bearers /\ issued[k] \in 0 .. now /\ OpenAt(holder[k], issued[k] - MaxPing)
    /\ \A c \in Clients : request[c].at # "run" /\ request[c].key # Nothing =>
          Looked(c) - issued[request[c].key] < TicketLife

\* The database was as an answer says, no earlier than its ping began.
LastAs(available) == IF available THEN LastUp ELSE LastDown
AnswersWereTrue ==
    /\ health.at - MaxPing <= LastAs(health.available)
    /\ \A c \in Clients :
          request[c].at = "store" => request[c].since <= LastAs(request[c].sample)

GateInv == GateTypeOK /\ PingsEnd /\ SessionsWereOpen /\ OneOrTheOther
          /\ TicketsAreOnce /\ TicketsWereGood /\ AnswersWereTrue

\* A request of no client, and the moves of one that stay requests.
LEMMA IdleIsRequest == Idle \in GateRequest
  BY DEF Idle, GateRequest, Paths

LEMMA MoveIsRequest ==
  ASSUME NEW r \in GateRequest
  PROVE /\ [r EXCEPT !.at = "run"] \in GateRequest
        /\ \A i \in Int : [r EXCEPT !.at = "ping", !.since = i] \in GateRequest
        /\ \A b \in BOOLEAN : [r EXCEPT !.at = "store", !.sample = b] \in GateRequest
  BY DEF GateRequest

\* The invariant is inductive.
LEMMA GateInitInv == GateInit => GateInv
  BY DEF GateInit, GateInv, GateTypeOK, GateRequest, PingsEnd, SessionsWereOpen, OneOrTheOther,
     TicketsAreOnce, TicketsWereGood, AnswersWereTrue, Looked, LastAs, LastUp, LastDown, Idle,
     NoHealth, Never, Paths

LEMMA GateNextInv == GateInv /\ [GateNext]_gateVars => GateInv'
  <1> SUFFICES ASSUME GateInv, [GateNext]_gateVars PROVE GateInv'
    OBVIOUS
  <1>. USE DEF GateInv, auth, events, database
  <1>1. ASSUME NEW c \in Clients, NEW path \in Asked, NEW cookies \in Sent,
               Lookup(c, path, cookies)
        PROVE GateInv'
    <2> DEFINE token == SessionCookie(cookies)
               asked == [at |-> "database", path |-> path, token |-> token, key |-> Nothing,
                         since |-> 0, sample |-> FALSE]
    <2>a. /\ token \in Bearers /\ path \in Paths
          /\ request[c].at = "idle"
      BY <1>1 DEF Lookup, SessionCookie, Sent, Given, Asked
    <2>b. CASE request' = request
      <3>1. GateTypeOK'
        BY <1>1, <2>b DEF Lookup, Unexpired, GateTypeOK, Never
      <3>2. PingsEnd'
        BY <1>1, <2>b DEF Lookup, Unexpired, PingsEnd, Looked, GateTypeOK, GateRequest
      <3>3. SessionsWereOpen'
        BY <1>1, <2>b DEF Lookup, Unexpired, SessionsWereOpen, PingsEnd, Looked, OpenAt,
           GateTypeOK, GateRequest, Never
      <3>4. OneOrTheOther'
        BY <1>1, <2>b DEF Lookup, Unexpired, OneOrTheOther, GateTypeOK, GateRequest
      <3>5. TicketsAreOnce'
        BY <1>1, <2>b DEF Lookup, Unexpired, TicketsAreOnce, GateTypeOK, GateRequest, Never
      <3>6. TicketsWereGood'
        BY <1>1, <2>b DEF Lookup, Unexpired, TicketsWereGood, TicketsAreOnce, OpenAt, Looked,
           GateTypeOK, GateRequest, Never
      <3>7. AnswersWereTrue'
        BY <1>1, <2>b DEF Lookup, Unexpired, AnswersWereTrue, PingsEnd, Looked, LastAs, LastUp,
           LastDown, GateTypeOK, GateRequest
      <3>. QED BY <3>1, <3>2, <3>3, <3>4, <3>5, <3>6, <3>7
    <2>c. CASE token \in Unexpired /\ request' = [request EXCEPT ![c] = asked]
      <3>0. asked \in GateRequest
        BY <2>a DEF GateRequest
      <3>9. request' \in [Clients -> GateRequest]
        BY <2>c, <3>0 DEF GateTypeOK
      <3>. HIDE DEF token
      <3>1. GateTypeOK'
        BY <1>1, <2>a, <2>c, <3>0, <3>9 DEF Lookup, Unexpired, GateTypeOK, Never
      <3>2. PingsEnd'
        BY <1>1, <2>a, <2>c, <3>0, <3>9 DEF Lookup, Unexpired, PingsEnd, Looked, GateTypeOK,
           GateRequest
      <3>3. SessionsWereOpen'
        BY <1>1, <2>a, <2>c, <3>0, <3>9 DEF Lookup, Unexpired, SessionsWereOpen, PingsEnd,
           Looked, OpenAt, GateTypeOK, GateRequest, Never
      <3>4. OneOrTheOther'
        BY <1>1, <2>a, <2>c, <3>0, <3>9 DEF Lookup, Unexpired, OneOrTheOther, GateTypeOK,
           GateRequest
      <3>5. TicketsAreOnce'
        BY <1>1, <2>a, <2>c, <3>0, <3>9 DEF Lookup, Unexpired, TicketsAreOnce, GateTypeOK,
           GateRequest, Never
      <3>6. TicketsWereGood'
        BY <1>1, <2>a, <2>c, <3>0, <3>9 DEF Lookup, Unexpired, TicketsWereGood, TicketsAreOnce,
           OpenAt, Looked, GateTypeOK, GateRequest, Never
      <3>7. AnswersWereTrue'
        BY <1>1, <2>a, <2>c, <3>0, <3>9 DEF Lookup, Unexpired, AnswersWereTrue, PingsEnd,
           Looked, LastAs, LastUp, LastDown, GateTypeOK, GateRequest
      <3>. QED BY <3>1, <3>2, <3>3, <3>4, <3>5, <3>6, <3>7
    <2>. QED BY <1>1, <2>b, <2>c DEF Lookup, Enter, Idle
  <1>2. ASSUME NEW c \in Clients, NEW k \in Keys, issued[k] # Never, Redeem(c, k)
        PROVE GateInv'
    <2> DEFINE asked == [at |-> "database", path |-> "/api/events", token |-> Nothing,
                         key |-> k, since |-> 0, sample |-> FALSE]
    <2>b. CASE request' = request
      <3>1. GateTypeOK'
        BY <1>2, <2>b DEF Redeem, GateTypeOK, Never
      <3>2. PingsEnd'
        BY <1>2, <2>b DEF Redeem, PingsEnd, Looked, GateTypeOK, GateRequest
      <3>3. SessionsWereOpen'
        BY <1>2, <2>b DEF Redeem, SessionsWereOpen, PingsEnd, Looked, OpenAt, GateTypeOK,
           GateRequest, Never
      <3>4. OneOrTheOther'
        BY <1>2, <2>b DEF Redeem, OneOrTheOther, GateTypeOK, GateRequest
      <3>5. TicketsAreOnce'
        BY <1>2, <2>b DEF Redeem, TicketsAreOnce, GateTypeOK, GateRequest, Never
      <3>6. TicketsWereGood'
        BY <1>2, <2>b DEF Redeem, TicketsWereGood, TicketsAreOnce, OpenAt, Looked, GateTypeOK,
           GateRequest, Never
      <3>7. AnswersWereTrue'
        BY <1>2, <2>b DEF Redeem, AnswersWereTrue, PingsEnd, Looked, LastAs, LastUp, LastDown,
           GateTypeOK, GateRequest
      <3>. QED BY <3>1, <3>2, <3>3, <3>4, <3>5, <3>6, <3>7
    <2>c. CASE /\ k \in tickets /\ now - issued[k] < TicketLife
               /\ request' = [request EXCEPT ![c] = asked]
      <3>0. asked \in GateRequest
        BY DEF GateRequest, Paths
      <3>9. request' \in [Clients -> GateRequest]
        BY <2>c, <3>0 DEF GateTypeOK
      <3>1. GateTypeOK'
        BY <1>2, <2>c, <3>0, <3>9 DEF Redeem, GateTypeOK, Never
      <3>2. PingsEnd'
        BY <1>2, <2>c, <3>0, <3>9 DEF Redeem, PingsEnd, Looked, GateTypeOK, GateRequest
      <3>3. SessionsWereOpen'
        BY <1>2, <2>c, <3>0, <3>9 DEF Redeem, SessionsWereOpen, PingsEnd, Looked, OpenAt,
           GateTypeOK, GateRequest, Never
      <3>4. OneOrTheOther'
        BY <1>2, <2>c, <3>0, <3>9 DEF Redeem, OneOrTheOther, GateTypeOK, GateRequest
      <3>5. TicketsAreOnce'
        BY <1>2, <2>c, <3>0, <3>9 DEF Redeem, TicketsAreOnce, GateTypeOK, GateRequest, Never
      <3>6. TicketsWereGood'
        BY <1>2, <2>c, <3>0, <3>9 DEF Redeem, TicketsWereGood, TicketsAreOnce, OpenAt, Looked,
           GateTypeOK, GateRequest, Never
      <3>7. AnswersWereTrue'
        BY <1>2, <2>c, <3>0, <3>9 DEF Redeem, AnswersWereTrue, PingsEnd, Looked, LastAs,
           LastUp, LastDown, GateTypeOK, GateRequest
      <3>. QED BY <3>1, <3>2, <3>3, <3>4, <3>5, <3>6, <3>7
    <2>. QED BY <1>2, <2>b, <2>c DEF Redeem, Enter, Idle
  <1>3. ASSUME NEW c \in Clients, CheckDatabase(c) PROVE GateInv'
    <2>0. request' \in [Clients -> GateRequest]
      <3>1. \/ request' = [request EXCEPT ![c].at = "run"]
            \/ request' = [request EXCEPT ![c] = Idle]
            \/ request' = [request EXCEPT ![c].at = "ping", ![c].since = now]
        BY <1>3 DEF CheckDatabase, Decide, PassOn, StartPing, Goes, Ends
      <3>2. request[c] \in GateRequest /\ now \in Int
        BY DEF GateTypeOK
      <3>3. [request[c] EXCEPT !.at = "ping", !.since = now] \in GateRequest
        BY <3>2, MoveIsRequest
      <3>4. [request[c] EXCEPT !.at = "run"] \in GateRequest
        BY <3>2, MoveIsRequest
      <3>. QED BY <3>1, <3>3, <3>4, IdleIsRequest DEF GateTypeOK
    <2>r. /\ \A d \in Clients \ {c} : request'[d] = request[d]
          /\ \/ request'[c].at = "idle" /\ request'[c].token = Nothing /\ request'[c].key = Nothing
             \/ /\ request'[c].token = request[c].token /\ request'[c].key = request[c].key
                /\ request'[c].path = request[c].path
                /\ \/ request'[c].at = "run"
                   \/ request'[c].at = "ping" /\ request'[c].since = now
      BY <2>0, <1>3 DEF CheckDatabase, Decide, PassOn, StartPing, Goes, Ends, Idle, GateTypeOK,
         GateRequest
    <2>1. GateTypeOK'
      BY <2>0, <1>3 DEF CheckDatabase, Decide, PassOn, StartPing, Goes, Ends, Idle, GateTypeOK,
         Never
    <2>2. PingsEnd'
      BY <2>0, <2>r, <1>3 DEF CheckDatabase, PingsEnd, Looked, GateTypeOK, GateRequest
    <2>3. SessionsWereOpen'
      BY <2>0, <2>r, <1>3 DEF CheckDatabase, SessionsWereOpen, PingsEnd, Looked, OpenAt,
         GateTypeOK, GateRequest, Never
    <2>4. OneOrTheOther'
      BY <2>0, <2>r, <1>3 DEF CheckDatabase, OneOrTheOther, GateTypeOK, GateRequest
    <2>5. TicketsAreOnce'
      <3>1. \A d \in Clients : request'[d].key \in {request[d].key, Nothing}
        BY <2>r
      <3>2. UNCHANGED <<tickets, issued, streams>> /\ Never' = Never
        BY <1>3 DEF CheckDatabase, Never
      <3>. QED BY <3>1, <3>2 DEF TicketsAreOnce
    <2>6. TicketsWereGood'
      BY <2>0, <2>r, <1>3 DEF CheckDatabase, TicketsWereGood, TicketsAreOnce, OpenAt, Looked,
         GateTypeOK, GateRequest, Never
    <2>7. AnswersWereTrue'
      BY <2>0, <2>r, <1>3 DEF CheckDatabase, AnswersWereTrue, PingsEnd, Looked, LastAs, LastUp,
         LastDown, GateTypeOK, GateRequest
    <2>. QED BY <2>1, <2>2, <2>3, <2>4, <2>5, <2>6, <2>7
  <1>4. ASSUME NEW c \in Clients, Ping(c) PROVE GateInv'
    <2>0. request' \in [Clients -> GateRequest]
      BY <1>4, MoveIsRequest DEF Ping, GateTypeOK
    <2>r. /\ \A d \in Clients \ {c} : request'[d] = request[d]
          /\ request'[c].token = request[c].token /\ request'[c].key = request[c].key
          /\ request'[c].path = request[c].path
          /\ request'[c].at = "store" /\ request'[c].since = request[c].since
          /\ request'[c].sample = reachable
      BY <2>0, <1>4 DEF Ping, GateTypeOK, GateRequest
    <2>1. GateTypeOK'
      BY <2>0, <1>4 DEF Ping, GateTypeOK, Never
    <2>2. PingsEnd'
      BY <2>0, <2>r, <1>4 DEF Ping, PingsEnd, Looked, GateTypeOK, GateRequest
    <2>3. SessionsWereOpen'
      BY <2>0, <2>r, <1>4 DEF Ping, SessionsWereOpen, PingsEnd, Looked, OpenAt, GateTypeOK,
         GateRequest, Never
    <2>4. OneOrTheOther'
      BY <2>0, <2>r, <1>4 DEF Ping, OneOrTheOther, GateTypeOK, GateRequest
    <2>5. TicketsAreOnce'
      <3>1. \A d \in Clients : request'[d].key \in {request[d].key, Nothing}
        BY <2>r
      <3>2. UNCHANGED <<tickets, issued, streams>> /\ Never' = Never
        BY <1>4 DEF Ping, Never
      <3>. QED BY <3>1, <3>2 DEF TicketsAreOnce
    <2>6. TicketsWereGood'
      BY <2>0, <2>r, <1>4 DEF Ping, TicketsWereGood, TicketsAreOnce, OpenAt, Looked,
         GateTypeOK, GateRequest, Never
    <2>7. AnswersWereTrue'
      BY <2>0, <2>r, <1>4 DEF Ping, AnswersWereTrue, PingsEnd, Looked, LastAs, LastUp,
         LastDown, GateTypeOK, GateRequest
    <2>. QED BY <2>1, <2>2, <2>3, <2>4, <2>5, <2>6, <2>7
  <1>5. ASSUME NEW c \in Clients, StoreHealth(c) PROVE GateInv'
    <2>0. request' \in [Clients -> GateRequest]
      <3>1. \/ request' = [request EXCEPT ![c].at = "run"]
            \/ request' = [request EXCEPT ![c] = Idle]
        BY <1>5 DEF StoreHealth, Decide, PassOn, Goes, Ends
      <3>2. request[c] \in GateRequest
        BY DEF GateTypeOK
      <3>. QED BY <3>1, <3>2, IdleIsRequest, MoveIsRequest DEF GateTypeOK
    <2>r. /\ \A d \in Clients \ {c} : request'[d] = request[d]
          /\ \/ request'[c].at = "idle" /\ request'[c].token = Nothing /\ request'[c].key = Nothing
             \/ /\ request'[c].token = request[c].token /\ request'[c].key = request[c].key
                /\ request'[c].path = request[c].path
                /\ request'[c].at = "run"
      BY <2>0, <1>5 DEF StoreHealth, Decide, PassOn, Goes, Ends, Idle, GateTypeOK, GateRequest
    <2>1. GateTypeOK'
      <3>1. now \in Int /\ request[c].sample \in BOOLEAN
        BY DEF GateTypeOK, GateRequest
      <3>2. health' \in [at : Int, available : BOOLEAN]
        BY <1>5, <3>1 DEF StoreHealth
      <3>. QED BY <2>0, <1>5, <3>2 DEF StoreHealth, GateTypeOK, Never
    <2>2. PingsEnd'
      BY <2>0, <2>r, <1>5 DEF StoreHealth, PingsEnd, Looked, GateTypeOK, GateRequest
    <2>3. SessionsWereOpen'
      BY <2>0, <2>r, <1>5 DEF StoreHealth, SessionsWereOpen, PingsEnd, Looked, OpenAt,
         GateTypeOK, GateRequest, Never
    <2>4. OneOrTheOther'
      BY <2>0, <2>r, <1>5 DEF StoreHealth, OneOrTheOther, GateTypeOK, GateRequest
    <2>5. TicketsAreOnce'
      <3>1. \A d \in Clients : request'[d].key \in {request[d].key, Nothing}
        BY <2>r
      <3>2. UNCHANGED <<tickets, issued, streams>> /\ Never' = Never
        BY <1>5 DEF StoreHealth, Never
      <3>. QED BY <3>1, <3>2 DEF TicketsAreOnce
    <2>6. TicketsWereGood'
      BY <2>0, <2>r, <1>5 DEF StoreHealth, TicketsWereGood, TicketsAreOnce, OpenAt, Looked,
         GateTypeOK, GateRequest, Never
    <2>7. AnswersWereTrue'
      BY <2>0, <2>r, <1>5 DEF StoreHealth, AnswersWereTrue, PingsEnd, Looked, LastAs, LastUp,
         LastDown, GateTypeOK, GateRequest
    <2>. QED BY <2>1, <2>2, <2>3, <2>4, <2>5, <2>6, <2>7
  <1>6. ASSUME NEW c \in Clients, LogOut(c) PROVE GateInv'
    <2>0. request' \in [Clients -> GateRequest]
      BY <1>6, IdleIsRequest DEF LogOut, Ends, GateTypeOK
    <2>r. /\ \A d \in Clients \ {c} : request'[d] = request[d]
          /\ request'[c].at = "idle" /\ request'[c].token = Nothing /\ request'[c].key = Nothing
      BY <2>0, <1>6 DEF LogOut, Ends, Idle, GateTypeOK
    <2>1. GateTypeOK'
      <3>1. left' \in [Bearers -> Int]
        <4>1. CASE left[request[c].token] < now
          BY <4>1, <1>6 DEF LogOut, GateTypeOK
        <4>2. CASE ~(left[request[c].token] < now)
          <5>1. left' = [left EXCEPT ![request[c].token] = now]
            BY <4>2, <1>6 DEF LogOut
          <5>2. now \in Int
            BY DEF GateTypeOK
          <5>. QED BY <5>1, <5>2 DEF GateTypeOK
        <4>. QED BY <4>1, <4>2
      <3>. QED BY <2>0, <1>6, <3>1 DEF LogOut, GateTypeOK, Never
    <2>2. PingsEnd'
      BY <2>0, <2>r, <1>6 DEF LogOut, PingsEnd, Looked, GateTypeOK, GateRequest
    <2>3. SessionsWereOpen'
      BY <2>0, <2>r, <1>6 DEF LogOut, SessionsWereOpen, PingsEnd, Looked, OpenAt, GateTypeOK,
         GateRequest, Never
    <2>4. OneOrTheOther'
      BY <2>0, <2>r, <1>6 DEF LogOut, OneOrTheOther, GateTypeOK, GateRequest
    <2>5. TicketsAreOnce'
      <3>1. \A d \in Clients : request'[d].key \in {request[d].key, Nothing}
        BY <2>r
      <3>2. UNCHANGED <<tickets, issued, streams>> /\ Never' = Never
        BY <1>6 DEF LogOut, Never
      <3>. QED BY <3>1, <3>2 DEF TicketsAreOnce
    <2>6. TicketsWereGood'
      <3>1. \A t \in Bearers : left'[t] = left[t] \/ left'[t] = now
        BY <1>6 DEF LogOut, GateTypeOK
      <3>2. UNCHANGED <<now, issued, holder, expires>> /\ Never' = Never
        BY <1>6 DEF LogOut, Never
      <3>3. ASSUME NEW k \in Keys, issued'[k] # Never'
            PROVE /\ holder'[k] \in Bearers /\ issued'[k] \in 0 .. now'
                  /\ OpenAt(holder[k], issued[k] - MaxPing)'
        <4>1. /\ holder[k] \in Bearers /\ issued[k] \in 0 .. now
              /\ OpenAt(holder[k], issued[k] - MaxPing)
          BY <3>2, <3>3 DEF TicketsWereGood
        <4>. QED BY <3>1, <3>2, <4>1 DEF OpenAt, GateTypeOK
      <3>4. \A d \in Clients : request'[d].key # Nothing =>
               request'[d] = request[d] /\ Looked(d)' = Looked(d)
        BY <2>r, <3>2 DEF Looked
      <3>. QED BY <3>2, <3>3, <3>4 DEF TicketsWereGood, OpenAt
    <2>7. AnswersWereTrue'
      BY <2>0, <2>r, <1>6 DEF LogOut, AnswersWereTrue, PingsEnd, Looked, LastAs, LastUp,
         LastDown, GateTypeOK, GateRequest
    <2>. QED BY <2>1, <2>2, <2>3, <2>4, <2>5, <2>6, <2>7
  <1>7. ASSUME NEW c \in Clients, Me(c) PROVE GateInv'
    <2>0. request' \in [Clients -> GateRequest]
      BY <1>7, IdleIsRequest DEF Me, Ends, GateTypeOK
    <2>r. /\ \A d \in Clients \ {c} : request'[d] = request[d]
          /\ request'[c].at = "idle" /\ request'[c].token = Nothing /\ request'[c].key = Nothing
      BY <2>0, <1>7 DEF Me, Ends, Idle, GateTypeOK
    <2>1. GateTypeOK'
      BY <2>0, <1>7 DEF Me, Ends, Idle, Unexpired, GateTypeOK, Never
    <2>2. PingsEnd'
      BY <2>0, <2>r, <1>7 DEF Me, Unexpired, PingsEnd, Looked, GateTypeOK, GateRequest
    <2>3. SessionsWereOpen'
      BY <2>0, <2>r, <1>7 DEF Me, Unexpired, SessionsWereOpen, PingsEnd, Looked, OpenAt,
         GateTypeOK, GateRequest, Never
    <2>4. OneOrTheOther'
      BY <2>0, <2>r, <1>7 DEF Me, Unexpired, OneOrTheOther, GateTypeOK, GateRequest
    <2>5. TicketsAreOnce'
      <3>1. \A d \in Clients : request'[d].key \in {request[d].key, Nothing}
        BY <2>r
      <3>2. UNCHANGED <<tickets, issued, streams>> /\ Never' = Never
        BY <1>7 DEF Me, Never
      <3>. QED BY <3>1, <3>2 DEF TicketsAreOnce
    <2>6. TicketsWereGood'
      BY <2>0, <2>r, <1>7 DEF Me, Unexpired, TicketsWereGood, TicketsAreOnce, OpenAt, Looked,
         GateTypeOK, GateRequest, Never
    <2>7. AnswersWereTrue'
      BY <2>0, <2>r, <1>7 DEF Me, Unexpired, AnswersWereTrue, PingsEnd, Looked, LastAs, LastUp,
         LastDown, GateTypeOK, GateRequest
    <2>. QED BY <2>1, <2>2, <2>3, <2>4, <2>5, <2>6, <2>7
  <1>8. ASSUME NEW c \in Clients, IssueTicket(c) PROVE GateInv'
    <2>k. PICK k \in Keys :
            /\ issued[k] = Never
            /\ tickets' = {j \in tickets : now - issued[j] < TicketLife} \cup {k}
            /\ issued' = [issued EXCEPT ![k] = now]
            /\ holder' = [holder EXCEPT ![k] = request[c].token]
      BY <1>8 DEF IssueTicket
    <2>0. request' \in [Clients -> GateRequest]
      BY <1>8, IdleIsRequest DEF IssueTicket, Ends, GateTypeOK
    <2>r. /\ \A d \in Clients \ {c} : request'[d] = request[d]
          /\ request'[c].at = "idle" /\ request'[c].token = Nothing /\ request'[c].key = Nothing
      BY <2>0, <1>8 DEF IssueTicket, Ends, Idle, GateTypeOK
    <2>1. GateTypeOK'
      <3>1. issued' \in [Keys -> Int] /\ holder' \in [Keys -> Bearers \cup {Nothing}]
        BY <2>k DEF GateTypeOK, GateRequest
      <3>2. tickets' \subseteq Keys
        BY <2>k DEF GateTypeOK
      <3>. QED BY <2>0, <1>8, <3>1, <3>2 DEF IssueTicket, GateTypeOK, Never
    <2>2. PingsEnd'
      BY <2>0, <2>r, <1>8 DEF IssueTicket, PingsEnd, Looked, GateTypeOK, GateRequest
    <2>3. SessionsWereOpen'
      BY <2>0, <2>r, <1>8 DEF IssueTicket, SessionsWereOpen, PingsEnd, Looked, OpenAt,
         GateTypeOK, GateRequest, Never
    <2>4. OneOrTheOther'
      BY <2>0, <2>r, <1>8 DEF IssueTicket, OneOrTheOther, GateTypeOK, GateRequest
    <2>5. TicketsAreOnce'
      <3>1. streams' = streams /\ Never' = Never /\ now # Never
        BY <1>8 DEF IssueTicket, Never, GateTypeOK
      <3>2. \A d \in Clients : request[d].key # k
        BY <2>k DEF TicketsAreOnce
      <3>3. streams[k] = 0
        BY <2>k DEF TicketsAreOnce, GateTypeOK
      <3>4. \A d \in Clients : request'[d].key \in {request[d].key, Nothing}
        BY <2>r
      <3>5. issued'[k] # Never /\ \A j \in Keys \ {k} : issued'[j] = issued[j]
        BY <2>k, <3>1 DEF GateTypeOK
      <3>6. tickets' \subseteq tickets \cup {k}
        BY <2>k
      <3>7. \A d \in Clients : request[d].key # Nothing => request[d].key \in Keys
        BY DEF GateTypeOK, GateRequest
      <3>8. \A j \in tickets' : issued'[j] # Never /\ streams[j] = 0
        BY <3>3, <3>5, <3>6 DEF TicketsAreOnce, GateTypeOK
      <3>. QED BY <3>1, <3>2, <3>4, <3>5, <3>6, <3>7, <3>8 DEF TicketsAreOnce
    <2>6. TicketsWereGood'
      <3>1. /\ request[c].token \in Bearers
          /\ OpenAt(request[c].token, now - MaxPing)
        BY <1>8 DEF IssueTicket, OneOrTheOther, SessionsWereOpen, Looked, GateTypeOK,
           GateRequest
      <3>2. ASSUME NEW j \in Keys, issued'[j] # Never
          PROVE /\ holder'[j] \in Bearers /\ issued'[j] \in 0 .. now
                /\ OpenAt(holder'[j], issued'[j] - MaxPing)
        <4>1. CASE j = k
          BY <4>1, <2>k, <3>1 DEF GateTypeOK
        <4>2. CASE j # k
          BY <4>2, <3>2, <2>k DEF TicketsWereGood, GateTypeOK
        <4>. QED BY <4>1, <4>2
      <3>3. expires' = expires /\ left' = left /\ now' = now /\ Never' = Never
        BY <1>8 DEF IssueTicket, Never
      <3>4. ASSUME NEW d \in Clients, request'[d].at # "run", request'[d].key # Nothing
          PROVE Looked(d)' - issued'[request'[d].key] < TicketLife
        <4>1. request'[d] = request[d] /\ request[d].key # k /\ request[d].key \in Keys
          <5>1. d # c
            BY <3>4, <2>r
          <5>2. request[d].key \in Keys
            BY <5>1, <3>4, <2>r DEF GateTypeOK, GateRequest
          <5>. QED BY <5>1, <5>2, <3>4, <2>r, <2>k DEF TicketsAreOnce
        <4>. QED BY <4>1, <3>4, <3>3, <2>k DEF TicketsWereGood, Looked, GateTypeOK
      <3>. QED BY <3>2, <3>3, <3>4 DEF TicketsWereGood, OpenAt
    <2>7. AnswersWereTrue'
      BY <2>0, <2>r, <1>8 DEF IssueTicket, AnswersWereTrue, PingsEnd, Looked, LastAs, LastUp,
         LastDown, GateTypeOK, GateRequest
    <2>. QED BY <2>1, <2>2, <2>3, <2>4, <2>5, <2>6, <2>7
  <1>9. ASSUME NEW c \in Clients, OpenStream(c) PROVE GateInv'
    <2>0. request' \in [Clients -> GateRequest]
      BY <1>9, IdleIsRequest DEF OpenStream, Ends, GateTypeOK
    <2>r. /\ \A d \in Clients \ {c} : request'[d] = request[d]
          /\ request'[c].at = "idle" /\ request'[c].token = Nothing /\ request'[c].key = Nothing
      BY <2>0, <1>9 DEF OpenStream, Ends, Idle, GateTypeOK
    <2>1. GateTypeOK'
      <3>1. streams' \in [Keys -> {0, 1}]
        BY <1>9 DEF OpenStream, TicketsAreOnce, GateTypeOK
      <3>. QED BY <2>0, <1>9, <3>1 DEF OpenStream, GateTypeOK, Never
    <2>2. PingsEnd'
      BY <2>0, <2>r, <1>9 DEF OpenStream, PingsEnd, Looked, GateTypeOK, GateRequest
    <2>3. SessionsWereOpen'
      BY <2>0, <2>r, <1>9 DEF OpenStream, SessionsWereOpen, PingsEnd, Looked, OpenAt,
         GateTypeOK, GateRequest, Never
    <2>4. OneOrTheOther'
      BY <2>0, <2>r, <1>9 DEF OpenStream, OneOrTheOther, GateTypeOK, GateRequest
    <2>5. TicketsAreOnce'
      BY <2>0, <2>r, <1>9 DEF OpenStream, TicketsAreOnce, GateTypeOK, GateRequest, Never
    <2>6. TicketsWereGood'
      BY <2>0, <2>r, <1>9 DEF OpenStream, TicketsWereGood, TicketsAreOnce, OpenAt, Looked,
         GateTypeOK, GateRequest, Never
    <2>7. AnswersWereTrue'
      BY <2>0, <2>r, <1>9 DEF OpenStream, AnswersWereTrue, PingsEnd, Looked, LastAs, LastUp,
         LastDown, GateTypeOK, GateRequest
    <2>. QED BY <2>1, <2>2, <2>3, <2>4, <2>5, <2>6, <2>7
  <1>10. ASSUME NEW c \in Clients, Run(c) \/ Drop(c) PROVE GateInv'
    <2>0. request' \in [Clients -> GateRequest]
      BY <1>10, IdleIsRequest DEF Run, Drop, Ends, GateTypeOK
    <2>r. /\ \A d \in Clients \ {c} : request'[d] = request[d]
          /\ request'[c].at = "idle" /\ request'[c].token = Nothing /\ request'[c].key = Nothing
      BY <2>0, <1>10 DEF Run, Drop, Ends, Idle, GateTypeOK
    <2>1. GateTypeOK'
      BY <2>0, <1>10 DEF Run, Drop, Ends, Idle, GateTypeOK, Never
    <2>2. PingsEnd'
      BY <2>0, <2>r, <1>10 DEF Run, Drop, PingsEnd, Looked, GateTypeOK, GateRequest
    <2>3. SessionsWereOpen'
      BY <2>0, <2>r, <1>10 DEF Run, Drop, SessionsWereOpen, PingsEnd, Looked, OpenAt,
         GateTypeOK, GateRequest, Never
    <2>4. OneOrTheOther'
      BY <2>0, <2>r, <1>10 DEF Run, Drop, OneOrTheOther, GateTypeOK, GateRequest
    <2>5. TicketsAreOnce'
      <3>1. \A d \in Clients : request'[d].key \in {request[d].key, Nothing}
        BY <2>r
      <3>2. UNCHANGED <<tickets, issued, streams>> /\ Never' = Never
        BY <1>10 DEF Run, Drop, Never
      <3>. QED BY <3>1, <3>2 DEF TicketsAreOnce
    <2>6. TicketsWereGood'
      BY <2>0, <2>r, <1>10 DEF Run, Drop, TicketsWereGood, TicketsAreOnce, OpenAt, Looked,
         GateTypeOK, GateRequest, Never
    <2>7. AnswersWereTrue'
      BY <2>0, <2>r, <1>10 DEF Run, Drop, AnswersWereTrue, PingsEnd, Looked, LastAs, LastUp,
         LastDown, GateTypeOK, GateRequest
    <2>. QED BY <2>1, <2>2, <2>3, <2>4, <2>5, <2>6, <2>7
  <1>11. ASSUME NEW https \in BOOLEAN, CreateLoginResponse(https) PROVE GateInv'
    <2>1. GateTypeOK'
      BY <1>11 DEF CreateLoginResponse, Unexpired, GateTypeOK, Never
    <2>2. PingsEnd'
      BY <1>11 DEF CreateLoginResponse, Unexpired, PingsEnd, Looked, GateTypeOK, GateRequest
    <2>3. SessionsWereOpen'
      BY <1>11 DEF CreateLoginResponse, Unexpired, SessionsWereOpen, PingsEnd, Looked, OpenAt,
         GateTypeOK, GateRequest, Never
    <2>4. OneOrTheOther'
      BY <1>11 DEF CreateLoginResponse, Unexpired, OneOrTheOther, GateTypeOK, GateRequest
    <2>5. TicketsAreOnce'
      BY <1>11 DEF CreateLoginResponse, Unexpired, TicketsAreOnce, GateTypeOK, GateRequest,
         Never
    <2>6. TicketsWereGood'
      BY <1>11 DEF CreateLoginResponse, Unexpired, TicketsWereGood, TicketsAreOnce, OpenAt,
         Looked, GateTypeOK, GateRequest, Never
    <2>7. AnswersWereTrue'
      BY <1>11 DEF CreateLoginResponse, Unexpired, AnswersWereTrue, PingsEnd, Looked, LastAs,
         LastUp, LastDown, GateTypeOK, GateRequest
    <2>. QED BY <2>1, <2>2, <2>3, <2>4, <2>5, <2>6, <2>7
  <1>12. ASSUME TimePasses PROVE GateInv'
    <2>1. GateTypeOK'
      BY <1>12 DEF TimePasses, GateTypeOK, Never
    <2>2. PingsEnd'
      BY <1>12 DEF TimePasses, PingsEnd, Looked, GateTypeOK, GateRequest
    <2>3. SessionsWereOpen'
      BY <1>12 DEF TimePasses, SessionsWereOpen, OneOrTheOther, PingsEnd, Looked, OpenAt,
         GateTypeOK, GateRequest, Never
    <2>4. OneOrTheOther'
      BY <1>12 DEF TimePasses, OneOrTheOther, GateTypeOK, GateRequest
    <2>5. TicketsAreOnce'
      BY <1>12 DEF TimePasses, TicketsAreOnce, GateTypeOK, GateRequest, Never
    <2>6. TicketsWereGood'
      BY <1>12 DEF TimePasses, TicketsWereGood, OneOrTheOther, TicketsAreOnce, OpenAt, Looked,
         GateTypeOK, GateRequest, Never
    <2>7. AnswersWereTrue'
      BY <1>12 DEF TimePasses, AnswersWereTrue, PingsEnd, Looked, LastAs, LastUp, LastDown,
         GateTypeOK, GateRequest
    <2>. QED BY <2>1, <2>2, <2>3, <2>4, <2>5, <2>6, <2>7
  <1>13. ASSUME UNCHANGED gateVars PROVE GateInv'
    <2>1. GateTypeOK'
      BY <1>13 DEF gateVars, GateTypeOK, Never
    <2>2. PingsEnd'
      BY <1>13 DEF gateVars, PingsEnd, Looked, GateTypeOK, GateRequest
    <2>3. SessionsWereOpen'
      BY <1>13 DEF gateVars, SessionsWereOpen, PingsEnd, Looked, OpenAt, GateTypeOK,
         GateRequest, Never
    <2>4. OneOrTheOther'
      BY <1>13 DEF gateVars, OneOrTheOther, GateTypeOK, GateRequest
    <2>5. TicketsAreOnce'
      BY <1>13 DEF gateVars, TicketsAreOnce, GateTypeOK, GateRequest, Never
    <2>6. TicketsWereGood'
      BY <1>13 DEF gateVars, TicketsWereGood, TicketsAreOnce, OpenAt, Looked, GateTypeOK,
         GateRequest, Never
    <2>7. AnswersWereTrue'
      BY <1>13 DEF gateVars, AnswersWereTrue, PingsEnd, Looked, LastAs, LastUp, LastDown,
         GateTypeOK, GateRequest
    <2>. QED BY <2>1, <2>2, <2>3, <2>4, <2>5, <2>6, <2>7
  <1>. QED BY <1>1, <1>2, <1>3, <1>4, <1>5, <1>6, <1>7, <1>8, <1>9, <1>10, <1>11, <1>12, <1>13
           DEF GateNext

\* Every request, stored session, ticket and answer of the database is as old as the gate
\* takes it to be.
THEOREM GateInvariant == GateSpec => []GateInv
  <1>. QED BY GateInitInv, GateNextInv, PTL DEF GateSpec

\* What lets a request through, and what refuses it for the database.
Passes(c) ==
    /\ request[c].at \in {"database", "store"}
    /\ request'[c].token = request[c].token /\ request'[c].key = request[c].key
    /\ request'[c].path = request[c].path
    /\ request[c].at = "database" /\ RequiresDatabase(request[c].path) =>
          now - health.at < HealthTTL /\ health.available
    /\ request[c].at = "store" => request[c].sample
Refused(c) ==
    \/ request[c].at = "database" /\ now - health.at < HealthTTL /\ ~health.available
    \/ request[c].at = "store" /\ ~request[c].sample

\* A step lets through, or refuses for the database, for these reasons only.
LEMMA WhoPasses ==
  ASSUME GateInv, GateNext, NEW c \in Clients
  PROVE  (Enters(c) => Passes(c)) /\ (RefusedForDatabase(c) => Refused(c))
  <1>. DEFINE Goal == (Enters(c) => Passes(c)) /\ (RefusedForDatabase(c) => Refused(c))
  <1>. USE DEF GateInv, GateTypeOK, GateRequest, Enters, RefusedForDatabase
  <1>1. ASSUME NEW d \in Clients, NEW path \in Asked, NEW cookies \in Sent,
               Lookup(d, path, cookies)
        PROVE Goal
    <2>1. \/ request'[c] = request[c]
          \/ request[c].at = "idle" /\ request'[c].at = "database"
      <3>1. request[d].at = "idle"
        BY <1>1 DEF Lookup
      <3>2. \/ request' = request
            \/ \E r : r.at = "database" /\ request' = [request EXCEPT ![d] = r]
        BY <1>1 DEF Lookup, Enter, Idle
      <3>. QED BY <3>1, <3>2
    <2>. QED BY <2>1
  <1>2. ASSUME NEW d \in Clients, NEW k \in Keys, Redeem(d, k) PROVE Goal
    <2>1. \/ request'[c] = request[c]
          \/ request[c].at = "idle" /\ request'[c].at = "database"
      <3>1. request[d].at = "idle"
        BY <1>2 DEF Redeem
      <3>2. \/ request' = request
            \/ \E r : r.at = "database" /\ request' = [request EXCEPT ![d] = r]
        BY <1>2 DEF Redeem, Enter, Idle
      <3>. QED BY <3>1, <3>2
    <2>. QED BY <2>1
  <1>3. ASSUME NEW d \in Clients, CheckDatabase(d) PROVE Goal
    <2>1. CASE d = c
      BY <2>1, <1>3 DEF CheckDatabase, Decide, PassOn, StartPing, Goes, Ends, Idle, Passes,
         Refused
    <2>2. CASE d # c
      BY <2>2, <1>3 DEF CheckDatabase, Decide, PassOn, StartPing, Goes, Ends, Idle
    <2>. QED BY <2>1, <2>2
  <1>4. ASSUME NEW d \in Clients, StoreHealth(d) PROVE Goal
    <2>1. CASE d = c
      BY <2>1, <1>4 DEF StoreHealth, Decide, PassOn, Goes, Ends, Idle, Passes, Refused
    <2>2. CASE d # c
      BY <2>2, <1>4 DEF StoreHealth, Decide, PassOn, Goes, Ends, Idle
    <2>. QED BY <2>1, <2>2
  <1>5. ASSUME NEW d \in Clients, Ping(d) PROVE Goal
    BY <1>5 DEF Ping
  <1>6. ASSUME NEW d \in Clients,
               \/ LogOut(d) \/ Me(d) \/ IssueTicket(d) \/ OpenStream(d) \/ Run(d) \/ Drop(d)
        PROVE Goal
    BY <1>6 DEF LogOut, Me, IssueTicket, OpenStream, Run, Drop, Ends, Idle
  <1>7. ASSUME NEW https \in BOOLEAN, CreateLoginResponse(https) PROVE Goal
    BY <1>7 DEF CreateLoginResponse
  <1>8. ASSUME TimePasses PROVE Goal
    BY <1>8 DEF TimePasses
  <1>. QED BY <1>1, <1>2, <1>3, <1>4, <1>5, <1>6, <1>7, <1>8 DEF GateNext

\* What GateIsSound says of a step, from the invariant before it.
LEMMA StepIsSound ==
  ASSUME GateInv, GateNext
  PROVE  SessionsAreRecent /\ TicketsAreSpent /\ HealthIsRecent
  <1>1. SessionsAreRecent
    BY WhoPasses DEF SessionsAreRecent, Passes, GateInv, SessionsWereOpen, PingsEnd, Looked,
       OpenAt, GateTypeOK, GateRequest
  <1>2. TicketsAreSpent
    <2>1. \A k \in Keys : streams'[k] <= 1
      BY GateNextInv DEF GateInv, GateTypeOK
    <2>2. ASSUME NEW c \in Clients, Enters(c), request'[c].key # Nothing
          PROVE /\ now - issued[request'[c].key] < TicketLife + MaxPing
                /\ OpenAt(holder[request'[c].key], issued[request'[c].key] - MaxPing)
      BY <2>2, WhoPasses DEF Passes, GateInv, TicketsAreOnce, TicketsWereGood, PingsEnd, Looked,
         GateTypeOK, GateRequest
    <2>. QED BY <2>1, <2>2 DEF TicketsAreSpent
  <1>3. HealthIsRecent
    <2>1. ASSUME NEW c \in Clients, Enters(c), RequiresDatabase(request'[c].path)
          PROVE now - LastUp < HealthTTL + MaxPing
      BY <2>1, WhoPasses DEF Passes, GateInv, AnswersWereTrue, LastAs, PingsEnd, Looked, LastUp,
         GateTypeOK, GateRequest
    <2>2. ASSUME NEW c \in Clients, RefusedForDatabase(c)
          PROVE now - LastDown < HealthTTL + MaxPing
      <3>1. CASE now - health.at < HealthTTL /\ ~health.available
        <4>1. health.at - MaxPing <= LastDown
          BY <3>1 DEF GateInv, AnswersWereTrue, LastAs
        <4>. QED BY <3>1, <4>1 DEF LastDown, GateInv, GateTypeOK
      <3>2. CASE request[c].at = "store" /\ ~request[c].sample
        <4>1. request[c].since <= LastDown
          BY <3>2 DEF GateInv, AnswersWereTrue, LastAs
        <4>2. now <= request[c].since + MaxPing /\ request[c].since \in Int
          BY <3>2 DEF GateInv, PingsEnd, Looked, GateTypeOK, GateRequest
        <4>. QED BY <4>1, <4>2 DEF LastDown, GateInv, GateTypeOK
      <3>. QED BY <2>2, <3>1, <3>2, WhoPasses DEF Refused
    <2>. QED BY <2>1, <2>2 DEF HealthIsRecent
  <1>. QED BY <1>1, <1>2, <1>3

\* GateIsSound (access_control.rs): whoever comes through to a handler had a session, or a
\* fresh ticket of one who had, and the database was judged by an answer of its time; and
\* a ticket opens one stream.
THEOREM GateIsSoundAlways == GateSpec => GateIsSound
  <1>. DEFINE Sound == SessionsAreRecent /\ TicketsAreSpent /\ HealthIsRecent
  <1>1. GateInv /\ [GateNext]_gateVars => [Sound]_gateVars
    BY StepIsSound
  <1>. HIDE DEF Sound
  <1>2. GateSpec => [][Sound]_gateVars
    BY <1>1, GateInvariant, PTL DEF GateSpec
  <1>. QED BY <1>2 DEF Sound, GateIsSound
=============================================================================
