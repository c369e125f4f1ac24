--------------------------- MODULE RamServerProofs ---------------------------
(***************************************************************************)
(* AppliedIsServed and UpdatesAreSound of RamRemote, for any users and any *)
(* number of updates; CopiesAreTrue of RamDownloads, for any number of     *)
(* versions of a file; and AnswersFollowRules of RamAccess, for any files  *)
(* and rules.                                                              *)
(*                                                                         *)
(* An update that met no other finds the accounts as it read them and ram  *)
(* as the last one left it.  The invariant follows what it has stored from *)
(* the transaction to the temporary file, the state file and the memory of *)
(* ram, and what a restart of ram would read at each point.                *)
(*                                                                         *)
(* A clean copy is the beginning of a version whose tag the client has, and *)
(* what streams goes on where the copy ends, in the file it is of.         *)
(*                                                                         *)
(* The tree that merge builds item by item is the one a rule describes     *)
(* (MergeIs), the permission it gives is that of the longest path named    *)
(* (MergeGives), and a tree that has absorbed another gives what one of    *)
(* them gives (AbsorbIs).  Whatever a handler takes from the tree follows. *)
(***************************************************************************)
EXTENDS RamRemote, RamDownloads, RamAccess, FiniteSetTheorems, WellFoundedInduction, TLAPS

USE RemoteAssumption

\* Who waits for ram has committed; who has not begun has nothing.
Ordered ==
    /\ \A u \in Updates : Pending(u) => phase[u] \in {"sent", "unapplied"}
    /\ latest # 0 => phase[latest] \notin {"new", "read", "permissions", "accounts", "failed"}
    /\ \A u \in Updates : /\ next[u].admin = NoOne \/ next[u].admin.name \in Names
                          /\ prior[u] # u

\* An update that is under way and single is the only one.
OneIsSingle ==
    \A u, v \in Updates :
        single[u] /\ UnderWay(u) /\ UnderWay(v) => u = v
\* Nobody but the last to commit has anything to do with ram, if that one is single.
LatestIsLast ==
    latest # 0 /\ single[latest] =>
        \A u \in Updates \ {latest} : phase[u] \notin {"saved", "sent"} /\ ~Pending(u)

\* What the single update has read of the accounts is what they are.
ReadIsTrue ==
    \A u \in Updates : single[u] /\ exists =>
        /\ phase[u] = "accounts" => view[u] = accounts
        /\ phase[u] \in {"read", "permissions", "accounts"} =>
              \A n \in kept[u] : /\ next[u].rules[n] = Password(accounts, n)
                                 /\ next[u].rules[n] # 0
CommittedIsStored ==
    latest # 0 /\ single[latest] /\ exists => accounts = Rows(next[latest], latest)

\* ram has the rules of the last update where it has got to with them.
RulesArrive ==
    latest # 0 /\ single[latest] =>
        LET new == Served(next[latest])
        IN /\ ram[latest] = "written" => temporary = new /\ HasUsers(new)
           /\ ram[latest] = "stored" => (persists => file = new) /\ HasUsers(new)
           /\ phase[latest] = "applied" /\ ~forgotten =>
                 memory = new /\ (persists => file = new) /\ HasUsers(new)

\* What a restart of ram reads.
AtRestart == IF file # Silent THEN file ELSE started
\* Before the first commit ram is as it was started.
NothingYet ==
    latest = 0 =>
        /\ memory = started /\ file = Silent
        /\ \A u \in Updates : phase[u] \in {"new", "read", "permissions", "accounts", "failed"}
        /\ linked /\ exists => Accepted(Administrator(accounts)) /\ Administrator(accounts) # NoOne

\* The account a single update authenticates with is one ram knows, and will know after a
\* restart, until the update itself changes that.
Recognised ==
    \A u \in Updates :
        /\ single[u] /\ exists /\ ~forgotten /\ Agreed(prior[u])
        /\ phase[u] \in {"read", "permissions", "accounts", "saved"} \/ ram[u] = "sent"
        => Accepted(credential[u]) /\ (persists => memory = AtRestart)

RemoteInv ==
    /\ RemoteTypeOK /\ Ordered /\ OneIsSingle /\ LatestIsLast /\ ReadIsTrue /\ CommittedIsStored
    /\ RulesArrive /\ NothingYet /\ Recognised

-----------------------------------------------------------------------------
(* The operators. *)

LEMMA SilentIsSilent == ~HasUsers(Silent)
  BY DEF HasUsers, Silent, NoAccounts, Served, NoOne, Names

LEMMA AdministratorOfRows ==
  ASSUME NEW new \in Accounts, NEW by, new.admin # NoOne
  PROVE  Administrator(Rows(new, by)) = new.admin
  <1>. DEFINE row == Row(Management, new.admin.name, new.admin.password, by)
  <1>1. row \in Rows(new, by) /\ row.key = Management
    BY DEF Rows, Row
  <1>2. \A r \in Rows(new, by) : r.key = Management => r = row
    BY DEF Rows, Row
  <1>3. (CHOOSE r \in Rows(new, by) : r.key = Management) = row
    BY <1>1, <1>2
  <1>4. Administrator(Rows(new, by)) = [name |-> row.name, password |-> row.password]
    BY <1>1, <1>3 DEF Administrator
  <1>. QED BY <1>4 DEF Row, Accounts, Account

LEMMA PasswordOfRows ==
  ASSUME NEW new \in Accounts, NEW by, NEW n \in Users, new.rules[n] # 0
  PROVE  Password(Rows(new, by), n) = new.rules[n]
  <1>. DEFINE row == Row(n, n, new.rules[n], by)
              Is(r) == IsOrdinary(r) /\ r.name = n
  <1>1. row \in Rows(new, by) /\ Is(row)
    BY DEF Rows, Row, IsOrdinary
  <1>2. \A r \in Rows(new, by) : Is(r) => r = row
    BY DEF Rows, Row, IsOrdinary
  <1>3. (CHOOSE r \in Rows(new, by) : Is(r)) = row
    BY <1>1, <1>2
  <1>4. Password(Rows(new, by), n) = row.password
    BY <1>1, <1>3 DEF Password
  <1>. QED BY <1>4 DEF Row

LEMMA SilentType == Silent \in ServedRules
  BY DEF Silent, NoAccounts, Served, ServedRules, NoOne, Names

LEMMA RowsType ==
  ASSUME NEW new \in Accounts, NEW by \in Updates \cup {0},
         new.admin = NoOne \/ new.admin.name \in Names
  PROVE  Rows(new, by) \in Table /\ Served(new) \in ServedRules
  BY DEF Rows, Row, Accounts, Account, Table, NamedRows, Served, ServedRules, Names, Updates, NoOne

\* Whom the rows of a table let in, the rules let in that are served.
LEMMA RowsAreServed ==
  ASSUME NEW new \in Accounts, NEW by, new.admin = NoOne \/ new.admin.name \in Names
  PROVE  /\ \A n \in Names : Admits(Rows(new, by), n, Served(new).names[n])
         /\ Served(new).everyone <=> OpenTo(Rows(new, by)) /\ Administrator(Rows(new, by)) # NoOne
  <1>. DEFINE rows == Rows(new, by)
  <1>1. Administrator(rows) = new.admin
    <2>1. CASE new.admin = NoOne
      <3>1. \A r \in rows : r.key # Management
        BY <2>1 DEF Rows, Row
      <3>. QED BY <2>1, <3>1 DEF Administrator
    <2>. QED BY <2>1, AdministratorOfRows
  <1>2. ASSUME NEW n \in Names
        PROVE  Password(rows, n) = IF n \in Users THEN new.rules[n] ELSE 0
    <2>1. ASSUME ~ (n \in Users /\ new.rules[n] # 0) PROVE ~\E r \in rows : IsOrdinary(r) /\ r.name = n
      BY <2>1 DEF Rows, Row, IsOrdinary, Names
    <2>2. CASE n \in Users /\ new.rules[n] # 0
      BY <2>2, PasswordOfRows
    <2>3. CASE ~ (n \in Users /\ new.rules[n] # 0)
      <3>1. Password(rows, n) = 0
        BY <2>1, <2>3 DEF Password
      <3>. QED BY <3>1, <2>3
    <2>. QED BY <2>2, <2>3
  <1>3. OpenTo(rows) <=> new.everyone
    <2>1. new.everyone \in BOOLEAN
      BY DEF Accounts
    <2>2. \A r \in rows : r.key = Everyone => new.everyone
      BY DEF Rows, Row
    <2>3. new.everyone => Row(Everyone, NoName, 0, by) \in rows /\ Row(Everyone, NoName, 0, by).key = Everyone
      BY DEF Rows, Row
    <2>. HIDE DEF rows
    <2>. QED BY <2>1, <2>2, <2>3 DEF OpenTo
  <1>4. \A n \in Names : Served(new).names[n] =
           IF n = new.admin.name THEN [password |-> new.admin.password, root |-> TRUE]
           ELSE [password |-> IF n \in Users THEN new.rules[n] ELSE 0, root |-> FALSE]
    BY DEF Served
  <1>5. Served(new).everyone <=> new.everyone /\ new.admin # NoOne
    BY DEF Served, Accounts
  <1>. HIDE DEF rows
  <1>6. \A n \in Names : Admits(rows, n, Served(new).names[n])
    BY <1>1, <1>2, <1>4 DEF Admits
  <1>. QED BY <1>1, <1>3, <1>5, <1>6 DEF rows

LEMMA StoredType ==
  ASSUME NEW rows \in Table
  PROVE  /\ \A n : Password(rows, n) \in 0 .. MaxUpdates + 1
         /\ Administrator(rows) \in Account
         /\ Administrator(rows) # NoOne => Administrator(rows).name \in Names
  <1>1. \A n : Password(rows, n) \in 0 .. MaxUpdates + 1
    BY DEF Password, Table, NamedRows
  <1>2. CASE \E r \in rows : r.key = Management
    <2>. DEFINE row == CHOOSE r \in rows : r.key = Management
    <2>1. row \in rows /\ row.key = Management
      BY <1>2
    <2>2. Administrator(rows) = [name |-> row.name, password |-> row.password]
      BY <1>2 DEF Administrator
    <2>. HIDE DEF row
    <2>3. row.name \in Names /\ row.password \in 0 .. MaxUpdates + 1
      BY <1>2, <2>1, RemoteAssumption DEF Table, NamedRows
    <2>4. Administrator(rows) \in Account
      BY <2>2, <2>3 DEF Account
    <2>. QED BY <1>1, <2>2, <2>3, <2>4
  <1>3. CASE ~\E r \in rows : r.key = Management
    BY <1>1, <1>3 DEF Administrator, NoOne, Account
  <1>. QED BY <1>2, <1>3

-----------------------------------------------------------------------------
(* The invariant is inductive. *)

LEMMA TableClosed ==
  /\ {} \in Table
  /\ \A a \in Table : \A b : a \cap b \in Table /\ a \ b \in Table
  /\ \A a, b \in Table : a \cup b \in Table
  BY DEF Table

LEMMA RemoteInitInv == RemoteInit => RemoteInv
  <1>. SUFFICES ASSUME RemoteInit PROVE RemoteInv
    OBVIOUS
  <1>. PICK new \in Accounts : /\ new.admin = [name |-> Admin, password |-> 1]
                               /\ started = Served(new)
                               /\ accounts = IF linked THEN Rows(new, 0) ELSE {}
    <2>1. PICK known \in SUBSET Users, everyone \in BOOLEAN :
            LET new == [rules |-> [n \in Users |-> IF n \in known THEN 1 ELSE 0],
                        admin |-> [name |-> Admin, password |-> 1], everyone |-> everyone]
            IN /\ started = Served(new)
               /\ accounts = IF linked THEN Rows(new, 0) ELSE {}
      BY DEF RemoteInit
    <2>. DEFINE new == [rules |-> [n \in Users |-> IF n \in known THEN 1 ELSE 0],
                       admin |-> [name |-> Admin, password |-> 1], everyone |-> everyone]
    <2>2. new \in Accounts
      BY DEF Accounts, Account, Names
    <2>. QED BY <2>1, <2>2
  <1>1. new.admin # NoOne /\ new.admin.name \in Names
    BY DEF NoOne, Names
  <1>2. RemoteTypeOK
    <2>1. Rows(new, 0) \in Table /\ Served(new) \in ServedRules /\ {} \in Table
      BY <1>1, RowsType, TableClosed
    <2>2. NoAccounts \in Accounts /\ NoOne \in Account
      BY DEF NoAccounts, Accounts, Account, NoOne
    <2>3. /\ next \in [Updates -> Accounts] /\ credential \in [Updates -> Account]
          /\ view \in [Updates -> Table] /\ held \in [Updates -> Table] /\ accounts \in Table
      BY <2>1, <2>2 DEF RemoteInit
    <2>4. /\ {memory, temporary, file, started} \subseteq ServedRules
          /\ {exists, persists, linked, forgotten} \subseteq BOOLEAN
      BY <2>1, SilentType DEF RemoteInit
    <2>5. /\ phase \in [Updates -> Ended \cup {"new", "read", "permissions", "accounts", "saved", "sent"}]
          /\ ram \in [Updates -> {"none", "sent", "admitted", "written", "stored"}]
          /\ kept \in [Updates -> SUBSET Users] /\ single \in [Updates -> BOOLEAN]
          /\ prior \in [Updates -> 0 .. MaxUpdates] /\ latest \in 0 .. MaxUpdates
      BY DEF RemoteInit
    <2>. QED BY <2>3, <2>4, <2>5 DEF RemoteTypeOK
  <1>3. NothingYet
    <2>1. Administrator(Rows(new, 0)) = new.admin
      BY <1>1, AdministratorOfRows
    <2>2. Served(new).names[new.admin.name] = [password |-> new.admin.password, root |-> TRUE]
      BY <1>1 DEF Served
    <2>. QED BY <1>1, <2>1, <2>2 DEF RemoteInit, NothingYet, Accepted
  <1>4. Ordered /\ OneIsSingle /\ LatestIsLast /\ ReadIsTrue /\ CommittedIsStored
    BY DEF RemoteInit, Ordered, OneIsSingle, LatestIsLast, ReadIsTrue, CommittedIsStored,
       Pending, NoAccounts, NoOne, Updates
  <1>5. RulesArrive /\ Recognised
    BY DEF RemoteInit, RulesArrive, Recognised
  <1>. QED BY <1>2, <1>3, <1>4, <1>5 DEF RemoteInv

LEMMA RemoteNextInv == RemoteInv /\ [RemoteNext]_remoteVars => RemoteInv'
  <1> SUFFICES ASSUME RemoteInv, [RemoteNext]_remoteVars PROVE RemoteInv'
    OBVIOUS
  <1>. USE DEF RemoteInv, sending, tables, ramState, ramStart, marks
  <1>0. ASSUME NEW u \in Updates, Begin(u) PROVE RemoteInv'
    <2>1. RemoteTypeOK'
      <3>0. {r \in accounts : IsOrdinary(r)} \in Table
        BY DEF RemoteTypeOK, Table, NamedRows
      <3>1. view' \in [Updates -> Table] /\ held' \in [Updates -> Table]
        BY <1>0, <3>0 DEF Begin, RemoteTypeOK
      <3>. QED BY <1>0, <3>1 DEF Begin, RemoteTypeOK
    <2>2. Ordered'
      BY <1>0 DEF Begin, Ordered, Pending, Ended, RemoteTypeOK
    <2>3. OneIsSingle'
      BY <1>0 DEF Begin, OneIsSingle, Ordered, UnderWay, Pending, Ended,
         RemoteTypeOK
    <2>4. LatestIsLast'
      BY <1>0 DEF Begin, LatestIsLast, OneIsSingle, Ordered, UnderWay, Pending,
         Ended, RemoteTypeOK
    <2>5. ReadIsTrue'
      BY <1>0 DEF Begin, ReadIsTrue, OneIsSingle, UnderWay, Pending, Ended,
         RemoteTypeOK
    <2>6. CommittedIsStored'
      BY <1>0 DEF Begin, CommittedIsStored, LatestIsLast, Ordered, RemoteTypeOK
    <2>7. RulesArrive'
      BY <1>0 DEF Begin, RulesArrive, LatestIsLast, Ordered, Pending, RemoteTypeOK
    <2>8. NothingYet'
      BY <1>0 DEF Begin, NothingYet, Ordered, Pending, Accepted, RemoteTypeOK
    <2>9. Recognised'
      BY <1>0 DEF Begin, Recognised, OneIsSingle, UnderWay, Pending, Ended, Agreed,
         AtRestart, Accepted, RemoteTypeOK
    <2>. QED BY <2>1, <2>2, <2>3, <2>4, <2>5, <2>6, <2>7, <2>8, <2>9
  <1>1. ASSUME NEW u \in Updates, DeletePermissions(u) PROVE RemoteInv'
    <2>1. RemoteTypeOK'
      <3>1. view' \in [Updates -> Table] /\ held' \in [Updates -> Table]
        BY <1>1, TableClosed DEF DeletePermissions, RemoteTypeOK
      <3>. QED BY <1>1, <3>1 DEF DeletePermissions, RemoteTypeOK
    <2>2. Ordered'
      BY <1>1 DEF DeletePermissions, Ordered, Pending, Ended, RemoteTypeOK
    <2>3. OneIsSingle'
      BY <1>1 DEF DeletePermissions, OneIsSingle, Ordered, UnderWay, Pending, Ended,
         RemoteTypeOK
    <2>4. LatestIsLast'
      BY <1>1 DEF DeletePermissions, LatestIsLast, OneIsSingle, Ordered, UnderWay, Pending,
         Ended, RemoteTypeOK
    <2>5. ReadIsTrue'
      BY <1>1 DEF DeletePermissions, ReadIsTrue, OneIsSingle, UnderWay, Pending, Ended,
         RemoteTypeOK
    <2>6. CommittedIsStored'
      BY <1>1 DEF DeletePermissions, CommittedIsStored, LatestIsLast, Ordered, RemoteTypeOK
    <2>7. RulesArrive'
      BY <1>1 DEF DeletePermissions, RulesArrive, LatestIsLast, Ordered, Pending, RemoteTypeOK
    <2>8. NothingYet'
      BY <1>1 DEF DeletePermissions, NothingYet, Ordered, Pending, Accepted, RemoteTypeOK
    <2>9. Recognised'
      BY <1>1 DEF DeletePermissions, Recognised, OneIsSingle, UnderWay, Pending, Ended, Agreed,
         AtRestart, Accepted, RemoteTypeOK
    <2>. QED BY <2>1, <2>2, <2>3, <2>4, <2>5, <2>6, <2>7, <2>8, <2>9
  <1>2. ASSUME NEW u \in Updates, Replace(u) PROVE RemoteInv'
    <2>1. RemoteTypeOK'
      <3>1. view' \in [Updates -> Table] /\ held' \in [Updates -> Table]
        BY <1>2, TableClosed DEF Replace, Leaves, RemoteTypeOK
      <3>2. Rows(next[u], u) \in Table
        BY RowsType DEF RemoteTypeOK, Ordered
      <3>3. accounts' \in Table
        BY <1>2, <3>2, TableClosed DEF Replace, RemoteTypeOK
      <3>. QED BY <1>2, <3>1, <3>3 DEF Replace, RemoteTypeOK, Updates
    <2>2. Ordered'
      BY <1>2 DEF Replace, Leaves, Ordered, Pending, Ended, RemoteTypeOK
    <2>3. OneIsSingle'
      BY <1>2 DEF Replace, Leaves, OneIsSingle, Ordered, UnderWay, Pending, Ended, RemoteTypeOK
    <2>4. LatestIsLast'
      BY <1>2 DEF Replace, Leaves, LatestIsLast, OneIsSingle, Ordered, UnderWay, Pending,
         Ended, RemoteTypeOK
    <2>5. ReadIsTrue'
      BY <1>2 DEF Replace, Leaves, ReadIsTrue, OneIsSingle, UnderWay, Pending, Ended,
         RemoteTypeOK
    <2>6. CommittedIsStored'
      <3>1. single[u] /\ exists => accounts \ view[u] = {}
        BY <1>2 DEF Replace, ReadIsTrue
      <3>. QED BY <1>2, <3>1 DEF Replace, CommittedIsStored
    <2>7. RulesArrive'
      BY <1>2 DEF Replace, Leaves, RulesArrive, LatestIsLast, Ordered, Pending, RemoteTypeOK
    <2>8. NothingYet'
      BY <1>2 DEF Replace, NothingYet, Updates
    <2>9. Recognised'
      BY <1>2 DEF Replace, Leaves, Recognised, OneIsSingle, UnderWay, Pending, Ended, Agreed,
         AtRestart, Accepted, RemoteTypeOK
    <2>. QED BY <2>1, <2>2, <2>3, <2>4, <2>5, <2>6, <2>7, <2>8, <2>9
  <1>3. ASSUME NEW u \in Updates, RollBack(u) PROVE RemoteInv'
    <2>1. RemoteTypeOK'
      <3>1. view' \in [Updates -> Table] /\ held' \in [Updates -> Table]
        BY <1>3, TableClosed DEF RollBack, Leaves, RemoteTypeOK
      <3>. QED BY <1>3, <3>1 DEF RollBack, RemoteTypeOK, Ended
    <2>2. Ordered'
      BY <1>3 DEF RollBack, Leaves, Ordered, Pending, Ended, RemoteTypeOK
    <2>3. OneIsSingle'
      BY <1>3 DEF RollBack, Leaves, OneIsSingle, Ordered, UnderWay, Pending, Ended,
         RemoteTypeOK
    <2>4. LatestIsLast'
      BY <1>3 DEF RollBack, Leaves, LatestIsLast, OneIsSingle, Ordered, UnderWay, Pending,
         Ended, RemoteTypeOK
    <2>5. ReadIsTrue'
      BY <1>3 DEF RollBack, Leaves, ReadIsTrue, OneIsSingle, UnderWay, Pending, Ended,
         RemoteTypeOK
    <2>6. CommittedIsStored'
      BY <1>3 DEF RollBack, Leaves, CommittedIsStored, LatestIsLast, Ordered, RemoteTypeOK
    <2>7. RulesArrive'
      BY <1>3 DEF RollBack, Leaves, RulesArrive, LatestIsLast, Ordered, Pending, RemoteTypeOK
    <2>8. NothingYet'
      BY <1>3 DEF RollBack, Leaves, NothingYet, Ordered, Pending, Accepted, RemoteTypeOK
    <2>9. Recognised'
      BY <1>3 DEF RollBack, Leaves, Recognised, OneIsSingle, UnderWay, Pending, Ended, Agreed,
         AtRestart, Accepted, RemoteTypeOK
    <2>. QED BY <2>1, <2>2, <2>3, <2>4, <2>5, <2>6, <2>7, <2>8, <2>9
  <1>4. ASSUME NEW u \in Updates, SendRules(u) PROVE RemoteInv'
    <2>1. RemoteTypeOK'
      BY <1>4 DEF SendRules, RemoteTypeOK, Ended
    <2>2. Ordered'
      BY <1>4 DEF SendRules, Ordered, Pending, Ended, RemoteTypeOK
    <2>3. OneIsSingle'
      BY <1>4 DEF SendRules, OneIsSingle, Ordered, UnderWay, Pending, Ended, RemoteTypeOK
    <2>4. LatestIsLast'
      BY <1>4 DEF SendRules, LatestIsLast, OneIsSingle, Ordered, UnderWay, Pending, Ended,
         RemoteTypeOK
    <2>5. ReadIsTrue'
      BY <1>4 DEF SendRules, ReadIsTrue, OneIsSingle, UnderWay, Pending, Ended, RemoteTypeOK
    <2>6. CommittedIsStored'
      BY <1>4 DEF SendRules, CommittedIsStored, LatestIsLast, Ordered, RemoteTypeOK
    <2>7. RulesArrive'
      BY <1>4 DEF SendRules, RulesArrive, LatestIsLast, Ordered, Pending, RemoteTypeOK
    <2>8. NothingYet'
      BY <1>4 DEF SendRules, NothingYet, Ordered, Pending, Accepted, RemoteTypeOK
    <2>9. Recognised'
      BY <1>4 DEF SendRules, Recognised, OneIsSingle, UnderWay, Pending, Ended, Agreed,
         AtRestart, Accepted, RemoteTypeOK
    <2>. QED BY <2>1, <2>2, <2>3, <2>4, <2>5, <2>6, <2>7, <2>8, <2>9
  <1>5. ASSUME NEW u \in Updates, GiveUp(u) PROVE RemoteInv'
    <2>1. RemoteTypeOK'
      BY <1>5 DEF GiveUp, RemoteTypeOK, Ended
    <2>2. Ordered'
      BY <1>5 DEF GiveUp, Ordered, Pending, Ended, RemoteTypeOK
    <2>3. OneIsSingle'
      BY <1>5 DEF GiveUp, OneIsSingle, Ordered, UnderWay, Pending, Ended, RemoteTypeOK
    <2>4. LatestIsLast'
      BY <1>5 DEF GiveUp, LatestIsLast, OneIsSingle, Ordered, UnderWay, Pending, Ended,
         RemoteTypeOK
    <2>5. ReadIsTrue'
      BY <1>5 DEF GiveUp, ReadIsTrue, OneIsSingle, UnderWay, Pending, Ended, RemoteTypeOK
    <2>6. CommittedIsStored'
      BY <1>5 DEF GiveUp, CommittedIsStored, LatestIsLast, Ordered, RemoteTypeOK
    <2>7. RulesArrive'
      BY <1>5 DEF GiveUp, RulesArrive, LatestIsLast, Ordered, Pending, RemoteTypeOK
    <2>8. NothingYet'
      BY <1>5 DEF GiveUp, NothingYet, Ordered, Pending, Accepted, RemoteTypeOK
    <2>9. Recognised'
      BY <1>5 DEF GiveUp, Recognised, OneIsSingle, UnderWay, Pending, Ended, Agreed, AtRestart,
         Accepted, RemoteTypeOK
    <2>. QED BY <2>1, <2>2, <2>3, <2>4, <2>5, <2>6, <2>7, <2>8, <2>9
  <1>6. ASSUME DeleteInstance PROVE RemoteInv'
    <2>1. RemoteTypeOK'
      BY <1>6, TableClosed DEF DeleteInstance, RemoteTypeOK
    <2>2. Ordered'
      BY <1>6 DEF DeleteInstance, Ordered, Pending, Ended, RemoteTypeOK
    <2>3. OneIsSingle'
      BY <1>6 DEF DeleteInstance, OneIsSingle, Ordered, UnderWay, Pending, Ended, RemoteTypeOK
    <2>4. LatestIsLast'
      BY <1>6 DEF DeleteInstance, LatestIsLast, OneIsSingle, Ordered, UnderWay, Pending, Ended,
         RemoteTypeOK
    <2>5. ReadIsTrue'
      BY <1>6 DEF DeleteInstance, ReadIsTrue, OneIsSingle, UnderWay, Pending, Ended,
         RemoteTypeOK
    <2>6. CommittedIsStored'
      BY <1>6 DEF DeleteInstance, CommittedIsStored, LatestIsLast, Ordered, RemoteTypeOK
    <2>7. RulesArrive'
      BY <1>6 DEF DeleteInstance, RulesArrive, LatestIsLast, Ordered, Pending, RemoteTypeOK
    <2>8. NothingYet'
      BY <1>6 DEF DeleteInstance, NothingYet, Ordered, Pending, Accepted, RemoteTypeOK
    <2>9. Recognised'
      BY <1>6 DEF DeleteInstance, Recognised, OneIsSingle, UnderWay, Pending, Ended, Agreed,
         AtRestart, Accepted, RemoteTypeOK
    <2>. QED BY <2>1, <2>2, <2>3, <2>4, <2>5, <2>6, <2>7, <2>8, <2>9
  <1>7. ASSUME NEW u \in Updates, Admit(u) PROVE RemoteInv'
    <2>1. RemoteTypeOK'
      BY <1>7 DEF Admit, RemoteTypeOK, Ended
    <2>2. Ordered'
      BY <1>7 DEF Admit, Ordered, Pending, Ended, RemoteTypeOK
    <2>3. OneIsSingle'
      BY <1>7 DEF Admit, OneIsSingle, Ordered, UnderWay, Pending, Ended, RemoteTypeOK
    <2>4. LatestIsLast'
      BY <1>7 DEF Admit, LatestIsLast, OneIsSingle, Ordered, UnderWay, Pending, Ended,
         RemoteTypeOK
    <2>5. ReadIsTrue'
      BY <1>7 DEF Admit, ReadIsTrue, OneIsSingle, UnderWay, Pending, Ended, RemoteTypeOK
    <2>6. CommittedIsStored'
      BY <1>7 DEF Admit, CommittedIsStored, LatestIsLast, Ordered, RemoteTypeOK
    <2>7. RulesArrive'
      BY <1>7 DEF Admit, RulesArrive, LatestIsLast, Ordered, Pending, RemoteTypeOK
    <2>8. NothingYet'
      BY <1>7 DEF Admit, NothingYet, Ordered, Pending, Accepted, RemoteTypeOK
    <2>9. Recognised'
      BY <1>7 DEF Admit, Recognised, OneIsSingle, UnderWay, Pending, Ended, Agreed, AtRestart,
         Accepted, RemoteTypeOK
    <2>. QED BY <2>1, <2>2, <2>3, <2>4, <2>5, <2>6, <2>7, <2>8, <2>9
  <1>8. ASSUME NEW u \in Updates, Refuse(u) \/ Reject(u) \/ RenameFails(u) PROVE RemoteInv'
    <2>r. /\ Pending(u)
          /\ ram' = [ram EXCEPT ![u] = "none"]
          /\ phase' = [phase EXCEPT ![u] = "unapplied"]
          /\ UNCHANGED <<sending, tables, ramState, ramStart, marks>>
      <3>1. Pending(u) /\ Answers(u, "unapplied")
            /\ UNCHANGED <<sending, tables, ramState, ramStart, marks>>
        BY <1>8 DEF Refuse, Reject, RenameFails, Pending
      <3>2. phase[u] = "sent" \/ phase[u] = "unapplied"
        BY <3>1 DEF Ordered
      <3>3. phase' = [phase EXCEPT ![u] = "unapplied"]
        BY <3>1, <3>2 DEF Answers, RemoteTypeOK
      <3>. QED BY <3>1, <3>3 DEF Answers
    <2>1. RemoteTypeOK'
      BY <2>r DEF RemoteTypeOK, Ended
    <2>2. Ordered'
      BY <2>r DEF Ordered, Pending, Ended, RemoteTypeOK
    <2>3. OneIsSingle'
      BY <2>r DEF OneIsSingle, Ordered, UnderWay, Pending, Ended, RemoteTypeOK
    <2>4. LatestIsLast'
      BY <2>r DEF LatestIsLast, OneIsSingle, Ordered, UnderWay, Pending, Ended, RemoteTypeOK
    <2>5. ReadIsTrue'
      BY <2>r DEF ReadIsTrue, OneIsSingle, UnderWay, Pending, Ended, RemoteTypeOK
    <2>6. CommittedIsStored'
      BY <2>r DEF CommittedIsStored, LatestIsLast, Ordered, RemoteTypeOK
    <2>7. RulesArrive'
      BY <2>r DEF RulesArrive, LatestIsLast, Ordered, Pending, RemoteTypeOK
    <2>8. NothingYet'
      BY <2>r DEF NothingYet, Ordered, Pending, Accepted, RemoteTypeOK
    <2>9. Recognised'
      BY <2>r DEF Recognised, OneIsSingle, UnderWay, Pending, Ended, Agreed, AtRestart,
         Accepted, RemoteTypeOK
    <2>. QED BY <2>1, <2>2, <2>3, <2>4, <2>5, <2>6, <2>7, <2>8, <2>9
  <1>9. ASSUME NEW u \in Updates, Persist(u) PROVE RemoteInv'
    <2>1. RemoteTypeOK'
      <3>1. Served(next[u]) \in ServedRules
        BY RowsType DEF RemoteTypeOK, Ordered
      <3>2. temporary' \in ServedRules
        BY <1>9, <3>1 DEF Persist, RemoteTypeOK
      <3>3. ram' \in [Updates -> {"none", "sent", "admitted", "written", "stored"}]
        BY <1>9 DEF Persist, RemoteTypeOK
      <3>. QED BY <1>9, <3>2, <3>3 DEF Persist, RemoteTypeOK
    <2>2. Ordered'
      BY <1>9 DEF Persist, Ordered, Pending, Ended, RemoteTypeOK
    <2>3. OneIsSingle'
      BY <1>9 DEF Persist, OneIsSingle, Ordered, UnderWay, Pending, Ended, RemoteTypeOK
    <2>4. LatestIsLast'
      BY <1>9 DEF Persist, LatestIsLast, OneIsSingle, Ordered, UnderWay, Pending, Ended,
         RemoteTypeOK
    <2>5. ReadIsTrue'
      BY <1>9 DEF Persist, ReadIsTrue, OneIsSingle, UnderWay, Pending, Ended, RemoteTypeOK
    <2>6. CommittedIsStored'
      BY <1>9 DEF Persist, CommittedIsStored, LatestIsLast, Ordered, RemoteTypeOK
    <2>7. RulesArrive'
      BY <1>9 DEF Persist, RulesArrive, LatestIsLast, Ordered, Pending, RemoteTypeOK
    <2>8. NothingYet'
      BY <1>9 DEF Persist, NothingYet, Ordered, Pending, Accepted, RemoteTypeOK
    <2>9. Recognised'
      BY <1>9 DEF Persist, Recognised, OneIsSingle, UnderWay, Pending, Ended, Agreed,
         AtRestart, Accepted, RemoteTypeOK
    <2>. QED BY <2>1, <2>2, <2>3, <2>4, <2>5, <2>6, <2>7, <2>8, <2>9
  <1>10. ASSUME NEW u \in Updates, RenameState(u) PROVE RemoteInv'
    <2>1. RemoteTypeOK'
      <3>1. file' \in ServedRules /\ temporary' \in ServedRules
        BY <1>10, SilentType DEF RenameState, RemoteTypeOK
      <3>. QED BY <1>10, <3>1 DEF RenameState, RemoteTypeOK
    <2>2. Ordered'
      BY <1>10 DEF RenameState, Ordered, Pending, Ended, RemoteTypeOK
    <2>3. OneIsSingle'
      BY <1>10 DEF RenameState, OneIsSingle, Ordered, UnderWay, Pending, Ended, RemoteTypeOK
    <2>4. LatestIsLast'
      BY <1>10 DEF RenameState, LatestIsLast, OneIsSingle, Ordered, UnderWay, Pending, Ended,
         RemoteTypeOK
    <2>5. ReadIsTrue'
      BY <1>10 DEF RenameState, ReadIsTrue, OneIsSingle, UnderWay, Pending, Ended, RemoteTypeOK
    <2>6. CommittedIsStored'
      BY <1>10 DEF RenameState, CommittedIsStored, LatestIsLast, Ordered, RemoteTypeOK
    <2>7. RulesArrive'
      BY <1>10 DEF RenameState, RulesArrive, LatestIsLast, Ordered, Pending, RemoteTypeOK
    <2>8. NothingYet'
      BY <1>10 DEF RenameState, NothingYet, Ordered, Pending, Accepted, RemoteTypeOK
    <2>9. Recognised'
      <3>1. \A v \in Updates : single[v] /\ UnderWay(v) => v = u
        BY <1>10 DEF RenameState, OneIsSingle, UnderWay, Pending
      <3>2. \A v \in Updates \ {u} : ram'[v] = ram[v]
        BY <1>10 DEF RenameState, RemoteTypeOK
      <3>3. ram'[u] = "stored" /\ phase[u] \in {"sent", "unapplied"}
        BY <1>10 DEF RenameState, Ordered, Pending, RemoteTypeOK
      <3>. QED BY <1>10, <3>1, <3>2, <3>3 DEF RenameState, Recognised, UnderWay, Pending, Ended
    <2>. QED BY <2>1, <2>2, <2>3, <2>4, <2>5, <2>6, <2>7, <2>8, <2>9
  <1>11. ASSUME NEW u \in Updates, Store(u) PROVE RemoteInv'
    <2>r. /\ ram[u] = "stored" /\ Pending(u)
          /\ ram' = [ram EXCEPT ![u] = "none"]
          /\ \/ phase[u] = "sent" /\ phase' = [phase EXCEPT ![u] = "applied"]
             \/ phase[u] = "unapplied" /\ phase' = phase
          /\ memory' = Served(next[u])
          /\ UNCHANGED <<sending, tables, temporary, file, ramStart, marks>>
      <3>1. phase[u] = "sent" \/ phase[u] = "unapplied"
        BY <1>11 DEF Store, Ordered, Pending
      <3>. QED BY <1>11, <3>1 DEF Store, Answers, Pending, RemoteTypeOK
    <2>0. Served(next[u]) \in ServedRules
      BY RowsType DEF RemoteTypeOK, Ordered
    <2>1. RemoteTypeOK'
      BY <2>0, <2>r DEF RemoteTypeOK, Ended
    <2>2. Ordered'
      <3>1. phase'[u] \in {"applied", "unapplied"} /\ ram'[u] = "none"
        BY <2>r DEF RemoteTypeOK
      <3>2. \A v \in Updates \ {u} : phase'[v] = phase[v] /\ ram'[v] = ram[v]
        BY <2>r DEF RemoteTypeOK
      <3>3. latest # 0 => latest \in Updates
        BY DEF RemoteTypeOK, Updates
      <3>. QED BY <2>r, <3>1, <3>2, <3>3 DEF Ordered, Pending
    <2>3. OneIsSingle'
      BY <2>0, <2>r DEF OneIsSingle, Ordered, UnderWay, Pending, Ended, RemoteTypeOK
    <2>4. LatestIsLast'
      BY <2>0, <2>r DEF LatestIsLast, OneIsSingle, Ordered, UnderWay, Pending, Ended,
         RemoteTypeOK
    <2>5. ReadIsTrue'
      BY <2>0, <2>r DEF ReadIsTrue, OneIsSingle, UnderWay, Pending, Ended, RemoteTypeOK
    <2>6. CommittedIsStored'
      BY <2>0, <2>r DEF CommittedIsStored, LatestIsLast, Ordered, RemoteTypeOK
    <2>7. RulesArrive'
      BY <2>0, <2>r DEF RulesArrive, LatestIsLast, Ordered, Pending, RemoteTypeOK
    <2>8. NothingYet'
      BY <2>0, <2>r DEF NothingYet, Ordered, Pending, Accepted, RemoteTypeOK
    <2>9. Recognised'
      BY <2>0, <2>r DEF Recognised, OneIsSingle, UnderWay, Pending, Ended, Agreed, AtRestart,
         Accepted, RemoteTypeOK
    <2>. QED BY <2>1, <2>2, <2>3, <2>4, <2>5, <2>6, <2>7, <2>8, <2>9
  <1>12. ASSUME Restart PROVE RemoteInv'
    <2>1. RemoteTypeOK'
      BY <1>12 DEF Restart, RemoteTypeOK, Ended
    <2>2. Ordered'
      BY <1>12 DEF Restart, Ordered, Pending, Ended, RemoteTypeOK
    <2>3. OneIsSingle'
      BY <1>12 DEF Restart, OneIsSingle, Ordered, UnderWay, Pending, Ended, RemoteTypeOK
    <2>4. LatestIsLast'
      BY <1>12 DEF Restart, LatestIsLast, OneIsSingle, Ordered, UnderWay, Pending, Ended,
         RemoteTypeOK
    <2>5. ReadIsTrue'
      BY <1>12 DEF Restart, ReadIsTrue, OneIsSingle, UnderWay, Pending, Ended, RemoteTypeOK
    <2>6. CommittedIsStored'
      BY <1>12 DEF Restart, CommittedIsStored, LatestIsLast, Ordered, RemoteTypeOK
    <2>7. RulesArrive'
      <3>. SUFFICES ASSUME latest' # 0, single'[latest']
                    PROVE  /\ ram'[latest'] \notin {"written", "stored"}
                           /\ phase'[latest'] = "applied" /\ ~forgotten' =>
                                /\ memory' = Served(next[latest])
                                /\ persists' => file' = Served(next[latest])
                                /\ HasUsers(Served(next[latest]))
        BY <1>12 DEF Restart, RulesArrive
      <3>1. latest \in Updates
        BY <1>12 DEF Restart, RemoteTypeOK, Updates
      <3>2. ASSUME phase[latest] = "applied", ~forgotten, persists
            PROVE  file = Served(next[latest]) /\ HasUsers(Served(next[latest]))
        BY <1>12, <3>2 DEF Restart, RulesArrive
      <3>3. ASSUME phase[latest] = "applied", ~forgotten, persists
            PROVE  memory' = file
        BY <1>12, <3>2, <3>3, SilentIsSilent DEF Restart
      <3>. QED BY <1>12, <3>1, <3>2, <3>3 DEF Restart
    <2>8. NothingYet'
      BY <1>12 DEF Restart, NothingYet, Ordered, Pending, Accepted, RemoteTypeOK
    <2>9. Recognised'
      BY <1>12 DEF Restart, Recognised, OneIsSingle, UnderWay, Pending, Ended, Agreed,
         AtRestart, Accepted, RemoteTypeOK
    <2>. QED BY <2>1, <2>2, <2>3, <2>4, <2>5, <2>6, <2>7, <2>8, <2>9
  <1>13. ASSUME UNCHANGED remoteVars PROVE RemoteInv'
    <2>1. RemoteTypeOK'
      BY <1>13 DEF remoteVars, RemoteTypeOK, Ended
    <2>2. Ordered'
      BY <1>13 DEF remoteVars, Ordered, Pending, Ended, RemoteTypeOK
    <2>3. OneIsSingle'
      BY <1>13 DEF remoteVars, OneIsSingle, Ordered, UnderWay, Pending, Ended, RemoteTypeOK
    <2>4. LatestIsLast'
      BY <1>13 DEF remoteVars, LatestIsLast, OneIsSingle, Ordered, UnderWay, Pending, Ended,
         RemoteTypeOK
    <2>5. ReadIsTrue'
      BY <1>13 DEF remoteVars, ReadIsTrue, OneIsSingle, UnderWay, Pending, Ended, RemoteTypeOK
    <2>6. CommittedIsStored'
      BY <1>13 DEF remoteVars, CommittedIsStored, LatestIsLast, Ordered, RemoteTypeOK
    <2>7. RulesArrive'
      BY <1>13 DEF remoteVars, RulesArrive, LatestIsLast, Ordered, Pending, RemoteTypeOK
    <2>8. NothingYet'
      BY <1>13 DEF remoteVars, NothingYet, Ordered, Pending, Accepted, RemoteTypeOK
    <2>9. Recognised'
      BY <1>13 DEF remoteVars, Recognised, OneIsSingle, UnderWay, Pending, Ended, Agreed,
         AtRestart, Accepted, RemoteTypeOK
    <2>. QED BY <2>1, <2>2, <2>3, <2>4, <2>5, <2>6, <2>7, <2>8, <2>9
  <1>14. ASSUME NEW u \in Updates, Read(u) PROVE RemoteInv'
    <2>. PICK dropped \in SUBSET Users, who \in Names \cup {NoName}, password \in Passwords(u) :
           \E empty \in SUBSET (Users \ dropped), everyone \in BOOLEAN :
             LET new == Complete(u, dropped, empty, who, password, everyone)
             IN /\ \A n \in Users \ dropped : new.rules[n] # 0
                /\ who # NoName => new.admin.password # 0
                /\ Credential(new) # NoOne
                /\ Takes(u, new)
                /\ kept' = [kept EXCEPT ![u] = empty]
      BY <1>14 DEF Read
    <2>. PICK empty \in SUBSET (Users \ dropped), everyone \in BOOLEAN :
           LET new == Complete(u, dropped, empty, who, password, everyone)
           IN /\ \A n \in Users \ dropped : new.rules[n] # 0
              /\ Takes(u, new)
              /\ kept' = [kept EXCEPT ![u] = empty]
      OBVIOUS
    <2>. DEFINE new == Complete(u, dropped, empty, who, password, everyone)
    <2>a. /\ new \in Accounts
          /\ new.admin = NoOne \/ new.admin.name \in Names
          /\ \A n \in empty : new.rules[n] = Password(accounts, n)
      <3>1. /\ \A n : Password(accounts, n) \in 0 .. MaxUpdates + 1
            /\ Administrator(accounts) \in Account
        BY StoredType DEF RemoteTypeOK
      <3>2. u + 1 \in 0 .. MaxUpdates + 1 /\ password \in 0 .. MaxUpdates + 1
        BY DEF Passwords, Updates
      <3>. DEFINE submitted == [n \in Users |->
                    IF n \in dropped THEN 0 ELSE Resolve(n, IF n \in empty THEN 0 ELSE u + 1)]
      <3>3. submitted \in [Users -> 0 .. MaxUpdates + 1]
        BY <3>1, <3>2 DEF Resolve, Stored
      <3>4. \A n \in empty : submitted[n] = Password(accounts, n)
        BY DEF Resolve, Stored
      <3>5. ResolveAdmin(who, password, submitted) \in 0 .. MaxUpdates + 1
        BY <3>1, <3>2, <3>3 DEF ResolveAdmin, Account
      <3>6. /\ new.rules = submitted
            /\ new.admin = IF who = NoName THEN NoOne
                            ELSE [name |-> who, password |-> ResolveAdmin(who, password, submitted)]
        BY DEF Complete
      <3>7. new \in Accounts
        BY <3>3, <3>5 DEF Complete, Accounts, Account, NoOne
      <3>. QED BY <3>4, <3>6, <3>7
    <2>b. Credential(new) \in Account
      BY <2>a, StoredType DEF Credential, RemoteTypeOK, Accounts
    <2>c. \A n \in empty : new.rules[n] # 0
      OBVIOUS
    <2>d. Takes(u, new) /\ kept' = [kept EXCEPT ![u] = empty]
      OBVIOUS
    <2>. HIDE DEF new
    <2>r. /\ phase[u] = "new" /\ phase' = [phase EXCEPT ![u] = "read"]
          /\ next' = [next EXCEPT ![u] = new]
          /\ credential' = [credential EXCEPT ![u] = Credential(new)]
          /\ kept' = [kept EXCEPT ![u] = empty]
          /\ prior' = [prior EXCEPT ![u] = latest]
          /\ single'[u] => \A w \in Updates \ {u} : ~UnderWay(w)
          /\ \A v \in Updates \ {u} : single'[v] => single[v] /\ ~UnderWay(v)
          /\ single' \in [Updates -> BOOLEAN]
          /\ UNCHANGED <<view, held, accounts, exists, ram, ramState, ramStart, latest, forgotten>>
      <3>1. /\ phase[u] = "new" /\ phase' = [phase EXCEPT ![u] = "read"]
            /\ UNCHANGED <<view, held, accounts, exists, ram, ramState, ramStart, latest, forgotten>>
        BY <1>14 DEF Read
      <3>2. /\ next' = [next EXCEPT ![u] = new]
            /\ credential' = [credential EXCEPT ![u] = Credential(new)]
            /\ prior' = [prior EXCEPT ![u] = latest]
            /\ single' = [v \in Updates |->
                   IF v = u THEN \A w \in Updates \ {u} : ~UnderWay(w)
                   ELSE single[v] /\ ~UnderWay(v)]
        BY <2>d DEF Takes
      <3>3. /\ single'[u] => \A w \in Updates \ {u} : ~UnderWay(w)
            /\ \A v \in Updates \ {u} : single'[v] => single[v] /\ ~UnderWay(v)
        BY <3>2
      <3>4. single' \in [Updates -> BOOLEAN]
        <4>1. \A v \in Updates : single[v] \in BOOLEAN
          BY DEF RemoteTypeOK
        <4>. QED BY <3>2, <4>1
      <3>. QED BY <2>d, <3>1, <3>2, <3>3, <3>4
    <2>o. \A v \in Updates \ {u} :
            /\ phase'[v] = phase[v] /\ next'[v] = next[v] /\ credential'[v] = credential[v]
            /\ kept'[v] = kept[v] /\ prior'[v] = prior[v] /\ view'[v] = view[v]
            /\ single'[v] => single[v] /\ ~UnderWay(v)
      BY <2>r DEF RemoteTypeOK
    <2>u. /\ phase'[u] = "read" /\ next'[u] = new /\ credential'[u] = Credential(new)
          /\ kept'[u] = empty /\ prior'[u] = latest /\ ram[u] = "none" /\ latest # u
          /\ single'[u] => \A w \in Updates \ {u} : ~UnderWay(w)
      <3>1. ram[u] = "none"
        BY <2>r DEF Ordered, Pending
      <3>2. latest # u
        BY <2>r DEF Ordered, Updates
      <3>. QED BY <2>r, <3>1, <3>2 DEF RemoteTypeOK
    <2>l. latest # 0 => latest \in Updates \ {u}
      BY <2>u DEF RemoteTypeOK, Updates
    <2>1. RemoteTypeOK'
      <3>2. view' \in [Updates -> Table] /\ kept' \in [Updates -> SUBSET Users]
        BY <2>r DEF RemoteTypeOK
      <3>3. /\ next' \in [Updates -> Accounts] /\ credential' \in [Updates -> Account]
            /\ prior' \in [Updates -> 0 .. MaxUpdates]
        BY <2>r, <2>a, <2>b DEF RemoteTypeOK
      <3>4. phase' \in [Updates -> Ended \cup {"new", "read", "permissions", "accounts", "saved", "sent"}]
        BY <2>r DEF RemoteTypeOK
      <3>. QED BY <2>r, <3>2, <3>3, <3>4 DEF RemoteTypeOK
    <2>2. Ordered'
      BY <2>a, <2>r, <2>o, <2>u, <2>l DEF Ordered, Pending
    <2>3. OneIsSingle'
      BY <2>r, <2>o, <2>u DEF OneIsSingle, UnderWay, Pending
    <2>4. LatestIsLast'
      BY <2>r, <2>o, <2>u, <2>l DEF LatestIsLast, Pending
    <2>5. ReadIsTrue'
      BY <2>a, <2>c, <2>r, <2>o, <2>u DEF ReadIsTrue
    <2>6. CommittedIsStored'
      BY <2>r, <2>o, <2>l DEF CommittedIsStored
    <2>7. RulesArrive'
      BY <2>r, <2>o, <2>l DEF RulesArrive
    <2>8. NothingYet'
      BY <2>r, <2>o, <2>u DEF NothingYet, Accepted
    <2>9. Recognised'
      <3>1. ASSUME NEW v \in Updates \ {u}, single'[v],
                   phase'[v] \in {"read", "permissions", "accounts", "saved"} \/ ram'[v] = "sent"
            PROVE  FALSE
        BY <2>r, <2>o, <3>1 DEF UnderWay, Pending, Ended
      <3>2. ASSUME single'[u], exists, ~forgotten, Agreed(latest)
            PROVE  Accepted(Credential(new)) /\ (persists => memory = AtRestart)
        <4>1. CASE latest = 0
          BY <3>2, <4>1 DEF NothingYet, Agreed, Credential, AtRestart
        <4>2. CASE latest # 0
          <5>1. /\ phase[latest] = "applied" /\ single[latest] /\ next[latest].admin # NoOne
                /\ latest \in Updates
            BY <3>2, <4>2, <2>l DEF Agreed
          <5>2. next[latest] \in Accounts /\ next[latest].admin.name \in Names
            BY <5>1 DEF Ordered, RemoteTypeOK
          <5>3. Administrator(accounts) = next[latest].admin
            BY <3>2, <4>2, <5>1, <5>2, AdministratorOfRows DEF CommittedIsStored
          <5>4. /\ memory = Served(next[latest]) /\ HasUsers(memory)
                /\ persists => file = memory
            BY <3>2, <4>2, <5>1 DEF RulesArrive
          <5>5. Accepted(next[latest].admin)
            BY <5>2, <5>4 DEF Accepted, Served
          <5>. QED BY <5>1, <5>3, <5>4, <5>5, SilentIsSilent DEF Credential, AtRestart
        <4>. QED BY <4>1, <4>2
      <3>3. Agreed(latest)' => Agreed(latest)
        BY <2>r, <2>o, <2>l DEF Agreed
      <3>4. UNCHANGED <<memory, file, started, persists, exists, forgotten, latest>>
        BY <2>r
      <3>. QED BY <2>u, <3>1, <3>2, <3>3, <3>4 DEF Recognised, Accepted, AtRestart, Agreed
    <2>. QED BY <2>1, <2>2, <2>3, <2>4, <2>5, <2>6, <2>7, <2>8, <2>9
  <1>. QED BY <1>0, <1>1, <1>2, <1>3, <1>4, <1>5, <1>6, <1>7, <1>8, <1>9, <1>10, <1>11, <1>12, <1>13, <1>14 DEF RemoteNext, UpdateStep

LEMMA RemoteInvAlways == RemoteSpec => []RemoteInv
  BY RemoteInitInv, RemoteNextInv, PTL DEF RemoteSpec

-----------------------------------------------------------------------------
(* What the runs check. *)

\* Every variable of the updates, of the database and of ram stays in its type.
THEOREM RemoteTypeCorrect == RemoteSpec => []RemoteTypeOK
  <1>1. RemoteInv => RemoteTypeOK
    BY DEF RemoteInv
  <1>. QED BY <1>1, RemoteInvAlways, PTL

\* An update that met no other and was answered as applied (ram_auth/service.rs:224) is
\* what the database holds; ram and its state file let in whom the database does, by name
\* and without one, whatever was refused before or after and however often ram was restarted.
THEOREM AppliedServed == RemoteSpec => []AppliedIsServed
  <1>1. RemoteInv => AppliedIsServed
    <2>. SUFFICES ASSUME RemoteInv, exists, latest # 0, single[latest], phase[latest] = "applied", ~forgotten
         PROVE  /\ accounts = Rows(next[latest], latest)
                /\ \A n \in Names : Admits(accounts, n, memory.names[n])
                /\ memory.everyone <=> OpenTo(accounts) /\ Administrator(accounts) # NoOne
                /\ persists => file = memory
      BY DEF AppliedIsServed
    <2>1. latest \in Updates
      BY DEF RemoteInv, RemoteTypeOK, Updates
    <2>2. next[latest] \in Accounts /\ (next[latest].admin = NoOne \/ next[latest].admin.name \in Names)
      BY <2>1 DEF RemoteInv, RemoteTypeOK, Ordered
    <2>3. accounts = Rows(next[latest], latest)
      BY DEF RemoteInv, CommittedIsStored
    <2>4. memory = Served(next[latest]) /\ (persists => file = memory)
      BY DEF RemoteInv, RulesArrive
    <2>. QED BY <2>2, <2>3, <2>4, RowsAreServed
  <1>. QED BY <1>1, RemoteInvAlways, PTL

LEMMA RefusalStep == RemoteInv => RefusedForCause
  <1>. SUFFICES ASSUME RemoteInv, NEW u \in Updates, Refuse(u), single[u], exists,
                       ~forgotten, Agreed(prior[u])
                PROVE  FALSE
    BY DEF RefusedForCause
  <1>1. ram[u] = "sent" /\ ~Accepted(credential[u])
    BY DEF Refuse
  <1>. QED BY <1>1 DEF RemoteInv, Recognised

LEMMA KeptStep == RemoteInv => KeepsPasswords
  <1>. SUFFICES ASSUME RemoteInv, NEW u \in Updates, Replace(u), single[u], exists,
                       NEW n \in kept[u]
                PROVE  Password(accounts', n) = Password(accounts, n)
    BY DEF KeepsPasswords
  <1>1. /\ view[u] = accounts
        /\ next[u].rules[n] = Password(accounts, n) /\ next[u].rules[n] # 0
    BY DEF RemoteInv, ReadIsTrue, Replace
  <1>2. accounts' = Rows(next[u], u)
    BY <1>1 DEF Replace
  <1>3. next[u] \in Accounts /\ n \in Users
    BY DEF RemoteInv, RemoteTypeOK
  <1>. QED BY <1>1, <1>2, <1>3, PasswordOfRows

\* ram refuses an update that met no other for one of the three causes only, and such an
\* update leaves a password as it is when the request has the field empty.
THEOREM UpdatesSound == RemoteSpec => UpdatesAreSound
  <1>1. RemoteInv => RefusedForCause /\ KeepsPasswords
    BY RefusalStep, KeptStep
  <1>. QED BY <1>1, RemoteInvAlways, PTL DEF UpdatesAreSound
-----------------------------------------------------------------------------
(* Downloads. *)

USE DownloadsAssumption

Contents == [mtime : Nat, data : Seq(Nat)]
Tags == [mtime : Nat \cup {-1}, size : Nat]
ByteRange == [first : Nat \cup {Open}, last : Int]
Looks == [phase : {"look"}, file : Nat, opened : BOOLEAN, seen : Tags, content : Seq(Nat), looked : BOOLEAN,
          tag : Tags, date : BOOLEAN, ranges : {<<>>} \cup {<<range>> : range \in ByteRange}]
Streams == [phase : {"stream"}, file : Nat, at : Nat, until : Int]
Sames == [phase : {"same"}, content : Seq(Nat), seen : Tags, date : BOOLEAN]

DownloadTypeOK ==
    /\ inode \in Seq(Contents) /\ disk \in 0 .. Len(inode)
    /\ putting = NoPut \/ putting \in [file : 1 .. Len(inode), version : Nat]
    /\ now \in Nat /\ last \in Nat /\ had \subseteq Contents
    /\ request \in {NoDownload} \cup Looks \cup Streams \cup Sames
    /\ copy \in [tag : Tags, data : Seq(Nat), full : BOOLEAN, mixed : BOOLEAN]

Begins(s, t) == Len(s) <= Len(t) /\ \A i \in 1 .. Len(s) : s[i] = t[i]

\* What the path has named is remembered.
IsKnown == \A i \in 1 .. Len(inode) : inode[i] \in had

\* A clean copy is the beginning of a version that the path had.
CopyIsPart ==
    /\ copy.tag = NoTag => copy = NoCopy
    /\ copy.tag # NoTag => (copy.full <=> Len(copy.data) = copy.tag.size)
    /\ copy.tag # NoTag /\ ~copy.mixed /\ ~Twins =>
          \E h \in had : Tag(h) = copy.tag /\ Begins(copy.data, h.data)

\* What a request brings is of the client's copy, and what was looked at the path had.
LookIsTrue ==
    request.phase = "look" =>
        /\ request.opened => request.file \in 1 .. Len(inode)
        /\ request.looked => \E k \in had : Tag(k) = request.seen /\ k.data = request.content
        /\ request.tag # NoTag => request.tag = copy.tag /\ (request.ranges = <<>> => copy.full)
        /\ request.tag = NoTag => copy = NoCopy /\ request.ranges = <<>>
        /\ request.date => request.tag # NoTag /\ request.ranges = <<>>
        /\ request.ranges # <<>> =>
              /\ ~copy.full
              /\ \/ request.ranges[1].first = Len(copy.data) /\ request.ranges[1].last \in {Open, copy.tag.size - 1}
                 \/ request.ranges[1].first = Open /\ request.ranges[1].last = copy.tag.size - Len(copy.data)

\* What is streamed goes on where the copy ends, in the file that the copy is of.
StreamGoesOn ==
    request.phase = "stream" =>
        /\ copy.tag # NoTag /\ request.file \in 1 .. Len(inode)
        /\ ~copy.mixed =>
              /\ Tag(inode[request.file]) = copy.tag /\ request.at = Len(copy.data)
              /\ ~Twins => Begins(copy.data, inode[request.file].data)

SameIsTrue ==
    request.phase = "same" =>
        /\ copy.full /\ copy.tag # NoTag
        /\ \E k \in had : Tag(k) = request.seen /\ k.data = request.content
        /\ request.seen = copy.tag \/ (request.date /\ Date(request.seen) <= Date(copy.tag))

DownloadInv == DownloadTypeOK /\ IsKnown /\ CopyIsPart /\ LookIsTrue /\ StreamGoesOn /\ SameIsTrue

LEMMA BeginsWhole ==
  ASSUME NEW s \in Seq(Nat), NEW t \in Seq(Nat), Begins(s, t), Len(s) = Len(t)
  PROVE  s = t
  BY DEF Begins

\* Two contents with one tag are one, unless there are twins.
LEMMA NoTwins ==
  ASSUME had \subseteq Contents, ~Twins, NEW h \in had, NEW k \in had, Tag(h) = Tag(k)
  PROVE  h = k
  BY DEF Twins, Tag, Contents

\* What was written in place is not older than what the client had before.
NotBefore(tag, body) == body \in moved \/ tag.mtime <= body.mtime
Looked == [mtime |-> request.seen.mtime, data |-> request.content]
InOrder ==
    /\ \A i \in 1 .. Len(inode) : inode[i].mtime <= now
    /\ copy.tag.mtime <= now
    /\ disk # Gone => NotBefore(copy.tag, inode[disk])
    /\ request.phase = "look" /\ request.looked =>
          /\ request.seen.mtime <= now
          /\ disk # Gone => NotBefore(request.seen, inode[disk])
          /\ NotBefore(copy.tag, Looked)
    /\ request.phase = "same" => NotBefore(copy.tag, Looked)

LEMMA CopyTyped == DownloadTypeOK => copy \in [tag : Tags, data : Seq(Nat), full : BOOLEAN, mixed : BOOLEAN]
  BY DEF DownloadTypeOK

LEMMA TagOfContents ==
  ASSUME NEW k \in Contents
  PROVE  Tag(k) \in Tags /\ Tag(k) # NoTag /\ Tag(k).size = Len(k.data) /\ k.data \in Seq(Nat)
         /\ Len(k.data) \in Nat
  <1>1. k.mtime \in Nat /\ k.data \in Seq(Nat) /\ Len(k.data) \in Nat
    BY DEF Contents
  <1>2. Tag(k).mtime = k.mtime /\ Tag(k).size = Len(k.data) /\ Tag(k) \in Tags
    BY <1>1 DEF Tag, Tags
  <1>3. NoTag.mtime = -1
    BY DEF NoTag
  <1>. QED BY <1>1, <1>2, <1>3

\* The properties follow from the invariant.
LEMMA DownloadInvTrue == DownloadInv /\ InOrder => CopiesAreTrue
  <1>. SUFFICES ASSUME DownloadInv, InOrder PROVE CopiesAreTrue
    OBVIOUS
  <1>1. ASSUME copy.full, ~copy.mixed, ~Twins, copy.tag # NoTag
        PROVE  \E h \in had : Tag(h) = copy.tag /\ h.data = copy.data
    <2>1. PICK h \in had : Tag(h) = copy.tag /\ Begins(copy.data, h.data)
      BY <1>1 DEF DownloadInv, CopyIsPart
    <2>2. h.data \in Seq(Nat) /\ copy.data \in Seq(Nat) /\ Len(h.data) = copy.tag.size
          /\ Len(copy.data) = copy.tag.size
      BY <1>1, <2>1 DEF DownloadInv, DownloadTypeOK, CopyIsPart, Contents, Tag
    <2>. QED BY <2>1, <2>2, BeginsWhole
  <1>2. CopyIsOneVersion
    <2>1. copy.full => copy.tag # NoTag
      BY DEF DownloadInv, CopyIsPart, NoCopy
    <2>. QED BY <1>1, <2>1 DEF CopyIsOneVersion
  <1>3. NotModifiedIsTrue
    <2>. SUFFICES ASSUME request.phase = "same", ~copy.mixed, ~Twins
         PROVE  \/ copy.data = request.content
                \/ /\ request.date
                   /\ Date(request.seen) = Date(copy.tag) \/ Looked \in moved
      BY DEF NotModifiedIsTrue, Looked
    <2>1. PICK k \in had : Tag(k) = request.seen /\ k.data = request.content
      BY DEF DownloadInv, SameIsTrue
    <2>2. PICK h \in had : Tag(h) = copy.tag /\ h.data = copy.data
      BY <1>1 DEF DownloadInv, SameIsTrue
    <2>3. CASE request.seen = copy.tag
      BY <2>1, <2>2, <2>3, NoTwins DEF DownloadInv, DownloadTypeOK
    <2>4. CASE request.date /\ Date(request.seen) <= Date(copy.tag)
      <3>1. CASE Looked \in moved
        BY <2>4, <3>1
      <3>2. CASE copy.tag.mtime <= request.seen.mtime
        <4>1. copy.tag.mtime \in Int /\ request.seen.mtime \in Int
          BY <2>1, TagOfContents, CopyTyped DEF DownloadInv, DownloadTypeOK, Tags
        <4>2. \A m, n \in Int : m <= n => m \div Second <= n \div Second
          BY SMTT(30)
        <4>3. Date(copy.tag) <= Date(request.seen)
          BY <3>2, <4>1, <4>2 DEF Date
        <4>4. Date(copy.tag) \in Int /\ Date(request.seen) \in Int
          BY <4>1 DEF Date
        <4>. QED BY <2>4, <4>3, <4>4
      <3>. QED BY <3>1, <3>2 DEF InOrder, NotBefore, Looked
    <2>. QED BY <2>3, <2>4 DEF DownloadInv, SameIsTrue
  <1>. QED BY <1>2, <1>3 DEF CopiesAreTrue

LEMMA DownloadInitInv == DownloadInit => DownloadInv
  <1>. SUFFICES ASSUME DownloadInit PROVE DownloadInv
    OBVIOUS
  <1>1. [n \in 1 .. Parts |-> 1] \in Seq(Nat)
    <2>1. [n \in 1 .. Parts |-> 1] \in [1 .. Parts -> Nat] /\ Parts \in Nat
      OBVIOUS
    <2>. QED BY <2>1
  <1>2. inode \in Seq(Contents) /\ Len(inode) = 1 /\ inode[1] \in Contents
    BY <1>1 DEF DownloadInit, Contents
  <1>3. copy = NoCopy /\ copy \in [tag : Tags, data : Seq(Nat), full : BOOLEAN, mixed : BOOLEAN]
    BY DEF DownloadInit, NoCopy, NoTag, Tags
  <1>4. DownloadTypeOK
    BY <1>2, <1>3 DEF DownloadInit, DownloadTypeOK
  <1>. QED BY <1>2, <1>3, <1>4
           DEF DownloadInit, DownloadInv, IsKnown, CopyIsPart, LookIsTrue, StreamGoesOn, SameIsTrue, NoDownload,
               NoCopy


-----------------------------------------------------------------------------
(* Steps that write files. *)

LEMMA TwinsStay ==
  ASSUME had \subseteq had', ~Twins' PROVE ~Twins
  BY DEF Twins

LEMMA TickInv == DownloadInv /\ Tick => DownloadInv'
  <1>. SUFFICES ASSUME DownloadInv, Tick PROVE DownloadInv'
    OBVIOUS
  <1>1. DownloadTypeOK'
    BY DEF DownloadInv, DownloadTypeOK, Tick
  <1>2. UNCHANGED <<inode, had, request, copy>>
    BY DEF Tick
  <1>3. (IsKnown /\ CopyIsPart /\ LookIsTrue /\ StreamGoesOn /\ SameIsTrue)'
    BY <1>2 DEF DownloadInv, IsKnown, CopyIsPart, LookIsTrue, StreamGoesOn, SameIsTrue, Twins,
       Tag
  <1>. QED BY <1>1, <1>3 DEF DownloadInv

LEMMA DeleteInv == DownloadInv /\ DeleteFile => DownloadInv'
  <1>. SUFFICES ASSUME DownloadInv, DeleteFile PROVE DownloadInv'
    OBVIOUS
  <1>1. DownloadTypeOK'
    BY DEF DownloadInv, DownloadTypeOK, DeleteFile, Gone
  <1>2. UNCHANGED <<inode, had, request, copy>>
    BY DEF DeleteFile
  <1>3. (IsKnown /\ CopyIsPart /\ LookIsTrue /\ StreamGoesOn /\ SameIsTrue)'
    BY <1>2 DEF DownloadInv, IsKnown, CopyIsPart, LookIsTrue, StreamGoesOn, SameIsTrue, Twins,
       Tag
  <1>. QED BY <1>1, <1>3 DEF DownloadInv

\* A write in place spoils the copy of who is streaming the file, and no other.
LEMMA BecomesInv ==
  ASSUME DownloadInv, NEW i \in 1 .. Len(inode), NEW data \in Seq(Nat), Becomes(i, data),
         UNCHANGED <<disk, request>>, last' \in Nat, now' = now,
         putting' = NoPut \/ putting' \in [file : 1 .. Len(inode), version : Nat]
  PROVE  DownloadInv'
  <1>. DEFINE version == [mtime |-> now, data |-> data]
  <1>1. version \in Contents /\ inode' = [inode EXCEPT ![i] = version]
    BY DEF DownloadInv, DownloadTypeOK, Becomes, Contents
  <1>. HIDE DEF version
  <1>2. inode' \in Seq(Contents) /\ Len(inode') = Len(inode) /\ inode'[i] = version
        /\ \A j \in 1 .. Len(inode) : j # i => inode'[j] = inode[j]
    BY <1>1 DEF DownloadInv, DownloadTypeOK
  <1>3. had' = had \cup {version} /\ had' \subseteq Contents
    BY <1>1, <1>2 DEF Becomes, DownloadInv, DownloadTypeOK
  <1>4. copy' \in [tag : Tags, data : Seq(Nat), full : BOOLEAN, mixed : BOOLEAN]
        /\ copy'.tag = copy.tag /\ copy'.data = copy.data /\ copy'.full = copy.full
        /\ copy'.mixed = (copy.mixed \/ (request.phase = "stream" /\ request.file = i))
    BY DEF Becomes, DownloadInv, DownloadTypeOK
  <1>5. DownloadTypeOK'
    BY <1>2, <1>3, <1>4 DEF DownloadInv, DownloadTypeOK
  <1>6. IsKnown'
    BY <1>2, <1>3 DEF DownloadInv, IsKnown
  <1>7. ~Twins' => ~Twins
    BY <1>3, TwinsStay
  <1>8. copy = NoCopy => copy' = NoCopy \/ request.phase = "stream"
    BY <1>4 DEF Becomes, DownloadInv, DownloadTypeOK, NoCopy
  <1>9. CopyIsPart'
    <2>1. request.phase = "stream" => copy.tag # NoTag
      BY DEF DownloadInv, StreamGoesOn
    <2>2. copy.tag = NoTag => copy' = NoCopy
      BY <1>8, <2>1 DEF DownloadInv, CopyIsPart
    <2>. QED BY <1>3, <1>4, <1>7, <2>2 DEF DownloadInv, CopyIsPart
  <1>10. LookIsTrue'
    BY <1>2, <1>3, <1>4, <1>8 DEF DownloadInv, LookIsTrue
  <1>11. StreamGoesOn'
    <2>. SUFFICES ASSUME request.phase = "stream" PROVE StreamGoesOn'
      BY DEF StreamGoesOn
    <2>1. ~copy'.mixed => ~copy.mixed /\ inode'[request.file] = inode[request.file]
      BY <1>2, <1>4 DEF DownloadInv, StreamGoesOn
    <2>. QED BY <1>2, <1>4, <1>7, <2>1 DEF DownloadInv, StreamGoesOn, Tag
  <1>12. SameIsTrue'
    BY <1>3, <1>4 DEF DownloadInv, SameIsTrue
  <1>. QED BY <1>5, <1>6, <1>9, <1>10, <1>11, <1>12 DEF DownloadInv

LEMMA PutFileInv == DownloadInv /\ PutFile => DownloadInv'
  <1>. SUFFICES ASSUME DownloadInv, PutFile PROVE DownloadInv'
    OBVIOUS
  <1>1. disk \in 1 .. Len(inode) /\ last' \in Nat
    BY DEF DownloadInv, DownloadTypeOK, PutFile, Gone
  <1>2. putting' \in [file : 1 .. Len(inode), version : Nat]
    BY <1>1 DEF PutFile
  <1>3. Becomes(disk, <<>>) /\ UNCHANGED <<disk, now, request>> /\ <<>> \in Seq(Nat)
    BY DEF PutFile
  <1>. QED BY <1>1, <1>2, <1>3, BecomesInv

LEMMA PutPartInv == DownloadInv /\ PutPart => DownloadInv'
  <1>. SUFFICES ASSUME DownloadInv, PutPart PROVE DownloadInv'
    OBVIOUS
  <1>. DEFINE data == Append(inode[putting.file].data, putting.version)
  <1>1. putting \in [file : 1 .. Len(inode), version : Nat]
    BY DEF DownloadInv, DownloadTypeOK, PutPart
  <1>2. inode[putting.file] \in Contents
    BY <1>1 DEF DownloadInv, DownloadTypeOK
  <1>3. data \in Seq(Nat)
    BY <1>1, <1>2 DEF Contents
  <1>4. Becomes(putting.file, data) /\ UNCHANGED <<disk, now, last, request>>
        /\ putting' = IF Len(data) = Parts THEN NoPut ELSE putting
    BY DEF PutPart
  <1>. HIDE DEF data
  <1>5. putting' = NoPut \/ putting' \in [file : 1 .. Len(inode), version : Nat]
    BY <1>1, <1>4
  <1>. QED BY <1>1, <1>3, <1>4, <1>5, BecomesInv DEF DownloadInv, DownloadTypeOK

LEMMA MoveInInv == DownloadInv /\ MoveIn => DownloadInv'
  <1>. SUFFICES ASSUME DownloadInv, MoveIn PROVE DownloadInv'
    OBVIOUS
  <1>1. PICK mtime \in 0 .. now, size \in 1 .. Parts :
             inode' = Append(inode, [mtime |-> mtime, data |-> [n \in 1 .. size |-> last']])
    BY DEF MoveIn
  <1>. DEFINE version == [mtime |-> mtime, data |-> [n \in 1 .. size |-> last']]
  <1>2. last' \in Nat /\ mtime \in Nat /\ size \in Nat
    BY DEF DownloadInv, DownloadTypeOK, MoveIn
  <1>3. [n \in 1 .. size |-> last'] \in Seq(Nat)
    <2>1. [n \in 1 .. size |-> last'] \in [1 .. size -> Nat]
      BY <1>2
    <2>. QED BY <1>2, <2>1
  <1>4. version \in Contents /\ inode' = Append(inode, version)
    BY <1>1, <1>2, <1>3 DEF Contents
  <1>. HIDE DEF version
  <1>5. inode' \in Seq(Contents) /\ Len(inode') = Len(inode) + 1 /\ inode'[Len(inode')] = version
        /\ \A j \in 1 .. Len(inode) : inode'[j] = inode[j]
    BY <1>4 DEF DownloadInv, DownloadTypeOK
  <1>6. had' = had \cup {version} /\ had' \subseteq Contents /\ disk' = Len(inode')
    BY <1>4, <1>5 DEF MoveIn, DownloadInv, DownloadTypeOK
  <1>7. UNCHANGED <<putting, now, request, copy>> /\ Len(inode) \in Nat
    BY DEF MoveIn, DownloadInv, DownloadTypeOK
  <1>8. DownloadTypeOK'
    <2>1. putting' = NoPut \/ putting' \in [file : 1 .. Len(inode'), version : Nat]
      BY <1>5, <1>7 DEF DownloadInv, DownloadTypeOK
    <2>. QED BY <1>2, <1>5, <1>6, <1>7, <2>1 DEF DownloadInv, DownloadTypeOK
  <1>9. IsKnown'
    BY <1>5, <1>6, <1>7 DEF DownloadInv, IsKnown
  <1>10. ~Twins' => ~Twins
    BY <1>6, TwinsStay
  <1>11. CopyIsPart'
    BY <1>6, <1>7, <1>10 DEF DownloadInv, CopyIsPart
  <1>12. LookIsTrue'
    BY <1>5, <1>6, <1>7 DEF DownloadInv, LookIsTrue
  <1>13. StreamGoesOn'
    BY <1>5, <1>7, <1>10 DEF DownloadInv, StreamGoesOn, Tag
  <1>14. SameIsTrue'
    BY <1>6, <1>7 DEF DownloadInv, SameIsTrue
  <1>. QED BY <1>8, <1>9, <1>11, <1>12, <1>13, <1>14 DEF DownloadInv

-----------------------------------------------------------------------------
(* Steps of a client and of the request. *)

\* A step that changes nothing but the request keeps what does not speak of it.
LEMMA RequestOnly ==
  ASSUME DownloadInv, UNCHANGED <<inode, disk, putting, now, last, had, copy>>,
         request' \in {NoDownload} \cup Looks \cup Streams \cup Sames,
         (LookIsTrue /\ StreamGoesOn /\ SameIsTrue)'
  PROVE  DownloadInv'
  <1>1. DownloadTypeOK'
    BY DEF DownloadInv, DownloadTypeOK
  <1>2. (IsKnown /\ CopyIsPart)'
    BY DEF DownloadInv, IsKnown, CopyIsPart, Twins, Tag
  <1>. QED BY <1>1, <1>2 DEF DownloadInv

LEMMA EndInv ==
  ASSUME DownloadInv, UNCHANGED <<inode, disk, putting, now, last, had, copy>>, request' = NoDownload
  PROVE  DownloadInv'
  BY RequestOnly DEF LookIsTrue, StreamGoesOn, SameIsTrue, NoDownload

LEMMA AsksInv ==
  ASSUME DownloadInv, NEW tag \in Tags, NEW date \in BOOLEAN, NEW ranges \in {<<>>} \cup {<<range>> : range \in ByteRange},
         Asks(tag, date, ranges), date => tag # NoTag /\ ranges = <<>>,
         tag # NoTag => tag = copy.tag /\ (ranges = <<>> => copy.full),
         tag = NoTag => copy = NoCopy /\ ranges = <<>>,
         ranges # <<>> =>
            /\ ~copy.full
            /\ \/ ranges[1].first = Len(copy.data) /\ ranges[1].last \in {Open, copy.tag.size - 1}
               \/ ranges[1].first = Open /\ ranges[1].last = copy.tag.size - Len(copy.data)
  PROVE  DownloadInv'
  <1>1. UNCHANGED <<inode, disk, putting, now, last, had, copy>>
        /\ request' = [phase |-> "look", file |-> Gone, opened |-> FALSE, seen |-> NoTag, content |-> <<>>,
                       looked |-> FALSE, tag |-> tag, date |-> date, ranges |-> ranges]
    BY DEF Asks
  <1>2. request' \in Looks
    <2>1. NoTag \in Tags /\ Gone \in Nat /\ <<>> \in Seq(Nat)
      BY DEF NoTag, Tags, Gone
    <2>. QED BY <1>1, <2>1 DEF Looks
  <1>3. LookIsTrue'
    BY <1>1 DEF LookIsTrue
  <1>4. (StreamGoesOn /\ SameIsTrue)'
    BY <1>1 DEF StreamGoesOn, SameIsTrue
  <1>. QED BY <1>1, <1>2, <1>3, <1>4, RequestOnly

LEMMA FetchInv == DownloadInv /\ Fetch => DownloadInv'
  <1>1. NoTag \in Tags
    BY DEF NoTag, Tags
  <1>. QED BY <1>1, AsksInv DEF Fetch

LEMMA RevalidateInv == DownloadInv /\ Revalidate => DownloadInv'
  <1>. SUFFICES ASSUME DownloadInv, Revalidate PROVE DownloadInv'
    OBVIOUS
  <1>1. copy.tag \in Tags /\ copy.full /\ copy.tag # NoTag
    BY CopyTyped DEF DownloadInv, CopyIsPart, NoCopy, Revalidate
  <1>2. PICK date \in BOOLEAN : Asks(copy.tag, date, <<>>)
    BY DEF Revalidate
  <1>. QED BY <1>1, <1>2, AsksInv

LEMMA ResumeInv == DownloadInv /\ Resume => DownloadInv'
  <1>. SUFFICES ASSUME DownloadInv, Resume PROVE DownloadInv'
    OBVIOUS
  <1>. DEFINE from == Len(copy.data)
              size == copy.tag.size
  <1>1. copy.tag \in Tags /\ copy.tag # NoTag /\ ~copy.full /\ from \in Nat /\ size \in Nat
    BY CopyTyped DEF DownloadInv, Resume, Tags
  <1>2. PICK range \in {[first |-> from, last |-> Open], [first |-> from, last |-> size - 1],
                        [first |-> Open, last |-> size - from]} : Asks(copy.tag, FALSE, <<range>>)
    BY DEF Resume
  <1>3. range \in ByteRange
    BY <1>1, <1>2 DEF ByteRange, Open
  <1>4. \/ range.first = from /\ range.last \in {Open, size - 1}
        \/ range.first = Open /\ range.last = size - from
    BY <1>2
  <1>5. <<range>>[1] = range /\ <<range>> # <<>> /\ <<range>> \in {<<>>} \cup {<<r>> : r \in ByteRange}
    BY <1>3
  <1>. QED BY <1>1, <1>2, <1>4, <1>5, AsksInv

LEMMA ForgetInv == DownloadInv /\ Forget => DownloadInv'
  <1>. SUFFICES ASSUME DownloadInv, Forget PROVE DownloadInv'
    OBVIOUS
  <1>1. NoCopy \in [tag : Tags, data : Seq(Nat), full : BOOLEAN, mixed : BOOLEAN]
    BY DEF NoCopy, NoTag, Tags
  <1>2. DownloadTypeOK'
    BY <1>1 DEF DownloadInv, DownloadTypeOK, Forget
  <1>3. IsKnown'
    BY DEF DownloadInv, IsKnown, Forget
  <1>4. CopyIsPart'
    BY DEF CopyIsPart, NoCopy, Forget
  <1>5. (LookIsTrue /\ StreamGoesOn /\ SameIsTrue)'
    BY DEF LookIsTrue, StreamGoesOn, SameIsTrue, NoDownload, Forget
  <1>. QED BY <1>2, <1>3, <1>4, <1>5 DEF DownloadInv

\* A request that has looked at the file or opened it is still a request.
LEMMA LookGoesOn ==
  ASSUME DownloadInv, UNCHANGED <<inode, disk, putting, now, last, had, copy>>,
         request.phase = "look", request' \in Looks,
         request'.tag = request.tag, request'.ranges = request.ranges, request'.date = request.date,
         request'.opened => request'.file \in 1 .. Len(inode),
         request'.looked => \E k \in had : Tag(k) = request'.seen /\ k.data = request'.content
  PROVE  DownloadInv'
  <1>1. request'.phase = "look"
    BY DEF Looks
  <1>2. LookIsTrue'
    BY DEF DownloadInv, LookIsTrue, Tag
  <1>3. (StreamGoesOn /\ SameIsTrue)'
    BY <1>1 DEF StreamGoesOn, SameIsTrue
  <1>. QED BY <1>2, <1>3, RequestOnly

LEMMA LookTyped ==
  ASSUME DownloadTypeOK, request.phase = "look" PROVE request \in Looks
  BY DEF DownloadTypeOK, NoDownload, Streams, Sames

LEMMA OpenFileInv == DownloadInv /\ OpenFile => DownloadInv'
  <1>. SUFFICES ASSUME DownloadInv, OpenFile PROVE DownloadInv'
    OBVIOUS
  <1>1. UNCHANGED <<inode, disk, putting, now, last, had, copy>> /\ request.phase = "look"
    BY DEF OpenFile
  <1>2. request \in Looks
    BY <1>1, LookTyped DEF DownloadInv
  <1>3. CASE disk = Gone
    BY <1>1, <1>3, EndInv DEF OpenFile
  <1>4. CASE disk # Gone
    <2>1. disk \in 1 .. Len(inode) /\ disk \in Nat
      BY <1>4 DEF DownloadInv, DownloadTypeOK, Gone
    <2>2. request' = [request EXCEPT !.opened = TRUE, !.file = disk]
      BY <1>4 DEF OpenFile
    <2>3. request' \in Looks /\ request'.tag = request.tag /\ request'.ranges = request.ranges /\ request'.date = request.date
          /\ request'.file = disk /\ request'.looked = request.looked /\ request'.seen = request.seen
          /\ request'.content = request.content
      BY <1>2, <2>1, <2>2 DEF Looks
    <2>. QED BY <1>1, <2>1, <2>3, LookGoesOn DEF DownloadInv, LookIsTrue
  <1>. QED BY <1>3, <1>4

LEMMA MetadataInv == DownloadInv /\ Metadata => DownloadInv'
  <1>. SUFFICES ASSUME DownloadInv, Metadata PROVE DownloadInv'
    OBVIOUS
  <1>1. UNCHANGED <<inode, disk, putting, now, last, had, copy>> /\ request.phase = "look"
    BY DEF Metadata
  <1>2. request \in Looks
    BY <1>1, LookTyped DEF DownloadInv
  <1>3. CASE disk = Gone
    BY <1>1, <1>3, EndInv DEF Metadata
  <1>4. CASE disk # Gone
    <2>1. disk \in 1 .. Len(inode) /\ inode[disk] \in had /\ inode[disk] \in Contents
      BY <1>4 DEF DownloadInv, DownloadTypeOK, IsKnown, Gone
    <2>2. Tag(inode[disk]) \in Tags /\ inode[disk].data \in Seq(Nat)
      BY <2>1 DEF Contents, Tags, Tag
    <2>3. request' = [request EXCEPT !.looked = TRUE, !.seen = Tag(inode[disk]), !.content = inode[disk].data]
      BY <1>4 DEF Metadata
    <2>4. request' \in Looks /\ request'.tag = request.tag /\ request'.ranges = request.ranges /\ request'.date = request.date
          /\ request'.file = request.file /\ request'.opened = request.opened
          /\ request'.seen = Tag(inode[disk]) /\ request'.content = inode[disk].data
      BY <1>2, <2>2, <2>3 DEF Looks
    <2>. QED BY <1>1, <2>1, <2>4, LookGoesOn DEF DownloadInv, LookIsTrue
  <1>. QED BY <1>3, <1>4

LEMMA StreamTyped ==
  ASSUME DownloadTypeOK, request.phase = "stream"
  PROVE  request \in Streams /\ request.at \in Nat
  <1>1. request \notin Looks /\ request \notin Sames /\ request # NoDownload
    <2>1. request \notin Looks
      BY DEF Looks
    <2>2. request \notin Sames
      BY DEF Sames
    <2>3. request # NoDownload
      BY DEF NoDownload
    <2>. QED BY <2>1, <2>2, <2>3
  <1>2. request \in Streams
    BY <1>1 DEF DownloadTypeOK
  <1>. QED BY <1>2 DEF Streams

LEMMA CloseInv == DownloadInv /\ Close => DownloadInv'
  BY EndInv DEF Close

\* What a client asks to resume is what the answer streams: from where its copy ends.
LEMMA ResumedFrom ==
  ASSUME NEW range \in ByteRange, NEW size \in Nat, NEW from \in Nat,
         \/ range.first = from /\ range.last \in {Open, size - 1}
         \/ range.first = Open /\ range.last = size - from,
         ParseRange(<<range>>, size) # <<>>
  PROVE  /\ ParseRange(<<range>>, size)[1][1] = from
         /\ ParseRange(<<range>>, size)[1][2] \in Int
  <1>. DEFINE one == ParseOne(range, size)
              parsed == [n \in DOMAIN <<range>> |-> ParseOne(<<range>>[n], size)]
  <1>1. DOMAIN <<range>> = {1} /\ <<range>>[1] = range
    OBVIOUS
  <1>2. DOMAIN parsed = {1} /\ parsed[1] = one
    BY <1>1
  <1>3. ParseRange(<<range>>, size) = parsed /\ one # NoRange
    BY <1>2 DEF ParseRange
  <1>4. one # NoRange => one[1] = from /\ one[2] \in Int
    BY DEF ParseOne, ByteRange, Open, NoRange
  <1>. QED BY <1>2, <1>3, <1>4

\* An answer that streams goes on with the copy it is of.
LEMMA StreamInv ==
  ASSUME DownloadInv, UNCHANGED <<inode, disk, putting, now, last, had>>,
         request.phase = "look", request.opened, request.looked,
         NEW at \in Nat, NEW until \in Int,
         request' = [phase |-> "stream", file |-> request.file, at |-> at, until |-> until],
         copy' \in [tag : Tags, data : Seq(Nat), full : BOOLEAN, mixed : BOOLEAN],
         copy'.tag = request.seen, at = Len(copy'.data),
         copy'.full <=> Len(copy'.data) = copy'.tag.size,
         ~copy'.mixed => ~Differs,
         ~copy'.mixed /\ ~Twins => \E h \in had : Tag(h) = copy'.tag /\ Begins(copy'.data, h.data)
  PROVE  DownloadInv'
  <1>1. request.file \in 1 .. Len(inode) /\ request.file \in Nat
    <2>1. request \in Looks
      BY LookTyped DEF DownloadInv
    <2>. QED BY <2>1 DEF DownloadInv, LookIsTrue, Looks
  <1>2. request.seen # NoTag
    <2>1. PICK k \in had : Tag(k) = request.seen
      BY DEF DownloadInv, LookIsTrue
    <2>. QED BY <2>1, TagOfContents DEF DownloadInv, DownloadTypeOK
  <1>3. DownloadTypeOK'
    <2>1. request' \in Streams
      BY <1>1 DEF Streams
    <2>. QED BY <2>1 DEF DownloadInv, DownloadTypeOK
  <1>4. IsKnown'
    BY DEF DownloadInv, IsKnown
  <1>5. CopyIsPart'
    BY <1>2 DEF CopyIsPart, Twins, Tag
  <1>6. StreamGoesOn'
    <2>1. ~copy'.mixed => Tag(inode[request.file]) = copy'.tag
      BY DEF Differs
    <2>2. ASSUME ~copy'.mixed, ~Twins PROVE Begins(copy'.data, inode[request.file].data)
      <3>1. PICK h \in had : Tag(h) = copy'.tag /\ Begins(copy'.data, h.data)
        BY <2>2
      <3>2. inode[request.file] \in had
        BY <1>1 DEF DownloadInv, IsKnown
      <3>3. h = inode[request.file]
        BY <2>1, <2>2, <3>1, <3>2, NoTwins DEF DownloadInv, DownloadTypeOK
      <3>. QED BY <3>1, <3>3
    <2>. QED BY <1>1, <1>2, <2>1, <2>2 DEF StreamGoesOn, Twins, Tag
  <1>7. (LookIsTrue /\ SameIsTrue)'
    BY DEF LookIsTrue, SameIsTrue
  <1>. QED BY <1>3, <1>4, <1>5, <1>6, <1>7 DEF DownloadInv

LEMMA AnswerInv == DownloadInv /\ Answer => DownloadInv'
  <1>. SUFFICES ASSUME DownloadInv, Answer PROVE DownloadInv'
    OBVIOUS
  <1>1. request.phase = "look" /\ request.opened /\ request.looked
        /\ UNCHANGED <<inode, disk, putting, now, last, had>>
    BY DEF Answer
  <1>2. request \in Looks /\ copy \in [tag : Tags, data : Seq(Nat), full : BOOLEAN, mixed : BOOLEAN]
    BY <1>1, LookTyped, CopyTyped DEF DownloadInv
  <1>3. PICK k \in had : Tag(k) = request.seen /\ k.data = request.content
    BY <1>1 DEF DownloadInv, LookIsTrue
  <1>4. k \in Contents /\ request.seen.size = Len(k.data) /\ request.seen.size \in Nat /\ request.seen # NoTag
        /\ request.seen \in Tags /\ request.content \in Seq(Nat) /\ request.date \in BOOLEAN
    <2>1. k \in Contents
      BY <1>3 DEF DownloadInv, DownloadTypeOK
    <2>2. request.date \in BOOLEAN
      BY <1>2 DEF Looks
    <2>. QED BY <1>3, <2>1, <2>2, TagOfContents
  <1>5. CASE NotModified
    <2>1. request' = [phase |-> "same", content |-> request.content,
                      seen |-> request.seen, date |-> request.date] /\ copy' = copy
      BY <1>5 DEF Answer
    <2>2. /\ request.tag # NoTag /\ request.ranges = <<>>
          /\ request.seen = request.tag \/ (request.date /\ Date(request.seen) <= Date(request.tag))
      BY <1>1, <1>4, <1>5 DEF NotModified, DownloadInv, LookIsTrue
    <2>3. copy.full /\ copy.tag # NoTag /\ request.tag = copy.tag
      BY <1>1, <2>2 DEF DownloadInv, LookIsTrue
    <2>4. request' \in Sames
      BY <1>4, <2>1 DEF Sames
    <2>5. SameIsTrue'
      BY <1>1, <1>3, <2>1, <2>2, <2>3 DEF SameIsTrue, Tag, Date
    <2>6. (LookIsTrue /\ StreamGoesOn)'
      BY <2>1 DEF LookIsTrue, StreamGoesOn
    <2>. QED BY <1>1, <2>1, <2>4, <2>5, <2>6, RequestOnly
  <1>6. CASE ~NotModified /\ ~UseRange
    <2>1. request' = [phase |-> "stream", file |-> request.file, at |-> 0, until |-> request.seen.size - 1]
          /\ copy' = [tag |-> request.seen, data |-> <<>>, full |-> request.seen.size = 0, mixed |-> Differs]
      BY <1>6 DEF Answer, Stream
    <2>2. copy' \in [tag : Tags, data : Seq(Nat), full : BOOLEAN, mixed : BOOLEAN]
      BY <1>4, <2>1 DEF Differs
    <2>3. copy'.tag = request.seen /\ copy'.data = <<>> /\ copy'.mixed = Differs
          /\ (copy'.full <=> request.seen.size = 0)
      BY <2>1
    <2>4. Begins(copy'.data, k.data)
      BY <1>4, <2>3 DEF Begins, Contents
    <2>5. request.seen.size - 1 \in Int
      BY <1>4
    <2>. QED BY <1>1, <1>3, <2>1, <2>2, <2>3, <2>4, <2>5, StreamInv
  <1>7. CASE ~NotModified /\ UseRange
    <2>. DEFINE parsed == ParseRange(request.ranges, request.seen.size)
    <2>1. request.ranges # <<>> /\ request.seen = request.tag /\ request.tag = copy.tag /\ ~copy.full
      BY <1>1, <1>4, <1>7 DEF UseRange, DownloadInv, LookIsTrue
    <2>2. CASE parsed = <<>>
      <3>1. request' = NoDownload /\ copy' = NoCopy
        BY <1>7, <2>2 DEF Answer
      <3>2. NoCopy \in [tag : Tags, data : Seq(Nat), full : BOOLEAN, mixed : BOOLEAN]
        BY DEF NoCopy, NoTag, Tags
      <3>3. DownloadTypeOK'
        BY <1>1, <3>1, <3>2 DEF DownloadInv, DownloadTypeOK
      <3>4. (IsKnown /\ CopyIsPart)'
        BY <1>1, <3>1 DEF DownloadInv, IsKnown, CopyIsPart, NoCopy
      <3>5. (LookIsTrue /\ StreamGoesOn /\ SameIsTrue)'
        BY <3>1 DEF LookIsTrue, StreamGoesOn, SameIsTrue, NoDownload
      <3>. QED BY <3>3, <3>4, <3>5 DEF DownloadInv
    <2>3. CASE parsed # <<>>
      <3>1. PICK range \in ByteRange : request.ranges = <<range>>
        BY <1>2, <2>1 DEF Looks
      <3>2. \/ range.first = Len(copy.data) /\ range.last \in {Open, request.seen.size - 1}
            \/ range.first = Open /\ range.last = request.seen.size - Len(copy.data)
        BY <1>1, <2>1, <3>1 DEF DownloadInv, LookIsTrue
      <3>3. parsed[1][1] = Len(copy.data) /\ parsed[1][2] \in Int /\ Len(copy.data) \in Nat
        <4>. DEFINE from == Len(copy.data)
                    size == request.seen.size
        <4>1. from \in Nat /\ size \in Nat
          BY <1>2, <1>4
        <4>2. parsed = ParseRange(<<range>>, size) /\ parsed # <<>>
          BY <2>3, <3>1
        <4>3. \/ range.first = from /\ range.last \in {Open, size - 1}
              \/ range.first = Open /\ range.last = size - from
          BY <3>2
        <4>. HIDE DEF from, size, parsed
        <4>4. parsed[1][1] = from /\ parsed[1][2] \in Int
          BY <3>1, <4>1, <4>2, <4>3, ResumedFrom
        <4>. QED BY <4>1, <4>4 DEF from
      <3>4. request' = [phase |-> "stream", file |-> request.file, at |-> parsed[1][1], until |-> parsed[1][2]]
            /\ copy' = [copy EXCEPT !.mixed = @ \/ Differs]
        BY <1>7, <2>3 DEF Answer, Stream
      <3>5. copy' \in [tag : Tags, data : Seq(Nat), full : BOOLEAN, mixed : BOOLEAN]
            /\ copy'.tag = copy.tag /\ copy'.data = copy.data /\ copy'.full = copy.full
            /\ copy'.mixed = (copy.mixed \/ Differs)
        BY <1>2, <3>4 DEF Differs
      <3>6. copy.tag # NoTag
        BY <1>4, <2>1
      <3>7. (copy.full <=> Len(copy.data) = copy.tag.size)
            /\ (~copy.mixed /\ ~Twins => \E h \in had : Tag(h) = copy.tag /\ Begins(copy.data, h.data))
        BY <3>6 DEF DownloadInv, CopyIsPart
      <3>. HIDE DEF parsed
      <3>. QED BY <1>1, <2>1, <3>3, <3>4, <3>5, <3>7, StreamInv
    <2>. QED BY <2>2, <2>3
  <1>. QED BY <1>5, <1>6, <1>7

LEMMA SendPartInv == DownloadInv /\ SendPart => DownloadInv'
  <1>. SUFFICES ASSUME DownloadInv, SendPart PROVE DownloadInv'
    OBVIOUS
  <1>. DEFINE source == inode[request.file].data
              data == Append(copy.data, source[request.at + 1])
  <1>1. request.phase = "stream" /\ UNCHANGED <<inode, disk, putting, now, last, had>>
    BY DEF SendPart
  <1>2. request \in Streams /\ copy \in [tag : Tags, data : Seq(Nat), full : BOOLEAN, mixed : BOOLEAN]
        /\ request.at \in Nat
    BY <1>1, CopyTyped, StreamTyped DEF DownloadInv
  <1>3. copy.tag # NoTag /\ request.file \in 1 .. Len(inode)
        /\ (~copy.mixed => Tag(inode[request.file]) = copy.tag /\ request.at = Len(copy.data))
        /\ (~copy.mixed /\ ~Twins => Begins(copy.data, source))
    BY <1>1 DEF DownloadInv, StreamGoesOn
  <1>4. inode[request.file] \in Contents /\ source \in Seq(Nat) /\ inode[request.file] \in had
    BY <1>3 DEF DownloadInv, DownloadTypeOK, IsKnown, Contents
  <1>5. CASE request.at < Len(source)
    <2>1. copy' = [copy EXCEPT !.data = data, !.full = Len(data) = copy.tag.size]
          /\ request' = [request EXCEPT !.at = @ + 1]
      BY <1>5 DEF SendPart
    <2>. HIDE DEF source
    <2>2. request.at \in Nat /\ source[request.at + 1] \in Nat
      <3>1. source \in Seq(Nat) /\ request.at + 1 \in 1 .. Len(source)
        BY <1>2, <1>4, <1>5
      <3>2. \A s \in Seq(Nat) : \A i \in 1 .. Len(s) : s[i] \in Nat
        OBVIOUS
      <3>. QED BY <1>2, <3>1, <3>2
    <2>3. data \in Seq(Nat) /\ Len(data) = Len(copy.data) + 1 /\ Len(copy.data) \in Nat
          /\ data[Len(copy.data) + 1] = source[request.at + 1]
          /\ \A i \in 1 .. Len(copy.data) : data[i] = copy.data[i]
      BY <1>2, <2>2
    <2>. HIDE DEF data
    <2>4. copy' \in [tag : Tags, data : Seq(Nat), full : BOOLEAN, mixed : BOOLEAN]
          /\ copy'.tag = copy.tag /\ copy'.data = data /\ copy'.mixed = copy.mixed
          /\ (copy'.full <=> Len(data) = copy.tag.size)
      BY <1>2, <2>1, <2>3
    <2>5. request' \in Streams /\ request'.phase = "stream" /\ request'.file = request.file
          /\ request'.at = request.at + 1
      <3>1. request.at + 1 \in Nat
        BY <2>2
      <3>. QED BY <1>2, <2>1, <3>1 DEF Streams
    <2>6. ASSUME ~copy.mixed, ~Twins PROVE Begins(data, source)
      <3>1. request.at = Len(copy.data) /\ Begins(copy.data, source) /\ Len(source) \in Nat
        BY <1>3, <1>4, <2>6
      <3>2. Len(data) <= Len(source)
        BY <1>5, <2>3, <3>1
      <3>3. ASSUME NEW i \in 1 .. Len(data) PROVE data[i] = source[i]
        <4>1. CASE i \in 1 .. Len(copy.data)
          BY <2>3, <3>1, <4>1 DEF Begins
        <4>2. CASE i = Len(copy.data) + 1
          BY <2>3, <3>1, <4>2
        <4>. QED BY <2>3, <4>1, <4>2
      <3>. QED BY <3>2, <3>3 DEF Begins
    <2>7. DownloadTypeOK'
      BY <1>1, <2>4, <2>5 DEF DownloadInv, DownloadTypeOK
    <2>8. IsKnown'
      BY <1>1 DEF DownloadInv, IsKnown
    <2>9. CopyIsPart'
      <3>1. ~Twins' => ~Twins
        BY <1>1, TwinsStay
      <3>2. ASSUME ~copy'.mixed, ~Twins' PROVE \E h \in had' : Tag(h)' = copy'.tag /\ Begins(copy'.data, h.data)
        BY <1>1, <1>3, <1>4, <2>4, <2>6, <3>1, <3>2 DEF Tag, source
      <3>. QED BY <1>3, <2>4, <3>2 DEF CopyIsPart, Tag
    <2>10. StreamGoesOn'
      <3>1. ~Twins' => ~Twins
        BY <1>1, TwinsStay
      <3>2. request'.at = Len(copy'.data) \/ copy'.mixed
        BY <1>3, <2>3, <2>4, <2>5
      <3>3. ~copy'.mixed /\ ~Twins' => Begins(copy'.data, inode'[request'.file].data)
        BY <1>1, <2>4, <2>5, <2>6, <3>1 DEF source
      <3>4. ~copy'.mixed => Tag(inode[request.file]) = copy.tag
        BY <1>3, <2>4
      <3>. QED BY <1>1, <1>3, <2>4, <2>5, <3>2, <3>3, <3>4 DEF StreamGoesOn, Tag
    <2>11. (LookIsTrue /\ SameIsTrue)'
      BY <2>5 DEF LookIsTrue, SameIsTrue
    <2>. QED BY <2>7, <2>8, <2>9, <2>10, <2>11 DEF DownloadInv
  <1>6. CASE ~(request.at < Len(source))
    BY <1>1, <1>6, EndInv DEF SendPart
  <1>. QED BY <1>5, <1>6

\* Time and the disk go on in order.
LEMMA OrderStep ==
  ASSUME DownloadInv, InOrder, DownloadNext
  PROVE  InOrder'
  <1>1. now \in Nat /\ inode \in Seq(Contents) /\ disk \in 0 .. Len(inode)
        /\ copy.tag.mtime \in Int /\ \A i \in 1 .. Len(inode) : inode[i].mtime \in Nat
    <2>1. now \in Nat /\ inode \in Seq(Contents) /\ disk \in 0 .. Len(inode)
      BY DEF DownloadInv, DownloadTypeOK
    <2>2. \A i \in 1 .. Len(inode) : inode[i] \in Contents
      BY <2>1
    <2>3. copy.tag \in Tags
      BY CopyTyped DEF DownloadInv
    <2>. QED BY <2>1, <2>2, <2>3 DEF Contents, Tags
  <1>2. NoCopy.tag.mtime = -1
    BY DEF NoCopy, NoTag
  <1>3. disk # Gone => disk \in 1 .. Len(inode)
    BY <1>1 DEF Gone
  <1>4. CASE Tick
    <2>1. UNCHANGED <<inode, disk, copy, request, moved>> /\ now' = now + 1
      BY <1>4 DEF Tick
    <2>2. request.phase = "look" /\ request.looked => request.seen.mtime \in Int
      <3>1. request.phase = "look" => request \in Looks
        BY LookTyped DEF DownloadInv
      <3>. QED BY <3>1 DEF Looks, Tags
    <2>. QED BY <1>1, <2>1, <2>2 DEF InOrder, NotBefore, Looked
  <1>5. ASSUME NEW i \in 1 .. Len(inode), NEW data, Becomes(i, data), UNCHANGED <<disk, now, request>>
        PROVE  InOrder'
    <2>1. /\ Len(inode') = Len(inode) /\ inode'[i].mtime = now /\ moved' = moved
          /\ \A j \in 1 .. Len(inode) : j # i => inode'[j] = inode[j]
      BY <1>1, <1>5 DEF Becomes
    <2>2. copy'.tag = copy.tag
      BY <1>5, CopyTyped DEF Becomes, DownloadInv
    <2>3. request.phase = "look" /\ request.looked => request.seen.mtime \in Int
      <3>1. request.phase = "look" => request \in Looks
        BY LookTyped DEF DownloadInv
      <3>. QED BY <3>1 DEF Looks, Tags
    <2>4. \A j \in 1 .. Len(inode') : inode'[j].mtime <= now'
      BY <1>1, <1>5, <2>1 DEF InOrder
    <2>5. ASSUME NEW tag, tag.mtime <= now, disk # Gone, NotBefore(tag, inode[disk])
          PROVE  NotBefore(tag, inode[disk])'
      BY <1>3, <1>5, <2>1, <2>5 DEF NotBefore
    <2>. QED BY <1>5, <2>2, <2>3, <2>4, <2>1, <2>5 DEF InOrder, NotBefore, Looked
  <1>6. CASE PutFile
    <2>1. disk # Gone /\ Becomes(disk, <<>>) /\ UNCHANGED <<disk, now, request>>
      BY <1>6 DEF PutFile
    <2>. QED BY <1>3, <1>5, <2>1
  <1>7. CASE PutPart
    <2>1. /\ putting.file \in 1 .. Len(inode)
          /\ Becomes(putting.file, Append(inode[putting.file].data, putting.version))
          /\ UNCHANGED <<disk, now, request>>
      BY <1>7 DEF PutPart, DownloadInv, DownloadTypeOK
    <2>. QED BY <1>5, <2>1
  <1>8. CASE MoveIn
    <2>1. PICK mtime \in 0 .. now, size \in 1 .. Parts :
             inode' = Append(inode, [mtime |-> mtime, data |-> [n \in 1 .. size |-> last']])
      BY <1>8 DEF MoveIn
    <2>2. /\ disk' = Len(inode') /\ moved' = moved \cup {inode'[disk']}
          /\ UNCHANGED <<now, request, copy>>
      BY <1>8 DEF MoveIn
    <2>. DEFINE version == [mtime |-> mtime, data |-> [n \in 1 .. size |-> last']]
    <2>3. version.mtime <= now /\ inode' = Append(inode, version)
      BY <1>1, <2>1
    <2>. HIDE DEF version
    <2>4. \A j \in 1 .. Len(inode') : inode'[j].mtime <= now'
      BY <1>1, <2>2, <2>3 DEF InOrder
    <2>. QED BY <2>2, <2>4 DEF InOrder, NotBefore, Looked
  <1>9. CASE DeleteFile
    BY <1>9 DEF DeleteFile, InOrder, NotBefore, Looked
  <1>10. CASE Fetch \/ Revalidate \/ Resume
    <2>1. UNCHANGED <<inode, disk, now, moved, copy>> /\ request'.phase = "look" /\ ~request'.looked
      BY <1>10 DEF Fetch, Revalidate, Resume, Asks
    <2>. QED BY <2>1 DEF InOrder, NotBefore
  <1>11. CASE Forget
    <2>1. UNCHANGED <<inode, disk, now, moved, request>> /\ request.phase = "idle" /\ copy' = NoCopy
      BY <1>11 DEF Forget, NoDownload
    <2>2. \A n \in Nat : -1 <= n
      OBVIOUS
    <2>. QED BY <1>1, <1>2, <1>3, <2>1, <2>2 DEF InOrder, NotBefore
  <1>12. ASSUME UNCHANGED <<inode, disk, now, moved, copy>>, request' = NoDownload PROVE InOrder'
    BY <1>12 DEF InOrder, NotBefore, NoDownload
  <1>13. CASE OpenFile
    <2>1. CASE disk = Gone
      BY <1>12, <1>13, <2>1 DEF OpenFile
    <2>2. CASE disk # Gone
      <3>1. request.phase = "look" /\ request \in Looks
        BY <1>13, LookTyped DEF OpenFile, DownloadInv
      <3>2. /\ request'.phase = "look" /\ request'.looked = request.looked
            /\ request'.seen = request.seen /\ request'.content = request.content
        BY <1>13, <2>2, <3>1 DEF OpenFile, Looks
      <3>. QED BY <1>13, <3>1, <3>2 DEF OpenFile, InOrder, NotBefore, Looked
    <2>. QED BY <2>1, <2>2
  <1>14. CASE Metadata
    <2>1. CASE disk = Gone
      BY <1>12, <1>14, <2>1 DEF Metadata
    <2>2. CASE disk # Gone
      <3>1. request.phase = "look" /\ request \in Looks
        BY <1>14, LookTyped DEF Metadata, DownloadInv
      <3>2. /\ request'.phase = "look" /\ request'.seen = Tag(inode[disk])
            /\ request'.content = inode[disk].data
        BY <1>14, <2>2, <3>1 DEF Metadata, Looks
      <3>3. inode[disk] \in Contents
        BY <1>1, <1>3, <2>2
      <3>4. inode[disk] = [mtime |-> inode[disk].mtime, data |-> inode[disk].data]
        BY <3>3 DEF Contents
      <3>5. Looked' = inode[disk] /\ request'.seen.mtime = inode[disk].mtime
        BY <3>2, <3>4 DEF Looked, Tag
      <3>6. UNCHANGED <<inode, disk, now, moved, copy>>
        BY <1>14 DEF Metadata
      <3>7. inode[disk].mtime <= now /\ NotBefore(copy.tag, inode[disk])
            /\ inode[disk].mtime <= inode[disk].mtime
        BY <1>1, <1>3, <2>2 DEF InOrder
      <3>. QED BY <3>2, <3>5, <3>6, <3>7 DEF InOrder, NotBefore
    <2>. QED BY <2>1, <2>2
  <1>15. CASE Answer
    <2>1. request.phase = "look" /\ request.looked /\ UNCHANGED <<inode, disk, now, moved>>
      BY <1>15 DEF Answer
    <2>2. CASE NotModified
      <3>1. /\ request'.phase = "same" /\ request'.content = request.content
            /\ request'.seen = request.seen /\ copy' = copy
        BY <1>15, <2>2 DEF Answer
      <3>. QED BY <2>1, <3>1 DEF InOrder, NotBefore, Looked
    <2>3. CASE ~NotModified /\ ~UseRange
      <3>1. request'.phase = "stream" /\ copy'.tag = request.seen
        BY <1>15, <2>3 DEF Answer, Stream
      <3>. QED BY <2>1, <3>1 DEF InOrder, NotBefore
    <2>4. CASE ~NotModified /\ UseRange
      <3>1. \/ request' = NoDownload /\ copy' = NoCopy
            \/ request'.phase = "stream" /\ copy'.tag = copy.tag
        BY <1>15, <2>4, CopyTyped DEF Answer, Stream, DownloadInv
      <3>2. CASE request' = NoDownload /\ copy' = NoCopy
        <4>1. \A n \in Nat : -1 <= n
          OBVIOUS
        <4>2. request'.phase = "idle"
          BY <3>2 DEF NoDownload
        <4>. QED BY <1>1, <1>2, <1>3, <2>1, <3>2, <4>1, <4>2 DEF InOrder, NotBefore
      <3>3. CASE request'.phase = "stream" /\ copy'.tag = copy.tag
        BY <2>1, <3>3 DEF InOrder, NotBefore
      <3>. QED BY <3>1, <3>2, <3>3
    <2>. QED BY <2>2, <2>3, <2>4
  <1>16. CASE SendPart
    <2>1. request.phase = "stream" /\ UNCHANGED <<inode, disk, now, moved>>
      BY <1>16 DEF SendPart
    <2>2. request \in Streams
      BY <2>1, StreamTyped DEF DownloadInv
    <2>3. copy'.tag = copy.tag
      BY <1>16, CopyTyped DEF SendPart, DownloadInv
    <2>4. request'.phase \in {"stream", "idle"}
      BY <1>16, <2>1, <2>2 DEF SendPart, NoDownload, Streams
    <2>. QED BY <2>1, <2>3, <2>4 DEF InOrder, NotBefore
  <1>17. CASE Close
    BY <1>12, <1>17 DEF Close
  <1>. QED BY <1>4, <1>6, <1>7, <1>8, <1>9, <1>10, <1>11, <1>13, <1>14, <1>15, <1>16, <1>17 DEF DownloadNext

\* Every step keeps the invariant.
LEMMA DownloadStep ==
  ASSUME DownloadInv, InOrder, [DownloadNext]_downloadVars
  PROVE  DownloadInv' /\ InOrder'
  <1>1. CASE DownloadNext
    <2>1. DownloadInv'
      BY <1>1, TickInv, PutFileInv, PutPartInv, MoveInInv, DeleteInv, FetchInv, RevalidateInv,
         ResumeInv,
         ForgetInv, OpenFileInv, MetadataInv, AnswerInv, SendPartInv, CloseInv DEF DownloadNext
    <2>. QED BY <1>1, <2>1, OrderStep
  <1>2. CASE UNCHANGED downloadVars
    <2>1. UNCHANGED <<inode, disk, putting, now, last, had, moved, request, copy>>
      BY <1>2 DEF downloadVars
    <2>2. DownloadTypeOK'
      BY <2>1 DEF DownloadInv, DownloadTypeOK
    <2>3. (IsKnown /\ CopyIsPart)'
      BY <2>1 DEF DownloadInv, IsKnown, CopyIsPart, Twins, Tag
    <2>4. (LookIsTrue /\ StreamGoesOn /\ SameIsTrue)'
      BY <2>1 DEF DownloadInv, LookIsTrue, StreamGoesOn, SameIsTrue, Twins, Tag, Date
    <2>5. InOrder'
      BY <2>1 DEF InOrder, NotBefore, Looked
    <2>. QED BY <2>2, <2>3, <2>4, <2>5 DEF DownloadInv
  <1>. QED BY <1>1, <1>2

\* handle_send_file and extract_cache_headers: a copy put together from any number of
\* partial answers is one version of the file; a client that is told that its copy is good
\* has the contents that the file had when the server looked, or sent a date, and the file
\* was written again within its second or moved in.
THEOREM CopiesTrue == DownloadSpec => []CopiesAreTrue
  <1>1. DownloadInit => DownloadInv /\ InOrder
    <2>1. DownloadInit => InOrder
      <3>. SUFFICES ASSUME DownloadInit PROVE InOrder
        OBVIOUS
      <3>1. Len(inode) = 1 /\ inode[1].mtime = 0 /\ disk = 1 /\ now = 0
            /\ copy.tag.mtime = -1 /\ request.phase = "idle"
        BY DEF DownloadInit, NoCopy, NoTag, NoDownload
      <3>. QED BY <3>1 DEF InOrder, NotBefore
    <2>. QED BY <2>1, DownloadInitInv
  <1>2. DownloadInv /\ InOrder /\ [DownloadNext]_downloadVars => DownloadInv' /\ InOrder'
    BY DownloadStep
  <1>3. DownloadInv /\ InOrder => CopiesAreTrue
    BY DownloadInvTrue
  <1>. QED BY <1>1, <1>2, <1>3, PTL DEF DownloadSpec

-----------------------------------------------------------------------------
(* Paths.  *)

Path == Seq(PathNames)
\* q is a path above p, or p.
Above(q, p) == Len(q) <= Len(p) /\ \A i \in 1 .. Len(q) : q[i] = p[i]

LEMMA SameElements ==
  ASSUME NEW p \in Path, NEW q \in Path, Len(p) = Len(q), \A i \in 1 .. Len(p) : p[i] = q[i]
  PROVE  p = q
  BY DEF Path

LEMMA Cut ==
  ASSUME NEW p \in Path, NEW n \in 0 .. Len(p)
  PROVE  /\ SubSeq(p, 1, n) \in Path /\ Len(SubSeq(p, 1, n)) = n
         /\ \A i \in 1 .. n : SubSeq(p, 1, n)[i] = p[i]
         /\ Above(SubSeq(p, 1, n), p)
  BY DEF Path, Above

LEMMA AboveIsPrefix ==
  ASSUME NEW p \in Path, NEW q \in Path
  PROVE  /\ IsPrefix(q, p) <=> Above(q, p)
         /\ q \in Prefixes(p) <=> Above(q, p)
         /\ Above(q, p) => q = SubSeq(p, 1, Len(q))
  <1>1. Len(p) \in Nat /\ Len(q) \in Nat
    BY DEF Path
  <1>2. Above(q, p) => q = SubSeq(p, 1, Len(q)) /\ Len(q) \in 0 .. Len(p)
    <2>. SUFFICES ASSUME Above(q, p) PROVE q = SubSeq(p, 1, Len(q)) /\ Len(q) \in 0 .. Len(p)
      OBVIOUS
    <2>1. Len(q) \in 0 .. Len(p) /\ \A i \in 1 .. Len(q) : q[i] = p[i]
      BY <1>1 DEF Above
    <2>2. /\ SubSeq(p, 1, Len(q)) \in Path /\ Len(SubSeq(p, 1, Len(q))) = Len(q)
          /\ \A i \in 1 .. Len(q) : SubSeq(p, 1, Len(q))[i] = p[i]
      BY <2>1, Cut
    <2>3. q = SubSeq(p, 1, Len(q))
      <3>. DEFINE c == SubSeq(p, 1, Len(q))
      <3>1. c \in Path /\ Len(c) = Len(q) /\ \A i \in 1 .. Len(q) : q[i] = c[i]
        BY <2>1, <2>2
      <3>. HIDE DEF c
      <3>2. q = c
        BY <3>1, SameElements
      <3>. QED BY <3>2 DEF c
    <2>. QED BY <2>1, <2>3
  <1>3. SubSeq(q, 1, Len(q)) = q
    <2>. DEFINE c == SubSeq(q, 1, Len(q))
    <2>1. c \in Path /\ Len(c) = Len(q) /\ \A i \in 1 .. Len(q) : q[i] = c[i]
      BY <1>1, Cut
    <2>. HIDE DEF c
    <2>2. q = c
      BY <2>1, SameElements
    <2>. QED BY <2>2 DEF c
  <1>4. IsPrefix(q, p) <=> Above(q, p)
    <2>1. ASSUME IsPrefix(q, p) PROVE Above(q, p)
      <3>1. Len(q) \in 0 .. Len(p) /\ q = SubSeq(p, 1, Len(q))
        BY <2>1, <1>1, <1>3 DEF IsPrefix
      <3>. QED BY <3>1, Cut
    <2>2. ASSUME Above(q, p) PROVE IsPrefix(q, p)
      BY <2>2, <1>2, <1>3 DEF IsPrefix
    <2>. QED BY <2>1, <2>2
  <1>5. q \in Prefixes(p) <=> Above(q, p)
    <2>1. ASSUME q \in Prefixes(p) PROVE Above(q, p)
      BY <2>1, <1>1, Cut DEF Prefixes
    <2>2. ASSUME Above(q, p) PROVE q \in Prefixes(p)
      BY <2>2, <1>2 DEF Prefixes
    <2>. QED BY <2>1, <2>2
  <1>. QED BY <1>2, <1>4, <1>5

LEMMA PrefixesArePaths == ASSUME NEW p \in Path PROVE Prefixes(p) \subseteq Path
  BY Cut DEF Prefixes

LEMMA AboveIsOrder ==
  ASSUME NEW p \in Path, NEW q \in Path, NEW r \in Path
  PROVE  /\ Above(p, p) /\ Above(<<>>, p)
         /\ Above(p, q) /\ Above(q, r) => Above(p, r)
         /\ Above(p, q) => Len(p) <= Len(q)
         /\ Above(p, q) /\ Len(q) <= Len(p) => p = q
         /\ Above(p, r) /\ Above(q, r) /\ Len(p) <= Len(q) => Above(p, q)
         /\ <<>> \in Path /\ Len(p) \in Nat /\ Len(<<>>) = 0 /\ (Len(p) = 0 => p = <<>>)
  <1>1. Len(p) \in Nat /\ Len(q) \in Nat /\ Len(r) \in Nat /\ Len(<<>>) = 0 /\ <<>> \in Path
    BY DEF Path
  <1>2. Above(p, q) /\ Len(q) <= Len(p) => p = q
    BY <1>1, SameElements DEF Above
  <1>3. Above(<<>>, p)
    BY <1>1 DEF Above
  <1>4. Len(p) = 0 => p = <<>>
    BY DEF Path
  <1>. QED BY <1>1, <1>2, <1>3, <1>4 DEF Above

LEMMA RootIsPath == <<>> \in Path
  BY DEF Path

LEMMA Joined ==
  ASSUME NEW p \in Path, NEW q \in Path
  PROVE  /\ p \o q \in Path /\ Len(p \o q) = Len(p) + Len(q) /\ Above(p, p \o q)
         /\ <<>> \o q = q /\ p \o <<>> = p
  <1>1. p \o q \in Path /\ Len(p \o q) = Len(p) + Len(q) /\ Above(p, p \o q)
    BY DEF Path, Above
  <1>2. <<>> \o q = q
    BY DEF Path
  <1>3. p \o <<>> = p
    BY DEF Path
  <1>. QED BY <1>1, <1>2, <1>3

LEMMA Apart ==
  ASSUME NEW p \in Path, NEW d \in Path, Above(d, p)
  PROVE  \E q \in Path : p = d \o q /\ Len(q) = Len(p) - Len(d)
  <1>. DEFINE q == SubSeq(p, Len(d) + 1, Len(p))
  <1>1. q \in Path /\ Len(q) = Len(p) - Len(d) /\ \A i \in 1 .. Len(q) : q[i] = p[Len(d) + i]
    BY DEF Path, Above
  <1>2. \A i \in 1 .. Len(p) : (d \o q)[i] = IF i <= Len(d) THEN d[i] ELSE q[i - Len(d)]
    BY <1>1 DEF Path, Above
  <1>3. d \o q \in Path /\ Len(d \o q) = Len(p)
    BY <1>1, Joined DEF Path, Above
  <1>4. \A i \in 1 .. Len(p) : (d \o q)[i] = p[i]
    <2>. TAKE i \in 1 .. Len(p)
    <2>1. CASE i <= Len(d)
      BY <2>1, <1>2 DEF Above, Path
    <2>2. CASE ~(i <= Len(d))
      BY <2>2, <1>1, <1>2 DEF Path
    <2>. QED BY <2>1, <2>2
  <1>5. d \o q = p
    BY <1>3, <1>4, SameElements
  <1>. QED BY <1>1, <1>5

LEMMA LeastOf ==
  ASSUME NEW T, T \subseteq Nat, T # {}
  PROVE  \E x \in T : \A y \in T : x <= y
  <1>1. PICK x \in T : \A y \in T : ~ (<<y, x>> \in OpToRel(<, Nat))
    <2>. HIDE DEF OpToRel
    <2>. QED BY NatLessThanWellFounded, WFMin
  <1>2. \A y \in T : ~ (y < x)
    BY <1>1 DEF OpToRel
  <1>. QED BY <1>2

\* Among paths above p there is a longest and a shortest.
LEMMA LongestOf ==
  ASSUME NEW p \in Path, NEW S, S \subseteq Path, S # {}, \A q \in S : Above(q, p)
  PROVE  /\ \E q \in S : \A r \in S : Len(r) <= Len(q)
         /\ \E q \in S : \A r \in S : Len(q) <= Len(r)
  <1>1. \A q \in S : Len(q) \in Nat /\ Len(q) <= Len(p)
    BY DEF Path, Above
  <1>2. Len(p) \in Nat
    BY DEF Path
  <1>3. \E q \in S : \A r \in S : Len(r) <= Len(q)
    <2>. DEFINE T == {Len(p) - Len(q) : q \in S}
    <2>1. T \subseteq Nat /\ T # {}
      BY <1>1, <1>2
    <2>2. PICK x \in T : \A y \in T : x <= y
      <3>. HIDE DEF T
      <3>. QED BY <2>1, LeastOf
    <2>3. PICK q \in S : x = Len(p) - Len(q)
      OBVIOUS
    <2>4. \A r \in S : Len(p) - Len(q) <= Len(p) - Len(r)
      BY <2>2, <2>3
    <2>. QED BY <2>4, <1>1, <1>2
  <1>4. \E q \in S : \A r \in S : Len(q) <= Len(r)
    <2>. DEFINE T == {Len(q) : q \in S}
    <2>1. T \subseteq Nat /\ T # {}
      BY <1>1, <1>2
    <2>2. PICK x \in T : \A y \in T : x <= y
      <3>. HIDE DEF T
      <3>. QED BY <2>1, LeastOf
    <2>. QED BY <2>2, <1>1, <1>2
  <1>. QED BY <1>3, <1>4

-----------------------------------------------------------------------------
(* Trees of permissions.  *)

IsTree(t) ==
    /\ DOMAIN t \subseteq Path /\ <<>> \in DOMAIN t
    /\ \A p \in DOMAIN t, q \in Path : Above(q, p) => q \in DOMAIN t
    /\ \A p \in DOMAIN t : t[p] \in 0 .. 2

\* q is where the permission for p comes from.
Governs(t, q, p) ==
    /\ q \in DOMAIN t /\ Above(q, p) /\ t[q] # IndexOnly
    /\ \A r \in DOMAIN t : Above(r, p) /\ t[r] # IndexOnly => Len(r) <= Len(q)

LEMMA NearestIs ==
  ASSUME NEW t, IsTree(t), NEW p \in Path
  PROVE  /\ (\A q \in DOMAIN t : Above(q, p) => t[q] = IndexOnly) => Nearest(t, p) = IndexOnly
         /\ \A q : Governs(t, q, p) => Nearest(t, p) = t[q]
         /\ Nearest(t, p) # IndexOnly => \E q : Governs(t, q, p)
         /\ (\A q \in DOMAIN t : Above(q, p) => t[q] = IndexOnly) \/ \E q : Governs(t, q, p)
         /\ Nearest(t, p) \in 0 .. 2
  <1>. DEFINE set == {q \in Prefixes(p) \cap DOMAIN t : t[q] # IndexOnly}
              one == CHOOSE q \in set : \A r \in set : Len(r) <= Len(q)
  <1>1. set = {q \in DOMAIN t : Above(q, p) /\ t[q] # IndexOnly}
    BY AboveIsPrefix DEF IsTree
  <1>2. Nearest(t, p) = IF set = {} THEN IndexOnly ELSE t[one]
    BY DEF Nearest
  <1>3. set \subseteq Path
    BY <1>1 DEF IsTree
  <1>4. set # {} => \E q \in set : \A r \in set : Len(r) <= Len(q)
    <2>1. \A q \in set : Above(q, p)
      BY <1>1
    <2>. HIDE DEF set
    <2>. QED BY <1>3, <2>1, LongestOf
  <1>5. set # {} => one \in set /\ \A r \in set : Len(r) <= Len(one)
    <2>. HIDE DEF set
    <2>. QED BY <1>4
  <1>6. set # {} => Governs(t, one, p)
    <2>. HIDE DEF set, one
    <2>. QED BY <1>1, <1>5 DEF Governs
  <1>7. \A q : Governs(t, q, p) => q \in set /\ q = one
    <2>. SUFFICES ASSUME NEW q, Governs(t, q, p) PROVE q \in set /\ q = one
      OBVIOUS
    <2>1. q \in set /\ \A r \in set : Len(r) <= Len(q)
      BY <1>1 DEF Governs
    <2>. HIDE DEF set, one
    <2>2. q \in Path /\ one \in Path /\ Above(q, p) /\ Above(one, p)
      BY <2>1, <1>1, <1>3, <1>5
    <2>3. Len(one) <= Len(q) /\ Len(q) <= Len(one)
      BY <2>1, <1>5
    <2>4. q = one
      BY <2>2, <2>3, AboveIsOrder
    <2>. QED BY <2>1, <2>4
  <1>. HIDE DEF set, one
  <1>8. (\A q \in DOMAIN t : Above(q, p) => t[q] = IndexOnly) <=> set = {}
    BY <1>1
  <1>9. Nearest(t, p) \in 0 .. 2
    BY <1>1, <1>2, <1>5 DEF IsTree, IndexOnly
  <1>. QED BY <1>2, <1>6, <1>7, <1>8, <1>9

LEMMA NearestGrows ==
  ASSUME NEW t, IsTree(t), NEW p \in Path, NEW d \in Path, Above(d, p), Nearest(t, d) # IndexOnly
  PROVE  Nearest(t, p) # IndexOnly
  <1>1. PICK q : Governs(t, q, d)
    BY NearestIs
  <1>2. q \in DOMAIN t /\ q \in Path /\ Above(q, p) /\ t[q] # IndexOnly
    BY <1>1, AboveIsOrder DEF Governs, IsTree
  <1>3. PICK r : Governs(t, r, p)
    BY <1>2, NearestIs
  <1>. QED BY <1>3, NearestIs DEF Governs

LEMMA NearestOfNamed ==
  ASSUME NEW t, IsTree(t), NEW p \in DOMAIN t, t[p] # IndexOnly
  PROVE  Nearest(t, p) = t[p]
  <1>1. p \in Path /\ \A r \in DOMAIN t : r \in Path
    BY DEF IsTree
  <1>2. Governs(t, p, p)
    BY <1>1, AboveIsOrder DEF Governs
  <1>. QED BY <1>1, <1>2, NearestIs

LEMMA LeafIsSome == \A x : Leaf(x) # NoTree /\ Perm(Leaf(x)) = x
  BY DEF Leaf, NoTree, Perm

\* The subtree at p.
LEMMA FindIs ==
  ASSUME NEW t, IsTree(t), NEW p \in Path
  PROVE  /\ Nearest(t, p) # IndexOnly => Find(t, p) = Leaf(Nearest(t, p))
         /\ Nearest(t, p) = IndexOnly /\ p \in DOMAIN t =>
              /\ \A r : r \in DOMAIN Find(t, p) <=> r \in Path /\ p \o r \in DOMAIN t
              /\ \A r \in DOMAIN Find(t, p) : Find(t, p)[r] = t[p \o r]
              /\ <<>> \in DOMAIN Find(t, p) /\ Find(t, p)[<<>>] = IndexOnly
         /\ Nearest(t, p) = IndexOnly /\ p \notin DOMAIN t => Find(t, p) = NoTree
  <1>1. ASSUME Nearest(t, p) = IndexOnly, p \in DOMAIN t
        PROVE  /\ \A r : r \in DOMAIN Find(t, p) <=> r \in Path /\ p \o r \in DOMAIN t
               /\ \A r \in DOMAIN Find(t, p) : Find(t, p)[r] = t[p \o r]
               /\ <<>> \in DOMAIN Find(t, p) /\ Find(t, p)[<<>>] = IndexOnly
    <2>. DEFINE Ends(q) == {SubSeq(q, n, Len(q)) : n \in 1 .. Len(q) + 1}
                ends == UNION {Ends(q) : q \in DOMAIN t}
    <2>1. Find(t, p) = [q \in {r \in ends : p \o r \in DOMAIN t} |-> t[p \o q]]
      BY <1>1 DEF Find
    <2>a. \A r : r \in ends <=> \E q \in DOMAIN t : r \in Ends(q)
      <3>. HIDE DEF Ends
      <3>. QED OBVIOUS
    <2>b. \A q, r : r \in Ends(q) <=> \E n \in 1 .. Len(q) + 1 : r = SubSeq(q, n, Len(q))
      OBVIOUS
    <2>. HIDE DEF Ends, ends
    <2>2. ends \subseteq Path
      <3>1. ASSUME NEW q \in DOMAIN t, NEW n \in 1 .. Len(q) + 1 PROVE SubSeq(q, n, Len(q)) \in Path
        BY DEF IsTree, Path
      <3>2. ASSUME NEW r \in ends PROVE r \in Path
        <4>1. PICK q \in DOMAIN t : r \in Ends(q)
          BY <2>a, <3>2
        <4>2. PICK n \in 1 .. Len(q) + 1 : r = SubSeq(q, n, Len(q))
          BY <2>b, <4>1
        <4>. QED BY <3>1, <4>2
      <3>. QED BY <3>2
    <2>3. \A r \in Path : p \o r \in DOMAIN t => r \in ends
      <3>. SUFFICES ASSUME NEW r \in Path, p \o r \in DOMAIN t PROVE r \in ends
        OBVIOUS
      <3>1. PICK q : q = p \o r
        OBVIOUS
      <3>2. SubSeq(q, Len(p) + 1, Len(q)) = r
        BY <3>1 DEF Path
      <3>3. Len(p) + 1 \in 1 .. Len(q) + 1 /\ q \in DOMAIN t
        BY <3>1 DEF Path
      <3>. QED BY <3>2, <3>3, <2>a, <2>b
    <2>4. \A r : r \in DOMAIN Find(t, p) <=> r \in Path /\ p \o r \in DOMAIN t
      BY <2>1, <2>2, <2>3
    <2>5. \A r \in DOMAIN Find(t, p) : Find(t, p)[r] = t[p \o r]
      BY <2>1
    <2>6. p \o <<>> = p /\ <<>> \in Path
      BY Joined, AboveIsOrder
    <2>7. Above(p, p)
      BY AboveIsOrder
    <2>8. t[p] = IndexOnly
      BY <1>1, <2>7, NearestOfNamed
    <2>. QED BY <1>1, <2>4, <2>5, <2>6, <2>8
  <1>. QED BY <1>1 DEF Find

LEMMA FoundIs ==
  ASSUME NEW t, IsTree(t), NEW p \in Path
  PROVE  Find(t, p) # NoTree <=> Nearest(t, p) # IndexOnly \/ p \in DOMAIN t
  <1>1. CASE Nearest(t, p) # IndexOnly
    BY <1>1, FindIs, LeafIsSome
  <1>2. CASE Nearest(t, p) = IndexOnly /\ p \in DOMAIN t
    BY <1>2, FindIs DEF NoTree
  <1>3. CASE Nearest(t, p) = IndexOnly /\ p \notin DOMAIN t
    BY <1>3, FindIs
  <1>. QED BY <1>1, <1>2, <1>3

LEMMA LevelIs ==
  ASSUME NEW t, IsTree(t), NEW p \in Path
  PROVE  Level(t, p) = Nearest(t, p)
  <1>1. CASE Nearest(t, p) # IndexOnly
    BY <1>1, FindIs, LeafIsSome DEF Level
  <1>2. CASE Nearest(t, p) = IndexOnly /\ p \in DOMAIN t
    BY <1>2, FindIs DEF Level, Perm, NoTree
  <1>3. CASE Nearest(t, p) = IndexOnly /\ p \notin DOMAIN t
    BY <1>3, FindIs DEF Level
  <1>. QED BY <1>1, <1>2, <1>3

LEMMA NothingIsNowhere == \A p : Find(NoTree, p) = NoTree /\ Level(NoTree, p) = IndexOnly
  <1>1. \A p : Nearest(NoTree, p) = IndexOnly
    BY DEF NoTree, Nearest
  <1>. QED BY <1>1 DEF Find, Level, NoTree

-----------------------------------------------------------------------------
(* The tree of a rule: what merge has made of it when it comes to its end.  *)

Rule == Seq([path : Path, perm : {1, 2}])

Naming(rule, U, q) == {n \in U : rule[n].path = q}
\* The tree of the items U of a rule.
Grown(rule, U) ==
    [q \in {r \in Path : r = <<>> \/ \E n \in U : Above(r, rule[n].path)} |->
        IF Naming(rule, U, q) = {} THEN IndexOnly ELSE rule[Max(Naming(rule, U, q))].perm]

\* How FoldLeft goes through the items T.
Merges(rule, h, T) ==
    h = [U \in SUBSET T |-> IF U = {} THEN Leaf(IndexOnly) ELSE Add(h[U \ {Max(U)}], rule[Max(U)])]

LEMMA SmallestSet ==
  ASSUME NEW S, IsFiniteSet(S), NEW Bad, Bad \subseteq SUBSET S, Bad # {}
  PROVE  \E T \in Bad : \A U \in Bad : U \subseteq T => U = T
  <1>. DEFINE R == StrictSubsetOrdering(S)
  <1>1. IsWellFoundedOn(R, SUBSET S)
    BY FS_StrictSubsetOrderingWellFounded, FS_FiniteSubsetsOfFinite
  <1>2. PICK T \in Bad : \A U \in Bad : ~ (<<U, T>> \in R)
    BY <1>1, WFMin
  <1>. QED BY <1>2 DEF StrictSubsetOrdering

LEMMA LastOf ==
  ASSUME NEW k \in Nat, NEW U, U \subseteq 1 .. k, U # {}
  PROVE  Max(U) \in U /\ \A n \in U : n <= Max(U)
  <1>. DEFINE T == {k - n : n \in U}
  <1>1. T \subseteq Nat /\ T # {}
    <2>1. \A n \in U : k - n \in Nat
      OBVIOUS
    <2>. QED BY <2>1
  <1>2. PICK x \in T : \A y \in T : x <= y
    <2>. HIDE DEF T
    <2>. QED BY <1>1, LeastOf
  <1>3. PICK m \in U : x = k - m
    OBVIOUS
  <1>4. \A n \in U : k - m <= k - n
    BY <1>2, <1>3
  <1>5. \A n \in U : n <= m /\ m >= n
    BY <1>4
  <1>. QED BY <1>5 DEF Max

LEMMA RuleItems ==
  ASSUME NEW rule \in Rule
  PROVE  /\ Len(rule) \in Nat /\ DOMAIN rule = 1 .. Len(rule)
         /\ \A n \in DOMAIN rule : /\ rule[n].path \in Path /\ Len(rule[n].path) \in Nat
                                  /\ rule[n].perm \in {1, 2} /\ n \in Nat
  <1>1. Len(rule) \in Nat /\ DOMAIN rule = 1 .. Len(rule)
    BY DEF Rule
  <1>2. \A n \in DOMAIN rule : rule[n] \in [path : Path, perm : {1, 2}]
    <2>. DEFINE Item == [path : Path, perm : {1, 2}]
    <2>1. rule \in Seq(Item)
      BY DEF Rule
    <2>. HIDE DEF Item
    <2>2. \A n \in DOMAIN rule : rule[n] \in Item
      BY <2>1
    <2>. QED BY <2>2 DEF Item
  <1>3. \A p \in Path : Len(p) \in Nat
    BY DEF Path
  <1>. QED BY <1>1, <1>2, <1>3

LEMMA GrownAdds ==
  ASSUME NEW rule \in Rule, NEW U, U \subseteq DOMAIN rule, U # {}
  PROVE  Add(Grown(rule, U \ {Max(U)}), rule[Max(U)]) = Grown(rule, U)
  <1>. DEFINE m == Max(U)
              V == U \ {m}
  <1>1. m \in U /\ (\A n \in U : n <= m) /\ DOMAIN rule = 1 .. Len(rule) /\ Len(rule) \in Nat
    BY LastOf, RuleItems
  <1>2. \A n \in U : rule[n].path \in Path /\ rule[n].perm \in {1, 2}
    BY RuleItems
  <1>. HIDE DEF m
  <1>3. \A q : q \in DOMAIN Add(Grown(rule, V), rule[m]) <=> q \in DOMAIN Grown(rule, U)
    <2>1. \A q : q \in DOMAIN Grown(rule, U) <=> q \in Path /\ (q = <<>> \/ \E n \in U : Above(q, rule[n].path))
      BY DEF Grown
    <2>2. \A q : q \in DOMAIN Grown(rule, V) <=> q \in Path /\ (q = <<>> \/ \E n \in V : Above(q, rule[n].path))
      BY DEF Grown
    <2>3. \A q : q \in Prefixes(rule[m].path) <=> q \in Path /\ Above(q, rule[m].path)
      BY <1>1, <1>2, AboveIsPrefix, PrefixesArePaths
    <2>4. DOMAIN Add(Grown(rule, V), rule[m]) = DOMAIN Grown(rule, V) \cup Prefixes(rule[m].path)
      BY DEF Add
    <2>. QED BY <1>1, <2>1, <2>2, <2>3, <2>4
  <1>4. ASSUME NEW q \in DOMAIN Grown(rule, U)
        PROVE  Add(Grown(rule, V), rule[m])[q] = Grown(rule, U)[q]
    <2>1. Add(Grown(rule, V), rule[m])[q] =
             IF q = rule[m].path THEN rule[m].perm
             ELSE IF q \in DOMAIN Grown(rule, V) THEN Grown(rule, V)[q] ELSE IndexOnly
      BY <1>3 DEF Add
    <2>2. Grown(rule, U)[q] =
             IF Naming(rule, U, q) = {} THEN IndexOnly ELSE rule[Max(Naming(rule, U, q))].perm
      BY DEF Grown
    <2>3. CASE q = rule[m].path
      <3>1. Naming(rule, U, q) \subseteq 1 .. Len(rule) /\ m \in Naming(rule, U, q)
        BY <1>1, <2>3 DEF Naming
      <3>2. Max(Naming(rule, U, q)) \in Naming(rule, U, q) /\ m <= Max(Naming(rule, U, q))
        BY <1>1, <3>1, LastOf
      <3>3. Max(Naming(rule, U, q)) = m
        BY <1>1, <3>1, <3>2 DEF Naming
      <3>. QED BY <2>1, <2>2, <2>3, <3>1, <3>3
    <2>4. CASE q # rule[m].path
      <3>1. Naming(rule, U, q) = Naming(rule, V, q)
        BY <2>4 DEF Naming
      <3>2. q \in DOMAIN Grown(rule, V) => Grown(rule, V)[q] =
              IF Naming(rule, V, q) = {} THEN IndexOnly ELSE rule[Max(Naming(rule, V, q))].perm
        BY DEF Grown
      <3>3. q \in Path
        BY DEF Grown
      <3>4. q \notin DOMAIN Grown(rule, V) => Naming(rule, V, q) = {}
        <4>1. q \notin DOMAIN Grown(rule, V) => \A n \in V : ~Above(q, rule[n].path)
          BY <3>3 DEF Grown
        <4>. QED BY <4>1, <3>3, <1>2, AboveIsOrder DEF Naming
      <3>. QED BY <2>1, <2>2, <2>4, <3>1, <3>2, <3>4
    <2>. QED BY <2>3, <2>4
  <1>5. /\ Add(Grown(rule, V), rule[m]) = [q \in DOMAIN Add(Grown(rule, V), rule[m]) |-> Add(Grown(rule, V), rule[m])[q]]
        /\ Grown(rule, U) = [q \in DOMAIN Grown(rule, U) |-> Grown(rule, U)[q]]
    BY DEF Add, Grown
  <1>6. Add(Grown(rule, V), rule[m]) = Grown(rule, U)
    <2>1. DOMAIN Add(Grown(rule, V), rule[m]) = DOMAIN Grown(rule, U)
      BY <1>3
    <2>. QED BY <1>4, <1>5, <2>1
  <1>. QED BY <1>6 DEF m

LEMMA GrownStarts == \A rule : Grown(rule, {}) = Leaf(IndexOnly)
  <1>1. {r \in Path : r = <<>> } = {<<>>}
    BY RootIsPath
  <1>. QED BY <1>1 DEF Grown, Leaf, Naming

LEMMA MergeIs ==
  ASSUME NEW rule \in Rule
  PROVE  Merge(rule) = Grown(rule, DOMAIN rule)
  <1>. DEFINE S == DOMAIN rule
              h == CHOOSE g : Merges(rule, g, S)
  <1>1. IsFiniteSet(S)
    BY FS_Interval DEF Rule
  <1>2. Merges(rule, [U \in SUBSET S |-> Grown(rule, U)], S)
    <2>. DEFINE g == [U \in SUBSET S |-> Grown(rule, U)]
    <2>1. ASSUME NEW U \in SUBSET S PROVE g[U] = IF U = {} THEN Leaf(IndexOnly) ELSE Add(g[U \ {Max(U)}], rule[Max(U)])
      <3>1. U \ {Max(U)} \in SUBSET S
        OBVIOUS
      <3>2. g[U] = Grown(rule, U) /\ g[U \ {Max(U)}] = Grown(rule, U \ {Max(U)})
        BY <3>1
      <3>. HIDE DEF g
      <3>. QED BY <3>2, GrownStarts, GrownAdds
    <2>. QED BY <2>1 DEF Merges
  <1>3. Merges(rule, h, S)
    <2>. HIDE DEF S
    <2>. QED BY <1>2
  <1>4. Merge(rule) = h[S]
    BY DEF Merge, FoldLeft, MapThenFoldSet, Merges
  <1>. HIDE DEF h
  <1>5. \A U \in SUBSET S : h[U] = Grown(rule, U)
    <2>. DEFINE Bad == {U \in SUBSET S : h[U] # Grown(rule, U)}
    <2>. SUFFICES ASSUME Bad # {} PROVE FALSE
      OBVIOUS
    <2>1. Bad \subseteq SUBSET S
      OBVIOUS
    <2>2. PICK U \in Bad : \A V \in Bad : V \subseteq U => V = U
      <3>. HIDE DEF Bad, S
      <3>. QED BY <1>1, <2>1, SmallestSet
    <2>3. U \subseteq DOMAIN rule /\ h[U] # Grown(rule, U)
      OBVIOUS
    <2>4. h[U] = IF U = {} THEN Leaf(IndexOnly) ELSE Add(h[U \ {Max(U)}], rule[Max(U)])
      BY <1>3, <2>3 DEF Merges
    <2>5. U # {}
      BY <2>3, <2>4, GrownStarts
    <2>6. Max(U) \in U
      <3>1. Len(rule) \in Nat /\ U \subseteq 1 .. Len(rule)
        BY <2>3, RuleItems
      <3>. QED BY <3>1, <2>5, LastOf
    <2>7. h[U \ {Max(U)}] = Grown(rule, U \ {Max(U)})
      BY <2>2, <2>6
    <2>. QED BY <2>3, <2>4, <2>5, <2>7, GrownAdds
  <1>. QED BY <1>4, <1>5

\* The nodes of the tree of a rule are above what it names, the leaves are what it names.
LEMMA MergeIsTree ==
  ASSUME NEW rule \in Rule
  PROVE  /\ IsTree(Merge(rule))
         /\ \A q \in Path : q \in DOMAIN Merge(rule) <=> q = <<>> \/ \E n \in DOMAIN rule : Above(q, rule[n].path)
         /\ \A q \in DOMAIN Merge(rule) :
              LET naming == Naming(rule, DOMAIN rule, q)
              IN /\ naming = {} => Merge(rule)[q] = IndexOnly
                 /\ naming # {} => Max(naming) \in naming /\ (\A n \in naming : n <= Max(naming))
                                   /\ Merge(rule)[q] = rule[Max(naming)].perm /\ Merge(rule)[q] # IndexOnly
  <1>. DEFINE t == Merge(rule)
              naming(q) == Naming(rule, DOMAIN rule, q)
  <1>1. t = Grown(rule, DOMAIN rule)
    BY MergeIs
  <1>. HIDE DEF t
  <1>2. \A q : q \in DOMAIN t <=> q \in Path /\ (q = <<>> \/ \E n \in DOMAIN rule : Above(q, rule[n].path))
    BY <1>1 DEF Grown
  <1>3. \A n \in DOMAIN rule : rule[n].path \in Path /\ rule[n].perm \in {1, 2}
    BY RuleItems
  <1>4. \A q : naming(q) \subseteq 1 .. Len(rule) /\ \A n \in naming(q) : n \in DOMAIN rule
    BY DEF Naming, Rule
  <1>5. \A q \in DOMAIN t : t[q] = IF naming(q) = {} THEN IndexOnly ELSE rule[Max(naming(q))].perm
    BY <1>1 DEF Grown
  <1>6. ASSUME NEW q \in DOMAIN t, naming(q) # {}
        PROVE  Max(naming(q)) \in naming(q) /\ (\A n \in naming(q) : n <= Max(naming(q)))
               /\ t[q] = rule[Max(naming(q))].perm /\ t[q] # IndexOnly /\ t[q] \in 0 .. 2
    <2>1. Max(naming(q)) \in naming(q) /\ (\A n \in naming(q) : n <= Max(naming(q)))
      <3>1. Len(rule) \in Nat
        BY DEF Rule
      <3>. HIDE DEF naming
      <3>. QED BY <1>6, <1>4, <3>1, LastOf
    <2>. HIDE DEF naming
    <2>. QED BY <2>1, <1>3, <1>4, <1>5, <1>6 DEF IndexOnly
  <1>7. IsTree(t)
    <2>1. \A q \in DOMAIN t : t[q] \in 0 .. 2
      BY <1>5, <1>6 DEF IndexOnly
    <2>2. <<>> \in DOMAIN t /\ DOMAIN t \subseteq Path
      BY <1>2, RootIsPath
    <2>3. ASSUME NEW p \in DOMAIN t, NEW q \in Path, Above(q, p) PROVE q \in DOMAIN t
      <3>1. CASE p = <<>>
        BY <3>1, <2>2, <2>3, AboveIsOrder
      <3>2. CASE p # <<>>
        BY <3>2, <2>2, <2>3, <1>2, <1>3, AboveIsOrder
      <3>. QED BY <3>1, <3>2
    <2>. QED BY <2>1, <2>2, <2>3 DEF IsTree
  <1>. QED BY <1>2, <1>5, <1>6, <1>7 DEF t

\* The tree gives what the rule gives.
LEMMA MergeGives ==
  ASSUME NEW rule \in Rule, NEW p \in Path
  PROVE  Nearest(Merge(rule), p) = GivenBy(rule, p)
  <1>. DEFINE t == Merge(rule)
              on == {n \in DOMAIN rule : IsPrefix(rule[n].path, p)}
              Best(n) == \A m \in on : Len(rule[m].path) < Len(rule[n].path)
                                       \/ (Len(rule[m].path) = Len(rule[n].path) /\ m <= n)
  <1>1. on = {n \in DOMAIN rule : Above(rule[n].path, p)}
    BY AboveIsPrefix, RuleItems
  <1>2. \A n \in on : rule[n].path \in Path /\ Len(rule[n].path) \in Nat /\ n \in Nat
    BY RuleItems
  <1>3. GivenBy(rule, p) = IF on = {} THEN IndexOnly ELSE rule[CHOOSE n \in on : Best(n)].perm
    BY DEF GivenBy
  <1>4. IsTree(t)
    BY MergeIsTree
  <1>5. CASE on = {}
    <2>1. \A q \in DOMAIN t : Above(q, p) => Naming(rule, DOMAIN rule, q) = {}
      BY <1>1, <1>5 DEF Naming
    <2>2. \A q \in DOMAIN t : Above(q, p) => t[q] = IndexOnly
      BY <2>1, MergeIsTree
    <2>. HIDE DEF t
    <2>3. Nearest(t, p) = IndexOnly
      BY <2>2, <1>4, NearestIs
    <2>. QED BY <2>3, <1>3, <1>5 DEF t
  <1>6. CASE on # {}
    <2>1. ASSUME NEW n \in on
          PROVE  rule[n].path \in DOMAIN t /\ t[rule[n].path] # IndexOnly
      <3>1. n \in Naming(rule, DOMAIN rule, rule[n].path)
        BY DEF Naming
      <3>2. rule[n].path \in DOMAIN t
        BY <1>2, AboveIsOrder, MergeIsTree
      <3>. QED BY <3>1, <3>2, MergeIsTree
    <2>2. PICK q : Governs(t, q, p)
      <3>. HIDE DEF t, on
      <3>. QED BY <1>1, <1>4, <1>6, <2>1, NearestIs
    <2>3. q \in DOMAIN t /\ q \in Path /\ Above(q, p) /\ t[q] # IndexOnly
      BY <2>2, <1>4 DEF Governs, IsTree
    <2>. DEFINE naming == Naming(rule, DOMAIN rule, q)
                m == Max(naming)
    <2>4. m \in naming /\ (\A n \in naming : n <= m) /\ t[q] = rule[m].perm
      BY <2>3, MergeIsTree
    <2>. HIDE DEF m, t
    <2>5. m \in on /\ rule[m].path = q
      BY <1>1, <2>3, <2>4 DEF Naming
    <2>. HIDE DEF on
    <2>6. Best(m)
      <3>. SUFFICES ASSUME NEW n \in on
                    PROVE  Len(rule[n].path) < Len(rule[m].path)
                           \/ (Len(rule[n].path) = Len(rule[m].path) /\ n <= m)
        OBVIOUS
      <3>1. Above(rule[n].path, p) /\ n \in DOMAIN rule
        BY <1>1
      <3>2. Len(rule[n].path) <= Len(q)
        BY <3>1, <2>1, <2>2 DEF Governs
      <3>3. Len(rule[n].path) = Len(q) => rule[n].path = q
        BY <3>1, <2>3, <1>2, AboveIsOrder
      <3>4. rule[n].path = q => n <= m
        BY <3>1, <2>4 DEF Naming
      <3>. QED BY <3>2, <3>3, <3>4, <2>3, <2>5, <1>2
    <2>7. \A n \in on : Best(n) => n = m
      <3>. SUFFICES ASSUME NEW n \in on, Best(n) PROVE n = m
        OBVIOUS
      <3>1. Len(rule[m].path) < Len(rule[n].path) \/ (Len(rule[m].path) = Len(rule[n].path) /\ m <= n)
        BY <2>5
      <3>2. Len(rule[n].path) < Len(rule[m].path) \/ (Len(rule[n].path) = Len(rule[m].path) /\ n <= m)
        BY <2>6
      <3>. HIDE DEF Best
      <3>. QED BY <3>1, <3>2, <1>2, <2>5
    <2>. HIDE DEF Best
    <2>8. (CHOOSE n \in on : Best(n)) = m
      BY <2>5, <2>6, <2>7
    <2>9. Nearest(t, p) = t[q]
      BY <2>2, <1>4, NearestIs
    <2>. QED BY <2>4, <2>8, <2>9, <1>3, <1>6 DEF t
  <1>. QED BY <1>5, <1>6

\* A part of the way that names nothing changes nothing.
LEMMA SameNearest ==
  ASSUME NEW t, IsTree(t), NEW p \in Path, NEW q \in Path, Above(q, p),
         \A r \in DOMAIN t : Above(r, p) /\ t[r] # IndexOnly => Len(r) <= Len(q)
  PROVE  Nearest(t, p) = Nearest(t, q)
  <1>1. \A r \in DOMAIN t : r \in Path
    BY DEF IsTree
  <1>2. \A r \in DOMAIN t : Above(r, p) /\ t[r] # IndexOnly => Above(r, q)
    BY <1>1, AboveIsOrder
  <1>3. CASE \E g : Governs(t, g, q)
    <2>1. PICK g : Governs(t, g, q)
      BY <1>3
    <2>2. Governs(t, g, p)
      BY <2>1, <1>1, <1>2, AboveIsOrder DEF Governs
    <2>. QED BY <2>1, <2>2, NearestIs
  <1>4. CASE \A r \in DOMAIN t : Above(r, q) => t[r] = IndexOnly
    <2>1. \A r \in DOMAIN t : Above(r, p) => t[r] = IndexOnly
      BY <1>2, <1>4
    <2>. QED BY <1>4, <2>1, NearestIs
  <1>. QED BY <1>3, <1>4, NearestIs

LEMMA AbsorbIs ==
  ASSUME NEW orig, NEW anon, IsTree(orig), IsTree(anon)
  PROVE  /\ IsTree(Absorb(orig, anon)) /\ DOMAIN Absorb(orig, anon) = DOMAIN orig \cup DOMAIN anon
         /\ \A p \in Path : LET mine == Nearest(orig, p)
                                theirs == Nearest(anon, p)
                                got == Nearest(Absorb(orig, anon), p)
                            IN \/ got = IF theirs > mine THEN theirs ELSE mine
                               \/ /\ got = mine
                                  /\ \E q \in DOMAIN orig \ DOMAIN anon : Above(q, p) /\ orig[q] # IndexOnly
  <1>. DEFINE u == Absorb(orig, anon)
  <1>1. DOMAIN u = DOMAIN orig \cup DOMAIN anon
    BY DEF Absorb
  <1>2. \A q \in DOMAIN u : q \in Path
    BY <1>1 DEF IsTree
  <1>3. \A q \in DOMAIN u : u[q] = IF q \notin DOMAIN anon THEN orig[q]
                               ELSE IF Nearest(anon, q) > Nearest(orig, q) THEN Nearest(anon, q) ELSE Nearest(orig, q)
    BY DEF Absorb
  <1>. HIDE DEF u
  <1>4. \A q \in Path : Nearest(orig, q) \in 0 .. 2 /\ Nearest(anon, q) \in 0 .. 2
    BY NearestIs
  <1>5. IsTree(u)
    <2>1. \A q \in DOMAIN u : u[q] \in 0 .. 2
      BY <1>1, <1>2, <1>3, <1>4 DEF IsTree
    <2>2. <<>> \in DOMAIN u /\ DOMAIN u \subseteq Path
      BY <1>1 DEF IsTree
    <2>3. \A p \in DOMAIN u, q \in Path : Above(q, p) => q \in DOMAIN u
      BY <1>1 DEF IsTree
    <2>. QED BY <2>1, <2>2, <2>3 DEF IsTree
  <1>6. \A q \in DOMAIN orig : orig[q] # IndexOnly => Nearest(orig, q) = orig[q] /\ q \in DOMAIN u /\ u[q] # IndexOnly
    <2>1. \A q \in DOMAIN orig : orig[q] # IndexOnly => Nearest(orig, q) = orig[q]
      BY NearestOfNamed
    <2>. QED BY <2>1, <1>1, <1>2, <1>3, <1>4 DEF IndexOnly
  <1>7. \A q \in DOMAIN anon : anon[q] # IndexOnly => Nearest(anon, q) = anon[q] /\ q \in DOMAIN u /\ u[q] # IndexOnly
    <2>1. \A q \in DOMAIN anon : anon[q] # IndexOnly => Nearest(anon, q) = anon[q]
      BY NearestOfNamed
    <2>. QED BY <2>1, <1>1, <1>2, <1>3, <1>4 DEF IndexOnly
  <1>8. ASSUME NEW p \in Path
        PROVE  \/ Nearest(u, p) = IF Nearest(anon, p) > Nearest(orig, p) THEN Nearest(anon, p) ELSE Nearest(orig, p)
               \/ /\ Nearest(u, p) = Nearest(orig, p)
                  /\ \E q \in DOMAIN orig \ DOMAIN anon : Above(q, p) /\ orig[q] # IndexOnly
    <2>1. CASE \A q \in DOMAIN u : Above(q, p) => u[q] = IndexOnly
      <3>1. Nearest(u, p) = IndexOnly
        BY <2>1, <1>5, NearestIs
      <3>2. \A q \in DOMAIN orig : Above(q, p) => orig[q] = IndexOnly
        BY <2>1, <1>6
      <3>3. \A q \in DOMAIN anon : Above(q, p) => anon[q] = IndexOnly
        BY <2>1, <1>7
      <3>4. Nearest(orig, p) = IndexOnly /\ Nearest(anon, p) = IndexOnly
        BY <3>2, <3>3, NearestIs
      <3>. QED BY <3>1, <3>4 DEF IndexOnly
    <2>2. CASE \E q : Governs(u, q, p)
      <3>1. PICK q : Governs(u, q, p)
        BY <2>2
      <3>2. q \in DOMAIN u /\ q \in Path /\ Above(q, p) /\ u[q] # IndexOnly /\ Nearest(u, p) = u[q]
        BY <3>1, <1>2, <1>5, NearestIs DEF Governs
      <3>3. Nearest(orig, p) = Nearest(orig, q)
        <4>1. \A r \in DOMAIN orig : Above(r, p) /\ orig[r] # IndexOnly => Len(r) <= Len(q)
          BY <1>6, <3>1 DEF Governs
        <4>. QED BY <4>1, <3>2, SameNearest
      <3>4. Nearest(anon, p) = Nearest(anon, q)
        <4>1. \A r \in DOMAIN anon : Above(r, p) /\ anon[r] # IndexOnly => Len(r) <= Len(q)
          BY <1>7, <3>1 DEF Governs
        <4>. QED BY <4>1, <3>2, SameNearest
      <3>5. CASE q \in DOMAIN anon
        <4>1. u[q] = IF Nearest(anon, q) > Nearest(orig, q) THEN Nearest(anon, q) ELSE Nearest(orig, q)
          BY <3>2, <3>5, <1>3
        <4>. QED BY <4>1, <3>2, <3>3, <3>4, <1>4
      <3>6. CASE q \notin DOMAIN anon
        <4>1. u[q] = orig[q] /\ q \in DOMAIN orig
          BY <3>2, <3>6, <1>1, <1>3
        <4>2. u[q] = Nearest(orig, q) /\ orig[q] # IndexOnly
          BY <4>1, <3>2, <1>6
        <4>. QED BY <4>1, <4>2, <3>2, <3>3, <3>6
      <3>. QED BY <3>5, <3>6
    <2>. QED BY <2>1, <2>2, <1>5, NearestIs
  <1>. QED BY <1>1, <1>5, <1>8 DEF u

-----------------------------------------------------------------------------
(* The trees of the user and of everybody.  *)

RulesRead ==
    /\ own \in Scopes \cup {NoRule} /\ public \in Scopes \cup {NoRule}
    /\ user = UserTree /\ anonymous = AnonymousTree

\* The nodes of t are above what rules of R name.
GrowsFrom(t, R) ==
    /\ IsTree(t)
    /\ \A q \in DOMAIN t : \E rule \in R : \E n \in DOMAIN rule : rule[n].path \in Path /\ Above(q, rule[n].path)

LEMMA PathsArePaths ==
  /\ \A f \in Files : f \in Path /\ f # <<>>
  /\ \A p \in There : p \in Path
  /\ \A p \in Absent : p \in Path
  /\ \A rule \in Scopes : rule \in Rule /\ rule # NoRule
  <1>1. \A f \in Files : f \in Path /\ f # <<>>
    BY AccessAssumption DEF Path
  <1>2. \A p \in Absent : p \in Path
    BY AccessAssumption DEF Path
  <1>3. \A rule \in Scopes : rule \in Rule /\ rule # NoRule
    BY AccessAssumption DEF Rule, Path, NoRule
  <1>4. \A p \in Dirs : p \in Path
    <2>1. \A f \in Files : Prefixes(f) \subseteq Path
      BY <1>1, PrefixesArePaths
    <2>. QED BY <2>1 DEF Dirs
  <1>. QED BY <1>1, <1>2, <1>3, <1>4 DEF There

LEMMA ScopeGrows ==
  ASSUME NEW rule \in Scopes
  PROVE  GrowsFrom(Merge(rule), {rule})
  <1>1. rule \in Rule /\ rule # NoRule
    BY PathsArePaths
  <1>2. \A n \in DOMAIN rule : rule[n].path \in Path
    BY <1>1, RuleItems
  <1>3. 1 \in DOMAIN rule
    BY <1>1, RuleItems DEF Rule, NoRule
  <1>4. ASSUME NEW q \in DOMAIN Merge(rule) PROVE \E n \in DOMAIN rule : Above(q, rule[n].path)
    <2>1. q \in Path
      BY <1>1, MergeIsTree DEF IsTree
    <2>2. CASE q = <<>>
      BY <2>2, <1>2, <1>3, AboveIsOrder
    <2>3. CASE q # <<>>
      BY <2>1, <2>3, <1>1, MergeIsTree
    <2>. QED BY <2>2, <2>3
  <1>. QED BY <1>1, <1>2, <1>4, MergeIsTree DEF GrowsFrom

LEMMA TreesGrow ==
  ASSUME RulesRead
  PROVE  /\ own = NoRule => user = NoTree
         /\ own # NoRule => GrowsFrom(user, {own, public})
         /\ public = NoRule => anonymous = NoTree
         /\ public # NoRule => GrowsFrom(anonymous, {public})
  <1>1. /\ own # NoRule => own \in Scopes
        /\ public # NoRule => public \in Scopes
    BY DEF RulesRead
  <1>2. public # NoRule => GrowsFrom(anonymous, {public})
    BY <1>1, ScopeGrows DEF RulesRead, AnonymousTree
  <1>3. CASE own # NoRule /\ public = NoRule
    <2>1. user = Merge(own) /\ GrowsFrom(user, {own})
      BY <1>1, <1>3, ScopeGrows DEF RulesRead, UserTree
    <2>2. GrowsFrom(user, {own, public})
      BY <2>1 DEF GrowsFrom
    <2>. QED BY <2>2, <1>2, <1>3 DEF RulesRead, AnonymousTree
  <1>4. CASE own # NoRule /\ public # NoRule
    <2>. DEFINE mine == Merge(own)
                theirs == Merge(public)
    <2>1. user = Absorb(mine, theirs) /\ GrowsFrom(mine, {own}) /\ GrowsFrom(theirs, {public})
      BY <1>1, <1>4, ScopeGrows DEF RulesRead, UserTree
    <2>. HIDE DEF mine, theirs
    <2>2. IsTree(mine) /\ IsTree(theirs)
      BY <2>1 DEF GrowsFrom
    <2>3. IsTree(user) /\ DOMAIN user = DOMAIN mine \cup DOMAIN theirs
      BY <2>1, <2>2, AbsorbIs
    <2>4. GrowsFrom(user, {own, public})
      BY <2>1, <2>3 DEF GrowsFrom
    <2>. QED BY <2>4, <1>2, <1>4
  <1>5. CASE own = NoRule
    BY <1>2, <1>5 DEF RulesRead, UserTree, AnonymousTree
  <1>. QED BY <1>3, <1>4, <1>5

LEMMA RightsMerge == RulesRead => RightsAreMerged
  <1>. SUFFICES ASSUME RulesRead, NEW p \in Probes, AnyUsers
                PROVE  \/ Level(user, p) = IF GivenBy(public, p) > GivenBy(own, p)
                                           THEN GivenBy(public, p) ELSE GivenBy(own, p)
                       \/ /\ Level(user, p) = GivenBy(own, p)
                          /\ \E n \in DOMAIN own :
                                /\ IsPrefix(own[n].path, p)
                                /\ \A m \in DOMAIN public : ~IsPrefix(own[n].path, public[m].path)
    BY DEF RightsAreMerged
  <1>1. p \in Path
    BY PathsArePaths DEF Probes
  <1>2. own \in Scopes /\ own \in Rule /\ own # NoRule
    BY PathsArePaths DEF RulesRead, AnyUsers
  <1>3. Level(user, p) = Nearest(user, p)
    BY <1>1, <1>2, TreesGrow, LevelIs DEF GrowsFrom
  <1>4. Nearest(Merge(own), p) = GivenBy(own, p)
    BY <1>1, <1>2, MergeGives
  <1>5. IsTree(Merge(own)) /\ Nearest(Merge(own), p) \in 0 .. 2
    BY <1>1, <1>2, MergeIsTree, NearestIs
  <1>6. CASE public = NoRule
    <2>1. user = Merge(own)
      BY <1>2, <1>6 DEF RulesRead, UserTree
    <2>2. GivenBy(public, p) = IndexOnly
      BY <1>6 DEF GivenBy, NoRule
    <2>. QED BY <2>1, <2>2, <1>3, <1>4, <1>5 DEF IndexOnly
  <1>7. CASE public # NoRule
    <2>1. public \in Rule
      BY <1>7, PathsArePaths DEF RulesRead
    <2>. DEFINE mine == Merge(own)
                theirs == Merge(public)
    <2>2. user = Absorb(mine, theirs)
      BY <1>2, <1>7 DEF RulesRead, UserTree
    <2>3. IsTree(theirs) /\ Nearest(theirs, p) = GivenBy(public, p)
      BY <1>1, <2>1, MergeIsTree, MergeGives
    <2>4. /\ \A q \in DOMAIN mine : mine[q] # IndexOnly => \E n \in DOMAIN own : own[n].path = q
          /\ \A q \in DOMAIN mine : q \in Path
          /\ \A q \in Path, m \in DOMAIN public : Above(q, public[m].path) => q \in DOMAIN theirs
      <3>1. \A q \in DOMAIN mine : mine[q] # IndexOnly => Naming(own, DOMAIN own, q) # {}
        BY <1>2, MergeIsTree
      <3>. QED BY <3>1, <1>5, <2>1, MergeIsTree DEF Naming, IsTree
    <2>5. Nearest(mine, p) = GivenBy(own, p) /\ IsTree(mine)
      BY <1>4, <1>5
    <2>. HIDE DEF mine, theirs
    <2>6. ASSUME NEW q \in DOMAIN mine, q \notin DOMAIN theirs, Above(q, p), mine[q] # IndexOnly
          PROVE  \E n \in DOMAIN own : /\ IsPrefix(own[n].path, p)
                                       /\ \A m \in DOMAIN public : ~IsPrefix(own[n].path, public[m].path)
      <3>1. PICK n \in DOMAIN own : own[n].path = q
        BY <2>4, <2>6
      <3>2. q \in Path /\ IsPrefix(q, p)
        BY <1>1, <2>4, <2>6, AboveIsPrefix
      <3>3. ASSUME NEW m \in DOMAIN public, IsPrefix(q, public[m].path) PROVE FALSE
        <4>1. public[m].path \in Path
          BY <2>1, RuleItems
        <4>. QED BY <4>1, <3>2, <3>3, <2>4, <2>6, AboveIsPrefix
      <3>. QED BY <3>1, <3>2, <3>3
    <2>7. \/ Nearest(user, p) = IF Nearest(theirs, p) > Nearest(mine, p) THEN Nearest(theirs, p) ELSE Nearest(mine, p)
          \/ /\ Nearest(user, p) = Nearest(mine, p)
             /\ \E q \in DOMAIN mine \ DOMAIN theirs : Above(q, p) /\ mine[q] # IndexOnly
      <3>1. \A x \in Path :
               LET low == Nearest(mine, x)
                   high == Nearest(theirs, x)
                   got == Nearest(Absorb(mine, theirs), x)
               IN \/ got = IF high > low THEN high ELSE low
                  \/ /\ got = low
                     /\ \E q \in DOMAIN mine \ DOMAIN theirs : Above(q, x) /\ mine[q] # IndexOnly
        BY <2>3, <2>5, AbsorbIs
      <3>2. \A x \in Path :
               \/ Nearest(user, x) = IF Nearest(theirs, x) > Nearest(mine, x) THEN Nearest(theirs, x) ELSE Nearest(mine, x)
               \/ /\ Nearest(user, x) = Nearest(mine, x)
                  /\ \E q \in DOMAIN mine \ DOMAIN theirs : Above(q, x) /\ mine[q] # IndexOnly
        BY <2>2, <3>1
      <3>. QED BY <1>1, <3>2
    <2>. QED BY <1>3, <2>3, <2>5, <2>6, <2>7
  <1>. QED BY <1>6, <1>7

-----------------------------------------------------------------------------
(* Listings and searches.  *)

LEMMA WayIsThere ==
  ASSUME NEW f \in There, NEW p \in Path, Above(p, f)
  PROVE  p \in There /\ (p # f => p \in Dirs)
  <1>1. PICK g \in Files : f \in Path /\ g \in Path /\ Above(f, g) /\ (f = g \/ f \in Dirs)
    <2>1. CASE f \in Files
      BY <2>1, PathsArePaths, AboveIsOrder
    <2>2. CASE f \in Dirs
      <3>1. PICK g \in Files : f \in Prefixes(g)
        BY <2>2 DEF Dirs
      <3>. QED BY <2>2, <3>1, PathsArePaths, PrefixesArePaths, AboveIsPrefix
    <2>. QED BY <2>1, <2>2 DEF There
  <1>2. p \in Prefixes(g)
    BY <1>1, AboveIsOrder, AboveIsPrefix
  <1>3. p # f => p # g
    BY <1>1, AboveIsOrder
  <1>4. p # f => p \in Dirs
    BY <1>2, <1>3 DEF Dirs
  <1>. QED BY <1>4 DEF There

LEMMA ListIs ==
  ASSUME NEW t, IsTree(t), NEW d \in Path, Find(t, d) # NoTree
  PROVE  \A p : p \in List(Find(t, d), d) <=>
            /\ Visible(p) /\ p \in Path /\ Len(p) = Len(d) + 1 /\ Above(d, p)
            /\ Nearest(t, d) = IndexOnly => p \in DOMAIN t
  <1>1. \A p : Visible(p) => p \in There /\ p \in Path
    BY PathsArePaths DEF Visible
  <1>2. CASE Nearest(t, d) # IndexOnly
    <2>1. Perm(Find(t, d)) # IndexOnly
      BY <1>2, FindIs, LeafIsSome
    <2>2. List(Find(t, d), d) = {p \in Children(d) : Visible(p)}
      BY <2>1 DEF List
    <2>3. \A p \in There : p \in Children(d) <=> Len(p) = Len(d) + 1 /\ Above(d, p)
      BY PathsArePaths, AboveIsPrefix DEF Children
    <2>. QED BY <1>1, <1>2, <2>2, <2>3
  <1>3. CASE Nearest(t, d) = IndexOnly
    <2>1. d \in DOMAIN t
      BY <1>3, FindIs
    <2>. DEFINE s == Find(t, d)
    <2>2. (\A r : r \in DOMAIN s <=> r \in Path /\ d \o r \in DOMAIN t) /\ Perm(s) = IndexOnly
      BY <1>3, <2>1, FindIs DEF Perm
    <2>. HIDE DEF s
    <2>3. List(s, d) = {p \in {d \o q : q \in {n \in DOMAIN s : Len(n) = 1}} : Visible(p)}
      BY <2>2 DEF List
    <2>4. ASSUME NEW p, p \in List(s, d)
          PROVE  Visible(p) /\ p \in Path /\ Len(p) = Len(d) + 1 /\ Above(d, p) /\ p \in DOMAIN t
      <3>1. PICK q \in DOMAIN s : Len(q) = 1 /\ p = d \o q /\ Visible(p)
        BY <2>3, <2>4
      <3>2. q \in Path /\ p \in DOMAIN t
        BY <2>2, <3>1
      <3>. QED BY <3>1, <3>2, Joined
    <2>5. ASSUME NEW p \in Path, Visible(p), Len(p) = Len(d) + 1, Above(d, p), p \in DOMAIN t
          PROVE  p \in List(s, d)
      <3>1. PICK q \in Path : p = d \o q /\ Len(q) = Len(p) - Len(d)
        BY <2>5, Apart
      <3>2. Len(q) = 1
        BY <2>5, <3>1 DEF Path
      <3>3. q \in DOMAIN s
        BY <2>2, <2>5, <3>1
      <3>. QED BY <2>3, <2>5, <3>1, <3>2, <3>3
    <2>. QED BY <1>3, <2>4, <2>5 DEF s
  <1>. QED BY <1>2, <1>3

LEMMA CollectIs ==
  ASSUME NEW t, IsTree(t), NEW d \in Path, Find(t, d) # NoTree, NEW p \in Collect(Find(t, d), d)
  PROVE  p \in There /\ ~Escapes(p) /\ Nearest(t, p) # IndexOnly
  <1>1. p \in There /\ ~Escapes(p) /\ p \in Path
    BY PathsArePaths DEF Collect
  <1>2. PICK e \in EntryPaths(Find(t, d), d) : IsStrictPrefix(e, p)
    BY DEF Collect
  <1>3. CASE Nearest(t, d) # IndexOnly
    <2>1. Perm(Find(t, d)) # IndexOnly
      BY <1>3, FindIs, LeafIsSome
    <2>2. e = d
      BY <1>2, <2>1 DEF EntryPaths
    <2>3. Above(d, p)
      BY <1>1, <1>2, <2>2, AboveIsPrefix DEF IsStrictPrefix
    <2>. QED BY <1>1, <1>3, <2>3, NearestGrows
  <1>4. CASE Nearest(t, d) = IndexOnly
    <2>1. d \in DOMAIN t
      BY <1>4, FindIs
    <2>. DEFINE s == Find(t, d)
    <2>2. /\ \A r : r \in DOMAIN s <=> r \in Path /\ d \o r \in DOMAIN t
          /\ \A r \in DOMAIN s : s[r] = t[d \o r]
          /\ Perm(s) = IndexOnly
      BY <1>4, <2>1, FindIs DEF Perm
    <2>3. PICK q \in DOMAIN s : e = d \o q /\ s[q] # IndexOnly
      BY <1>2, <2>2 DEF EntryPaths
    <2>. HIDE DEF s
    <2>4. e \in DOMAIN t /\ t[e] # IndexOnly
      BY <2>2, <2>3
    <2>5. e \in Path /\ Nearest(t, e) # IndexOnly
      BY <2>4, NearestOfNamed DEF IsTree
    <2>6. Above(e, p)
      BY <1>1, <1>2, <2>5, AboveIsPrefix DEF IsStrictPrefix
    <2>. QED BY <1>1, <2>5, <2>6, NearestGrows
  <1>. QED BY <1>1, <1>3, <1>4

\* Who follows the listings.
Reaches(tree, f) ==
    \A n \in 0..Len(f) - 1 :
        LET dir == SubSeq(f, 1, n)
            t == Find(tree, dir)
        IN ~Escapes(dir) /\ t # NoTree /\ SubSeq(f, 1, n + 1) \in List(t, dir)

LEMMA LinksAreOnTheWay ==
  ASSUME NEW l \in Links
  PROVE  l \in Path /\ l # <<>> /\ l \in There
  <1>1. l \in Dirs /\ l # <<>>
    BY AccessAssumption
  <1>. QED BY <1>1, PathsArePaths DEF There

LEMMA ReachedIsReadable ==
  ASSUME NEW tree, NEW R, GrowsFrom(tree, R), NEW f \in Files, Reaches(tree, f)
  PROVE  f \in Readable(tree) /\ Plain(f)
  <1>1. f \in Path /\ f # <<>> /\ IsTree(tree) /\ f \in There
    BY PathsArePaths DEF GrowsFrom, There
  <1>2. Len(f) \in Nat \ {0}
    BY <1>1, AboveIsOrder DEF Path
  <1>3. ASSUME NEW n \in 0 .. Len(f) - 1
        PROVE  /\ SubSeq(f, 1, n) \in Path /\ SubSeq(f, 1, n + 1) \in Path /\ Len(SubSeq(f, 1, n + 1)) = n + 1
               /\ SubSeq(f, 1, n + 1)[n + 1] = f[n + 1]
               /\ ~Escapes(SubSeq(f, 1, n)) /\ Visible(SubSeq(f, 1, n + 1))
               /\ Nearest(tree, SubSeq(f, 1, n)) = IndexOnly => SubSeq(f, 1, n + 1) \in DOMAIN tree
               /\ Above(SubSeq(f, 1, n), f)
    <2>. DEFINE dir == SubSeq(f, 1, n)
                child == SubSeq(f, 1, n + 1)
    <2>1. n \in 0 .. Len(f) /\ n + 1 \in 0 .. Len(f) /\ n + 1 \in 1 .. n + 1
      BY <1>2
    <2>2. dir \in Path /\ child \in Path /\ Len(child) = n + 1 /\ child[n + 1] = f[n + 1] /\ Above(dir, f)
      BY <1>1, <2>1, Cut
    <2>3. ~Escapes(dir) /\ Find(tree, dir) # NoTree /\ child \in List(Find(tree, dir), dir)
      BY DEF Reaches
    <2>. HIDE DEF dir, child
    <2>4. Visible(child) /\ (Nearest(tree, dir) = IndexOnly => child \in DOMAIN tree)
      BY <1>1, <2>2, <2>3, ListIs
    <2>. QED BY <2>2, <2>3, <2>4 DEF dir, child
  <1>4. Plain(f)
    <2>. SUFFICES ASSUME NEW n \in 1 .. Len(f) PROVE f[n] \notin Hidden
      BY DEF Plain
    <2>1. n - 1 \in 0 .. Len(f) - 1 /\ (n - 1) + 1 = n
      BY <1>2
    <2>2. Visible(SubSeq(f, 1, n)) /\ Len(SubSeq(f, 1, n)) = n /\ SubSeq(f, 1, n)[n] = f[n]
      BY <2>1, <1>3
    <2>. QED BY <2>2 DEF Visible, Name
  <1>5. Find(tree, f) # NoTree
    <2>1. Len(f) - 1 \in 0 .. Len(f) - 1 /\ Len(f) - 1 + 1 = Len(f) /\ Len(f) \in 0 .. Len(f)
      BY <1>2
    <2>2. SubSeq(f, 1, Len(f)) = f
      BY <1>1, AboveIsOrder, AboveIsPrefix
    <2>3. CASE Nearest(tree, SubSeq(f, 1, Len(f) - 1)) = IndexOnly
      <3>1. f \in DOMAIN tree
        BY <1>3, <2>1, <2>2, <2>3
      <3>. QED BY <3>1, <1>1, FoundIs
    <2>4. CASE Nearest(tree, SubSeq(f, 1, Len(f) - 1)) # IndexOnly
      BY <1>1, <1>3, <2>1, <2>4, NearestGrows, FoundIs
    <2>. QED BY <2>3, <2>4
  <1>6. ~Escapes(f)
    <2>. SUFFICES ASSUME NEW l \in Links, IsPrefix(l, f), ~option.symlink PROVE FALSE
      BY DEF Escapes
    <2>1. l \in Path /\ l # <<>> /\ Above(l, f)
      BY <1>1, LinksAreOnTheWay, AboveIsPrefix
    <2>2. Len(l) - 1 \in 0 .. Len(f) - 1 /\ (Len(l) - 1) + 1 = Len(l)
      BY <1>2, <2>1, AboveIsOrder DEF Path, Above
    <2>3. l = SubSeq(f, 1, Len(l))
      BY <1>1, <2>1, AboveIsPrefix
    <2>4. Visible(SubSeq(f, 1, Len(l)))
      BY <1>3, <2>2
    <2>. QED BY <2>3, <2>4 DEF Visible
  <1>. QED BY <1>4, <1>5, <1>6 DEF Readable

LEMMA ReadableIsReached ==
  ASSUME NEW tree, IsTree(tree), NEW f \in Readable(tree), Plain(f)
  PROVE  Reaches(tree, f)
  <1>1. f \in Files /\ f \in Path /\ f # <<>> /\ f \in There /\ ~Escapes(f) /\ Find(tree, f) # NoTree
    BY PathsArePaths DEF Readable, There
  <1>2. f \in DOMAIN tree \/ Nearest(tree, f) # IndexOnly
    BY <1>1, FoundIs
  <1>3. f \in DOMAIN tree \/ \E q : Governs(tree, q, f)
    BY <1>1, <1>2, NearestIs
  <1>4. ASSUME NEW q, Governs(tree, q, f)
        PROVE  q \in DOMAIN tree /\ q \in Path /\ Above(q, f) /\ tree[q] # IndexOnly /\ Nearest(tree, q) # IndexOnly
    BY <1>4, NearestOfNamed DEF Governs, IsTree
  <1>5. ASSUME NEW n \in 0 .. Len(f) - 1
        PROVE  /\ ~Escapes(SubSeq(f, 1, n)) /\ Find(tree, SubSeq(f, 1, n)) # NoTree
               /\ SubSeq(f, 1, n + 1) \in List(Find(tree, SubSeq(f, 1, n)), SubSeq(f, 1, n))
    <2>. DEFINE dir == SubSeq(f, 1, n)
                child == SubSeq(f, 1, n + 1)
    <2>1. n \in 0 .. Len(f) /\ n + 1 \in 0 .. Len(f) /\ n + 1 \in 1 .. n + 1 /\ n \in Nat
      BY <1>1 DEF Path
    <2>2. /\ dir \in Path /\ Len(dir) = n /\ Above(dir, f)
          /\ child \in Path /\ Len(child) = n + 1 /\ Above(child, f) /\ child[n + 1] = f[n + 1]
      BY <1>1, <2>1, Cut
    <2>. HIDE DEF dir, child
    <2>3. Above(dir, child)
      BY <1>1, <2>1, <2>2, AboveIsOrder
    <2>4. Nearest(tree, dir) = IndexOnly => dir \in DOMAIN tree /\ child \in DOMAIN tree
      <3>. SUFFICES ASSUME Nearest(tree, dir) = IndexOnly PROVE dir \in DOMAIN tree /\ child \in DOMAIN tree
        OBVIOUS
      <3>1. CASE f \in DOMAIN tree
        BY <3>1, <2>2 DEF IsTree
      <3>2. CASE \E q : Governs(tree, q, f)
        <4>1. PICK q : Governs(tree, q, f)
          BY <3>2
        <4>2. q \in DOMAIN tree /\ q \in Path /\ Above(q, f) /\ ~Above(q, dir)
          BY <4>1, <1>4, <2>2, NearestGrows
        <4>3. ~(Len(q) <= Len(dir))
          BY <4>2, <1>1, <2>2, AboveIsOrder
        <4>4. Len(child) <= Len(q) /\ Len(dir) <= Len(q)
          BY <4>2, <4>3, <2>1, <2>2 DEF Path
        <4>5. Above(child, q) /\ Above(dir, q)
          BY <4>2, <4>4, <1>1, <2>2, AboveIsOrder
        <4>. QED BY <4>2, <4>5, <2>2 DEF IsTree
      <3>. QED BY <3>1, <3>2, <1>3
    <2>5. Find(tree, dir) # NoTree
      BY <2>2, <2>4, FoundIs
    <2>6. ~Escapes(dir) /\ ~Escapes(child)
      <3>. SUFFICES ASSUME NEW p \in Path, Above(p, f), Escapes(p) PROVE FALSE
        BY <2>2
      <3>1. PICK l \in Links : IsPrefix(l, p) /\ ~option.symlink
        BY DEF Escapes
      <3>2. l \in Path /\ Above(l, p)
        BY <3>1, LinksAreOnTheWay, AboveIsPrefix
      <3>3. IsPrefix(l, f)
        BY <3>2, <1>1, AboveIsOrder, AboveIsPrefix
      <3>. QED BY <3>1, <3>3, <1>1 DEF Escapes
    <2>7. Visible(child)
      <3>1. child \in There
        BY <1>1, <2>2, WayIsThere
      <3>2. Name(child) \notin Hidden
        BY <2>1, <2>2 DEF Plain, Name
      <3>3. ~(child \in Links /\ ~option.symlink)
        BY <2>2, <2>6, AboveIsOrder, AboveIsPrefix DEF Escapes
      <3>. QED BY <3>1, <3>2, <3>3 DEF Visible
    <2>8. child \in List(Find(tree, dir), dir)
      BY <2>2, <2>3, <2>4, <2>5, <2>7, ListIs
    <2>. QED BY <2>5, <2>6, <2>8 DEF dir, child
  <1>. QED BY <1>5 DEF Reaches

LEMMA ReadableIsCollected ==
  ASSUME NEW tree, IsTree(tree), NEW f \in Readable(tree), Plain(f)
  PROVE  f \in Collect(Find(tree, <<>>), <<>>)
         \/ (f \in DOMAIN tree /\ (tree[f] # IndexOnly \/ Level(tree, f) = IndexOnly))
  <1>. SUFFICES ASSUME f \in DOMAIN tree => tree[f] = IndexOnly /\ Level(tree, f) # IndexOnly
                PROVE  f \in Collect(Find(tree, <<>>), <<>>)
    OBVIOUS
  <1>1. f \in Files /\ f \in Path /\ f # <<>> /\ f \in There /\ ~Escapes(f) /\ Find(tree, f) # NoTree
    BY PathsArePaths DEF Readable, There
  <1>2. Nearest(tree, f) # IndexOnly /\ <<>> \in Path /\ <<>> \in DOMAIN tree
    BY <1>1, FoundIs, LevelIs, RootIsPath DEF IsTree
  <1>. DEFINE s == Find(tree, <<>>)
  <1>3. ASSUME NEW e \in EntryPaths(s, <<>>), IsStrictPrefix(e, f), e \in Path PROVE f \in Collect(s, <<>>)
    <2>1. Len(f) \in Nat /\ Len(e) \in Nat
      BY <1>1, <1>3 DEF Path
    <2>2. \A n \in Len(e) + 1 .. Len(f) : f[n] \notin Hidden
      BY <2>1 DEF Plain
    <2>. HIDE DEF s
    <2>. QED BY <1>1, <1>3, <2>2 DEF Collect
  <1>4. CASE Nearest(tree, <<>>) # IndexOnly
    <2>1. Perm(s) # IndexOnly
      BY <1>2, <1>4, FindIs, LeafIsSome
    <2>2. <<>> \in EntryPaths(s, <<>>)
      BY <2>1 DEF EntryPaths
    <2>3. IsStrictPrefix(<<>>, f)
      BY <1>1, <1>2, AboveIsOrder, AboveIsPrefix DEF IsStrictPrefix
    <2>. QED BY <1>2, <1>3, <2>2, <2>3
  <1>5. CASE Nearest(tree, <<>>) = IndexOnly
    <2>1. /\ \A r : r \in DOMAIN s <=> r \in Path /\ <<>> \o r \in DOMAIN tree
          /\ \A r \in DOMAIN s : s[r] = tree[<<>> \o r]
          /\ Perm(s) = IndexOnly
      BY <1>2, <1>5, FindIs DEF Perm
    <2>. HIDE DEF s
    <2>2. \A r \in Path : <<>> \o r = r
      BY Joined
    <2>3. \A r \in DOMAIN tree : r \in DOMAIN s /\ s[r] = tree[r] /\ r \in Path
      BY <2>1, <2>2 DEF IsTree
    <2>. DEFINE S == {q \in DOMAIN tree : Above(q, f) /\ tree[q] # IndexOnly}
    <2>4. S # {} /\ S \subseteq Path /\ \A q \in S : Above(q, f)
      BY <1>1, <1>2, <2>3, NearestIs
    <2>5. PICK q \in S : \A r \in S : Len(q) <= Len(r)
      <3>. HIDE DEF S
      <3>. QED BY <1>1, <2>4, LongestOf
    <2>6. q \in DOMAIN tree /\ q \in Path /\ Above(q, f) /\ tree[q] # IndexOnly /\ q # f
      BY <2>4, <2>5
    <2>7. ASSUME NEW m \in Prefixes(q) \ {q} PROVE s[m] = IndexOnly
      <3>1. m \in Path /\ Above(m, q)
        BY <2>6, <2>7, PrefixesArePaths, AboveIsPrefix
      <3>2. m \in DOMAIN tree /\ Above(m, f)
        BY <3>1, <2>6, <1>1, AboveIsOrder DEF IsTree
      <3>3. ~(Len(q) <= Len(m))
        BY <3>1, <2>6, <2>7, AboveIsOrder
      <3>4. m \notin S
        BY <2>5, <3>3
      <3>. QED BY <3>2, <3>4, <2>3
    <2>8. q \in EntryPaths(s, <<>>)
      BY <2>1, <2>2, <2>3, <2>6, <2>7 DEF EntryPaths
    <2>9. IsStrictPrefix(q, f)
      BY <1>1, <2>6, AboveIsPrefix DEF IsStrictPrefix
    <2>. QED BY <1>3, <2>6, <2>8, <2>9 DEF s
  <1>. QED BY <1>4, <1>5

LEMMA FoundIsReadable ==
  ASSUME NEW tree, IsTree(tree), NEW f \in Collect(Find(tree, <<>>), <<>>) \cap Files
  PROVE  f \in Readable(tree)
  <1>1. <<>> \in Path /\ <<>> \in DOMAIN tree /\ f \in Path
    BY RootIsPath, PathsArePaths DEF IsTree
  <1>2. Find(tree, <<>>) # NoTree
    BY <1>1, FindIs, LeafIsSome DEF NoTree
  <1>3. ~Escapes(f) /\ Nearest(tree, f) # IndexOnly
    BY <1>1, <1>2, CollectIs
  <1>. QED BY <1>1, <1>3, FoundIs DEF Readable

LEMMA ReadableFound == RulesRead => ReadableIsFound
  <1>. SUFFICES ASSUME RulesRead, NEW tree \in {user, anonymous} \ {NoTree}
       PROVE  /\ {f \in Files : Reaches(tree, f)} = {f \in Readable(tree) : Plain(f)}
              /\ Collect(Find(tree, <<>>), <<>>) \cap Files \subseteq Readable(tree)
              /\ {f \in Readable(tree) : Plain(f)}
                    \subseteq (Collect(Find(tree, <<>>), <<>>) \cap Files)
                              \cup {q \in DOMAIN tree : tree[q] # IndexOnly \/ Level(tree, q) = IndexOnly}
    BY DEF ReadableIsFound, Reaches
  <1>1. PICK R : GrowsFrom(tree, R)
    BY TreesGrow
  <1>2. IsTree(tree) /\ \A f \in Readable(tree) : f \in Files
    BY <1>1 DEF GrowsFrom, Readable
  <1>3. {f \in Files : Reaches(tree, f)} = {f \in Readable(tree) : Plain(f)}
    BY <1>1, <1>2, ReachedIsReadable, ReadableIsReached
  <1>4. Collect(Find(tree, <<>>), <<>>) \cap Files \subseteq Readable(tree)
    BY <1>2, FoundIsReadable
  <1>5. {f \in Readable(tree) : Plain(f)}
           \subseteq (Collect(Find(tree, <<>>), <<>>) \cap Files)
                     \cup {q \in DOMAIN tree : tree[q] # IndexOnly \/ Level(tree, q) = IndexOnly}
    BY <1>2, ReadableIsCollected
  <1>. QED BY <1>3, <1>4, <1>5

-----------------------------------------------------------------------------
(* Answers.  *)

\* What the rules give to whoever sends r, for q.
Allowed(r, q) ==
    IF OpenToAll THEN ReadWrite
    ELSE IF ~User(r) THEN GivenBy(public, q) ELSE Level(user, q)
Theirs(r) == IF User(r) THEN {own, public} ELSE {public}
LeadsTo(r, q) == \E rule \in Theirs(r) : \E n \in DOMAIN rule : IsPrefix(q, rule[n].path)

\* An answer to r that keeps to the rules.
Kept(r, shown, sent, written) ==
    /\ \A p \in sent :
          Allowed(r, p) >= ReadOnly \/ (LeadsTo(r, r.path) /\ p \in {r.path, Page(r.path)})
          \/ (option.render = "spa" /\ p = Page(<<>>))
    /\ \A p \in written : Allowed(r, p) = ReadWrite \/ IsStrictPrefix(r.path, p)
    /\ \/ r.method = "PROPFIND" /\ ~WithHeader(r)
       \/ \A p \in shown : Allowed(r, p) >= ReadOnly \/ LeadsTo(r, p)

LEMMA GuardKnows == \A r, p, q : Guard(r, p).user = Guard(r, q).user
  <1>. TAKE r, p, q
  <1>1. CASE OpenToAll
    BY <1>1 DEF Guard
  <1>2. CASE ~OpenToAll /\ ByToken(r)
    BY <1>2 DEF Guard, ByToken, WithHeader
  <1>3. CASE ~OpenToAll /\ WithHeader(r)
    BY <1>3 DEF Guard, ByToken, WithHeader
  <1>4. CASE ~OpenToAll /\ ~ByToken(r) /\ ~WithHeader(r)
    BY <1>4 DEF Guard
  <1>. QED BY <1>1, <1>2, <1>3, <1>4

\* Where the permissions of an admitted request come from.
LEMMA GuardIs ==
  ASSUME RulesRead, NEW r, NEW p \in Path, Guard(r, p).access # NoTree
  PROVE  \/ OpenToAll
         \/ r.method = "OPTIONS"
         \/ \E tree : /\ GrowsFrom(tree, Theirs(r)) /\ Guard(r, p).access = Find(tree, p)
                      /\ r.method \notin ReadMethods => Perm(Find(tree, p)) = ReadWrite
                      /\ \A q \in Path : Allowed(r, q) = Nearest(tree, q)
  <1>. SUFFICES ASSUME ~OpenToAll, r.method # "OPTIONS"
       PROVE  \E tree : /\ GrowsFrom(tree, Theirs(r)) /\ Guard(r, p).access = Find(tree, p)
                        /\ r.method \notin ReadMethods => Perm(Find(tree, p)) = ReadWrite
                        /\ \A q \in Path : Allowed(r, q) = Nearest(tree, q)
    OBVIOUS
  <1>1. \A tree : Granted(tree, r, p) # NoTree =>
                    /\ tree # NoTree /\ Granted(tree, r, p) = Find(tree, p)
                    /\ r.method \notin ReadMethods => Perm(Find(tree, p)) = ReadWrite
    BY DEF Granted
  <1>2. User(r) = Guard(r, p).user
    BY GuardKnows DEF User
  <1>3. CASE Guard(r, p) = [user |-> TRUE, access |-> Granted(user, r, p)]
    <2>1. user # NoTree /\ Guard(r, p).access = Find(user, p) /\ User(r)
          /\ (r.method \notin ReadMethods => Perm(Find(user, p)) = ReadWrite)
      BY <1>1, <1>2, <1>3
    <2>2. GrowsFrom(user, Theirs(r))
      BY <2>1, TreesGrow DEF Theirs
    <2>3. \A q \in Path : Allowed(r, q) = Nearest(user, q)
      BY <2>1, <2>2, LevelIs DEF Allowed, GrowsFrom
    <2>. QED BY <2>1, <2>2, <2>3
  <1>4. CASE Guard(r, p) = [user |-> FALSE, access |-> Granted(anonymous, r, p)]
    <2>1. anonymous # NoTree /\ Guard(r, p).access = Find(anonymous, p) /\ ~User(r)
          /\ (r.method \notin ReadMethods => Perm(Find(anonymous, p)) = ReadWrite)
      BY <1>1, <1>2, <1>4
    <2>2. public # NoRule /\ GrowsFrom(anonymous, Theirs(r))
      BY <2>1, TreesGrow DEF Theirs
    <2>3. public \in Rule /\ anonymous = Merge(public)
      BY <2>2, PathsArePaths DEF RulesRead, AnonymousTree
    <2>4. \A q \in Path : Allowed(r, q) = Nearest(anonymous, q)
      BY <2>1, <2>3, MergeGives DEF Allowed
    <2>. QED BY <2>1, <2>2, <2>4
  <1>5. \/ Guard(r, p) = [user |-> TRUE, access |-> Granted(user, r, p)]
        \/ Guard(r, p) = [user |-> FALSE, access |-> Granted(anonymous, r, p)]
        \/ Guard(r, p).access = NoTree
    <2>1. CASE ByToken(r)
      BY <2>1 DEF Guard, ByToken, WithHeader
    <2>2. CASE WithHeader(r)
      BY <2>2 DEF Guard, ByToken, WithHeader
    <2>3. CASE ~ByToken(r) /\ ~WithHeader(r)
      BY <2>3 DEF Guard
    <2>. QED BY <2>1, <2>2, <2>3
  <1>. QED BY <1>3, <1>4, <1>5

LEMMA AccessGives ==
  ASSUME RulesRead, NEW r, NEW p \in Path, Guard(r, p).access # NoTree, r.method # "OPTIONS"
  PROVE  LET tree == Guard(r, p).access
         IN /\ r.method \notin ReadMethods => Allowed(r, p) = ReadWrite
            /\ LeadsTo(r, p) \/ \A q \in Path : Above(p, q) => Allowed(r, q) >= ReadOnly
            /\ \A q \in List(tree, p) : Allowed(r, q) >= ReadOnly \/ LeadsTo(r, q)
            /\ \A q \in Collect(tree, p) : Allowed(r, q) >= ReadOnly
  <1>1. CASE OpenToAll
    BY <1>1 DEF Allowed, ReadOnly, ReadWrite
  <1>2. CASE ~OpenToAll
    <2>1. PICK tree : /\ GrowsFrom(tree, Theirs(r)) /\ Guard(r, p).access = Find(tree, p)
                      /\ r.method \notin ReadMethods => Perm(Find(tree, p)) = ReadWrite
                      /\ \A q \in Path : Allowed(r, q) = Nearest(tree, q)
      BY <1>2, GuardIs
    <2>2. IsTree(tree) /\ Find(tree, p) # NoTree
      BY <2>1 DEF GrowsFrom
    <2>3. Perm(Find(tree, p)) = Nearest(tree, p)
      BY <2>2, LevelIs DEF Level
    <2>4. \A q \in Path : Nearest(tree, q) # IndexOnly => Allowed(r, q) >= ReadOnly
      BY <2>1, <2>2, NearestIs DEF IndexOnly, ReadOnly
    <2>5. \A q \in DOMAIN tree : LeadsTo(r, q)
      <3>. SUFFICES ASSUME NEW q \in DOMAIN tree PROVE LeadsTo(r, q)
        OBVIOUS
      <3>1. PICK rule \in Theirs(r) : \E n \in DOMAIN rule : rule[n].path \in Path /\ Above(q, rule[n].path)
        BY <2>1 DEF GrowsFrom
      <3>2. PICK n \in DOMAIN rule : rule[n].path \in Path /\ Above(q, rule[n].path)
        BY <3>1
      <3>3. q \in Path
        BY <2>2 DEF IsTree
      <3>4. IsPrefix(q, rule[n].path)
        BY <3>2, <3>3, AboveIsPrefix
      <3>. QED BY <3>1, <3>2, <3>4 DEF LeadsTo
    <2>6. Nearest(tree, p) # IndexOnly \/ p \in DOMAIN tree
      BY <2>2, FindIs
    <2>7. LeadsTo(r, p) \/ \A q \in Path : Above(p, q) => Allowed(r, q) >= ReadOnly
      BY <2>2, <2>4, <2>5, <2>6, NearestGrows
    <2>8. ASSUME NEW q \in List(Find(tree, p), p) PROVE Allowed(r, q) >= ReadOnly \/ LeadsTo(r, q)
      <3>1. q \in Path /\ Above(p, q) /\ (Nearest(tree, p) = IndexOnly => q \in DOMAIN tree)
        BY <2>2, ListIs
      <3>. QED BY <3>1, <2>2, <2>4, <2>5, NearestGrows
    <2>9. ASSUME NEW q \in Collect(Find(tree, p), p) PROVE Allowed(r, q) >= ReadOnly
      <3>1. q \in Path /\ Nearest(tree, q) # IndexOnly
        BY <2>2, CollectIs, PathsArePaths
      <3>. QED BY <3>1, <2>4
    <2>. QED BY <2>1, <2>3, <2>7, <2>8, <2>9
  <1>. QED BY <1>1, <1>2

\* Some answer that keeps to the rules is given.
Answered(r) ==
    \E status, shown, sent, written :
        Respond(r, status, shown, sent, written) /\ Kept(r, shown, sent, written)

LEMMA SayingKeeps == ASSUME NEW r, NEW status, Says(r, status) PROVE Answered(r)
  BY DEF Says, Answered, Kept

LEMMA SendingKeeps ==
  ASSUME NEW r, NEW p, Sends(r, p),
         \/ Allowed(r, p) >= ReadOnly \/ (LeadsTo(r, r.path) /\ p \in {r.path, Page(r.path)})
         \/ option.render = "spa" /\ p = Page(<<>>)
  PROVE  Answered(r)
  BY DEF Sends, Answered, Kept

LEMMA ShowingKeeps ==
  ASSUME NEW r, NEW paths, Shows(r, paths),
         \/ r.method = "PROPFIND" /\ ~WithHeader(r)
         \/ \A p \in paths : Allowed(r, p) >= ReadOnly \/ LeadsTo(r, p)
  PROVE  Answered(r)
  BY DEF Shows, Answered, Kept

LEMMA WritingKeeps ==
  ASSUME NEW r, NEW status, NEW paths, Writes(r, status, paths),
         \A p \in paths : Allowed(r, p) = ReadWrite \/ IsStrictPrefix(r.path, p)
  PROVE  Answered(r)
  <1>1. Says(r, 500) \/ Respond(r, status, {}, {}, paths)
    BY DEF Writes
  <1>. QED BY <1>1, SayingKeeps DEF Answered, Kept

LEMMA ReadersKeep ==
  ASSUME RulesRead, NEW r, r.path \in Path,
         \/ ZipDir(r) \/ SearchDir(r) \/ ListDir(r) \/ RenderIndex(r) \/ FileJson(r) \/ EditFile(r)
         \/ HashFile(r) \/ SendFile(r) \/ RenderSpa(r) \/ NotFound(r) \/ Propfind(r)
  PROVE  Answered(r)
  <1>. DEFINE p == r.path
              tree == Access(r)
  <1>1. ASSUME Admitted(r), r.method # "OPTIONS"
        PROVE  /\ Allowed(r, p) >= ReadOnly \/ LeadsTo(r, p)
               /\ LeadsTo(r, p) \/ \A q \in Path : Above(p, q) => Allowed(r, q) >= ReadOnly
               /\ \A q \in List(tree, p) : Allowed(r, q) >= ReadOnly \/ LeadsTo(r, q)
               /\ \A q \in Collect(tree, p) : Allowed(r, q) >= ReadOnly
    <2>1. Guard(r, p).access = tree /\ tree # NoTree
      BY <1>1 DEF Admitted, Refused, Access
    <2>2. Above(p, p)
      BY AboveIsOrder
    <2>. QED BY <1>1, <2>1, <2>2, AccessGives
  <1>. HIDE DEF tree
  <1>2. /\ OnDir(r) \/ OnFile(r) => Admitted(r) /\ r.method # "OPTIONS" /\ r.method # "PROPFIND"
        /\ OnFile(r) => p \in Files
    BY DEF OnDir, OnFile, Reading
  <1>3. CASE ZipDir(r)
    <2>1. Admitted(r) /\ r.method # "OPTIONS"
      BY <1>2, <1>3 DEF ZipDir
    <2>2. CASE option.archive
      <3>1. Respond(r, 200, {}, Collect(tree, p) \cap Files, {})
        BY <1>3, <2>2 DEF ZipDir, tree
      <3>2. Kept(r, {}, Collect(tree, p) \cap Files, {})
        BY <2>1, <1>1 DEF Kept
      <3>. QED BY <3>1, <3>2 DEF Answered
    <2>3. CASE ~option.archive
      BY <1>3, <2>3, SayingKeeps DEF ZipDir
    <2>. QED BY <2>2, <2>3
  <1>4. CASE SearchDir(r)
    <2>1. Admitted(r) /\ r.method # "OPTIONS" /\ Shows(r, Collect(tree, p))
      BY <1>2, <1>4 DEF SearchDir, tree
    <2>. QED BY <2>1, <1>1, ShowingKeeps
  <1>5. CASE ListDir(r)
    <2>1. Admitted(r) /\ r.method # "OPTIONS" /\ Shows(r, List(tree, p))
      BY <1>2, <1>5 DEF ListDir, Listed, tree
    <2>. QED BY <2>1, <1>1, ShowingKeeps
  <1>6. CASE RenderIndex(r)
    <2>1. Admitted(r) /\ r.method # "OPTIONS"
      BY <1>2, <1>6 DEF RenderIndex
    <2>2. CASE Page(p) \in Files
      <3>1. Page(p) \in Path
        BY <2>2, PathsArePaths
      <3>2. Above(p, Page(p))
        BY <3>1 DEF Page, Child, Above, Path
      <3>3. Sends(r, Page(p))
        BY <1>6, <2>2 DEF RenderIndex
      <3>4. Allowed(r, Page(p)) >= ReadOnly \/ LeadsTo(r, p)
        BY <1>1, <2>1, <3>1, <3>2
      <3>. QED BY <3>3, <3>4, SendingKeeps
    <2>3. CASE Page(p) \notin Files
      BY <1>6, <2>3, SayingKeeps DEF RenderIndex
    <2>. QED BY <2>2, <2>3
  <1>7. CASE FileJson(r)
    <2>1. OnFile(r) /\ Shows(r, {p})
      BY <1>7 DEF FileJson
    <2>2. Allowed(r, p) >= ReadOnly \/ LeadsTo(r, p)
      BY <2>1, <1>1, <1>2
    <2>. QED BY <2>1, <2>2, ShowingKeeps
  <1>8. CASE EditFile(r) \/ SendFile(r)
    <2>1. OnFile(r) /\ Sends(r, p)
      BY <1>8 DEF EditFile, SendFile
    <2>2. Allowed(r, p) >= ReadOnly \/ LeadsTo(r, p)
      BY <2>1, <1>1, <1>2
    <2>. QED BY <2>1, <2>2, SendingKeeps
  <1>9. CASE HashFile(r)
    <2>1. OnFile(r)
      BY <1>9 DEF HashFile
    <2>2. Allowed(r, p) >= ReadOnly \/ LeadsTo(r, p)
      BY <2>1, <1>1, <1>2
    <2>3. Sends(r, p) \/ Says(r, 403)
      BY <1>9 DEF HashFile
    <2>. QED BY <2>2, <2>3, SendingKeeps, SayingKeeps
  <1>10. CASE RenderSpa(r)
    <2>1. option.render = "spa" /\ (Sends(r, Page(<<>>)) \/ Says(r, 500))
      BY <1>10 DEF RenderSpa, Spa
    <2>. QED BY <2>1, SendingKeeps, SayingKeeps
  <1>11. CASE NotFound(r)
    BY <1>11, SayingKeeps DEF NotFound
  <1>12. CASE Propfind(r)
    <2>1. Admitted(r) /\ r.method = "PROPFIND"
      BY <1>12 DEF Propfind
    <2>2. CASE ~WithHeader(r)
      <3>1. (\E paths : Shows(r, paths)) \/ Says(r, 404)
        BY <1>12 DEF Propfind
      <3>. QED BY <2>1, <2>2, <3>1, ShowingKeeps, SayingKeeps
    <2>3. CASE WithHeader(r)
      <3>1. Allowed(r, p) >= ReadOnly \/ LeadsTo(r, p)
        BY <1>1, <2>1
      <3>2. \/ Shows(r, {p} \cup (IF r.query = "depth 0" THEN {} ELSE List(tree, p)))
            \/ Shows(r, {p}) \/ Says(r, 404)
        BY <1>12, <2>3 DEF Propfind, tree
      <3>3. \A q \in {p} \cup (IF r.query = "depth 0" THEN {} ELSE List(tree, p)) :
               Allowed(r, q) >= ReadOnly \/ LeadsTo(r, q)
        BY <1>1, <2>1, <3>1
      <3>. QED BY <3>1, <3>2, <3>3, ShowingKeeps, SayingKeeps
    <2>. QED BY <2>2, <2>3
  <1>. QED BY <1>3, <1>4, <1>5, <1>6, <1>7, <1>8, <1>9, <1>10, <1>11, <1>12

LEMMA WritersKeep ==
  ASSUME RulesRead, NEW r, r.path \in Path, r.dest \in Path,
         \/ HandlePut(r) \/ HandlePatch(r) \/ HandleDelete(r) \/ HandleMkcol(r) \/ HandleCopy(r) \/ HandleMove(r)
  PROVE  Answered(r)
  <1>. DEFINE Writing == {"PUT", "PATCH", "DELETE", "MKCOL", "COPY", "MOVE"}
  <1>1. ASSUME NEW method \in Writing, Asked(r, method) PROVE Allowed(r, r.path) = ReadWrite
    <2>1. Guard(r, r.path).access # NoTree /\ r.method \notin ReadMethods /\ r.method # "OPTIONS"
      BY <1>1 DEF Asked, Admitted, Refused, Access, ReadMethods
    <2>. QED BY <2>1, AccessGives
  <1>2. ASSUME NEW method \in Writing, Asked(r, method), Destination(r) # NoTree PROVE Allowed(r, r.dest) = ReadWrite
    <2>1. Guard(r, r.dest).access # NoTree /\ r.method \notin ReadMethods /\ r.method # "OPTIONS"
      BY <1>2 DEF Asked, Destination, ReadMethods
    <2>. QED BY <2>1, AccessGives
  <1>3. CASE HandlePut(r)
    <2>1. Allowed(r, r.path) = ReadWrite
      BY <1>1, <1>3 DEF HandlePut
    <2>2. Says(r, 403) \/ Writes(r, 201, {r.path})
      BY <1>3 DEF HandlePut
    <2>. QED BY <2>1, <2>2, SayingKeeps, WritingKeeps
  <1>4. CASE HandlePatch(r)
    <2>1. Allowed(r, r.path) = ReadWrite
      BY <1>1, <1>4 DEF HandlePatch
    <2>2. (\E status : Says(r, status)) \/ Writes(r, 204, {r.path})
      BY <1>4 DEF HandlePatch
    <2>. QED BY <2>1, <2>2, SayingKeeps, WritingKeeps
  <1>5. CASE HandleDelete(r)
    <2>1. Allowed(r, r.path) = ReadWrite
      BY <1>1, <1>5 DEF HandleDelete
    <2>2. (\E status : Says(r, status)) \/ Writes(r, 204, {p \in There : IsPrefix(r.path, p)})
      BY <1>5 DEF HandleDelete
    <2>3. \A p \in {p \in There : IsPrefix(r.path, p)} : Allowed(r, p) = ReadWrite \/ IsStrictPrefix(r.path, p)
      BY <2>1 DEF IsStrictPrefix
    <2>. QED BY <2>2, <2>3, SayingKeeps, WritingKeeps
  <1>6. CASE HandleMkcol(r)
    <2>1. Allowed(r, r.path) = ReadWrite
      BY <1>1, <1>6 DEF HandleMkcol
    <2>2. (\E status : Says(r, status)) \/ Writes(r, 201, {r.path})
      BY <1>6 DEF HandleMkcol
    <2>. QED BY <2>1, <2>2, SayingKeeps, WritingKeeps
  <1>7. CASE HandleCopy(r)
    <2>1. Asked(r, "COPY")
      BY <1>7 DEF HandleCopy
    <2>2. (\E status : Says(r, status)) \/ (Destination(r) # NoTree /\ Writes(r, 204, {r.dest}))
      BY <1>7 DEF HandleCopy, Misdirected
    <2>. QED BY <2>1, <2>2, <1>2, SayingKeeps, WritingKeeps
  <1>8. CASE HandleMove(r)
    <2>1. Asked(r, "MOVE") /\ Allowed(r, r.path) = ReadWrite
      BY <1>8, <1>1 DEF HandleMove
    <2>2. (\E status : Says(r, status)) \/ (Destination(r) # NoTree /\ Writes(r, 204, {r.path, r.dest}))
      BY <1>8 DEF HandleMove
    <2>. QED BY <2>1, <2>2, <1>2, SayingKeeps, WritingKeeps
  <1>. QED BY <1>3, <1>4, <1>5, <1>6, <1>7, <1>8

LEMMA HandlersKeep ==
  ASSUME RulesRead, NEW r, r.path \in Path, r.dest \in Path, Handle(r)
  PROVE  Answered(r)
  <1>1. CASE \/ AuthReject(r) \/ CheckAuth(r) \/ Logout(r) \/ TokenGen(r) \/ Escape(r)
             \/ Preflight(r) \/ Lock(r) \/ Unlock(r) \/ Proppatch(r)
    <2>1. \E status : Says(r, status)
      BY <1>1 DEF AuthReject, CheckAuth, Logout, TokenGen, Escape, Preflight, Lock, Unlock,
         Proppatch
    <2>. QED BY <2>1, SayingKeeps
  <1>. QED BY <1>1, ReadersKeep, WritersKeep DEF Handle

LEMMA AnsweredKeeps ==
  ASSUME NEW r, Answered(r)
  PROVE  AnswersKeepToRules' /\ UNCHANGED <<own, public, user, anonymous, option>>
  <1>1. PICK status, shown, sent, written :
             Respond(r, status, shown, sent, written) /\ Kept(r, shown, sent, written)
    BY DEF Answered
  <1>2. /\ own' = own /\ public' = public /\ user' = user /\ anonymous' = anonymous /\ option' = option
        /\ ask' = r /\ answer'.shown \subseteq shown /\ answer'.sent \subseteq sent /\ answer'.written = written
    BY <1>1 DEF Respond
  <1>3. User(ask)' = User(r) /\ OpenToAll' = OpenToAll
    BY <1>2 DEF User, Guard, OpenToAll, AnyUsers, ByToken
  <1>4. AnswersKeepToRules'
    <2>1. /\ \A p \in answer'.sent :
                Allowed(r, p) >= ReadOnly \/ (LeadsTo(r, r.path) /\ p \in {r.path, Page(r.path)})
                \/ (option.render = "spa" /\ p = Page(<<>>))
          /\ \A p \in answer'.written : Allowed(r, p) = ReadWrite \/ IsStrictPrefix(r.path, p)
          /\ \/ r.method = "PROPFIND" /\ ~WithHeader(r)
             \/ \A p \in answer'.shown : Allowed(r, p) >= ReadOnly \/ LeadsTo(r, p)
      BY <1>1, <1>2 DEF Kept
    <2>. QED BY <2>1, <1>2, <1>3 DEF AnswersKeepToRules, Allowed, LeadsTo, Theirs
  <1>. QED BY <1>2, <1>4

AccessInv == RulesRead /\ AnswersKeepToRules

LEMMA AccessStarts == AccessInit => AccessInv
  BY DEF AccessInit, AccessInv, RulesRead, AnswersKeepToRules

LEMMA AccessGoesOn == AccessInv /\ [AccessNext]_accessVars => AccessInv'
  <1>. SUFFICES ASSUME AccessInv, [AccessNext]_accessVars PROVE AccessInv'
    OBVIOUS
  <1>1. ASSUME UNCHANGED <<own, public, user, anonymous>> PROVE RulesRead'
    BY <1>1 DEF AccessInv, RulesRead, UserTree, AnonymousTree
  <1>2. CASE AccessNext
    <2>1. PICK method \in ReadMethods \cup WriteMethods, path \in There \cup Absent :
             \E query \in Queries(method, path), dest \in Dests(method), who \in Senders(method) :
                 Handle([method |-> method, query |-> query, path |-> path, dest |-> dest, who |-> who])
      BY <1>2 DEF AccessNext
    <2>2. PICK query \in Queries(method, path), dest \in Dests(method), who \in Senders(method) :
             Handle([method |-> method, query |-> query, path |-> path, dest |-> dest, who |-> who])
      BY <2>1
    <2>. DEFINE r == [method |-> method, query |-> query, path |-> path, dest |-> dest, who |-> who]
    <2>3. r.path \in Path /\ r.dest \in Path
      BY PathsArePaths, RootIsPath DEF Dests
    <2>. HIDE DEF r
    <2>4. Handle(r)
      BY <2>2 DEF r
    <2>5. Answered(r)
      BY <2>3, <2>4, HandlersKeep DEF AccessInv
    <2>. QED BY <2>5, <1>1, AnsweredKeeps DEF AccessInv
  <1>3. CASE UNCHANGED accessVars
    <2>1. /\ own' = own /\ public' = public /\ user' = user /\ anonymous' = anonymous /\ option' = option
          /\ ask' = ask /\ answer' = answer
      BY <1>3 DEF accessVars
    <2>2. User(ask)' = User(ask) /\ OpenToAll' = OpenToAll
      BY <2>1 DEF User, Guard, OpenToAll, AnyUsers, ByToken
    <2>3. AnswersKeepToRules'
      BY <2>1, <2>2 DEF AccessInv, AnswersKeepToRules
    <2>. QED BY <2>1, <2>3, <1>1 DEF AccessInv
  <1>. QED BY <1>2, <1>3

\* Every answer keeps to the rules of the command line, for any files, links, rules and
\* options: the higher right wins when the rules of a user and of everybody are merged, but
\* where absorb_anon does not come, and listings and searches find exactly what is sent.
THEOREM AnswersFollowRulesAlways == AccessSpec => []AnswersFollowRules
  <1>1. AccessInv => AnswersFollowRules
    BY RightsMerge, ReadableFound DEF AccessInv, AnswersFollowRules
  <1>. QED BY <1>1, AccessStarts, AccessGoesOn, PTL DEF AccessSpec
=============================================================================
