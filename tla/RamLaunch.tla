----------------------------- MODULE RamLaunch -----------------------------
(***************************************************************************)
(* How the accounts of the local ram get from union into ram: a request    *)
(* that replaces them, or the rules of the settings when there are none    *)
(* yet; the configuration file union writes for a start, with one line of  *)
(* text per account; and what ram reads from it (union: ram_auth/rules.rs, *)
(* ram_auth/service.rs, service_manager/config.rs; ram: args.rs, auth.rs). *)
(*                                                                         *)
(* A text is a sequence of tokens: separators and words.  The name of a    *)
(* user, or of a file, is one word, and "comma" is the sign of that name.   *)
(***************************************************************************)
EXTENDS Naturals, FiniteSets, SequencesExt, FiniteSetsExt

CONSTANTS
    Tokens,        \* what texts are made of
    Anyone,        \* the user of a rule without an account
    RuleRequests,  \* what is asked for: rules, and an administrator or none
    Settings,      \* [auth, management]: texts of the settings, from before there were accounts
    Flags,         \* sets of what the settings turn on
    Told,          \* what else may be told to ram: --auth, RAM_AUTH, a state file; in order
    Escaped,       \* tokens that JSON writes with an escape: a quote, a backslash
    Known,         \* passwords everybody knows
    Least,         \* tokens a password has at least in production
    MaxSaves       \* bound: requests

Separators == {"@", ":", "/", "comma"}
Text == Seq(Tokens)
UserNames == (Tokens \ Separators) \cup {Anyone}

Manager(user, password) == [user |-> user, password |-> password, paths |-> {}, admin |-> TRUE]

ASSUME LaunchAssumption ==
    /\ Separators \cup {"rw", "ro", "***", ".", ".."} \subseteq Tokens
    /\ Anyone \notin Tokens /\ Escaped \subseteq Tokens \ Separators
    /\ \A request \in RuleRequests :
         /\ \A r \in request.rules :
              /\ r.user \in UserNames /\ r.password \in Text /\ IsFiniteSet(r.paths)
              /\ r.paths \subseteq [path : Text, perm : {"rw", "ro"}]
         /\ \A r \in request.admin :
              r.user \in UserNames \ {Anyone} /\ r.password \in Text /\ r = Manager(r.user, r.password)
    /\ \A s \in Settings : s.auth \subseteq Text /\ s.management \in Text
    /\ MaxSaves \in Nat

VARIABLES
    production,
    settings,
    flags,         \* allow-*, certificate and key of the settings
    told,          \* the texts of each, the last of which counts
    records,       \* service_accounts
    written,       \* ram.generated.yaml: the texts, or Unwritten
    shown,         \* the texts the console shows
    served,        \* the rules ram has read
    asked,         \* history: the rules of the last request
    saves

launchVars == <<production, settings, flags, told, records, written, shown, served, asked, saves>>

Unwritten == [state |-> "none"]
NoRam == [state |-> "down"]
RamRefuses == [state |-> "refused"]

-----------------------------------------------------------------------------
(* Texts *)

Where(text, token) == {i \in DOMAIN text : text[i] = token}
Before(text, i) == SubSeq(text, 1, i - 1)
After(text, i) == SubSeq(text, i + 1, Len(text))
FirstAt(text, token) == Min(Where(text, token))
LastAt(text, token) == Max(Where(text, token))

\* The parts of a text between commas.
IsItem(text, i, j) ==
    /\ i <= j
    /\ \A k \in i .. j : text[k] # "comma"
    /\ i = 1 \/ text[i - 1] = "comma"
    /\ j = Len(text) \/ text[j + 1] = "comma"
Items(text) ==
    {SubSeq(text, w[1], w[2]) : w \in {v \in (DOMAIN text) \X (DOMAIN text) : IsItem(text, v[1], v[2])}}

Without(text, tokens) ==
    LET kept[i \in 0 .. Len(text)] ==
          IF i = 0 THEN <<>>
          ELSE IF text[i] \in tokens THEN kept[i - 1] ELSE Append(kept[i - 1], text[i])
    IN kept[Len(text)]

Segments(path) == Without(path, {"/"})

-----------------------------------------------------------------------------
(* union: rules.rs *)

\* Mutant of NormalPath: a path as it was asked for.
NormalPath_Raw(path) == Segments(path)

\* normalize_path drops "." and empty names, and refuses "..".
NormalPath(path) == Without(path, {"/", "."})
PathIsUsable(path) ==
    path # <<>> /\ \A token \in {"..", ":", "@", "comma"} : Where(path, token) = {}

Slashed(path) == IF path = <<>> THEN <<"/">> ELSE FlattenSeq([i \in DOMAIN path |-> <<"/", path[i]>>])
PathText(p) == Slashed(p.path) \o IF p.perm = "rw" THEN <<":", "rw">> ELSE <<>>

\* format_auth_rule
AccountText(r) == IF r.user = Anyone THEN <<>> ELSE <<r.user, ":">> \o r.password
Piece(paths, i) == (IF i = 1 THEN <<>> ELSE <<"comma">>) \o PathText(paths[i])
PathsText(paths) == FlattenSeq([i \in DOMAIN paths |-> Piece(paths, i)])
Format(r) == AccountText(r) \o <<"@">> \o PathsText(SetToSeq(r.paths))

\* redact_auth_rule
Redact(text) ==
    LET account == Before(text, LastAt(text, "@"))
        paths == After(text, LastAt(text, "@"))
    IN IF account = <<>> THEN text
       ELSE IF Where(account, ":") = {} THEN <<"***", "@">> \o paths
       ELSE Before(account, FirstAt(account, ":")) \o <<":", "***", "@">> \o paths

\* parse_auth_rule, parse_paths
IsMarked(item) == Where(item, ":") # {} /\ After(item, LastAt(item, ":")) \in {<<"ro">>, <<"rw">>}
ItemPath(item) == IF IsMarked(item) THEN Before(item, LastAt(item, ":")) ELSE item
ParsePath(item) ==
    [path |-> NormalPath(ItemPath(item)), perm |-> IF IsMarked(item) THEN item[Len(item)] ELSE "ro"]

Parse(text) ==
    LET account == Before(text, LastAt(text, "@"))
    IN [user |-> IF account = <<>> THEN Anyone ELSE account[1],
        password |-> IF account = <<>> THEN <<>> ELSE After(account, FirstAt(account, ":")),
        paths |-> {ParsePath(item) : item \in Items(After(text, LastAt(text, "@")))},
        admin |-> FALSE]

\* A name and, after ":", a password.
IsPair(account) == Len(account) > 2 /\ account[1] \notin Separators /\ account[2] = ":"

\* What union cannot parse, or store under the keys of the tables, it does not start with.
Parses(text) ==
    LET items == Items(After(text, LastAt(text, "@")))
        account == Before(text, LastAt(text, "@"))
    IN /\ Where(text, "@") # {}
       /\ account = <<>> \/ IsPair(account)
       /\ items # {} /\ \A item \in items : PathIsUsable(ItemPath(item))
IsStored(rules) ==
    /\ \A r, q \in rules : r.user = q.user => r = q
    /\ \A r \in rules : \A p, q \in r.paths : p.path = q.path => p = q

\* ensure_seeded: management_auth, or else the first rule that has a name.
FromSettings == {Parse(text) : text \in settings.auth}
Named(rules) == {r \in rules : r.user # Anyone}
Seeded ==
    FromSettings \cup
      IF IsPair(settings.management)
        THEN {Manager(settings.management[1], After(settings.management, 2))}
      ELSE IF Named(FromSettings) # {}
        THEN {LET r == CHOOSE r \in Named(FromSettings) : TRUE IN Manager(r.user, r.password)}
      ELSE {}

LaunchInit ==
    /\ production \in BOOLEAN /\ settings \in Settings /\ flags \in Flags /\ told \in Told
    /\ \A text \in settings.auth : Parses(text)
    /\ IsStored(FromSettings)
    /\ records = Seeded /\ asked = {} /\ saves = 0
    /\ written = Unwritten /\ shown = {} /\ served = NoRam

\* normalize_input_rule
Normalized(r) ==
    [user |-> r.user, password |-> r.password, admin |-> FALSE,
     paths |-> {[path |-> NormalPath(p.path), perm |-> p.perm] : p \in r.paths}]

\* normalize_input_rule with validate_account, and validate_rules.
RulesAreUsable(rules) ==
    /\ \A r \in rules : r.paths # {} /\ \A p \in r.paths : PathIsUsable(p.path)
    /\ \A r \in rules : r.user # Anyone => r.password # <<>>
    /\ \A r, q \in rules : r.user = q.user => r = q

IsWeak(password) == Len(password) < Least \/ password \in Known

\* update_auth_for, for the local ram.  What ram still serves of earlier accounts is
\* RamLifecycle's; here it is what it will serve when it starts next.
SaveRules(request) ==
    LET rules == {Normalized(r) : r \in request.rules}
        all == rules \cup request.admin
    IN /\ saves < MaxSaves /\ saves' = saves + 1
       /\ RulesAreUsable(request.rules) /\ IsStored(rules)
       /\ production => \A r \in Named(all) : ~IsWeak(r.password)
       /\ records' = all /\ asked' = request.rules
       /\ written' = Unwritten /\ shown' = {} /\ served' = NoRam
       /\ UNCHANGED <<production, settings, flags, told>>

\* auth_rules_for: a rule with the name of the administrator gives way to his, and with
\* no administrator the rule that has no name does.
Rules ==
    LET admins == {r.user : r \in {a \in records : a.admin}}
    IN {r \in records : r.admin \/ r.user \notin IF admins = {} THEN {Anyone} ELSE admins}
Texts == {Format(r) : r \in Rules}

\* weak_auth_rule
TextIsWeak(text) ==
    LET account == Before(text, LastAt(text, "@"))
    IN account # <<>> /\ IsWeak(After(account, FirstAt(account, ":")))

\* ram_start_command_spec: what production refuses, and the file for ram, in which
\* write_private_ram_config quotes each text as JSON does.
WriteFile ==
    /\ written = Unwritten
    /\ production => Texts # {} /\ \A text \in Texts : ~TextIsWeak(text)
    /\ written' = [state |-> "written", auth |-> Texts, flags |-> flags]
    /\ shown' = {Redact(text) : text \in Texts}
    /\ UNCHANGED <<production, settings, flags, told, records, served, asked, saves>>

-----------------------------------------------------------------------------
(* ram: auth.rs, args.rs *)

\* split_account_paths splits at the first "@/".
Splits(text) == {i \in Where(text, "@") : i < Len(text) /\ text[i + 1] = "/"}
SplitAccount(text) == Before(text, Min(Splits(text)))
SplitPaths(text) == After(text, Min(Splits(text)))

\* AccessPaths::merge
ItemIsRead(item) == Where(item, ":") = {} \/ After(item, FirstAt(item, ":")) \in {<<"ro">>, <<"rw">>}
ReadItem(item) ==
    IF Where(item, ":") = {} THEN [path |-> Segments(item), perm |-> "ro"]
    ELSE [path |-> Segments(Before(item, FirstAt(item, ":"))), perm |-> item[Len(item)]]

\* AccessControl::new refuses a text it cannot read, and skips an account without ":".
IsRead(text) ==
    /\ Splits(text) # {}
    /\ \A item \in Items(SplitPaths(text)) : ItemIsRead(item)
    /\ Where(SplitAccount(text), ":") # {} =>
         FirstAt(SplitAccount(text), ":") \notin {1, Len(SplitAccount(text))}
ReadRule(text) ==
    LET account == SplitAccount(text)
    IN [user |-> IF account = <<>> THEN Anyone ELSE account[1],
        password |-> IF account = <<>> THEN <<>> ELSE After(account, FirstAt(account, ":")),
        paths |-> {ReadItem(item) : item \in Items(SplitPaths(text))}]
Counts(text) == SplitAccount(text) = <<>> \/ Where(SplitAccount(text), ":") # {}

\* Args::parse: allow-all opens what each allow-* opens, and a certificate needs its key.
Allowed(set) ==
    set \cup IF "all" \in set THEN {"upload", "delete", "search", "symlink", "hash", "archive"} ELSE {}
HasPair(set) == "cert" \in set <=> "key" \in set

\* deserialize_access_control borrows the texts of the file, which it cannot do with one
\* that is written with an escape.
HasEscape(text) == \E token \in Escaped : Where(text, token) # {}

\* The rules of the command line take the place of those of the file, and the rules of
\* the state file theirs; each must be read.
Heard(texts, more) == IF more = <<>> THEN texts ELSE Last(more)
IsHeard(texts, more) ==
    /\ \A text \in texts : ~HasEscape(text) /\ IsRead(text)
    /\ \A i \in DOMAIN more : \A text \in more[i] : IsRead(text)

Launch ==
    /\ written # Unwritten
    /\ LET texts == Heard(written.auth, told) IN
       served' = IF IsHeard(written.auth, told) /\ HasPair(written.flags)
                 THEN [state |-> "up", open |-> texts = {}, flags |-> Allowed(written.flags),
                       rules |-> {ReadRule(text) : text \in {t \in texts : Counts(t)}}]
                 ELSE RamRefuses
    /\ written' = Unwritten
    /\ UNCHANGED <<production, settings, flags, told, records, shown, asked, saves>>

LaunchNext == WriteFile \/ Launch \/ \E request \in RuleRequests : SaveRules(request)

LaunchSpec == LaunchInit /\ [][LaunchNext]_launchVars

-----------------------------------------------------------------------------
\* union takes what follows the last "@" for the paths, ram what follows the first "@/".
IsReadAlike(r) ==
    \A i \in Where(r.password, "@") : i < Len(r.password) => r.password[i + 1] # "/"

\* What the rules of a request give in the file system, where "." is nothing to go through.
Meant ==
    {[user |-> r.user, password |-> r.password,
      paths |-> {[path |-> Without(p.path, {"/", "."}), perm |-> p.perm] : p \in r.paths}] :
        r \in asked}

\* The rules ram serves are the rules that were asked for: user, password, paths and
\* permissions pass through two formats and four parsers unchanged, whatever "@", ":"
\* and "." they hold, so that ram starts, is open to everybody only when nobody has an
\* account, and in production is not open and has no weak password.  ram refuses to start
\* with settings that lack half of a pair, and, although union has saved such a password,
\* with a quote or a backslash in any text.  It is said of accounts without an
\* administrator, of rules with a name (see AccountsAreServed), of passwords without "@/"
\* and of a ram that is told no rules but union's.  What the console shows of an account
\* is the same for every password.
RulesArriveWhole ==
    /\ shown \subseteq {Format([r EXCEPT !.password = <<"***">>]) : r \in records}
    /\ (served # NoRam /\ told = <<>> /\ \A r \in records : ~r.admin /\ IsReadAlike(r)) =>
         /\ served = RamRefuses <=>
              ~HasPair(flags) \/ \E r \in Named(records) : HasEscape(Format(r))
         /\ served # RamRefuses =>
              /\ served.rules = Named(Meant)
              /\ served.open => Named(Meant) = {} /\ ~production
              /\ production => \A r \in Named(served.rules) : ~IsWeak(r.password)

\* What the comments of auth_rules_for say, of accounts without "@/": the administrator
\* has an account of the local ram that reads and writes from the root on, and of the
\* other rules only one with his name gives way.
AccountsAreServed ==
    (served # NoRam /\ \A r \in records : IsReadAlike(r)) =>
        /\ served # RamRefuses
        /\ \A r \in records :
             IF r.admin
               THEN \E rule \in served.rules :
                        rule.user = r.user /\ [path |-> <<>>, perm |-> "rw"] \in rule.paths
             ELSE \/ \E rule \in served.rules : rule.user = r.user
                  \/ \E admin \in records : admin.admin /\ admin.user = r.user
=============================================================================
