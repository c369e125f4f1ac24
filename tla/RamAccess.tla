----------------------------- MODULE RamAccess -----------------------------
(* Who may do what on ram: the rules of --auth become a tree of permissions,   *)
(* a request is guarded by the tree of whoever sends it, and the handlers of   *)
(* reading requests show or send what the tree leaves them (ram: auth.rs, the  *)
(* dispatch and the reading handlers of server.rs).                            *)
(*                                                                             *)
(* The rules are those of one user and of everybody ("anonymous"); files do    *)
(* not change here. A path is a sequence of names, a tree of permissions a     *)
(* function on a prefix-closed set of paths.                                   *)
EXTENDS Integers, Sequences, FiniteSets, SequencesExt, FiniteSetsExt

CONSTANTS
    PathNames,    \* names of files and directories
    Files,        \* the files below the served directory
    Links,        \* directories among them that are links to a place outside of it
    Absent,       \* paths without a file that are asked for
    Hidden,       \* names --hidden matches
    IndexPage,    \* the name index.html
    Scopes,       \* what a rule may grant: sequences of [path, perm]
    Options       \* command lines

VARIABLES
    own,          \* the rule of the user, or NoRule
    public,       \* the anonymous rule, or NoRule
    user,         \* the tree of the user's permissions
    anonymous,    \* the tree of everybody's
    option,       \* the flags of the command line
    ask,          \* the last request
    answer        \* what it was answered

accessVars == <<own, public, user, anonymous, option, ask, answer>>

IndexOnly == 0
ReadOnly == 1
ReadWrite == 2
NoRule == <<>>

Dirs == UNION {Prefixes(f) \ {f} : f \in Files}
There == Dirs \cup Files
Child(dir, name) == Append(dir, name)
Children(dir) == {p \in There : Len(p) = Len(dir) + 1 /\ IsPrefix(dir, p)}
Name(path) == path[Len(path)]

\* A rule names at least one path, which need not be there.
ASSUME AccessAssumption ==
    /\ Files \subseteq Seq(PathNames) \ {<<>>} /\ Absent \subseteq Seq(PathNames)
    /\ \A f, g \in Files : ~IsStrictPrefix(f, g)
    /\ Links \subseteq Dirs \ {<<>>}
    /\ Scopes \subseteq Seq([path : Seq(PathNames), perm : {1, 2}]) \ {<<>>}

-----------------------------------------------------------------------------
(* The tree of permissions *)

NoTree == [q \in {} |-> IndexOnly]
Leaf(perm) == [q \in {<<>>} |-> perm]
Perm(tree) == tree[<<>>]

Add(tree, item) ==
    [q \in DOMAIN tree \cup Prefixes(item.path) |->
        IF q = item.path THEN item.perm
        ELSE IF q \in DOMAIN tree THEN tree[q] ELSE IndexOnly]

Merge(rule) == FoldLeft(Add, Leaf(IndexOnly), rule)

\* The permission that find_impl and absorb_anon carry down to path.
Nearest(tree, path) ==
    LET set == {q \in Prefixes(path) \cap DOMAIN tree : tree[q] # IndexOnly}
    IN IF set = {} THEN IndexOnly
       ELSE tree[CHOOSE q \in set : \A r \in set : Len(r) <= Len(q)]

Find(tree, path) ==
    IF Nearest(tree, path) # IndexOnly THEN Leaf(Nearest(tree, path))
    ELSE IF path \in DOMAIN tree
         THEN [q \in {r \in UNION {{SubSeq(p, n, Len(p)) : n \in 1..Len(p) + 1} : p \in DOMAIN tree} :
                          path \o r \in DOMAIN tree} |-> tree[path \o q]]
         ELSE NoTree

\* Mutant: a permission further up is not inherited.
Absorb_Shallow(orig, anon) ==
    [q \in DOMAIN orig \cup DOMAIN anon |->
        LET mine == IF q \in DOMAIN orig THEN orig[q] ELSE IndexOnly
            theirs == IF q \in DOMAIN anon THEN anon[q] ELSE IndexOnly
        IN IF theirs > mine THEN theirs ELSE mine]

\* absorb_anon visits the nodes of the anonymous tree, and no other.
Absorb(orig, anon) ==
    [q \in DOMAIN orig \cup DOMAIN anon |->
        IF q \notin DOMAIN anon THEN orig[q]
        ELSE LET mine == Nearest(orig, q)
                 theirs == Nearest(anon, q)
             IN IF theirs > mine THEN theirs ELSE mine]

\* AccessControl::new
AnyUsers == own # NoRule
OpenToAll == own = NoRule /\ public = NoRule
AnonymousTree == IF public = NoRule THEN NoTree ELSE Merge(public)
UserTree == IF own = NoRule THEN NoTree
            ELSE IF public = NoRule THEN Merge(own) ELSE Absorb(Merge(own), Merge(public))

-----------------------------------------------------------------------------
(* The guard *)

ReadMethods == {"GET", "HEAD", "OPTIONS", "PROPFIND", "CHECKAUTH", "LOGOUT"}
WriteMethods == {"PUT", "PATCH", "DELETE", "MKCOL", "COPY", "MOVE", "LOCK", "UNLOCK", "PROPPATCH"}

\* AccessPaths::guard
Granted(tree, r, path) ==
    LET target == IF tree = NoTree THEN NoTree ELSE Find(tree, path)
    IN IF target # NoTree /\ r.method \notin ReadMethods /\ Perm(target) # ReadWrite
         THEN NoTree ELSE target

ByToken(r) == r.who = "token" /\ r.method = "GET" /\ AnyUsers
WithHeader(r) == r.who \in {"user", "wrong"}

\* AccessControl::guard: whether a user is recognised, and the tree of permissions.
Guard(r, path) ==
    LET As(known, tree) == [user |-> known, access |-> tree]
    IN CASE OpenToAll -> As(FALSE, Leaf(ReadWrite))
         [] ~OpenToAll /\ ByToken(r) -> As(TRUE, Granted(user, r, path))
         [] ~OpenToAll /\ WithHeader(r) ->
              IF ~AnyUsers THEN As(FALSE, NoTree)
              ELSE IF r.method = "OPTIONS" THEN As(TRUE, Leaf(ReadOnly))
              ELSE IF r.who = "user" THEN As(TRUE, Granted(user, r, path))
              ELSE As(FALSE, NoTree)
         [] OTHER ->
              IF r.method = "OPTIONS" THEN As(FALSE, Leaf(ReadOnly))
              ELSE As(FALSE, Granted(anonymous, r, path))

Access(r) == Guard(r, r.path).access
User(r) == Guard(r, r.path).user

\* guard_root_contained
Escapes(path) == ~option.symlink /\ \E l \in Links : IsPrefix(l, path)

-----------------------------------------------------------------------------
(* What a handler shows *)

\* add_pathitem, to_pathitem
Visible(path) == path \in There /\ Name(path) \notin Hidden /\ ~(path \in Links /\ ~option.symlink)

\* list_dir
List(tree, dir) ==
    {p \in IF Perm(tree) = IndexOnly
           THEN {dir \o q : q \in {n \in DOMAIN tree : Len(n) = 1}}
           ELSE Children(dir) : Visible(p)}

\* Mutant: only what the user may read at once is entered.
EntryPaths_Near(tree, dir) ==
    IF Perm(tree) # IndexOnly THEN {dir}
    ELSE {dir \o q : q \in {n \in DOMAIN tree : Len(n) = 1 /\ tree[n] # IndexOnly}}

EntryPaths(tree, dir) ==
    IF Perm(tree) # IndexOnly THEN {dir}
    ELSE {dir \o q : q \in {n \in DOMAIN tree :
             tree[n] # IndexOnly /\ \A m \in Prefixes(n) \ {n} : tree[m] = IndexOnly}}

\* collect_dir_entries walks each entry, without the entry itself.
Collect(tree, dir) ==
    {p \in There : ~Escapes(p) /\ \E e \in EntryPaths(tree, dir) :
        IsStrictPrefix(e, p) /\ \A n \in Len(e) + 1..Len(p) : p[n] \notin Hidden}

-----------------------------------------------------------------------------
(* Requests *)

Nothing == [status |-> 0, shown |-> {}, sent |-> {}, written |-> {}]
Unasked == [method |-> "NONE", query |-> "", path |-> <<>>, dest |-> <<>>, who |-> "nobody"]

AccessInit ==
    /\ own \in Scopes \cup {NoRule} /\ public \in Scopes \cup {NoRule}
    /\ user = UserTree /\ anonymous = AnonymousTree
    /\ option \in Options
    /\ ask = Unasked /\ answer = Nothing

Respond(r, status, shown, sent, written) ==
    /\ ask' = r
    /\ answer' = [status |-> status, shown |-> IF r.method = "HEAD" THEN {} ELSE shown,
                  sent |-> IF r.method = "HEAD" THEN {} ELSE sent, written |-> written]
    /\ UNCHANGED <<own, public, user, anonymous, option>>
Says(r, status) == Respond(r, status, {}, {}, {})
Shows(r, paths) == Respond(r, IF r.method = "PROPFIND" THEN 207 ELSE 200, paths, {}, {})
Sends(r, path) == Respond(r, 200, {}, {path}, {})

Reading(r) == r.method \in {"GET", "HEAD"}
Refused(r) == Access(r) = NoTree
Admitted(r) ==
    /\ ~Refused(r)
    /\ r.method \notin {"CHECKAUTH", "LOGOUT"} /\ r.query # "tokengen"
    /\ ~Escapes(r.path)
OnDir(r) == Admitted(r) /\ Reading(r) /\ r.path \in Dirs
OnFile(r) == Admitted(r) /\ Reading(r) /\ r.path \in Files
OnNothing(r) == Admitted(r) /\ Reading(r) /\ r.path \notin There

AuthReject(r) ==
    /\ Refused(r)
    /\ Says(r, IF User(r) THEN 403 ELSE 401)

CheckAuth(r) ==
    /\ ~Refused(r) /\ r.method = "CHECKAUTH"
    /\ Says(r, IF User(r) \/ (r.query # "login" /\ Perm(Access(r)) = ReadWrite) THEN 200 ELSE 401)

Logout(r) == ~Refused(r) /\ r.method = "LOGOUT" /\ Says(r, 401)

TokenGen(r) ==
    /\ ~Refused(r) /\ r.method \notin {"CHECKAUTH", "LOGOUT"} /\ r.query = "tokengen"
    /\ Says(r, IF User(r) THEN 200 ELSE 500)

Escape(r) ==
    /\ ~Refused(r) /\ r.method \notin {"CHECKAUTH", "LOGOUT"} /\ r.query # "tokengen"
    /\ Escapes(r.path) /\ Says(r, 404)

\* The dispatch of a request for a directory.
Zips(r) == r.query = "zip" /\ (option.render = "try" => option.archive) /\ option.render \notin {"index", "spa"}
Searches(r) == r.query = "q" /\ option.search /\ option.render \notin {"index", "spa"}
Page(dir) == Child(dir, IndexPage)
Listed(r) ==
    /\ OnDir(r) /\ ~Zips(r) /\ ~Searches(r)
    /\ option.render = "list" \/ (option.render = "try" /\ Page(r.path) \notin Files)

ZipDir(r) ==
    /\ OnDir(r) /\ Zips(r)
    /\ IF option.archive THEN Respond(r, 200, {}, Collect(Access(r), r.path) \cap Files, {})
       ELSE Says(r, 404)

SearchDir(r) == OnDir(r) /\ Searches(r) /\ Shows(r, Collect(Access(r), r.path))

ListDir(r) == Listed(r) /\ Shows(r, List(Access(r), r.path))

RenderIndex(r) ==
    /\ OnDir(r) /\ ~Zips(r) /\ ~Searches(r) /\ ~Listed(r)
    /\ IF Page(r.path) \in Files THEN Sends(r, Page(r.path)) ELSE Says(r, 404)

FileJson(r) == OnFile(r) /\ r.query = "json" /\ Shows(r, {r.path})

EditFile(r) == OnFile(r) /\ r.query \in {"edit", "view"} /\ Sends(r, r.path)

HashFile(r) ==
    /\ OnFile(r) /\ r.query = "hash"
    /\ IF option.hash THEN Sends(r, r.path) ELSE Says(r, 403)

SendFile(r) == OnFile(r) /\ r.query \notin {"json", "edit", "view", "hash"} /\ Sends(r, r.path)

\* The page of a single-page application. PathNames here have no extension but that of the
\* index page.
Spa(r) == OnNothing(r) /\ option.render = "spa" /\ Name(r.path) # IndexPage
RenderSpa(r) ==
    /\ Spa(r)
    /\ IF Page(<<>>) \in Files THEN Sends(r, Page(<<>>)) ELSE Says(r, 500)

\* A directory that is yet to be uploaded to is shown empty.
NotFound(r) ==
    /\ OnNothing(r) /\ ~Spa(r)
    /\ Says(r, IF option.render # "spa" /\ option.upload /\ r.query = "slash" THEN 200 ELSE 404)

Preflight(r) == Admitted(r) /\ r.method = "OPTIONS" /\ Says(r, 200)

Propfind(r) ==
    LET tree == IF Perm(Access(r)) = IndexOnly /\ ~WithHeader(r) THEN Leaf(ReadOnly) ELSE Access(r)
    IN /\ Admitted(r) /\ r.method = "PROPFIND"
       /\ \/ r.path \in Dirs
             /\ Shows(r, {r.path} \cup (IF r.query = "depth 0" THEN {} ELSE List(tree, r.path)))
          \/ r.path \in Files /\ Shows(r, {r.path})
          \/ r.path \notin There /\ Says(r, 404)

\* Requests that change files: what they change, if they are let through; RamFiles
\* says how.  Nothing is made below a file.
Asked(r, method) == Admitted(r) /\ r.method = method
Writes(r, status, paths) ==
    IF \E f \in Files, p \in paths : IsStrictPrefix(f, p) THEN Says(r, 500)
    ELSE Respond(r, status, {}, {}, paths)

HandlePut(r) ==
    /\ Asked(r, "PUT")
    /\ IF r.path \in Dirs \/ ~option.upload \/ (~option.delete /\ r.path \in Files)
         THEN Says(r, 403) ELSE Writes(r, 201, {r.path})

\* X-Update-Range: append, or a position in the file.
HandlePatch(r) ==
    /\ Asked(r, "PATCH")
    /\ IF r.path \notin There THEN Says(r, 404)
       ELSE IF ~option.upload \/ (r.query = "start" /\ ~option.delete) THEN Says(r, 403)
       ELSE IF r.query = "" THEN Says(r, 405)
       ELSE IF r.path \in Dirs THEN Says(r, 500)
       ELSE Writes(r, 204, {r.path})

HandleDelete(r) ==
    /\ Asked(r, "DELETE")
    /\ IF ~option.delete THEN Says(r, 403)
       ELSE IF r.path \notin There THEN Says(r, 404)
       ELSE Writes(r, 204, {p \in There : IsPrefix(r.path, p)})

HandleMkcol(r) ==
    /\ Asked(r, "MKCOL")
    /\ IF ~option.upload THEN Says(r, 403)
       ELSE IF r.path \in There THEN Says(r, 405) ELSE Writes(r, 201, {r.path})

\* No lock is kept and no property is changed.
Lock(r) == Asked(r, "LOCK") /\ Says(r, IF r.path \in Files THEN 200 ELSE 404)
Unlock(r) == Asked(r, "UNLOCK") /\ Says(r, IF r.path \in There THEN 200 ELSE 404)
Proppatch(r) == Asked(r, "PROPPATCH") /\ Says(r, IF r.path \in Files THEN 207 ELSE 404)

\* extract_dest, destination_allowed
Destination(r) == Guard(r, r.dest).access

\* What extract_dest and ensure_destination_parent refuse.
Misdirected(r) ==
    \/ Destination(r) = NoTree /\ Says(r, 403)
    \/ Destination(r) # NoTree /\ r.path \notin Dirs /\ Escapes(r.dest) /\ Says(r, 400)

HandleCopy(r) ==
    /\ Asked(r, "COPY")
    /\ \/ ~option.upload /\ Says(r, 403)
       \/ option.upload /\ r.path \notin There /\ Says(r, 404)
       \/ option.upload /\ r.path \in There /\ Misdirected(r)
       \/ option.upload /\ r.path \in There /\ Destination(r) # NoTree /\ r.path \in Dirs /\ Says(r, 403)
       \/ option.upload /\ r.path \in Files /\ Destination(r) # NoTree /\ ~Escapes(r.dest)
          /\ Writes(r, 204, {r.dest})

HandleMove(r) ==
    /\ Asked(r, "MOVE")
    /\ LET may == option.upload /\ option.delete
       IN \/ ~may /\ Says(r, 403)
          \/ may /\ r.path \notin There /\ Says(r, 404)
          \/ may /\ r.path \in There /\ Destination(r) = NoTree /\ Says(r, 403)
          \/ may /\ r.path \in There /\ Destination(r) # NoTree
             /\ IF Escapes(r.dest) THEN Says(r, 400) ELSE Writes(r, 204, {r.path, r.dest})

Handle(r) ==
    \/ AuthReject(r) \/ CheckAuth(r) \/ Logout(r) \/ TokenGen(r) \/ Escape(r)
    \/ ZipDir(r) \/ SearchDir(r) \/ ListDir(r) \/ RenderIndex(r)
    \/ FileJson(r) \/ EditFile(r) \/ HashFile(r) \/ SendFile(r) \/ RenderSpa(r) \/ NotFound(r)
    \/ Preflight(r) \/ Propfind(r) \/ HandlePut(r) \/ HandlePatch(r) \/ HandleDelete(r) \/ HandleMkcol(r)
    \/ Lock(r) \/ Unlock(r) \/ Proppatch(r) \/ HandleCopy(r) \/ HandleMove(r)

\* The queries and headers that a method looks at; "slash" is a path that ends in one.
Queries(method, path) ==
    CASE method = "GET" /\ path \in Dirs -> {"", "q", "zip", "tokengen"}
      [] method = "GET" /\ path \in Files -> {"", "json", "edit", "hash"}
      [] method \in {"GET", "HEAD"} /\ path \notin There -> {"", "slash"}
      [] method = "HEAD" /\ path \in Dirs -> {"", "q", "zip"}
      [] method = "PATCH" -> {"", "append", "start"}
      [] method = "CHECKAUTH" -> {"", "login"}
      [] method = "PROPFIND" -> {"", "depth 0"}
      [] OTHER -> {""}
Senders(method) == {"nobody", "user", "wrong"} \cup (IF method \in {"GET", "PUT"} THEN {"token"} ELSE {})
Dests(method) == IF method \in {"COPY", "MOVE"} THEN Absent ELSE {<<>>}

AccessNext ==
    /\ ask = Unasked
    /\ \E method \in ReadMethods \cup WriteMethods, path \in There \cup Absent :
         \E query \in Queries(method, path), dest \in Dests(method), who \in Senders(method) :
             Handle([method |-> method, query |-> query, path |-> path, dest |-> dest, who |-> who])

AccessSpec == AccessInit /\ [][AccessNext]_accessVars

-----------------------------------------------------------------------------
(* What the rules say, without a tree *)

\* The permission a rule gives for a path: that of the longest path it names above
\* it, the last of several for one path.
GivenBy(rule, path) ==
    LET on == {n \in DOMAIN rule : IsPrefix(rule[n].path, path)}
    IN IF on = {} THEN IndexOnly
       ELSE rule[CHOOSE n \in on : \A m \in on :
                    Len(rule[m].path) < Len(rule[n].path)
                    \/ (Len(rule[m].path) = Len(rule[n].path) /\ m <= n)].perm

Probes == There \cup Absent
Level(tree, path) == LET t == Find(tree, path) IN IF t = NoTree THEN IndexOnly ELSE Perm(t)

AccessTypeOK ==
    /\ own \in Scopes \cup {NoRule} /\ public \in Scopes \cup {NoRule}
    /\ option \in Options
    /\ answer.shown \cup answer.sent \subseteq There

\* "合并规则是“权限高者胜出”" (auth.rs, absorb_anon): in whatever order and nesting the paths
\* of the rules come, a user has for a path the higher of what the own rule and the anonymous
\* one give, and nothing that neither gives.  The one exception is where the own rule names
\* a directory above it that the anonymous rule neither names nor leads to: absorb_anon
\* does not come there, and the own permission stays, even if it is the lower.
RightsAreMerged ==
    ask = Unasked => \A p \in Probes :
        LET mine == GivenBy(own, p)
            theirs == GivenBy(public, p)
            got == Level(user, p)
        IN AnyUsers =>
             \/ got = IF theirs > mine THEN theirs ELSE mine
             \/ /\ got = mine
                /\ \E n \in DOMAIN own : /\ IsPrefix(own[n].path, p)
                                         /\ \A m \in DOMAIN public : ~IsPrefix(own[n].path, public[m].path)

\* What is sent to whoever asks for it.
Readable(tree) == {f \in Files : Find(tree, f) # NoTree /\ ~Escapes(f)}
Plain(path) == \A n \in 1..Len(path) : path[n] \notin Hidden

\* A user who may not list a directory sees in it the way to what is granted further
\* down, and no more: whoever follows the listings from the root comes to exactly the
\* files that are sent to him, hidden names apart; and a search of the root finds the
\* same, but for a file that a rule names itself or names something below.
ReadableIsFound ==
    ask = Unasked => \A tree \in {user, anonymous} \ {NoTree} :
        LET Reached(f) == \A n \in 0..Len(f) - 1 :
                LET dir == SubSeq(f, 1, n)
                    t == Find(tree, dir)
                IN ~Escapes(dir) /\ t # NoTree /\ SubSeq(f, 1, n + 1) \in List(t, dir)
            found == Collect(Find(tree, <<>>), <<>>) \cap Files
            named == {q \in DOMAIN tree : tree[q] # IndexOnly \/ Level(tree, q) = IndexOnly}
        IN /\ {f \in Files : Reached(f)} = {f \in Readable(tree) : Plain(f)}
           /\ found \subseteq Readable(tree)
           /\ {f \in Readable(tree) : Plain(f)} \subseteq found \cup named

\* An answer keeps to the rules: contents and changes are within the permission of
\* whoever asked, and a name that is shown is of something that may be read or leads to
\* it.  What is deleted or moved with its directory goes by the permission for the
\* directory.  No handler looks at the permission of a file once more: a file is sent, and
\* its name shown, also where a rule of whoever asks only names something below it.  Two more
\* exceptions are made on purpose: the page of a directory on the way (--render-index
\* and the like), and PROPFIND without a user (server.rs: "see
\* https://github.com/sigoden/ram/issues/229").
AnswersKeepToRules ==
    LET Reach(p) == IF OpenToAll THEN ReadWrite
                    ELSE IF ~User(ask) THEN GivenBy(public, p)
                    ELSE Level(user, p)
        theirs == IF User(ask) THEN {own, public} ELSE {public}
        Leads(p) == \E rule \in theirs : \E n \in DOMAIN rule : IsPrefix(p, rule[n].path)
    IN ask # Unasked =>
        /\ \A p \in answer.sent :
              Reach(p) >= ReadOnly \/ (Leads(ask.path) /\ p \in {ask.path, Page(ask.path)})
              \/ (option.render = "spa" /\ p = Page(<<>>))
        /\ \A p \in answer.written : Reach(p) = ReadWrite \/ IsStrictPrefix(ask.path, p)
        /\ \/ ask.method = "PROPFIND" /\ ~WithHeader(ask)
           \/ \A p \in answer.shown : Reach(p) >= ReadOnly \/ Leads(p)

\* The higher right wins when the rules are merged; contents, names and changes are within
\* the permission of who asks, and listings and searches find exactly what is sent.
AnswersFollowRules == RightsAreMerged /\ AnswersKeepToRules /\ ReadableIsFound
=============================================================================
