---------------------------- MODULE BlogContent ----------------------------
(* Posts, tags and categories of the blog (union: blog/posts.rs,              *)
(* blog/taxonomy.rs, blog/orphans.rs, blog/storage.rs, database/blog): what   *)
(* the handlers do to PostgreSQL and to the content directory, statement by   *)
(* statement.  Posts change under content_lock only; the registry of names,   *)
(* the pairs of a category and a tag, and the file that lists the names are   *)
(* also changed outside of it.                                                *)
EXTENDS Integers, FiniteSets

CONSTANTS
    Requests,      \* concurrent requests
    Paths, Ids,
    IdOf,          \* post_id_from_relative_path: the path without .md or .mdx, so
                   \* that a.md and a.mdx are two paths of one id
    Tags, Categories,
    Inputs,        \* the requests clients send
    Orphans,       \* what an operator may put into the content directory, by path
    Seeds,         \* the posts there are at the start, by path
    None,
    Faults,        \* whether a statement may fail, or a client go away
    MaxRequests    \* bound: requests sent

VARIABLES
    posts,         \* blog_posts with blog_post_tags: a post of each id, or None
    names,         \* blog_taxonomy
    pairs,         \* blog_category_tags
    dir, backup,   \* blog/data/content; where an export has moved it
    staging,       \* .content.next.<uuid>
    lock,          \* BlogState.content_lock
    pc, req,       \* a request: where it stands, what it asks
    seen,          \*   the posts its seeding read
    todo,          \*   files an import has still to adopt
    list,          \*   the names it will write to .taxonomy.json
    sent,
    alone,         \* history: no other request was at work since it came
    raced          \* history: a rename or a deletion of a name met another change

db == <<posts, names, pairs>>
disk == <<dir, backup, staging>>
request == <<pc, req, seen, todo, list>>
history == <<alone, raced>>
vars == <<db, disk, lock, request, sent, history>>

Bulk == {"renameTag", "deleteTag", "renameCategory", "deleteCategory"}
PostOps == {"save", "delete", "setDraft", "import"}

\* Posts, as rows and as files, and what clients may ask. A rename to the same name only
\* seeds, as "view" does.
Names == Tags \cup Categories
PostRecords == [path : Paths, category : Categories \cup {None}, tags : SUBSET Tags,
                text : STRING, draft : BOOLEAN]
FileSets(F) == DOMAIN F \subseteq Paths /\ \A p \in DOMAIN F : F[p] \in PostRecords /\ F[p].path = p
PostInputs ==
    [op : {"save"}, old : Paths \cup {None}, path : Paths, category : Categories \cup {None},
     tags : SUBSET Tags, text : STRING, draft : BOOLEAN]
    \cup [op : {"delete"}, path : Paths] \cup [op : {"setDraft"}, path : Paths, draft : BOOLEAN]
    \cup [op : {"import"}]
BulkInputs ==
    [op : {"renameTag"}, from : Tags, to : Tags, category : Categories \cup {None}]
    \cup [op : {"deleteTag"}, from : Tags, to : {None}, category : Categories \cup {None}]
    \cup [op : {"renameCategory"}, from : Categories, to : Categories, category : {None}]
    \cup [op : {"deleteCategory"}, from : Categories, to : {None}, category : {None}]
OtherInputs ==
    [op : {"view"}] \cup [op : {"createTag"}, to : Tags, category : Categories \cup {None}]
    \cup [op : {"createCategory"}, to : Categories, category : {None}]

\* Tags and categories are names of two kinds (TaxonomyKind).
ASSUME ContentAssumption ==
    /\ None \notin Requests \cup Paths \cup Names \cup PostRecords
    /\ Tags \cap Categories = {}
    /\ IdOf \in [Paths -> Ids]
    /\ Inputs \subseteq PostInputs \cup BulkInputs \cup OtherInputs
    /\ \A q \in Inputs : q.op \in Bulk => q.from # q.to
    /\ FileSets(Seeds) /\ FileSets(Orphans)
    /\ Faults \in BOOLEAN /\ MaxRequests \in Nat

NoFiles == [p \in Paths |-> None]
NoPosts == [i \in Ids |-> None]
Absent == [there |-> FALSE, files |-> NoFiles, list |-> {}]
Idle == [op |-> "none"]

Is(i) == posts[i] # None
ByPath(p) == {i \in Ids : Is(i) /\ posts[i].path = p}
CategoryOf(p) == {p.category} \ {None}
NamesOf(ps) == UNION {ps[i].tags \cup CategoryOf(ps[i]) : i \in {j \in Ids : ps[j] # None}}
PairsOf(ps) == UNION {CategoryOf(ps[i]) \X ps[i].tags : i \in {j \in Ids : ps[j] # None}}
FilesOf(ps) == [p \in Paths |-> IF \E i \in Ids : ps[i] # None /\ ps[i].path = p
                                THEN ps[CHOOSE i \in Ids : ps[i] # None /\ ps[i].path = p]
                                ELSE None]

Busy(r) == pc[r] # "idle"

Init ==
    /\ posts = [i \in Ids |-> IF \E p \in DOMAIN Seeds : IdOf[p] = i
                              THEN Seeds[CHOOSE p \in DOMAIN Seeds : IdOf[p] = i] ELSE None]
    /\ names = NamesOf(posts) /\ pairs = PairsOf(posts)
    /\ dir = [there |-> TRUE, files |-> FilesOf(posts), list |-> names]
    /\ backup = Absent /\ staging = Absent
    /\ lock = None
    /\ pc = [r \in Requests |-> "idle"] /\ req = [r \in Requests |-> Idle]
    /\ seen = [r \in Requests |-> NoPosts] /\ todo = [r \in Requests |-> {}]
    /\ list = [r \in Requests |-> {}]
    /\ sent = 0
    /\ alone = [r \in Requests |-> TRUE] /\ raced = FALSE

At(r, where) == pc[r] = where
Goto(r, where) == pc' = [pc EXCEPT ![r] = where] /\ UNCHANGED <<req, seen, todo, list>>

\* The handler returns or is dropped, and with it the guard of content_lock.
Return(r) ==
    /\ pc' = [pc EXCEPT ![r] = "idle"] /\ req' = [req EXCEPT ![r] = Idle]
    /\ seen' = [seen EXCEPT ![r] = NoPosts] /\ todo' = [todo EXCEPT ![r] = {}]
    /\ list' = [list EXCEPT ![r] = {}]
    /\ lock' = IF lock = r THEN None ELSE lock

-----------------------------------------------------------------------------
\* A request comes. Those that change a post lock first; the others first seed.
Begin(r, q) ==
    /\ At(r, "idle") /\ sent < MaxRequests /\ sent' = sent + 1
    /\ req' = [req EXCEPT ![r] = q]
    /\ IF q.op \in PostOps
       THEN pc' = [pc EXCEPT ![r] = "lock"] /\ UNCHANGED seen
       ELSE pc' = [pc EXCEPT ![r] = "seedNames"] /\ seen' = [seen EXCEPT ![r] = posts]
    /\ alone' = [s \in Requests |-> IF s = r THEN ~\E o \in Requests : Busy(o)
                                    ELSE alone[s] /\ ~Busy(s)]
    /\ raced' = (raced \/ \E s \in Requests :
                     /\ Busy(s) /\ {q.op, req[s].op} \cap Bulk # {}
                     /\ {q.op, req[s].op} \subseteq Bulk \cup PostOps)
    /\ UNCHANGED <<db, disk, lock, todo, list>>

\* Mutant: a bulk change locks the rewriting of the posts only, not their reading.
Lock_AfterRead(r) ==
    /\ At(r, "lock") /\ lock = None
    /\ lock' = r
    /\ pc' = [pc EXCEPT ![r] = IF req[r].op = "import" THEN "collect" ELSE "seedNames"]
    /\ seen' = [seen EXCEPT ![r] = IF req[r].op \in Bulk THEN @ ELSE posts]
    /\ UNCHANGED <<db, disk, req, todo, list, sent, history>>

\* content_lock; under it nobody else changes a post, so what is read now stays true.
Lock(r) ==
    /\ At(r, "lock") /\ lock = None
    /\ lock' = r
    /\ pc' = [pc EXCEPT ![r] = IF req[r].op = "import" THEN "collect" ELSE "seedNames"]
    /\ seen' = [seen EXCEPT ![r] = posts]
    /\ UNCHANGED <<db, disk, req, todo, list, sent, history>>

\* sync_taxonomy_from_posts: two transactions that add what the posts read have.
SeedsNames(r) ==
    /\ At(r, "seedNames")
    /\ names' = names \cup NamesOf(seen[r])
    /\ UNCHANGED <<posts, pairs>>
SeedNames(r) ==
    /\ SeedsNames(r) /\ Goto(r, "seedPairs")
    /\ UNCHANGED <<disk, lock, sent, history>>

SeedsPairs(r) ==
    /\ At(r, "seedPairs")
    /\ pairs' = pairs \cup PairsOf(seen[r])
    /\ UNCHANGED <<posts, names>>
SeedPairs(r) ==
    /\ SeedsPairs(r)
    /\ IF lock = r
       THEN Goto(r, IF req[r].op = "save" THEN "check" ELSE "change") /\ UNCHANGED lock
       ELSE IF req[r].op \in Bulk THEN Goto(r, "lock") /\ UNCHANGED lock
       ELSE IF req[r].op = "view" THEN Return(r)
       ELSE Goto(r, "know") /\ UNCHANGED lock
    /\ UNCHANGED <<disk, sent, history>>

-----------------------------------------------------------------------------
(* Posts. *)

\* validate_post_tags_for_category
TagsAllowed(q) == q.tags = {} \/ (q.category # None /\ {q.category} \X q.tags \subseteq pairs)

\* The path to save to is taken, or the post to save is gone.
PathTaken(q) ==
    \/ q.old # q.path /\ ByPath(q.path) # {}
    \/ q.old # None /\ ByPath(q.old) = {}

Check(r) ==
    /\ At(r, "check")
    /\ IF TagsAllowed(req[r]) /\ ~PathTaken(req[r])
       THEN Goto(r, "change") /\ UNCHANGED lock
       ELSE Return(r)
    /\ UNCHANGED <<db, disk, sent, history>>

Known_Forgets(ps) == UNCHANGED <<names, pairs>>   \* Mutant: only the post is written

\* The rest of upsert_blog_post: the names of the posts `ps` become candidates.
Known(ps) == names' = names \cup NamesOf(ps) /\ pairs' = pairs \cup PairsOf(ps)

Written(q) == [path |-> q.path, category |-> q.category, tags |-> q.tags, text |-> q.text,
               draft |-> q.draft]
Only(p) == [NoPosts EXCEPT ![IdOf[p.path]] = p]

\* One transaction: the row of the id is inserted or overwritten, whatever path it had,
\* and that of the old path goes.
Saves(r) ==
    LET q == req[r]
        Old(i) == q.old \notin {None, q.path} /\ Is(i) /\ posts[i].path = q.old
    IN /\ At(r, "change") /\ q.op = "save"
       /\ posts' = [i \in Ids |-> IF i = IdOf[q.path] THEN Written(q)
                                  ELSE IF Old(i) THEN None ELSE posts[i]]
       /\ Known(Only(Written(q)))
Save(r) == Saves(r) /\ Goto(r, "stage") /\ UNCHANGED <<disk, lock, sent, history>>

Deletes(r) ==
    /\ At(r, "change") /\ req[r].op = "delete"
    /\ posts' = [i \in Ids |-> IF i \in ByPath(req[r].path) THEN None ELSE posts[i]]
    /\ UNCHANGED <<names, pairs>>
Delete(r) ==
    /\ Deletes(r)
    /\ IF ByPath(req[r].path) = {} THEN Return(r) ELSE Goto(r, "stage") /\ UNCHANGED lock
    /\ UNCHANGED <<disk, sent, history>>

\* set_post_draft writes the whole record back it has read.
Marks(r) ==
    /\ At(r, "change") /\ req[r].op = "setDraft"
    /\ \E i \in ByPath(req[r].path) : posts[i].draft # req[r].draft
    /\ posts' = [i \in Ids |-> IF i \in ByPath(req[r].path)
                               THEN [posts[i] EXCEPT !.draft = req[r].draft] ELSE posts[i]]
    /\ Known(posts')
SetDraft(r) ==
    /\ \/ Marks(r) /\ Goto(r, "stage") /\ UNCHANGED lock
       \/ /\ At(r, "change") /\ req[r].op = "setDraft"
          /\ \A i \in ByPath(req[r].path) : posts[i].draft = req[r].draft
          /\ Return(r) /\ UNCHANGED db
    /\ UNCHANGED <<disk, sent, history>>

\* The closures of rename_tag, delete_tag, rename_category and delete_category.
Edited(q, p) ==
    CASE q.op = "renameCategory" /\ p.category = q.from -> [p EXCEPT !.category = q.to]
      [] q.op = "deleteCategory" /\ p.category = q.from -> [p EXCEPT !.category = None]
      [] /\ q.op \in {"renameTag", "deleteTag"} /\ q.from \in p.tags
         /\ q.category \in {None, p.category} ->
            [p EXCEPT !.tags = (@ \ {q.from}) \cup ({q.to} \ {None})]
      [] OTHER -> p

\* rewrite_all_posts: what the closure changes is written back in one transaction.
Revised(r) == [i \in Ids |-> IF seen[r][i] = None THEN None ELSE Edited(req[r], seen[r][i])]
Touched(r) == {i \in Ids : Revised(r)[i] # seen[r][i]}
Rewrites(r) ==
    /\ At(r, "change") /\ req[r].op \in Bulk
    /\ posts' = [i \in Ids |-> IF i \in Touched(r) THEN Revised(r)[i] ELSE posts[i]]
    /\ Known([i \in Ids |-> IF i \in Touched(r) THEN Revised(r)[i] ELSE None])

Rewrite_UnlocksFirst(r) ==    \* Mutant: the guard ends with the transaction
    /\ Rewrites(r) /\ Goto(r, IF Touched(r) = {} THEN "forget" ELSE "stage") /\ lock' = None
    /\ UNCHANGED <<disk, sent, history>>

Rewrite(r) ==
    /\ Rewrites(r)
    /\ IF Touched(r) = {}
       THEN Goto(r, "forget") /\ lock' = None
       ELSE Goto(r, "stage") /\ UNCHANGED lock
    /\ UNCHANGED <<disk, sent, history>>

-----------------------------------------------------------------------------
(* Import of files nobody manages. *)

Collect(r) ==
    LET found == {p \in Paths : dir.files[p] # None /\ ByPath(p) = {}}
    IN /\ At(r, "collect")
       /\ pc' = [pc EXCEPT ![r] = IF found = {} THEN "stage" ELSE "adopt"]
       /\ todo' = [todo EXCEPT ![r] = found]
       /\ UNCHANGED <<db, disk, lock, req, seen, list, sent, history>>

\* adopt_orphan_posts: one transaction a file, in the order of the directory.
Adopts(r, p) ==
    LET new == [dir.files[p] EXCEPT !.draft = TRUE]
    IN /\ At(r, "adopt") /\ p \in todo[r]
       /\ posts' = [posts EXCEPT ![IdOf[p]] = new]
       /\ Known(Only(new))
Adopt(r) ==
    \E p \in todo[r] :
       /\ Adopts(r, p)
       /\ todo' = [todo EXCEPT ![r] = @ \ {p}]
       /\ pc' = [pc EXCEPT ![r] = IF todo[r] = {p} THEN "stage" ELSE "adopt"]
       /\ UNCHANGED <<disk, lock, req, seen, list, sent, history>>

-----------------------------------------------------------------------------
(* export_blog_content and replace_export_directory. *)

Stage(r) ==
    /\ At(r, "stage")
    /\ staging' = [there |-> TRUE, files |-> FilesOf(posts), list |-> names]
    /\ Goto(r, "away")
    /\ UNCHANGED <<db, dir, backup, lock, sent, history>>

MoveAway(r) ==
    /\ At(r, "away")
    /\ backup' = dir /\ dir' = Absent
    /\ Goto(r, "in")
    /\ UNCHANGED <<db, staging, lock, sent, history>>

\* The export is done: a bulk change lets go of content_lock and goes on.
Exported(r) ==
    IF req[r].op \in Bulk THEN Goto(r, "forget") /\ lock' = None ELSE Return(r)

\* When a list of names has made a directory in between, neither the new one nor
\* the old one can take its place: both are given up.
MoveIn(r) ==
    /\ At(r, "in")
    /\ IF dir.there
       THEN Return(r) /\ UNCHANGED dir
       ELSE dir' = staging /\ Exported(r)
    /\ staging' = Absent /\ backup' = Absent
    /\ UNCHANGED <<db, sent, history>>

-----------------------------------------------------------------------------
(* Names, outside content_lock. *)

Dropped(q) == IF q.op \in Bulk /\ q.category = None THEN {q.from} ELSE {}
Added(q) == ({q.to} \cup (IF q.op = "createTag" THEN {q.category} ELSE {})) \ {None}

\* replace_registered_taxonomy, delete_blog_taxonomy
Forgets(r) ==
    /\ At(r, "forget")
    /\ names' = names \ Dropped(req[r])
    /\ UNCHANGED <<posts, pairs>>
Forget(r) == Forgets(r) /\ Goto(r, "know") /\ UNCHANGED <<disk, lock, sent, history>>

\* insert_blog_taxonomy
Knows(r) ==
    /\ At(r, "know")
    /\ names' = names \cup Added(req[r])
    /\ UNCHANGED <<posts, pairs>>
Know(r) == Knows(r) /\ Goto(r, "relate") /\ UNCHANGED <<disk, lock, sent, history>>

Related_OneCategory(q) ==     \* Mutant: without a category only the tag itself is renamed
    LET cs == {q.category} \ {None}
    IN CASE q.op = "createTag" -> pairs \cup (cs \X {q.to})
         [] q.op = "renameTag" -> (pairs \ (cs \X {q.from})) \cup (cs \X {q.to})
         [] q.op = "deleteTag" -> pairs \ (cs \X {q.from})
         [] OTHER -> pairs

\* insert_, rename_ and delete_blog_category_tag(s)...: one transaction.
Related(q) ==
    LET everywhere == CASE q.op = "renameTag" -> {c \in Categories : <<c, q.from>> \in pairs}
                        [] q.op = "deleteTag" -> Categories
                        [] OTHER -> {}
        cs == IF q.category # None THEN {q.category} ELSE everywhere
    IN CASE q.op = "createTag" -> pairs \cup (cs \X {q.to})
         [] q.op = "renameTag" -> (pairs \ (cs \X {q.from})) \cup (cs \X {q.to})
         [] q.op = "deleteTag" -> pairs \ (cs \X {q.from})
         [] q.op = "renameCategory" ->
              (pairs \ ({q.from} \X Tags)) \cup {<<q.to, t>> : t \in {u \in Tags : <<q.from, u>> \in pairs}}
         [] q.op = "deleteCategory" -> pairs \ ({q.from} \X Tags)
         [] OTHER -> pairs

Relates(r) ==
    /\ At(r, "relate")
    /\ pairs' = Related(req[r])
    /\ UNCHANGED <<posts, names>>
Relate(r) == Relates(r) /\ Goto(r, "list") /\ UNCHANGED <<disk, lock, sent, history>>

\* export_taxonomy_registry: the names are read, then written into the directory,
\* which is made if it is not there.
List(r) ==
    /\ At(r, "list")
    /\ list' = [list EXCEPT ![r] = names] /\ pc' = [pc EXCEPT ![r] = "put"]
    /\ UNCHANGED <<db, disk, lock, req, seen, todo, sent, history>>

Put(r) ==
    /\ At(r, "put")
    /\ dir' = [dir EXCEPT !.there = TRUE, !.list = list[r]]
    /\ Return(r)
    /\ UNCHANGED <<db, backup, staging, sent, history>>

-----------------------------------------------------------------------------
\* A statement fails, or the client goes and the future is dropped. Between the two
\* renames only the second can fail, and then the first is taken back.
Fail(r) ==
    /\ Faults /\ Busy(r)
    /\ IF At(r, "in") THEN ~dir.there /\ dir' = backup ELSE UNCHANGED dir
    /\ IF lock = r THEN staging' = Absent /\ backup' = Absent ELSE UNCHANGED <<staging, backup>>
    /\ Return(r)
    /\ UNCHANGED <<db, sent, history>>

\* The answer to what was sent last is lost, or the future is dropped while a COMMIT is
\* on its way: the database has the change, and the handler does not go on.
Changes(r) ==
    \/ SeedsNames(r) \/ SeedsPairs(r) \/ Saves(r) \/ Deletes(r) \/ Marks(r) \/ Rewrites(r)
    \/ (\E p \in todo[r] : Adopts(r, p)) \/ Forgets(r) \/ Knows(r) \/ Relates(r)
LoseAnswer(r) ==
    /\ Faults /\ Changes(r)
    /\ Return(r)
    /\ UNCHANGED <<disk, sent, history>>

\* An operator puts a file into the content directory.
PutFile(p) ==
    /\ dir.there /\ dir.files[p] = None
    /\ dir' = [dir EXCEPT !.files[p] = Orphans[p]]
    /\ UNCHANGED <<db, backup, staging, lock, request, sent, history>>

Handle(r) ==
    \/ Lock(r) \/ SeedNames(r) \/ SeedPairs(r) \/ Check(r) \/ Save(r) \/ Delete(r) \/ SetDraft(r)
    \/ Rewrite(r) \/ Collect(r) \/ Adopt(r) \/ Stage(r) \/ MoveAway(r) \/ MoveIn(r)
    \/ Forget(r) \/ Know(r) \/ Relate(r) \/ List(r) \/ Put(r)

Done == (\A r \in Requests : ~Busy(r)) /\ UNCHANGED vars

Next ==
    \/ \E r \in Requests : (\E q \in Inputs : Begin(r, q)) \/ Handle(r) \/ Fail(r) \/ LoseAnswer(r)
    \/ \E p \in DOMAIN Orphans : PutFile(p)
    \/ Done

Spec == Init /\ [][Next]_vars

-----------------------------------------------------------------------------
Rows == [Ids -> PostRecords \cup {None}]
Directories == [there : BOOLEAN, files : [Paths -> PostRecords \cup {None}], list : SUBSET Names]
Places == {"idle", "lock", "seedNames", "seedPairs", "check", "change", "collect", "adopt", "stage",
           "away", "in", "forget", "know", "relate", "list", "put"}

RowsType == posts \in Rows /\ names \subseteq Names /\ pairs \subseteq Categories \X Tags
DiskType == {dir, backup, staging} \subseteq Directories
RequestType ==
    /\ lock \in Requests \cup {None}
    /\ pc \in [Requests -> Places] /\ req \in [Requests -> Inputs \cup {Idle}]
    /\ seen \in [Requests -> Rows] /\ todo \in [Requests -> SUBSET Paths]
    /\ list \in [Requests -> SUBSET Names]
HistoryType == sent \in Nat /\ alone \in [Requests -> BOOLEAN] /\ raced \in BOOLEAN
TypeOK == RowsType /\ DiskType /\ RequestType /\ HistoryType

\* When a change of posts is over and was not refused, the content directory has the
\* posts of the database, all of them and nothing else: "把博客数据原子导出到
\* blog/data/content/" (architecture.md:54).
ExportsAreComplete ==
    [][\A r \in Requests :
          pc[r] = "in" /\ pc'[r] \in {"idle", "forget"} /\ ~dir.there /\ dir' # backup
          => dir'.files = FilesOf(posts) /\ backup' = Absent]_vars

\* A post goes, or has another path or text, only when a request deletes it or saves it,
\* or when a post or a file of the same id and another path (a.mdx beside a.md) is saved
\* or imported, which the check of the path lets pass; what a bulk change or a change of
\* the draft mark writes back has the text and the path that were saved last.
PostsGoWhenAsked ==
    [][\A i \in Ids :
          LET Twin(p) == IdOf[p] = i /\ p # posts[i].path
          IN Is(i) /\ (posts'[i] = None \/ posts'[i].text # posts[i].text
                                       \/ posts'[i].path # posts[i].path) =>
               \E r \in Requests :
                  \/ /\ pc[r] = "change" /\ pc'[r] # "change"
                     /\ \/ req[r].op = "delete" /\ req[r].path = posts[i].path
                        \/ req[r].op = "save" /\ (req[r].old = posts[i].path \/ Twin(req[r].path))
                  \/ pc[r] = "adopt" /\ \E p \in todo[r] \ todo'[r] : Twin(p)]_vars

\* What a rename or a deletion leaves of the old name.
Forgotten(q) ==
    LET In(p) == q.category \in {None, p.category}
        used == {i \in Ids : Is(i) /\ In(posts[i]) /\ q.from \in NamesOf(Only(posts[i]))}
        kept == {rel \in pairs : q.from \in {rel[1], rel[2]} /\ q.category \in {None, rel[1]}}
    IN /\ used = {} /\ kept = {}
       /\ q.category = None => q.from \notin names
       /\ q.to # None => q.to \in names

\* A rename or a deletion that was alone is complete: no post, no pair and no list has
\* the old name, although seeding adds it again on the way: "删除标签（同时从所有引用该
\* 标签的文章中移除）" (routes/blog.rs:193).
LoneBulkIsComplete ==
    [][\A r \in Requests :
          pc[r] = "put" /\ dir' # dir /\ pc'[r] = "idle" /\ req[r].op \in Bulk /\ alone[r] =>
             Forgotten(req[r]) /\ dir'.list = names]_vars

\* Every tag and category of a post is a candidate, and its tags are allowed to its
\* category, unless a rename or a deletion of a name met another change.
NamesFollowPosts == raced \/ (NamesOf(posts) \subseteq names /\ PairsOf(posts) \subseteq pairs)
=============================================================================
