----------------------------- MODULE BlogBuild -----------------------------
(***************************************************************************)
(* The way of a change of the blog to the public site (union:             *)
(* blog/posts.rs, blog/taxonomy.rs, blog/storage.rs, blog/build.rs;        *)
(* routes/blog.rs; the build command npm runs in blog/source).             *)
(*                                                                         *)
(* A handler commits its change, exports the whole database into the       *)
(* content directory and asks for a build; one background loop builds,     *)
(* and again if it was asked meanwhile; a client may also build by hand.   *)
(* The build command reads the content directory, fills dist.next and      *)
(* renames it to dist.                                                     *)
(*                                                                         *)
(* What the public may see of the database is one number, db, which every  *)
(* change of it raises.  A directory is the number it was exported at,     *)
(* and a rendered site is the set of numbers its pages were read from.     *)
(***************************************************************************)
EXTENDS Integers, FiniteSets

CONSTANTS
    Editors,      \* concurrent requests that change the blog
    Background,   \* the task of trigger_background_build
    Hands,        \* concurrent requests of POST /api/blog/build
    Slots,        \* room for processes of the build command
    None,
    Survivors,    \* whether what npm has started outlives npm when union kills it
    Faults,       \* whether anything fails, is cancelled or crashes
    MaxVersion    \* bound: changes of the database

Builders == {Background} \cup Hands
Requests == Editors \cup Hands
Actors == Editors \cup Builders

ASSUME BlogAssumption ==
    /\ Background \notin Requests /\ Editors \cap Hands = {}
    /\ None \notin Actors \cup Slots
    /\ Survivors \in BOOLEAN /\ Faults \in BOOLEAN
    /\ MaxVersion \in Nat \ {0}

Gone == 0                     \* no content directory
Versions == 1..MaxVersion
Kinds == {"publish", "same", "quiet"}
EditorPcs == {"commit", "audit", "trigger"}
LoopPcs == {"begin", "built", "broken"}
BuilderPcs == LoopPcs \cup {"permit", "spawn", "wait"}

VARIABLES
    pc,         \* pc[a]: where the handler or the loop a stands
    kind,       \* kind[e]: what e does: a change with a build, a publication of what is
                \*   published (set_post_draft), a change or a draft without a build
    mine,       \* mine[a]: the version a has written or exported
    lock,       \* BlogState.content_lock
    dirty,      \* BlogState.build.dirty
    running,    \* BlogState.build.running
    permit,     \* BUILD_SEMAPHORE
    child,      \* child[b]: the process b waits for
    worker,     \* worker[w]: where a process of the build command stands
    db,         \* PostgreSQL
    dir,        \* blog/data/content
    backup,     \* .content.previous.<uuid> of the export that is replacing it
    next,       \* dist.next, {} when absent
    site,       \* dist
    previous,   \* dist.previous
    promised    \* history: the newest change answered whose build has not failed

handlers == <<pc, kind, mine>>
schedule == <<dirty, running>>
build == <<permit, child, worker>>
content == <<dir, backup>>
dist == <<next, site, previous>>
vars == <<handlers, lock, schedule, build, db, content, dist, promised>>

-----------------------------------------------------------------------------
Init ==
    /\ pc = [a \in Actors |-> "idle"]
    /\ kind = [e \in Editors |-> "same"]
    /\ mine = [a \in Actors |-> Gone]
    /\ lock = None
    /\ dirty = FALSE /\ running = FALSE
    /\ permit = None /\ child = [b \in Builders |-> None]
    /\ worker = [w \in Slots |-> "none"]
    /\ db = 1 /\ dir = 1 /\ backup = Gone
    /\ next = {} /\ site = {1} /\ previous = {}
    /\ promised = Gone

At(a, here) == pc[a] = here
Goes(a, there) == pc' = [pc EXCEPT ![a] = there]

\* a returns, or its build does; what it knew is forgotten.
Ends(a, there) ==
    /\ Goes(a, there)
    /\ kind' = [e \in Editors |-> IF e = a THEN "same" ELSE kind[e]]
    /\ mine' = [mine EXCEPT ![a] = Gone]

\* Dropping the guard of content_lock, and the permit.
Unlock(a) == lock' = IF lock = a THEN None ELSE lock
Return(a) == permit' = IF permit = a THEN None ELSE permit

(***************************************************************************)
(* The requests that change the blog.                                      *)
(***************************************************************************)
Edit(e, k) ==
    /\ At(e, "idle")
    /\ Goes(e, "lock")
    /\ kind' = [kind EXCEPT ![e] = k]
    /\ UNCHANGED <<mine, lock, schedule, build, db, content, dist, promised>>

\* Mutant: a handler does not take content_lock.
Lock_Ignored(a) ==
    /\ At(a, "lock")
    /\ lock = None \/ a \in Editors
    /\ lock' = IF a \in Editors THEN lock ELSE a
    /\ Goes(a, IF a \in Editors THEN "commit" ELSE "export")
    /\ UNCHANGED <<kind, mine, schedule, build, db, content, dist, promised>>

\* An editor locks before it writes, a build before it exports.
Lock(a) ==
    /\ At(a, "lock")
    /\ lock = None
    /\ lock' = a
    /\ Goes(a, IF a \in Editors THEN "commit" ELSE "export")
    /\ UNCHANGED <<kind, mine, schedule, build, db, content, dist, promised>>

\* The transaction of the change.  A draft that was no more is not seen by the public.
Commit(e) ==
    /\ At(e, "commit")
    /\ \/ kind[e] = "same" /\ db' = db /\ Goes(e, "audit")
       \/ kind[e] # "same" /\ db < MaxVersion /\ db' = db + 1 /\ Goes(e, "export")
       \/ kind[e] = "quiet" /\ db' = db /\ Goes(e, "export")
    /\ mine' = [mine EXCEPT ![e] = IF kind[e] = "same" THEN db ELSE Gone]
    /\ UNCHANGED <<kind, lock, schedule, build, content, dist, promised>>

\* A request that does not pass validation, or a path that is taken or gone.
Refuse(e) ==
    /\ At(e, "commit")
    /\ Ends(e, "idle") /\ Unlock(e)
    /\ UNCHANGED <<schedule, build, db, content, dist, promised>>

\* export_blog_content fills a staging directory from the database ...
Populate(a) ==
    /\ At(a, "export")
    /\ mine' = [mine EXCEPT ![a] = db]
    /\ Goes(a, "staged")
    /\ UNCHANGED <<kind, lock, schedule, build, db, content, dist, promised>>

\* ... moves the content directory away, and the staging directory to its place.
MoveAway(a) ==
    /\ At(a, "staged")
    /\ backup' = dir /\ dir' = Gone
    /\ Goes(a, "moved")
    /\ UNCHANGED <<kind, mine, lock, schedule, build, db, dist, promised>>

MoveIn(a) ==
    /\ At(a, "moved")
    /\ dir' = mine[a] /\ backup' = Gone
    /\ IF a \in Editors
         THEN Goes(a, "audit") /\ UNCHANGED <<kind, mine, lock>>
         ELSE Ends(a, "spawn") /\ Unlock(a)
    /\ UNCHANGED <<schedule, build, db, dist, promised>>

\* The audit record; then the lock is free, and only some handlers ask for a build.
Audit(e) ==
    /\ At(e, "audit")
    /\ Unlock(e)
    /\ IF kind[e] = "quiet"
         THEN Ends(e, "idle")
         ELSE Goes(e, "trigger") /\ UNCHANGED <<kind, mine>>
    /\ UNCHANGED <<schedule, build, db, content, dist, promised>>

\* Mutant: returns before it marks the schedule when the loop runs.
Trigger_Drop(e) ==
    /\ At(e, "trigger")
    /\ dirty' = ~running /\ running' = TRUE
    /\ pc' = [pc EXCEPT ![e] = "idle", ![Background] = IF running THEN @ ELSE "begin"]
    /\ kind' = [kind EXCEPT ![e] = "same"] /\ mine' = [mine EXCEPT ![e] = Gone]
    /\ promised' = IF mine[e] > promised THEN mine[e] ELSE promised
    /\ UNCHANGED <<lock, build, db, content, dist>>

\* trigger_background_build: mark the schedule, and start the loop unless it runs.
Trigger(e) ==
    /\ At(e, "trigger")
    /\ dirty' = TRUE /\ running' = TRUE
    /\ pc' = [pc EXCEPT ![e] = "idle", ![Background] = IF running THEN @ ELSE "begin"]
    /\ kind' = [kind EXCEPT ![e] = "same"] /\ mine' = [mine EXCEPT ![e] = Gone]
    /\ promised' = IF mine[e] > promised THEN mine[e] ELSE promised
    /\ UNCHANGED <<lock, build, db, content, dist>>

(***************************************************************************)
(* build_blog, by the loop or by hand.                                     *)
(***************************************************************************)
BuildByHand(b) ==
    /\ At(b, "idle")
    /\ Goes(b, "permit")
    /\ UNCHANGED <<kind, mine, lock, schedule, build, db, content, dist, promised>>

Begin ==
    /\ At(Background, "begin")
    /\ dirty' = FALSE
    /\ Goes(Background, "permit")
    /\ UNCHANGED <<kind, mine, lock, running, build, db, content, dist, promised>>

\* Mutant: a build by hand does not wait for the semaphore.
Acquire_Ignored(b) ==
    /\ At(b, "permit")
    /\ permit = None \/ b \in Hands
    /\ permit' = IF b \in Hands THEN permit ELSE b
    /\ Goes(b, "lock")
    /\ UNCHANGED <<kind, mine, lock, schedule, child, worker, db, content, dist, promised>>

Acquire(b) ==
    /\ At(b, "permit")
    /\ permit = None
    /\ permit' = b
    /\ Goes(b, "lock")
    /\ UNCHANGED <<kind, mine, lock, schedule, child, worker, db, content, dist, promised>>

Spawn(b) ==
    /\ At(b, "spawn")
    /\ \E w \in Slots :
         /\ worker[w] = "none"
         /\ worker' = [worker EXCEPT ![w] = "start"]
         /\ child' = [child EXCEPT ![b] = w]
    /\ Goes(b, "wait")
    /\ UNCHANGED <<kind, mine, lock, schedule, permit, db, content, dist, promised>>

\* The build is over: the permit is free, and the loop looks at the schedule again.
After(b, ok) ==
    Ends(b, IF b \in Hands THEN "idle" ELSE IF ok THEN "built" ELSE "broken")

Finish(b) ==
    /\ At(b, "wait")
    /\ worker[child[b]] \in {"ok", "failed"}
    /\ After(b, worker[child[b]] = "ok")
    /\ worker' = [worker EXCEPT ![child[b]] = "none"]
    /\ child' = [child EXCEPT ![b] = None]
    /\ Return(b)
    /\ UNCHANGED <<lock, schedule, db, content, dist, promised>>

\* Mutant: the loop ends without looking at dirty.
Check_Forget ==
    /\ pc[Background] \in {"built", "broken"}
    /\ Goes(Background, "idle")
    /\ running' = FALSE
    /\ promised' = IF At(Background, "broken") /\ ~dirty THEN Gone ELSE promised
    /\ UNCHANGED <<kind, mine, lock, dirty, build, db, content, dist>>

\* A failed build is not repeated, but a change that came after it began is built.
Check ==
    /\ pc[Background] \in {"built", "broken"}
    /\ Goes(Background, IF dirty THEN "begin" ELSE "idle")
    /\ running' = dirty
    /\ promised' = IF At(Background, "broken") /\ ~dirty THEN Gone ELSE promised
    /\ UNCHANGED <<kind, mine, lock, dirty, build, db, content, dist>>

(***************************************************************************)
(* The build command: astro fills dist.next from the content directory,    *)
(* publish-static.mjs renames it to dist.                                  *)
(***************************************************************************)
Exit(w, code) ==
    worker' = [worker EXCEPT ![w] = IF \E b \in Builders : child[b] = w THEN code ELSE "none"]

Clean(w) ==
    /\ worker[w] = "start"
    /\ next' = {}
    /\ worker' = [worker EXCEPT ![w] = "render"]
    /\ UNCHANGED <<handlers, lock, schedule, permit, child, db, content, site, previous, promised>>

\* Pages are read one after the other: the directory may be replaced in between.
Read(w, step) ==
    /\ worker[w] = "render"
    /\ next' = next \cup {dir}
    /\ worker' = [worker EXCEPT ![w] = step]
    /\ UNCHANGED <<handlers, lock, schedule, permit, child, db, content, site, previous, promised>>

Render(w) == Read(w, "render")
Rendered(w) == Read(w, "publish")

RenderFails(w) ==
    /\ Faults
    /\ worker[w] = "render"
    /\ Exit(w, "failed")
    /\ UNCHANGED <<handlers, lock, schedule, permit, child, db, content, dist, promised>>

Publish(w) ==
    /\ worker[w] = "publish"
    /\ IF next = {}
         THEN Exit(w, "failed") /\ UNCHANGED <<site, previous>>
         ELSE /\ worker' = [worker EXCEPT ![w] = "moved"]
              /\ site' = {} /\ previous' = site
    /\ UNCHANGED <<handlers, lock, schedule, permit, child, db, content, next, promised>>

\* A second process may have taken dist.next, or filled dist.
Switch(w) ==
    /\ worker[w] = "moved"
    /\ IF next # {} /\ site = {}
         THEN Exit(w, "ok") /\ site' = next /\ next' = {} /\ previous' = {}
         ELSE /\ Exit(w, "failed")
              /\ site' = IF site = {} THEN previous ELSE site
              /\ previous' = IF site = {} THEN {} ELSE previous
              /\ UNCHANGED next
    /\ UNCHANGED <<handlers, lock, schedule, permit, child, db, content, promised>>

(***************************************************************************)
(* What goes wrong.  Every one ends a build or a request where it stands;  *)
(* nothing is tried again.                                                 *)
(***************************************************************************)
\* A rename that fails puts the content directory back.
Restore(a) ==
    IF At(a, "moved") THEN dir' = backup /\ backup' = Gone ELSE UNCHANGED content

\* union kills npm, not what npm has started.
Kill(b) ==
    IF At(b, "wait")
      THEN /\ child' = [child EXCEPT ![b] = None]
           /\ \/ worker' = [worker EXCEPT ![child[b]] = "none"]
              \/ /\ Survivors /\ worker[child[b]] \notin {"ok", "failed"}
                 /\ UNCHANGED worker
      ELSE UNCHANGED <<child, worker>>

\* An error of the database, the file system or the command.
EditFails(e) ==
    /\ Faults
    /\ pc[e] \in {"commit", "export", "staged", "moved", "audit"}
    /\ Ends(e, "idle") /\ Unlock(e) /\ Restore(e)
    /\ UNCHANGED <<schedule, build, db, dist, promised>>

BuildFails(b) ==
    /\ Faults
    /\ pc[b] \in {"lock", "export", "staged", "moved", "spawn"}
    /\ After(b, FALSE) /\ Unlock(b) /\ Return(b) /\ Restore(b)
    /\ UNCHANGED <<schedule, child, worker, db, dist, promised>>

\* After 600 seconds, or when waiting itself fails.
Timeout(b) ==
    /\ Faults
    /\ At(b, "wait")
    /\ After(b, FALSE) /\ Return(b) /\ Kill(b)
    /\ UNCHANGED <<lock, schedule, db, content, dist, promised>>

\* A handler whose client disconnects is dropped at an await.
Cancel(r) ==
    /\ Faults
    /\ pc[r] \in {"lock", "commit", "export", "audit", "trigger", "permit", "spawn", "wait"}
    /\ Ends(r, "idle") /\ Unlock(r) /\ Return(r) /\ Kill(r)
    /\ UNCHANGED <<schedule, db, content, dist, promised>>

\* union ends, systemd ends its control group, and union starts again.
Crash ==
    /\ Faults
    /\ pc' = [a \in Actors |-> "idle"]
    /\ kind' = [e \in Editors |-> "same"] /\ mine' = [a \in Actors |-> Gone]
    /\ lock' = None /\ dirty' = FALSE /\ running' = FALSE
    /\ permit' = None /\ child' = [b \in Builders |-> None]
    /\ worker' = [w \in Slots |-> "none"]
    /\ backup' = Gone
    /\ promised' = Gone
    /\ UNCHANGED <<db, dir, dist>>

-----------------------------------------------------------------------------
Handle(e) ==
    \/ \E k \in Kinds : Edit(e, k)
    \/ Commit(e) \/ Refuse(e) \/ Audit(e) \/ Trigger(e) \/ EditFails(e)

Export(a) == Lock(a) \/ Populate(a) \/ MoveAway(a) \/ MoveIn(a)

Build(b) == Acquire(b) \/ Spawn(b) \/ Finish(b) \/ BuildFails(b) \/ Timeout(b)

Work(w) == Clean(w) \/ Render(w) \/ Rendered(w) \/ RenderFails(w) \/ Publish(w) \/ Switch(w)

Next ==
    \/ \E e \in Editors : Handle(e)
    \/ \E a \in Actors : Export(a)
    \/ \E b \in Hands : BuildByHand(b)
    \/ Begin \/ Check
    \/ \E b \in Builders : Build(b)
    \/ \E w \in Slots : Work(w)
    \/ \E r \in Requests : Cancel(r)
    \/ Crash

Spec == Init /\ [][Next]_vars

\* The runtime polls every ready task and its mutex and semaphore are first come, first
\* served; a process of the build command ends or is killed.  Nobody has to edit, to build
\* by hand or to fail.
Fairness ==
    /\ \A e \in Editors :
         WF_vars(Commit(e) \/ Refuse(e) \/ Populate(e) \/ MoveAway(e) \/ MoveIn(e) \/ Audit(e))
    /\ WF_vars(Begin \/ Check) /\ SF_vars(Acquire(Background))
    /\ \A b \in Builders :
         /\ SF_vars(Lock(b))
         /\ WF_vars(Populate(b) \/ MoveAway(b) \/ MoveIn(b) \/ Spawn(b) \/ Finish(b))
    /\ \A w \in Slots : WF_vars(Clean(w) \/ Rendered(w) \/ Publish(w) \/ Switch(w))

FairSpec == Spec /\ Fairness

-----------------------------------------------------------------------------
Shared == {"idle", "lock", "export", "staged", "moved"}

HandlerType ==
    /\ pc \in [Actors -> Shared \cup EditorPcs \cup BuilderPcs]
    /\ \A e \in Editors : pc[e] \in Shared \cup EditorPcs
    /\ \A b \in Builders : pc[b] \in Shared \cup BuilderPcs
    /\ \A b \in Hands : pc[b] \notin LoopPcs
    /\ kind \in [Editors -> Kinds]
    /\ mine \in [Actors -> 0..MaxVersion]
    /\ lock \in Actors \cup {None}
    /\ dirty \in BOOLEAN /\ running \in BOOLEAN

BuildType ==
    /\ permit \in Builders \cup {None}
    /\ child \in [Builders -> Slots \cup {None}]
    /\ worker \in [Slots -> {"none", "start", "render", "publish", "moved", "ok", "failed"}]

DataType ==
    /\ db \in Versions
    /\ dir \in 0..MaxVersion /\ backup \in 0..MaxVersion
    /\ next \subseteq 0..MaxVersion
    /\ site \subseteq 0..MaxVersion /\ previous \subseteq 0..MaxVersion
    /\ promised \in 0..MaxVersion

TypeOK == HandlerType /\ BuildType /\ DataType

\* "当前构建结束后会再跑一轮，确保更新不会丢失" (build.rs:7): when the loop has stopped, no page
\* of the site is older than a change that was answered and whose build did not fail, in
\* whatever order handlers, exports and builds took their steps.
UpdatesShow == ~running => \A v \in site \cap Versions : v >= promised

\* "全局信号量，避免多个请求同时覆盖 dist" (operations.md:52): two processes never write
\* dist.next and dist at a time.
OneWriter == \A w, x \in Slots : worker[w] # "none" /\ worker[x] # "none" => w = x

\* content_lock orders the exports: none replaces the content directory by an older one.
ExportsInOrder == dir' # Gone /\ backup # Gone => dir' >= backup

\* What the public sees: for each page of a site that replaces another, that one had a page
\* as old; and for each page of the old site, the new one has a page as new.
Shown == IF site = {} THEN previous \cap Versions ELSE site \cap Versions
SitesInOrder ==
    Shown # {} /\ Shown' # {} =>
        /\ \A new \in Shown' : \E old \in Shown : old <= new
        /\ \A old \in Shown : \E new \in Shown' : old <= new

\* Neither what a build reads nor what the public sees ever goes back, whatever handlers,
\* exports and builds overlap.
NeverOlder == [][ExportsInOrder /\ SitesInOrder]_vars

-----------------------------------------------------------------------------
\* "博客构建失败会保留最近一次成功发布的 dist" (architecture.md:125): outside the two renames
\* of publish-static.mjs there is a site.  A build that is killed between them breaks it.
SiteKept == (\A w \in Slots : worker[w] # "moved") => site # {}

\* A change that was answered is on the site in the end, unless the loop's build of it
\* fails (a failure that a later change repairs included: if not for ever) or a build
\* that was killed took the site away (SiteKept).
EventuallyShown ==
    \/ []<>At(Background, "broken")
    \/ \A v \in Versions :
         promised = v ~> \/ promised < v
                         \/ site # {} /\ \A u \in site \cap Versions : u >= v
                         \/ ~SiteKept
=============================================================================
