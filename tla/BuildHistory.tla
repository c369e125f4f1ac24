---------------------------- MODULE BuildHistory ----------------------------
(***************************************************************************)
(* What union keeps of a build of the blog: the row of its job, its log    *)
(* and the audit record (blog/build.rs, database/audit), and who removes   *)
(* them: the maintenance loop of every process (startup.rs) and the start  *)
(* of the next one, which declares running jobs abandoned.                 *)
(*                                                                         *)
(* Two processes overlap when union is started a second time, which is     *)
(* noticed only when the port is bound, or while one drains its requests.  *)
(* What BlogBuild says of content and site is left out here.               *)
(***************************************************************************)
EXTENDS Integers, FiniteSetsExt, SequencesExt

CONSTANTS
    Processes,   \* processes of union
    Characters,  \* what texts are made of; "message" and "truncated" stand for words of union
    Outputs,     \* what the build command may write to stdout or stderr
    MaxOutput,   \* MAX_BUILD_OUTPUT_BYTES
    Chunk,       \* CHUNK_SIZE of tail_lines
    Retention,   \* UNION_RETENTION_DAYS after its clamp
    MaxJobs,     \* bound: builds
    MaxStarts,   \* bound: starts
    MaxTime      \* bound: days

ASSUME HistoryAssumption ==
    /\ {Retention, MaxJobs, MaxStarts, MaxTime} \subseteq Nat /\ {MaxOutput, Chunk} \subseteq Nat \ {0}
    /\ {"n", "message", "truncated"} \subseteq Characters /\ Outputs \subseteq Seq(Characters)

VARIABLES
    now,
    starts,
    proc,        \* proc[p]: "down", "starting", "ready" to bind, "up", "draining"
    builds,      \* builds[p]: the holder of BUILD_SEMAPHORE in p
    prune,       \* prune[p]: the maintenance loop of p
    made,        \* jobs ever created; their UUIDs are 1..made
    jobs,        \* the table jobs
    audits,      \* audit_logs: when build j was recorded
    logs,        \* the files in build_log_dir: [job, text, nth], the nth by modification time
    truth,       \* history: what came of build j
    cut,         \* history: builds that broke off before their row was finished
    unlinked,    \* history: logs whose removal ended with the process
    known        \* history: jobs made when p started

table == <<made, jobs, audits>>
past == <<truth, cut, unlinked, known>>
historyVars == <<now, starts, proc, builds, prune, table, logs, past>>

Jobs == 1..MaxJobs
NoRow == [status |-> "none", log |-> FALSE, since |-> 0]
Never == 0 - 1
Quiet == [job |-> 0, at |-> "quiet", how |-> "ok", text |-> <<>>]
Message == <<"message", "n">>
Asleep == [paths |-> {}, wake |-> 0, ok |-> FALSE]

Exists(j) == jobs[j] # NoRow
Stored == {f.job : f \in logs}
Lives(p) == proc[p] # "down"
Going(j) == \E p \in Processes : builds[p].job = j

HistoryInit ==
    /\ now = 0 /\ starts = 0
    /\ proc = [p \in Processes |-> "down"]
    /\ builds = [p \in Processes |-> Quiet]
    /\ prune = [p \in Processes |-> Asleep]
    /\ made = 0 /\ jobs = [j \in Jobs |-> NoRow] /\ audits = [j \in Jobs |-> Never]
    /\ logs = {}
    /\ truth = [j \in Jobs |-> "none"] /\ cut = {} /\ unlinked = {}
    /\ known = [p \in Processes |-> 0]

-----------------------------------------------------------------------------
(* Texts: sequences of "n", the end of a line, and other characters. *)

Kept(text) == SubSeq(text, 1, IF Len(text) < MaxOutput THEN Len(text) ELSE MaxOutput)

\* drain_capped reads to the end and keeps the beginning.
DrainCapped(text) ==
    IF Len(text) <= MaxOutput THEN text ELSE Kept(text) \o <<"n", "truncated", "n">>

\* str::lines: what follows the last "n" is a line unless it is empty.
Lines(text) ==
    LET read[i \in 0..Len(text)] ==
            IF i = 0 THEN << <<>> >>
            ELSE IF text[i] = "n" THEN Append(read[i - 1], <<>>)
            ELSE [read[i - 1] EXCEPT ![Len(read[i - 1])] = Append(@, text[i])]
        all == read[Len(text)]
    IN  IF Last(all) = <<>> THEN Front(all) ELSE all

LastOf(lines, n) == SubSeq(lines, Len(lines) - n + 1, Len(lines))
AtMost(lines, n) == IF Len(lines) > n THEN LastOf(lines, n) ELSE lines

\* The text from where k chunks before its end begin, and whether that is its beginning.
From(text, k) == SubSeq(text, Len(text) - k * Chunk + 1, Len(text))
All(text, k) == k * Chunk >= Len(text)
Breaks(text) == Cardinality({i \in DOMAIN text : text[i] = "n"})

\* Mutant: one line end fewer is enough.
TailLines_Short(text, n) ==
    LET k == Min({i \in 0..Len(text) : All(text, i) \/ Breaks(From(text, i)) >= n})
        lines == Lines(IF All(text, k) THEN text ELSE From(text, k))
    IN  IF n = 0 THEN <<>>
        ELSE AtMost(IF All(text, k) \/ lines = <<>> THEN lines ELSE Tail(lines), n)

\* tail_lines: chunks from the end until they hold more than n line ends; the first line
\* of what was read may have begun earlier and is dropped.
TailLines(text, n) ==
    LET k == Min({i \in 0..Len(text) : All(text, i) \/ Breaks(From(text, i)) > n})
        lines == Lines(IF All(text, k) THEN text ELSE From(text, k))
    IN  IF n = 0 THEN <<>>
        ELSE AtMost(IF All(text, k) \/ lines = <<>> THEN lines ELSE Tail(lines), n)

\* GET /api/blog/logs: the file changed last.
Newest == CHOOSE f \in logs : \A g \in logs : g.nth <= f.nth
NewestLog(n) == IF logs = {} THEN <<>> ELSE TailLines(Newest.text, n)

-----------------------------------------------------------------------------
(* Processes. *)

Start(p) ==
    /\ proc[p] = "down" /\ starts < MaxStarts
    /\ starts' = starts + 1
    /\ proc' = [proc EXCEPT ![p] = "starting"]
    /\ prune' = [prune EXCEPT ![p] = [Asleep EXCEPT !.wake = now]]
    /\ known' = [known EXCEPT ![p] = made]
    /\ UNCHANGED <<now, builds, table, logs, truth, cut, unlinked>>

\* abandon_running_jobs does not ask whose they are.
Abandon(p) ==
    /\ proc[p] = "starting"
    /\ proc' = [proc EXCEPT ![p] = "ready"]
    /\ jobs' = [j \in Jobs |-> IF jobs[j].status = "running"
                                 THEN [jobs[j] EXCEPT !.status = "abandoned"] ELSE jobs[j]]
    /\ UNCHANGED <<now, starts, builds, prune, made, audits, logs, past>>

\* main binds the port after everything else, and ends when it is taken (Ended).
Bind(p) ==
    /\ proc[p] = "ready" /\ \A q \in Processes : proc[q] # "up"
    /\ proc' = [proc EXCEPT ![p] = "up"]
    /\ UNCHANGED <<now, starts, builds, prune, table, logs, past>>

\* The port is free as soon as the shutdown begins.
Shutdown(p) ==
    /\ proc[p] = "up"
    /\ proc' = [proc EXCEPT ![p] = "draining"]
    /\ UNCHANGED <<now, starts, builds, prune, table, logs, past>>

BreaksOff(p) ==
    /\ cut' = IF builds[p].at \in {"run", "log", "finish"} THEN cut \cup {builds[p].job} ELSE cut
    /\ truth' = IF builds[p].at = "run" THEN [truth EXCEPT ![builds[p].job] = "lost"] ELSE truth
    /\ builds' = [builds EXCEPT ![p] = Quiet]

\* A start that fails, the end of a shutdown, or a crash.
Ended(p) ==
    /\ Lives(p)
    /\ proc' = [proc EXCEPT ![p] = "down"]
    /\ BreaksOff(p)
    /\ unlinked' = unlinked \cup prune[p].paths
    /\ prune' = [prune EXCEPT ![p] = Asleep]
    /\ UNCHANGED <<now, starts, table, logs, known>>

-----------------------------------------------------------------------------
(* build_blog_once, after its export.  A step is the code between two awaits. *)

Create(p) ==
    /\ proc[p] \in {"up", "draining"} /\ builds[p] = Quiet /\ made < MaxJobs
    /\ made' = made + 1
    /\ jobs' = [jobs EXCEPT ![made'] = [status |-> "running", log |-> FALSE, since |-> now]]
    /\ builds' = [builds EXCEPT ![p] = [Quiet EXCEPT !.job = made', !.at = "run"]]
    /\ truth' = [truth EXCEPT ![made'] = "going"]
    /\ UNCHANGED <<now, starts, proc, prune, audits, logs, cut, unlinked, known>>

\* The command exits, cannot be run, or is killed after 600 s; then its log is a message.
Written == {Message} \cup {DrainCapped(out) \o DrainCapped(err) : out, err \in Outputs}
CommandEnds(p, how, text) ==
    /\ builds[p].at = "run"
    /\ builds' = [builds EXCEPT ![p] = [@ EXCEPT !.at = "log", !.how = how, !.text = text]]
    /\ truth' = [truth EXCEPT ![builds[p].job] = IF how = "ok" THEN "succeeded" ELSE "failed"]
    /\ UNCHANGED <<now, starts, proc, prune, table, logs, cut, unlinked, known>>

WriteLog(p) ==
    /\ builds[p].at = "log"
    /\ LET nth == 1 + Max({0} \cup {f.nth : f \in logs})
       IN logs' = logs \cup {[job |-> builds[p].job, text |-> builds[p].text, nth |-> nth]}
    /\ builds' = [builds EXCEPT ![p].at = "finish"]
    /\ UNCHANGED <<now, starts, proc, prune, table, past>>

\* finish_job takes a row whatever its status; a failed start of the command is not audited.
FinishJob(p) ==
    /\ builds[p].at = "finish"
    /\ jobs' = [jobs EXCEPT ![builds[p].job] =
                  IF @ = NoRow THEN @
                  ELSE [@ EXCEPT !.status = IF builds[p].how = "ok" THEN "succeeded" ELSE "failed",
                                 !.log = TRUE]]
    /\ builds' = [builds EXCEPT ![p] = IF @.how = "nospawn" THEN Quiet ELSE [@ EXCEPT !.at = "audit"]]
    /\ UNCHANGED <<now, starts, proc, prune, made, audits, logs, past>>

\* The record, and the answer or the next round of the loop.
RecordAudit(p) ==
    /\ builds[p].at = "audit"
    /\ audits' = [audits EXCEPT ![builds[p].job] = now]
    /\ builds' = [builds EXCEPT ![p] = Quiet]
    /\ UNCHANGED <<now, starts, proc, prune, made, jobs, logs, past>>

\* An error of the database or of the file system, or the client of a build by hand is gone.
Fails(p) ==
    /\ builds[p] # Quiet
    /\ BreaksOff(p)
    /\ UNCHANGED <<now, starts, proc, prune, table, logs, unlinked, known>>

-----------------------------------------------------------------------------
(* The maintenance loop.  Its transaction is one step: NOW() stays what it was when the  *)
(* transaction began, and no row gets its log a whole retention later.                   *)

Due(p) == Lives(p) /\ prune[p].paths = {} /\ prune[p].wake <= now
Old(since) == since < now - Retention
Sleeps(p, ok) == prune' = [prune EXCEPT ![p] = [paths |-> {}, wake |-> now + 1, ok |-> ok]]
RemoveLogs(paths) == logs' = {f \in logs : f.job \notin paths}
OldLogs == {j \in Jobs : Exists(j) /\ Old(jobs[j].since) /\ jobs[j].log}

\* Mutant: the logs go before the transaction, which then fails.
PruneFails_Unlinks(p) ==
    /\ Due(p)
    /\ Sleeps(p, FALSE)
    /\ RemoveLogs(OldLogs)
    /\ UNCHANGED <<now, starts, proc, builds, table, past>>

\* A transaction that fails is tried again in a day.
PruneFails(p) ==
    /\ Due(p)
    /\ Sleeps(p, FALSE)
    /\ UNCHANGED <<now, starts, proc, builds, table, logs, past>>

Prune(p) ==
    /\ Due(p)
    /\ jobs' = [j \in Jobs |-> IF Old(jobs[j].since) THEN NoRow ELSE jobs[j]]
    /\ audits' = [j \in Jobs |-> IF Old(audits[j]) THEN Never ELSE audits[j]]
    /\ IF OldLogs = {} THEN Sleeps(p, TRUE)
                       ELSE prune' = [prune EXCEPT ![p].paths = OldLogs, ![p].ok = TRUE]
    /\ UNCHANGED <<now, starts, proc, builds, made, logs, past>>

\* remove_managed_build_log, one file after the other; then the loop sleeps for a day.
Unlink(p) ==
    /\ \E j \in prune[p].paths :
         /\ RemoveLogs({j})
         /\ IF prune[p].paths = {j} THEN Sleeps(p, TRUE)
                                    ELSE prune' = [prune EXCEPT ![p].paths = @ \ {j}]
    /\ UNCHANGED <<now, starts, proc, builds, table, past>>

\* A build takes minutes, and the loop is not late: neither takes a day.
Tick ==
    /\ now < MaxTime
    /\ \A p \in Processes : builds[p] = Quiet
                            /\ (Lives(p) => prune[p].paths = {} /\ prune[p].wake > now)
    /\ now' = now + 1
    /\ UNCHANGED <<starts, proc, builds, prune, table, logs, past>>

Process(p) == Start(p) \/ Abandon(p) \/ Bind(p) \/ Shutdown(p) \/ Ended(p)

BuildOnce(p) ==
    \/ Create(p)
    \/ \E how \in {"ok", "bad", "nospawn"}, text \in Written : CommandEnds(p, how, text)
    \/ WriteLog(p) \/ FinishJob(p) \/ RecordAudit(p) \/ Fails(p)

Maintain(p) == PruneFails(p) \/ Prune(p) \/ Unlink(p)

HistoryNext ==
    \/ \E p \in Processes : Process(p) \/ BuildOnce(p) \/ Maintain(p)
    \/ Tick

HistorySpec == HistoryInit /\ [][HistoryNext]_historyVars

-----------------------------------------------------------------------------
\* A row says what came of its build, whoever wrote it: one that is still "running" is of
\* a build that goes on or broke off, one "abandoned" of a build that broke off or goes on
\* in another process (startup.rs, initialize: the port is bound later).
RowsAreTrue ==
    \A j \in Jobs :
        /\ jobs[j].status \in {"succeeded", "failed"} => truth[j] = jobs[j].status
        /\ jobs[j].status = "running" => Going(j) \/ j \in cut
        /\ jobs[j].status = "abandoned" =>
             \/ j \in cut
             \/ \E p \in Processes : builds[p].job = j /\ starts > 1

\* "进程重启后，先前仍标记为 running 的任务已经不可能继续执行" (operations.rs): a process that
\* serves leaves no running row from before its start.
NoneLeftRunning ==
    \A p \in Processes : proc[p] \in {"ready", "up", "draining"} =>
        \A j \in 1..known[p] : jobs[j].status # "running"

\* A row that names a log has it, and a log that no row names is of a build that has not
\* finished its row or broke off before, or is being removed, or that removal was cut off.
LogsHaveRows ==
    \A j \in Jobs :
        /\ jobs[j].log => j \in Stored
        /\ j \in Stored => \/ jobs[j].log
                           \/ \E p \in Processes : builds[p].job = j /\ builds[p].at = "finish"
                           \/ \E p \in Processes : j \in prune[p].paths
                           \/ j \in cut \cup unlinked

\* Rows are kept for the retention, and a day longer at most by a loop that succeeds.
RowsAreKept ==
    \A j \in Jobs :
        /\ Exists(j) => \A p \in Processes :
             Lives(p) /\ prune[p].ok => now - jobs[j].since <= Retention + 1
        /\ Exists(j) /\ ~Exists(j)' => now - jobs[j].since > Retention

\* A build that is answered as a success has its row, its log and its record.
AnswersAreBacked ==
    \A p \in Processes :
        builds[p].at = "audit" /\ builds[p].how = "ok" /\ audits' # audits =>
            LET j == builds[p].job IN
                builds'[p] = Quiet => jobs'[j].status = "succeeded" /\ j \in Stored' /\ audits'[j] = now

\* What is kept of builds is true: rows, logs and records, through processes that
\* overlap, failures, crashes and the maintenance loop.
HistoryIsTrue ==
    [][RowsAreTrue' /\ NoneLeftRunning' /\ LogsHaveRows' /\ RowsAreKept /\ AnswersAreBacked]_historyVars

\* What is shown of the newest log are its last lines.
TailIsLast ==
    \A n \in 0..3 :
        NewestLog(n) = IF logs = {} THEN <<>> ELSE AtMost(Lines(Newest.text), n)
TailIsShown == [][logs' # logs => TailIsLast']_logs
=============================================================================
