--------------------------- MODULE HostTelemetry ---------------------------
(***************************************************************************)
(* What a telemetry report says and what becomes of it, in time: the       *)
(* sampler of unionc-agent and the rounds of its service                   *)
(* (agent/src/collectors, main.rs, config.rs), the copy for OTLP           *)
(* (agent/src/otlp.rs), and on the server the validation of a report, the  *)
(* row of the host and the status shown for it (domain/monitoring.rs,      *)
(* routes/monitoring.rs).                                                  *)
(*                                                                         *)
(* AgentDelivery has the files of the spool, their limit, `once` and late  *)
(* requests; here a report has contents and steps take time.  Timers fire  *)
(* when they are due.  One unit of time stands for any real time: only the *)
(* order of the constants counts.                                          *)
(***************************************************************************)
EXTENDS Integers, Sequences, FiniteSetsExt

CONSTANTS
    Interval, SlowInterval, Jitter, Timeout,  \* AgentConfig; Jitter in percent
    Warmup,             \* sysinfo::MINIMUM_CPU_UPDATE_INTERVAL
    MaxBackoff, Batch, Queue,                 \* 300 s, 32 reports, 128 copies
    Shortest, Longest, Early,                 \* AgentReport::validate
    Least, OnlineFor, StaleFor,               \* host_status: 1 s, 30 s and 300 s
    Traffic,            \* what a network interface may receive between two samples
    Readings,           \* what the operating system may say of the hardware
    Clocks,             \* how far the wall clock of the machine may be ahead
    MaxTime, MaxReports, MaxLaunches \* bounds

VARIABLES
    now, ahead,         \* the time of the server, and the wall clock of the machine
    boot, total,        \* start of the machine and the bytes it has received since
    launches,           \* how often the service was started
    phase, since,       \* the service, and when its phase began (or its sleep ends)
    answer,             \* of the server to the report under way
    sampled, slow, sensors,  \* SystemSampler: last_sample, last_slow_sample (Never), cache
    hand, next, spool, batch, retryAt, backoff,
    copies, copied,     \* the channel of OtlpQueue and the points it sent last
    host, stored,       \* monitored_hosts and agent_metric_reports
    busy, streak, back  \* history: time since the last sample spent on anything but
                        \*   sleep, reports delivered in a row (up to 2), whether the
                        \*   wall clock was set back

clock == <<now, ahead, back>>
machine == <<boot, total>>
sampler == <<sampled, slow, sensors>>
backlog == <<spool, batch, retryAt, backoff>>
export == <<copies, copied>>
records == <<host, stored>>
telemetryVars ==
    <<clock, machine, launches, phase, since, answer, sampler, hand, next, backlog, export, records,
      busy, streak>>

Never == -1
NoReport == [id |-> 0]

\* AgentConfig::validate: the service does not start without it.
Configured ==
    /\ Interval > 0 /\ SlowInterval >= Interval
    /\ Jitter <= 50
    /\ Timeout > 0

\* jitter of main.rs, in whole units.
Spread(base) == (base * (100 - Jitter)) \div 100 .. (base * (100 + Jitter)) \div 100

Vendors == {"amd", "intel"}
\* What the collectors return: numbers that are not negative but for temperatures, and of
\* the utilization of a card perhaps nothing.
IsReading(r) ==
    /\ {r.memory.used, r.memory.total} \subseteq Nat
    /\ r.sensors \subseteq Int /\ IsFiniteSet(r.sensors)
    /\ IsFiniteSet(r.gpus)
    /\ \A g \in r.gpus : {g.used, g.total} \subseteq Nat /\ g.utilization \in Nat \cup {Never}

\* The sampler waits 0.2 s for its baseline and the service half a second at least, both
\* longer than the 0.1 s the server accepts.
ASSUME TelemetryAssumption ==
    /\ {Interval, Jitter, Timeout, Warmup, MaxBackoff, Longest, Early, Least, OnlineFor} \subseteq Nat
    /\ Shortest \in Nat \ {0} /\ Shortest <= Warmup
    /\ Configured => \A d \in Spread(Interval) : Shortest <= d
    /\ Traffic \subseteq Nat /\ Clocks \subseteq Int
    /\ \A r \in Readings : IsReading(r)

-----------------------------------------------------------------------------
\* The contents of a report.

\* per_second, to the nearest unit; no interval is shorter than the clock can tell.
PerSecond(delta, interval) ==
    LET shown == Max({1, interval}) IN (2 * delta + shown) \div (2 * shown)

\* linux_gpu::collect: one capability for a vendor and, if it has a card, one more
\* for its utilization.
GpuCapabilities(gpus) ==
    LET of(vendor) == {g \in gpus : g.vendor = vendor}
        Present(vendor) == [name |-> <<vendor>>, available |-> of(vendor) # {}]
        Measured(vendor) == [name |-> <<vendor, "utilization">>,
                             available |-> \E g \in of(vendor) : g.utilization # Never]
    IN {Present(v) : v \in Vendors} \cup {Measured(v) : v \in {x \in Vendors : of(x) # {}}}

\* core_capabilities: the sensors are the only core metric that may be missing.
Capabilities(report) ==
    {[name |-> <<"temperature">>, available |-> report.sensors # {}]} \cup GpuCapabilities(report.gpus)

\* AgentReport::validate.
Valid(report) ==
    /\ report.interval \in Shortest .. Longest
    /\ report.collected <= now + Early
    /\ report.memory.used <= report.memory.total
    /\ \A d \in report.disks : d.name # "" /\ d.available <= d.total
    /\ \A celsius \in report.sensors : celsius \in -273 .. 1000
    /\ \A g \in report.gpus : g.utilization <= 100 /\ g.used <= g.total

Percent(used, of) == IF of > 0 THEN (used * 100) \div of ELSE Never

\* AgentReport::metric_summary: the busiest device, never a sum of devices; only the
\* memory of the GPUs is taken together.
Summary(report) ==
    LET used == [g \in report.gpus |-> g.used]
        all == [g \in report.gpus |-> g.total]
    IN [memory |-> Percent(report.memory.used, report.memory.total),
        received |-> report.rate,
        celsius |-> Max({Never} \cup report.sensors),
        gpu |-> Max({Never} \cup {g.utilization : g \in report.gpus}),
        gpuMemory |-> Percent(SumFunction(used), SumFunction(all))]

\* host_status.  Without a report the default of 10 s stays below both floors.
Status ==
    LET age == now - host.seen
        interval == IF host.latest = NoReport THEN 0
                    ELSE Max({Least, Min({Longest, host.latest.interval})})
    IN IF age <= Max({3 * interval, OnlineFor}) THEN "online"
       ELSE IF age <= Max({12 * interval, StaleFor}) THEN "stale" ELSE "offline"

\* One point of a series: a gauge, or a counter that starts with the machine.
Gauge(report, series, value) ==
    [series |-> series, value |-> value, time |-> report.collected, start |-> 0]
Counter(report, series, value) ==
    [series |-> series, value |-> value, time |-> report.collected,
     start |-> Max({0, report.collected - report.uptime})]

\* append_gpu_metrics: what a card does not measure has no point.
GpuPoints(report, g) ==
    {Gauge(report, <<"gpu", g.vendor>>, g.used), Gauge(report, <<"gpu limit", g.vendor>>, g.total)}
    \cup {Gauge(report, <<"gpu utilization", g.vendor>>, u) : u \in {g.utilization} \ {Never}}

\* encode_report.
Points(report) ==
    {Gauge(report, <<"memory">>, report.memory.used), Gauge(report, <<"uptime">>, report.uptime),
     Counter(report, <<"io">>, report.total)}
    \cup {Gauge(report, <<"disk", d.name>>, d.total - d.available) : d \in report.disks}
    \cup {Gauge(report, <<"temperature", celsius>>, celsius) : celsius \in report.sensors}
    \cup UNION {GpuPoints(report, g) : g \in report.gpus}

-----------------------------------------------------------------------------
\* The machine has registered and its service is not running.
TelemetryInit ==
    /\ now = 0 /\ ahead \in Clocks /\ back = FALSE
    /\ boot = 0 /\ total = 0
    /\ launches = 0 /\ phase = "down" /\ since = 0 /\ answer = "none"
    /\ sampled = 0 /\ slow = Never /\ sensors = {}
    /\ hand = NoReport /\ next = 1
    /\ spool = {} /\ batch = 0 /\ retryAt = 0 /\ backoff = 1
    /\ copies = <<>> /\ copied = {}
    /\ host = [seen |-> 0, capabilities |-> {}, latest |-> NoReport]
    /\ stored = {} /\ busy = 0 /\ streak = 0

\* main: the sampler reads its baseline, and the first report waits a little.
StartService ==
    /\ phase = "down" /\ Configured
    /\ launches < MaxLaunches /\ launches' = launches + 1
    /\ phase' = "warmup" /\ since' = now + Warmup
    /\ sampled' = now /\ slow' = Never /\ sensors' = {}
    /\ UNCHANGED <<clock, machine, answer, hand, next, backlog, export, records, busy, streak>>

\* Mutant: the first report does not wait.
Enrolled_AtOnce ==
    /\ phase = "warmup"
    /\ phase' = "sleep" /\ since' = now
    /\ UNCHANGED <<clock, machine, launches, answer, sampler, hand, next, backlog, export, records,
                   busy, streak>>

\* prepare_reporter returns: at once with a token, else when the server takes the
\* machine, however long that takes.
Enrolled ==
    /\ phase = "warmup" /\ now >= since
    /\ phase' = "sleep" /\ since' = now
    /\ UNCHANGED <<clock, machine, launches, answer, sampler, hand, next, backlog, export, records,
                   busy, streak>>

\* SystemSampler::collect.  The sensors are read again after SlowInterval.
Sample(reading, bytes, wall) ==
    LET readAgain == slow = Never \/ now - slow >= SlowInterval
        interval == now - sampled
    IN [id |-> next, collected |-> now + wall, interval |-> interval, uptime |-> now - boot,
        total |-> total + bytes, rate |-> PerSecond(bytes, interval),
        memory |-> reading.memory, disks |-> reading.disks, gpus |-> reading.gpus,
        sensors |-> IF readAgain THEN reading.sensors ELSE sensors,
        made |-> now, busy |-> busy]

\* A round of run_loop: send the report if there is no backlog and no backoff, else
\* keep it, and replay the backlog if there is no backoff.  The wall clock of the
\* machine is read here only and may have been set since; bound: back once.
Collect(reading, bytes, wall) ==
    /\ phase = "sleep" /\ now >= since
    /\ next <= MaxReports
    /\ back => wall = ahead
    /\ ahead' = wall /\ back' = (back \/ wall < ahead)
    /\ next' = next + 1
    /\ total' = total + bytes
    /\ LET report == Sample(reading, bytes, wall) IN
       /\ sampled' = now /\ busy' = 0
       /\ sensors' = report.sensors
       /\ slow' = IF slow = Never \/ now - slow >= SlowInterval THEN now ELSE slow
       /\ \/ /\ spool = {} /\ now >= retryAt
             /\ phase' = "send" /\ since' = now
             /\ hand' = report
             /\ UNCHANGED <<spool, batch, streak>>
          \/ /\ ~(spool = {} /\ now >= retryAt)
             /\ spool' = spool \cup {report}
             /\ phase' = IF now >= retryAt THEN "flush" ELSE "sleep"
             /\ IF now >= retryAt THEN since' = now
                ELSE \E d \in Spread(Interval) : since' = now + d
             /\ batch' = 0 /\ streak' = 0
             /\ UNCHANGED hand
    /\ UNCHANGED <<now, boot, launches, answer, retryAt, backoff, export, records>>

\* The file names of the spool begin with collected_at.
IsOldest(report) == \A r \in spool : report.collected <= r.collected

\* Mutant: the newest file first.
Replay_Newest ==
    /\ phase = "flush" /\ batch < Batch
    /\ \E r \in spool : (\A q \in spool : q.collected <= r.collected) /\ hand' = r
    /\ phase' = "replay" /\ since' = now
    /\ UNCHANGED <<clock, machine, launches, answer, sampler, next, backlog, export, records, busy, streak>>

\* flush_spool sends the oldest report of the spool.
Replay ==
    /\ phase = "flush" /\ batch < Batch
    /\ \E r \in spool : IsOldest(r) /\ hand' = r
    /\ phase' = "replay" /\ since' = now
    /\ UNCHANGED <<clock, machine, launches, answer, sampler, next, backlog, export, records, busy, streak>>

Sleeps ==
    /\ phase' = "sleep"
    /\ \E d \in Spread(Interval) : since' = now + d

\* No backoff: retry_at is in the past, here the start of time.
Succeeds == Sleeps /\ retryAt' = 0 /\ backoff' = 1

\* ... until none is left or the batch is used up.
Flushed ==
    /\ phase = "flush"
    /\ spool = {} \/ batch = Batch
    /\ Succeeds
    /\ UNCHANGED <<clock, machine, launches, answer, sampler, hand, next, spool, batch, export, records,
                   busy, streak>>

\* Mutant: only the first report says how long the next one may take.
Store_FirstInterval(report) ==
    /\ stored' = stored \cup {report.id}
    /\ host' = [seen |-> now, capabilities |-> Capabilities(report),
                latest |-> IF host.latest = NoReport THEN report
                           ELSE [report EXCEPT !.interval = host.latest.interval]]

\* store_monitoring_report: the host was heard of, with what the report can do, even
\* if the report is there already or is not the newest one.
Store(report) ==
    /\ stored' = stored \cup {report.id}
    /\ LET newest == /\ report.id \notin stored
                     /\ \/ host.latest = NoReport
                        \/ host.latest.collected <= report.collected
       IN host' = [seen |-> now, capabilities |-> Capabilities(report),
                   latest |-> IF newest THEN report ELSE host.latest]

Sending == phase \in {"send", "replay"}

\* report_metrics.
Serve ==
    /\ Sending /\ answer = "none"
    /\ \/ Valid(hand) /\ Store(hand) /\ answer' = "accepted"
       \/ ~Valid(hand) /\ answer' = "refused" /\ UNCHANGED records
    /\ UNCHANGED <<clock, machine, launches, phase, since, sampler, hand, next, backlog, export, busy, streak>>

\* OtlpQueue::try_export: a full channel drops the copy.
TryExport == copies' = IF Len(copies) < Queue THEN Append(copies, hand) ELSE copies

\* send_unionc has returned Ok.
Delivered ==
    /\ Sending /\ answer = "accepted"
    /\ answer' = "none" /\ hand' = NoReport
    /\ TryExport
    /\ \/ /\ phase = "send"
          /\ Succeeds
          /\ streak' = Min({2, streak + 1})
          /\ UNCHANGED <<spool, batch>>
       \/ /\ phase = "replay"
          /\ spool' = spool \ {hand} /\ batch' = batch + 1
          /\ phase' = "flush"
          /\ UNCHANGED <<since, retryAt, backoff, streak>>
    /\ UNCHANGED <<clock, machine, launches, sampler, next, copied, records, busy>>

\* ... or Err: refused, or the request or its answer is lost.
SendFails ==
    /\ Sending
    /\ answer' = "none" /\ hand' = NoReport /\ streak' = 0
    /\ spool' = spool \cup {hand}
    /\ Sleeps
    /\ \E d \in Spread(backoff) : retryAt' = now + d
    /\ backoff' = Min({2 * backoff, MaxBackoff})
    /\ UNCHANGED <<clock, machine, launches, sampler, next, batch, export, records, busy>>

\* The worker of OtlpQueue sends the next copy, whenever it gets to it.
Export ==
    /\ copies # <<>>
    /\ copied' = Points(Head(copies)) /\ copies' = Tail(copies)
    /\ UNCHANGED <<clock, machine, launches, phase, since, answer, sampler, hand, next, backlog, records,
                   busy, streak>>

\* The process ends, or the machine does and starts anew.
EndService ==
    /\ phase # "down"
    /\ phase' = "down" /\ since' = 0 /\ answer' = "none" /\ hand' = NoReport
    /\ sampled' = 0 /\ slow' = Never /\ sensors' = {}
    /\ batch' = 0 /\ retryAt' = 0 /\ backoff' = 1
    /\ copies' = <<>> /\ busy' = 0 /\ streak' = 0
    /\ \/ UNCHANGED machine
       \/ boot' = now /\ total' = 0
    /\ UNCHANGED <<clock, launches, next, spool, copied, records>>

\* Time passes; no timer is overdue.
Tick ==
    /\ now < MaxTime
    /\ phase # "flush"
    /\ phase = "sleep" => now < since
    /\ Sending => now < since + Timeout
    /\ now' = now + 1
    /\ busy' = IF Sending \/ (phase = "warmup" /\ now >= since) THEN busy + 1 ELSE busy
    /\ UNCHANGED <<ahead, back, machine, launches, phase, since, answer, sampler, hand, next, backlog,
                   export, records, streak>>

TelemetryNext ==
    \/ StartService \/ Enrolled \/ Replay \/ Flushed \/ Serve \/ Delivered \/ SendFails
    \/ Export \/ EndService \/ Tick
    \/ \E reading \in Readings, bytes \in Traffic, wall \in Clocks : Collect(reading, bytes, wall)

TelemetrySpec == TelemetryInit /\ [][TelemetryNext]_telemetryVars

-----------------------------------------------------------------------------
\* A reading whose numbers contradict each other or that names nothing.
Consistent(r) ==
    /\ r.memory.used <= r.memory.total
    /\ \A d \in r.disks : d.name # "" /\ d.available <= d.total
    /\ \A celsius \in r.sensors : celsius \in -273 .. 1000
    /\ \A g \in r.gpus : g.utilization <= 100 /\ g.used <= g.total

\* HAZARD: agent and server are configured apart, and the server refuses a report for
\* its contents for ever.  It refuses one only if the clock of the machine was too
\* far ahead, the operating system contradicted itself, or the agent spent so long
\* enrolling or sending since the sample before that the interval became too long.
RefusedHasCause ==
    answer = "refused" =>
        \/ hand.collected > hand.made + Early
        \/ ~Consistent(hand)
        \/ Warmup + hand.busy + Max(Spread(Interval)) > Longest

\* Jitter and timeout leave the factor of 3 its room: the longest silence of a service whose
\* reports are answered, against the interval of the shortest.
HasRoom ==
    Max(Spread(Interval)) + 2 * Timeout <=
        Max({3 * Max({Least, Min({Longest, Min(Spread(Interval))})}), OnlineFor})

\* HAZARD: the server judges from the interval of the newest report how long silence
\* may last, and the agent jitters, waits for answers and starts with a short
\* interval.  A host whose last reports were delivered at once is online, if no clock
\* was set back.
HealthyIsOnline ==
    (HasRoom /\ streak = 2 /\ ~back) => Status = "online"

\* HAZARD: copies come from fresh reports and from the backlog, through restarts of
\* the agent and of the machine.  The points of a series go forward in time, and a
\* counter falls only to a start that is later than the points before.
SeriesGoForward ==
    \A p \in copied, q \in copied' :
        (p.series = q.series /\ ~back') =>
            /\ p.time <= q.time
            /\ (p.start > 0 /\ q.value < p.value) => q.start >= p.time
CopiesGoForward == [][SeriesGoForward]_telemetryVars

\* HAZARD: sums over devices and caches of sensors.  What is shown of a host is in
\* the range of its unit, whatever the operating system said.
ShownInRange ==
    host.latest # NoReport =>
        LET shown == Summary(host.latest) IN
        /\ {shown.memory, shown.gpu, shown.gpuMemory} \subseteq {Never} \cup 0 .. 100
        /\ shown.celsius \in {Never} \cup -273 .. 1000
        /\ shown.received \in Nat

\* A report is refused only for a reason, one that is taken shows nothing that is out of
\* range, and a host whose reports arrive is shown online (report_metrics, host_status).
ReportsAreJudged == RefusedHasCause /\ ShownInRange /\ HealthyIsOnline
=============================================================================
