----------------------------- MODULE RequestGate -----------------------------
(***************************************************************************)
(* The way of a request of the console to its handler                      *)
(* (routes/access_control.rs), with the handlers that decide who comes     *)
(* through next: login and logout (routes/auth.rs) and the tickets of the  *)
(* event stream (routes/system.rs).  The copy in unionc names other routes *)
(* that need the database.                                                 *)
(*                                                                         *)
(* A step is the code between two awaits.  Only a ping of the database     *)
(* takes time, up to MaxPing; the other locks are held for no time.        *)
(* Whether a password is right is left to AuthSessions.                    *)
(***************************************************************************)
EXTENDS Integers, FiniteSets

CONSTANTS
    Clients,     \* requests under way
    Bearers,     \* session tokens, each given out once: a UUID
    Keys,        \* tickets, likewise
    Nothing,     \* no cookie, no ticket
    HealthTTL,   \* DATABASE_HEALTH_TTL
    TicketLife,  \* 60 s
    SessionLife, \* 7 days
    MaxPing,     \* bound: how long a ping takes
    MaxTime      \* bound

ASSUME GateAssumption ==
    /\ Nothing \notin Bearers \cup Keys
    /\ HealthTTL \in Nat \ {0}
    /\ {TicketLife, SessionLife, MaxPing, MaxTime} \subseteq Nat

VARIABLES
    now,
    production,  \* Settings.production
    reachable,   \* the database answers
    request,     \* request[c]: what c asks, and the await it stands at
    stored,      \* AuthenticationState.sessions: tokens stored
    expires,     \* expires[t]: LocalSession.expires_at
    tickets,     \* AuthenticationState.sse_tickets: tickets stored
    issued,      \* issued[k]: when ticket k was issued
    health,      \* AppState.database_health
    left,        \* history: left[t]: when t was logged out
    holder,      \* history: holder[k]: the session that asked for ticket k
    streams,     \* history: streams[k]: event streams that k has opened
    other        \* history: when the database last did otherwise than now

auth == <<stored, expires, left>>
events == <<tickets, issued, holder, streams>>
database == <<reachable, other>>
gateVars == <<now, production, database, request, auth, events, health>>

\* An instant before all that matter.
Never == 0 - (HealthTTL + MaxPing + 1)

\* One route of each kind: without a session (login stands for basic_login too), without
\* the database, and with both.
Public == {"/api/auth/login"}
Paths == Public \cup {"/api/auth/logout", "/api/auth/me", "/api/blog/build",
                      "/api/events/ticket", "/api/events"}
RequiresDatabase(path) == path \in {"/api/events", "/api/events/ticket", "/api/blog/build"}
IsStateChanging(path) ==
    path \in {"/api/auth/login", "/api/auth/logout", "/api/blog/build", "/api/events/ticket"}

Idle == [at |-> "idle", path |-> "/api/blog/build", token |-> Nothing, key |-> Nothing,
         since |-> 0, sample |-> FALSE]
NoHealth == [at |-> Never, available |-> FALSE]

GateInit ==
    /\ now = 0
    /\ production \in BOOLEAN
    /\ reachable \in BOOLEAN
    /\ other = Never
    /\ request = [c \in Clients |-> Idle]
    /\ stored = {} /\ expires = [t \in Bearers |-> Never] /\ left = [t \in Bearers |-> MaxTime + 1]
    /\ tickets = {} /\ issued = [k \in Keys |-> Never] /\ holder = [k \in Keys |-> Nothing]
    /\ streams = [k \in Keys |-> 0]
    /\ health = NoHealth

Goes(c, at) == request' = [request EXCEPT ![c].at = at]
Ends(c) == request' = [request EXCEPT ![c] = Idle]

-----------------------------------------------------------------------------
(* The gate. *)

\* __Host-session comes before session, whatever their order in the header.
SessionCookie(cookies) == IF cookies.host # Nothing THEN cookies.host ELSE cookies.plain

Enter(c, path, token, key) ==
    request' = [request EXCEPT ![c] = [Idle EXCEPT !.at = "database", !.path = path,
                                                   !.token = token, !.key = key]]

\* require_auth up to the check of the database; what comes before the first lock is the
\* request's own.  local_session_user sweeps the expired sessions, then looks the token up.
\* Without a cookie the request is answered.
Unexpired == {t \in stored : expires[t] > now}
Lookup(c, path, cookies) ==
    /\ request[c].at = "idle"
    /\ path \notin Public
    /\ SessionCookie(cookies) # Nothing
    /\ stored' = Unexpired
    /\ IF SessionCookie(cookies) \in Unexpired
       THEN Enter(c, path, SessionCookie(cookies), Nothing)
       ELSE UNCHANGED request
    /\ UNCHANGED <<now, production, database, expires, left, events, health>>

\* authenticate_sse: the ticket is gone, whatever comes of the request.
\* Mutant Redeem_Kept: it stays until it is purged.
Redeem_Kept(c, key) ==
    /\ request[c].at = "idle"
    /\ key \in tickets /\ now - issued[key] < TicketLife
    /\ Enter(c, "/api/events", Nothing, key)
    /\ UNCHANGED <<now, production, database, auth, events, health>>
Redeem(c, key) ==
    /\ request[c].at = "idle"
    /\ tickets' = tickets \ {key}
    /\ IF key \in tickets /\ now - issued[key] < TicketLife
       THEN Enter(c, "/api/events", Nothing, key)
       ELSE UNCHANGED request
    /\ UNCHANGED <<now, production, database, auth, issued, holder, streams, health>>

\* ensure_csrf_protected: without X-CSRF-Token nothing is changed by cookie.  Whether the
\* client sent one is settled when it is looked at.
PassOn(c) ==
    \/ Goes(c, "run")
    \/ request[c].token # Nothing /\ IsStateChanging(request[c].path) /\ Ends(c)
Decide(c, available) == IF available THEN PassOn(c) ELSE Ends(c)

StartPing(c) == request' = [request EXCEPT ![c].at = "ping", ![c].since = now]

\* ensure_database_available, where the answer of the last ping is used.
CheckDatabase(c) ==
    /\ request[c].at = "database"
    /\ IF ~RequiresDatabase(request[c].path) THEN PassOn(c)
       ELSE IF now - health.at < HealthTTL THEN Decide(c, health.available)
       ELSE StartPing(c)
    /\ UNCHANGED <<now, production, database, auth, events, health>>

\* The database answers some time during the ping.
Ping(c) ==
    /\ request[c].at = "ping"
    /\ request' = [request EXCEPT ![c].at = "store", ![c].sample = reachable]
    /\ UNCHANGED <<now, production, database, auth, events, health>>

\* The answer is dated when it is stored, over one of a ping that began later.
StoreHealth(c) ==
    /\ request[c].at = "store"
    /\ health' = [at |-> now, available |-> request[c].sample]
    /\ Decide(c, request[c].sample)
    /\ UNCHANGED <<now, production, database, auth, events>>

-----------------------------------------------------------------------------
(* The handlers. *)

\* In production through the HTTPS proxy only.
MayLogIn(https) == production => https

\* login and basic_login, which pass the gate as they are.  create_login_response sweeps.
CreateLoginResponse(https) ==
    /\ MayLogIn(https)
    /\ \E t \in Bearers :
          /\ expires[t] = Never
          /\ stored' = Unexpired \cup {t}
          /\ expires' = [expires EXCEPT ![t] = now + SessionLife]
    /\ UNCHANGED <<now, production, database, request, left, events, health>>

\* The token of the cookie is removed, were it another's by now or none's.
LogOut(c) ==
    /\ request[c].at = "run" /\ request[c].path = "/api/auth/logout"
    /\ stored' = stored \ {request[c].token}
    /\ left' = [left EXCEPT ![request[c].token] = IF @ < now THEN @ ELSE now]
    /\ Ends(c)
    /\ UNCHANGED <<now, production, database, expires, events, health>>

\* me looks its session up a second time.
Me(c) ==
    /\ request[c].at = "run" /\ request[c].path = "/api/auth/me"
    /\ stored' = Unexpired
    /\ Ends(c)
    /\ UNCHANGED <<now, production, database, expires, left, events, health>>

IssueTicket(c) ==
    /\ request[c].at = "run" /\ request[c].path = "/api/events/ticket"
    /\ \E k \in Keys :
          /\ issued[k] = Never
          /\ tickets' = {j \in tickets : now - issued[j] < TicketLife} \cup {k}
          /\ issued' = [issued EXCEPT ![k] = now]
          /\ holder' = [holder EXCEPT ![k] = request[c].token]
    /\ Ends(c)
    /\ UNCHANGED <<now, production, database, auth, streams, health>>

\* The stream goes on until its client leaves; nothing is looked up again.
OpenStream(c) ==
    /\ request[c].at = "run" /\ request[c].path = "/api/events"
    /\ streams' = [k \in Keys |-> streams[k] + (IF k = request[c].key THEN 1 ELSE 0)]
    /\ Ends(c)
    /\ UNCHANGED <<now, production, database, auth, tickets, issued, holder, health>>

\* Any other handler.
Run(c) ==
    /\ request[c].at = "run" /\ request[c].path = "/api/blog/build"
    /\ Ends(c)
    /\ UNCHANGED <<now, production, database, auth, events, health>>

-----------------------------------------------------------------------------
\* The client leaves; only a ping leaves it the time to.
Drop(c) ==
    /\ request[c].at = "ping"
    /\ Ends(c)
    /\ UNCHANGED <<now, production, database, auth, events, health>>

\* The database goes and comes back as it likes.
TimePasses ==
    /\ now < MaxTime
    /\ \A c \in Clients : \/ request[c].at = "idle"
                          \/ request[c].at \in {"ping", "store"} /\ now - request[c].since < MaxPing
    /\ now' = now + 1
    /\ reachable' \in BOOLEAN
    /\ other' = (IF reachable' = reachable THEN other ELSE now)
    /\ UNCHANGED <<production, request, auth, events, health>>

\* What a client may send: tokens and tickets that were given out.
Given == {t \in Bearers : expires[t] # Never}
\* Bound: no more requests for a ticket than there are tickets to give out.
Asked ==
    {path \in Paths :
        path = "/api/events/ticket" =>
            Cardinality({c \in Clients : request[c].at # "idle" /\ request[c].path = path})
                < Cardinality({k \in Keys : issued[k] = Never})}
Sent == {[host |-> h, plain |-> p] : h \in Given \cup {Nothing}, p \in Given \cup {Nothing}}

GateNext ==
    \/ \E c \in Clients :
          \/ \E path \in Asked, cookies \in Sent : Lookup(c, path, cookies)
          \/ \E k \in Keys : issued[k] # Never /\ Redeem(c, k)
          \/ CheckDatabase(c) \/ Ping(c) \/ StoreHealth(c)
          \/ LogOut(c) \/ Me(c) \/ IssueTicket(c) \/ OpenStream(c) \/ Run(c) \/ Drop(c)
    \/ \E https \in BOOLEAN : CreateLoginResponse(https)
    \/ TimePasses

GateSpec == GateInit /\ [][GateNext]_gateVars

-----------------------------------------------------------------------------
\* A session was open at the instant: neither logged out nor past its 7 days.
OpenAt(t, instant) == expires[t] > instant /\ left[t] >= instant

LastUp == IF reachable THEN now ELSE other
LastDown == IF reachable THEN other ELSE now
Enters(c) == request[c].at # "run" /\ request'[c].at = "run"
RefusedForDatabase(c) ==
    /\ request[c].at \in {"database", "store"} /\ request'[c].at = "idle"
    /\ RequiresDatabase(request[c].path)
    /\ ~(IF request[c].at = "store" THEN request[c].sample ELSE health.available)

\* HAZARD: the session is looked up before a ping and used after it.  A handler runs for
\* a session that was open no longer ago than a ping takes.
SessionsAreRecent ==
    \A c \in Clients :
        Enters(c) /\ request'[c].token # Nothing => OpenAt(request'[c].token, now - MaxPing)

\* HAZARD: two requests bring one ticket, a ticket is kept for later.  A ticket opens one
\* stream, within 60 s of its issue, to one who had a session then.
TicketsAreSpent ==
    /\ \A k \in Keys : streams'[k] <= 1
    /\ \A c \in Clients : Enters(c) /\ request'[c].key # Nothing =>
          /\ now - issued[request'[c].key] < TicketLife + MaxPing
          /\ OpenAt(holder[request'[c].key], issued[request'[c].key] - MaxPing)

\* HAZARD: answers of pings that overlap are stored in the order they end, each dated by its
\* end.  A request is let through, or refused, for what the database did at most one
\* life of the cache and one ping before.
HealthIsRecent ==
    \A c \in Clients :
        /\ Enters(c) /\ RequiresDatabase(request'[c].path) => now - LastUp < HealthTTL + MaxPing
        /\ RefusedForDatabase(c) => now - LastDown < HealthTTL + MaxPing

GateIsSound == [][SessionsAreRecent /\ TicketsAreSpent /\ HealthIsRecent]_gateVars
=============================================================================
