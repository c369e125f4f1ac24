-------------------------- MODULE AgentEnrollment --------------------------
(***************************************************************************)
(* How an agent gets the token of its host (unionc-agent: transport.rs,    *)
(* main.rs; unionc: routes/monitoring.rs, database/monitoring.rs).         *)
(*                                                                         *)
(* A machine keeps a secret of its own and, once enrolled, a token; the    *)
(* service and `unionc-agent once` may run on it side by side.  The server *)
(* keeps one row for the host id: the secret of the machine that came      *)
(* first, and the last token it gave out.  Another machine may come with   *)
(* the same host id.  Secrets and tokens are random: here, numbers never   *)
(* used before.                                                            *)
(***************************************************************************)
EXTENDS AgentHosts

VARIABLES
    pc,           \* pc[p]: where process p stands in for_host
    secret,       \* secret[p]: the enrollment secret it has read or made
    token,        \* token[p]: the token it was given or has read
    secretFile,   \* secretFile[m]: state_dir/enrollment-secret
    tokenFile,    \* tokenFile[m]: state_dir/agent-token
    rowSecret,    \* monitored_hosts.enrollment_secret_hash
    rowToken,     \* monitored_hosts.agent_token_hash
    late,         \* the secrets of requests that were given up and may still be served
    fresh,        \* the last number used
    made,         \* history: made[m]: the secrets made on machine m
    overtaken     \* history: whether the last registration was one given up before

process == <<pc, secret, token>>
disk == <<secretFile, tokenFile>>
row == <<rowSecret, rowToken>>
vars == <<process, disk, row, late, fresh, made, overtaken>>

Absent == 0
Numbers == 1 .. MaxFresh
Pcs == {"off", "load", "secret", "make", "sent", "answered", "failed", "ready"}

-----------------------------------------------------------------------------
Init ==
    /\ pc = [p \in Processes |-> "off"]
    /\ secret = [p \in Processes |-> Absent]
    /\ token = [p \in Processes |-> Absent]
    /\ secretFile = [m \in Machines |-> Absent]
    /\ tokenFile = [m \in Machines |-> Absent]
    /\ rowSecret = Absent /\ rowToken = Absent
    /\ late = {}
    /\ fresh = 0
    /\ made = [m \in Machines |-> {}]
    /\ overtaken = FALSE

At(p, here) == pc[p] = here
Goes(p, there) == pc' = [pc EXCEPT ![p] = there]
SecretOf(p) == secretFile[MachineOf[p]]
TokenOf(p) == tokenFile[MachineOf[p]]
Makes(n) == fresh < MaxFresh /\ n = fresh + 1 /\ fresh' = n

Start(p) ==
    /\ At(p, "off")
    /\ Goes(p, "load")
    /\ UNCHANGED <<secret, token, disk, row, late, fresh, made, overtaken>>

\* Mutant: every start asks for a token.
Load_Anew(p) ==
    /\ At(p, "load")
    /\ Goes(p, "secret")
    /\ UNCHANGED <<secret, token, disk, row, late, fresh, made, overtaken>>

\* A token that is there is used; whether the server still knows it is never asked.
Load(p) ==
    /\ At(p, "load")
    /\ IF TokenOf(p) # Absent
         THEN Goes(p, "ready") /\ token' = [token EXCEPT ![p] = TokenOf(p)]
         ELSE Goes(p, "secret") /\ UNCHANGED token
    /\ UNCHANGED <<secret, disk, row, late, fresh, made, overtaken>>

FindSecret(p) ==
    /\ At(p, "secret")
    /\ IF SecretOf(p) # Absent
         THEN Goes(p, "sent") /\ secret' = [secret EXCEPT ![p] = SecretOf(p)]
         ELSE Goes(p, "make") /\ UNCHANGED secret
    /\ UNCHANGED <<token, disk, row, late, fresh, made, overtaken>>

MakesSecret(p, n) ==
    /\ At(p, "make")
    /\ Makes(n)
    /\ secret' = [secret EXCEPT ![p] = n]
    /\ made' = [made EXCEPT ![MachineOf[p]] = @ \cup {n}]
    /\ Goes(p, "sent")

\* Mutant: the secret is not kept.
MakeSecret_Unsaved(p) ==
    /\ \E n \in Numbers : MakesSecret(p, n)
    /\ UNCHANGED <<token, disk, row, late, overtaken>>

\* The secret is on disk before the first request that carries it.
MakeSecret(p) ==
    /\ \E n \in Numbers :
         /\ MakesSecret(p, n)
         /\ secretFile' = [secretFile EXCEPT ![MachineOf[p]] = n]
    /\ UNCHANGED <<token, tokenFile, row, late, overtaken>>

\* Mutant: a registered host is handed to whoever asks.
Admits_Anyone(s) == s # Absent

\* INSERT ... ON CONFLICT DO UPDATE ... WHERE the secret is that of the row.
Admits(s) == rowSecret \in {Absent, s}

\* register_monitoring_host gives out token n.
Registers(s, n) ==
    /\ Admits(s)
    /\ Makes(n)
    /\ rowSecret' = IF rowSecret = Absent THEN s ELSE rowSecret
    /\ rowToken' = n

Register(p) ==
    /\ At(p, "sent")
    /\ \E n \in Numbers : Registers(secret[p], n) /\ token' = [token EXCEPT ![p] = n]
    /\ Goes(p, "answered")
    /\ overtaken' = FALSE
    /\ UNCHANGED <<secret, disk, late, made>>

\* 409 for a foreign secret; 401, 429, 503 and the like for any request.
Refuse(p) ==
    /\ At(p, "sent")
    /\ Goes(p, "failed")
    /\ UNCHANGED <<secret, token, disk, row, late, fresh, made, overtaken>>

Persist(p) ==
    /\ At(p, "answered")
    /\ tokenFile' = [tokenFile EXCEPT ![MachineOf[p]] = token[p]]
    /\ Goes(p, "ready")
    /\ UNCHANGED <<secret, token, secretFile, row, late, fresh, made, overtaken>>

\* The service tries again from the start of for_host; `once` ends (Ends).
Retry(p) ==
    /\ At(p, "failed")
    /\ Goes(p, "load")
    /\ UNCHANGED <<secret, token, disk, row, late, fresh, made, overtaken>>

\* The server may not have seen the end of a request whose connection is gone.
Abandon(p) ==
    \/ UNCHANGED late
    \/ At(p, "sent") /\ late' = late \cup {secret[p]}

\* Ten seconds have passed, the request or its answer is lost, a file is not read or written.
GiveUp(p) ==
    /\ pc[p] \in {"load", "secret", "make", "sent", "answered"}
    /\ Goes(p, "failed")
    /\ Abandon(p)
    /\ UNCHANGED <<secret, token, disk, row, fresh, made, overtaken>>

Ends(p) ==
    /\ ~At(p, "off")
    /\ Goes(p, "off")
    /\ Abandon(p)
    /\ UNCHANGED <<secret, token, disk, row, fresh, made, overtaken>>

RegisterLate(s) ==
    /\ s \in late
    /\ late' = late \ {s}
    /\ \E n \in Numbers : Registers(s, n)
    /\ overtaken' = TRUE
    /\ UNCHANGED <<process, disk, made>>

-----------------------------------------------------------------------------
Step(p) ==
    \/ Start(p) \/ Load(p) \/ FindSecret(p) \/ MakeSecret(p)
    \/ Register(p) \/ Refuse(p) \/ Persist(p) \/ Retry(p)
    \/ GiveUp(p) \/ Ends(p)

Next ==
    \/ \E p \in Processes : Step(p)
    \/ \E s \in Numbers : RegisterLate(s)

Spec == Init /\ [][Next]_vars

-----------------------------------------------------------------------------
TypeOK ==
    /\ pc \in [Processes -> Pcs]
    /\ secret \in [Processes -> 0 .. MaxFresh]
    /\ token \in [Processes -> 0 .. MaxFresh]
    /\ secretFile \in [Machines -> 0 .. MaxFresh]
    /\ tokenFile \in [Machines -> 0 .. MaxFresh]
    /\ rowSecret \in 0 .. MaxFresh /\ rowToken \in 0 .. MaxFresh
    /\ late \subseteq Numbers
    /\ fresh \in 0 .. MaxFresh
    /\ made \in [Machines -> SUBSET Numbers]
    /\ overtaken \in BOOLEAN

Alone(m) == \A p, q \in Processes : MachineOf[p] = m /\ MachineOf[q] = m => p = q

\* "阻止仅持共享部署 token 的其他主机接管已有 host-id" (unionc/agent/README.md:58): the machine
\* that keeps a token, or is about to, is the one that registered the host, however
\* requests of machines with one host id, given up or not, follow each other.
HostBelongsToOne ==
    \A m \in Machines :
        \/ tokenFile[m] # Absent
        \/ \E p \in Processes : MachineOf[p] = m /\ At(p, "answered")
        => rowSecret \in made[m]

\* "它使注册响应丢失后的重试保持幂等" (unionc/agent/README.md:58): the machine that registered
\* the host still has the proof the server asks for, so that it can register again
\* whatever answers were lost and wherever its process ended.  Two processes that
\* find no secret at the same time may each make one, and the second may be kept.
ProofIsKept ==
    \A m \in Machines : Alone(m) /\ rowSecret \in made[m] => secretFile[m] = rowSecret

\* HAZARD: an agent never asks again for the token it keeps.  The server accepts that
\* token, unless a request given up before, or another process of the machine, has
\* been answered with a new one.
KeptTokenIsAccepted ==
    \A m \in Machines : Alone(m) /\ tokenFile[m] # Absent =>
        tokenFile[m] = rowToken \/ overtaken
=============================================================================
