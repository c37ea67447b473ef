------------------------------ MODULE RunSession ------------------------------
(***************************************************************************)
(* One device command: runSessionCommand of internal/sshclient/client.go,  *)
(* on behalf of the show, config, ping and traceroute tools.  The file is  *)
(* parsed when the host key callback is built, before the dial; the key is *)
(* checked against that snapshot during the handshake, which is before     *)
(* any credential is offered.  Meanwhile anything may happen to the file   *)
(* and to the device.                                                      *)
(***************************************************************************)
EXTENDS KnownHosts

CONSTANTS
    Runs,      \* command executions in progress at the same time
    EnvFiles,  \* standalone: the contents the file may take
    Methods,   \* methods to consider: "publickey" (an agent), "password"
    AgentConns \* the connections to the agent that may be open at a time

ASSUME EnvFilesAssumption == EnvFiles \subseteq File
ASSUME RunsAssumption == Runs \cap {"free", "leaked"} = {}
ASSUME MethodsAssumption == Methods \subseteq {"publickey", "password"}

VARIABLES
    options,    \* currentOptions
    file,       \* the known_hosts file
    device,     \* the key each host presents
    runPc,      \* where each run is
    runHost,    \* ConnConfig.Host
    snapshot,   \* the file as knownhosts.New parsed it
    accepted,   \* the key the handshake accepted
    methods,    \* authentication methods it has and has not tried yet
    agentConn,  \* whose each connection to the agent is, or was

    \* History variables: no step of a run reads them.
    sent,       \* (host, key) pairs a credential or a command was given to
    seen        \* the pairs that some state of the run has had trusted

runVars == <<runPc, runHost, snapshot, accepted, methods, agentConn, sent>>
vars == <<options, file, device, runVars, seen>>

Pairs == Hosts \X Keys

Configured ==
    {o \in [insecureSkip: BOOLEAN, pathSet: BOOLEAN] : o.insecureSkip \/ o.pathSet}

RunTypeOK ==
    /\ runPc \in [Runs -> {"idle", "methods", "callback", "dial", "authenticate",
                           "session", "exec"}]
    /\ runHost \in [Runs -> Hosts \cup {None}]
    /\ snapshot \in [Runs -> File]
    /\ accepted \in [Runs -> Keys \cup {None}]
    /\ methods \in [Runs -> SUBSET Methods]
    /\ agentConn \in [AgentConns -> Runs \cup {"free", "leaked"}]
    /\ sent \subseteq Pairs
    /\ seen \in [Runs -> SUBSET Pairs]

TypeOK ==
    /\ options \in Configured
    /\ file \in File
    /\ device \in [Hosts -> Keys]
    /\ RunTypeOK

RunInit ==
    /\ runPc = [r \in Runs |-> "idle"]
    /\ runHost = [r \in Runs |-> None]
    /\ snapshot = [r \in Runs |-> NoFile]
    /\ accepted = [r \in Runs |-> None]
    /\ methods = [r \in Runs |-> {}]
    /\ agentConn = [n \in AgentConns |-> "free"]
    /\ sent = {}
    /\ seen = [r \in Runs |-> {}]

-----------------------------------------------------------------------------
(***************************************************************************)
(* A run.                                                                  *)
(***************************************************************************)

BeginRun(r, h) ==
    /\ runPc[r] = "idle"
    /\ runPc' = [runPc EXCEPT ![r] = "methods"]
    /\ runHost' = [runHost EXCEPT ![r] = h]
    /\ UNCHANGED <<options, file, device, snapshot, accepted, methods, agentConn, sent>>

\* The deferred closes run, and the call has its result or its error.  None of
\* them closes the connection to the agent.
EndRun(r) ==
    /\ runPc' = [runPc EXCEPT ![r] = "idle"]
    /\ runHost' = [runHost EXCEPT ![r] = None]
    /\ snapshot' = [snapshot EXCEPT ![r] = NoFile]
    /\ accepted' = [accepted EXCEPT ![r] = None]
    /\ methods' = [methods EXCEPT ![r] = {}]
    /\ agentConn' = [n \in AgentConns |->
                        IF agentConn[n] = r THEN "leaked" ELSE agentConn[n]]
    /\ UNCHANGED <<options, file, device>>

AgentFree == \E n \in AgentConns : agentConn[n] = "free"

\* No agent may be configured, its socket may be dead or its connections used
\* up, and DEVICE_PASSWORD is set or it is not.
Available == SUBSET (IF AgentFree THEN Methods ELSE Methods \ {"publickey"})

NoAuthMethod(r) ==
    /\ runPc[r] = "methods"
    /\ {} \in Available
    /\ EndRun(r)
    /\ UNCHANGED sent

BuildAuthMethods(r) ==
    /\ runPc[r] = "methods"
    /\ \E ms \in Available \ {{}} :
           /\ methods' = [methods EXCEPT ![r] = ms]
           /\ IF "publickey" \in ms
              THEN \E n \in AgentConns :
                       agentConn[n] = "free" /\ agentConn' = [agentConn EXCEPT ![n] = r]
              ELSE UNCHANGED agentConn
    /\ runPc' = [runPc EXCEPT ![r] = "callback"]
    /\ UNCHANGED <<options, file, device, runHost, snapshot, accepted, sent>>

\* Without the check there is nothing to load.
BuildHostKeyCallback(r) ==
    /\ runPc[r] = "callback"
    /\ options.insecureSkip \/ (options.pathSet /\ Loadable(file))
    /\ snapshot' = [snapshot EXCEPT ![r] = IF options.insecureSkip THEN NoFile ELSE file]
    /\ runPc' = [runPc EXCEPT ![r] = "dial"]
    /\ UNCHANGED <<options, file, device, runHost, accepted, methods, agentConn, sent>>

\* A missing file, or one that does not parse, ends the run before the dial.
NoHostKeyCallback(r) ==
    /\ runPc[r] = "callback"
    /\ ~options.insecureSkip
    /\ ~options.pathSet \/ ~Loadable(file)
    /\ EndRun(r)
    /\ UNCHANGED sent

\* Mutant: a host without an entry is accepted.
TrustOnFirstUse(r, k) ==
    \/ options.insecureSkip
    \/ hostKeyStatus(snapshot[r], runHost[r], k) \in {"trusted", "unknown"}

HostKeyCallback(r, k) ==
    \/ options.insecureSkip
    \/ hostKeyStatus(snapshot[r], runHost[r], k) = "trusted"

\* gossh.Dial, up to the end of the key exchange.
HandshakeAccepts(r) ==
    LET k == device[runHost[r]] IN
    /\ runPc[r] = "dial"
    /\ HostKeyCallback(r, k)
    /\ accepted' = [accepted EXCEPT ![r] = k]
    /\ runPc' = [runPc EXCEPT ![r] = "authenticate"]
    /\ UNCHANGED <<options, file, device, runHost, snapshot, methods, agentConn, sent>>

HandshakeRefuses(r) ==
    /\ runPc[r] = "dial"
    /\ ~HostKeyCallback(r, device[runHost[r]])
    /\ EndRun(r)
    /\ UNCHANGED sent

\* Mutant: a method is offered before the key exchange is over.
OfferEarly(r, m) ==
    /\ runPc[r] \in {"dial", "authenticate"}
    /\ m \in methods[r]
    /\ methods' = [methods EXCEPT ![r] = @ \ {m}]
    /\ sent' = sent \cup {<<runHost[r], accepted[r]>>}
    /\ runPc' \in {runPc, [runPc EXCEPT ![r] = "session"]}
    /\ UNCHANGED <<options, file, device, runHost, snapshot, accepted, agentConn>>

\* gossh.Dial, after it: each method is offered once, the agent's keys first.
OfferMethod(r, m) ==
    /\ runPc[r] = "authenticate"
    /\ m \in methods[r]
    /\ m = "password" => "publickey" \notin methods[r]
    /\ methods' = [methods EXCEPT ![r] = @ \ {m}]
    /\ sent' = sent \cup {<<runHost[r], accepted[r]>>}
    /\ runPc' \in {runPc, [runPc EXCEPT ![r] = "session"]}
    /\ UNCHANGED <<options, file, device, runHost, snapshot, accepted, agentConn>>

OpenSession(r) ==
    /\ runPc[r] = "session"
    /\ runPc' = [runPc EXCEPT ![r] = "exec"]
    /\ UNCHANGED <<options, file, device, runHost, snapshot, accepted, methods, agentConn, sent>>

\* session.Output: the device has the command, whatever comes back.
Exec(r) ==
    /\ runPc[r] = "exec"
    /\ sent' = sent \cup {<<runHost[r], accepted[r]>>}
    /\ EndRun(r)

\* Mutant: a run that failed starts over, as often as it takes.
RetriesForEver(r) ==
    /\ runPc[r] \in {"dial", "authenticate", "session"}
    /\ runPc' = [runPc EXCEPT ![r] = "callback"]
    /\ accepted' = [accepted EXCEPT ![r] = None]
    /\ UNCHANGED <<options, file, device, runHost, snapshot, methods, agentConn, sent>>

\* The connection breaks, no method is accepted, no channel is opened.
RunFails(r) ==
    /\ runPc[r] \in {"dial", "authenticate", "session"}
    /\ EndRun(r)
    /\ UNCHANGED sent

\* A run in progress goes on.
RunProgress(r) ==
    \/ NoAuthMethod(r)
    \/ BuildAuthMethods(r)
    \/ BuildHostKeyCallback(r)
    \/ NoHostKeyCallback(r)
    \/ HandshakeAccepts(r)
    \/ HandshakeRefuses(r)
    \/ \E m \in Methods : OfferMethod(r, m)
    \/ OpenSession(r)
    \/ Exec(r)
    \/ RunFails(r)

RunStep(r) == (\E h \in Hosts : BeginRun(r, h)) \/ RunProgress(r)

\* Mutant: the clients are kept in a package variable.
NothingCollectable == {}

\* A leaked connection is only reachable from the methods of a run that ended.
Collectable == {n \in AgentConns : agentConn[n] = "leaked"}

\* The garbage collector finalises, and so closes, such connections.
Collect ==
    /\ \E n \in Collectable : agentConn' = [agentConn EXCEPT ![n] = "free"]
    /\ UNCHANGED <<options, file, device, runPc, runHost, snapshot, accepted, methods, sent>>

\* seen after a step from a state that trusts now to one that trusts next.
Observed(now, next) ==
    [r \in Runs |-> IF runPc'[r] = "idle" THEN {}
                    ELSE IF runPc[r] = "idle" THEN now \cup next
                    ELSE seen[r] \cup next]

-----------------------------------------------------------------------------
(***************************************************************************)
(* Runs alone, in any environment.                                         *)
(***************************************************************************)
Init ==
    /\ options \in Configured
    /\ file \in EnvFiles
    /\ device \in [Hosts -> Keys]
    /\ RunInit

FileChanges ==
    /\ file' \in EnvFiles \ {file}
    /\ UNCHANGED <<options, device, runVars>>

Rekey ==
    /\ \E h \in Hosts, k \in Keys :
           k # device[h] /\ device' = [device EXCEPT ![h] = k]
    /\ UNCHANGED <<options, file, runVars>>

Observing == seen' = Observed(TrustedPairs(file), TrustedPairs(file'))

Next ==
    /\ (\E r \in Runs : RunStep(r)) \/ Collect \/ FileChanges \/ Rekey
    /\ Observing

Spec == Init /\ [][Next]_vars

\* A run in progress goes on, which takes in that the device answers or drops
\* the connection, and the Go runtime collects garbage every two minutes.
FairSpec ==
    /\ Spec
    /\ \A r \in Runs : WF_vars(RunProgress(r) /\ Observing)
    /\ WF_vars(Collect /\ Observing)

-----------------------------------------------------------------------------
\* While the check is on, the key a connection goes on with is one the file
\* trusted for that very host at some moment since the run began: a replaced,
\* removed or revoked key is never used by a run that starts afterwards, nor
\* is a key whose vouching a half-written file only suggests.
VerifiedDuringRun ==
    ~options.insecureSkip =>
        \A r \in Runs : accepted[r] # None => <<runHost[r], accepted[r]>> \in seen[r]

\* Whatever fails on the way, and however the file and the device change under
\* it, a command comes to an end.
EveryRunEnds == \A r \in Runs : runPc[r] # "idle" ~> runPc[r] = "idle"

\* Connections to the agent are never closed, but they do not use it up for
\* good: again and again the next command can have one.
AgentFreeAgain == []<>AgentFree
=============================================================================
