---------------------------- MODULE HostKeySystem -----------------------------
(***************************************************************************)
(* The two components that meet in known_hosts: calls of trust_host_key,   *)
(* which rewrite it, and device commands, which read it before they hand   *)
(* credentials to a device.  They share currentOptions, the file and the   *)
(* devices, and nothing orders their steps.                                *)
(***************************************************************************)
EXTENDS TrustHostKey

CONSTANTS Runs, Methods, AgentConns

ASSUME SysRunsAssumption == Runs \cap {"free", "leaked"} = {}
ASSUME SysMethodsAssumption == Methods \subseteq {"publickey", "password"}

VARIABLES runPc, runHost, snapshot, accepted, methods, agentConn, sent, seen

Run == INSTANCE RunSession WITH EnvFiles <- BaseFiles

runVars == <<runPc, runHost, snapshot, accepted, methods, agentConn, sent>>
sysVars == <<vars, runVars, seen>>

SysInit == Init /\ Run!RunInit

TrustStep == Next /\ UNCHANGED runVars

RunStep ==
    /\ (\E r \in Runs : Run!RunStep(r)) \/ Run!Collect
    /\ UNCHANGED <<serverVars, history>>

\* seen follows what the finished calls of trust_host_key left trusted, not
\* the file, which may be half-way through a rewrite.
SysNext ==
    /\ TrustStep \/ RunStep
    /\ seen' = Run!Observed(TrustedPairs(ideal), TrustedPairs(ideal'))

SysSpec == SysInit /\ [][SysNext]_sysVars

\* Where the calls take turns; the runs never wait for them.
SysInTurnSpec == SysInit /\ [][SysNext /\ [InTurn]_vars]_sysVars

-----------------------------------------------------------------------------
VouchesFor(l, p) == l.marker = "none" /\ p[1] \in l.covers /\ l.key = p[2]

\* While the check is on, credentials and commands go only to a host and key
\* that a line of the initial file, of another program, or of a confirmed
\* trust_host_key call vouches for: inspections, refused replacements, torn
\* and half-written files never open a device to the server.
SentOnlyWhereVouched ==
    ~options.insecureSkip =>
        \A p \in sent : \E l \in Vouched : VouchesFor(l, p)

\* A command started after a call replaced its host's key is never run
\* against the old key: the key it accepts was trusted, by what the finished
\* calls left, at some moment since it began.
ReplacedKeyNotUsed == Run!VerifiedDuringRun
=============================================================================
