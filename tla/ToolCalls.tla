------------------------------- MODULE ToolCalls ------------------------------
(***************************************************************************)
(* The handlers of get_config, run_show_command, run_ping and              *)
(* run_traceroute (internal/netdev/config.go, show.go, ping.go and         *)
(* traceroute.go), from the request to the reply, with the device that     *)
(* runs the lines of the script one by one.  A FortiOS device keeps the    *)
(* options of a diagnostic command between lines: per session or, for all  *)
(* sessions together, per device.  Calls run concurrently, each in an SSH  *)
(* session of its own, and a session may break at any line.  The device is *)
(* of the type that the request names, and obfuscation is on.              *)
(***************************************************************************)
EXTENDS DeviceCommands

CONSTANTS
    Calls,     \* tool calls in progress at the same time
    Hosts,     \* devices
    None,
    Requests   \* for each call, the requests it may make

\* A host stands for its address with the port; username is the parameter or,
\* where it is left out, DEVICE_USERNAME.
Texts == Plain \cup Unsafe \cup {Unset}
Amounts == Numbers \cup {Unset, "negative"}

GetConfigInput ==
    [tool: {"get_config"}, host: Hosts \cup {Unset}, username: STRING, device_type: STRING,
     config_type: STRING]

RunShowCommandInput ==
    [tool: {"run_show_command"}, host: Hosts \cup {Unset}, username: STRING,
     device_type: STRING, command: [words: Seq(STRING), wide: BOOLEAN]]

PingArgs == [destination: Texts, count: Amounts, size: Amounts, timeout: Amounts,
             source: Texts, vrf: Texts, outgoing_interface: Texts]

RunPingInput ==
    [tool: {"run_ping"}, host: Hosts \cup {Unset}, username: STRING, device_type: STRING,
     args: PingArgs]

TracerouteArgs == [destination: Texts, max_hops: Amounts, timeout: Amounts, probe: Amounts,
                   source: Texts, vrf: Texts, outgoing_interface: Texts]

RunTracerouteInput ==
    [tool: {"run_traceroute"}, host: Hosts \cup {Unset}, username: STRING,
     device_type: STRING, args: TracerouteArgs]

Request == GetConfigInput \cup RunShowCommandInput \cup RunPingInput \cup RunTracerouteInput

ASSUME CallsAssumption == Calls \cap Hosts = {} /\ Unset \notin Hosts
ASSUME RequestsAssumption == \A c \in Calls : Requests[c] \subseteq Request
ASSUME NoneAssumption == None \notin Request

VARIABLES
    scope,      \* where each device keeps options: its "session" or the "device"
    request,    \* the tool call being served
    script,     \* the commands built for it
    at,         \* 0 before the session is open, then the line the device runs next
    settings,   \* the options set, per table and call or host
    answer,     \* what the last reply of a call was

    \* History variable: tables that overlapping or broken calls have touched
    \* and no later call has put right.
    dirty

vars == <<scope, request, script, at, settings, answer, dirty>>

Tables == {"ping-options", "traceroute-options"}
Slots == (Calls \cup Hosts) \X Tables

-----------------------------------------------------------------------------
(***************************************************************************)
(* The handlers, up to runCommand or runCommands.                          *)
(***************************************************************************)
Addressed(q) ==
    /\ q.host # Unset
    /\ q.username # Unset
    /\ normalizeDeviceType(q.device_type) # "unknown"

NotNegative(a, params) == \A p \in params : a[p] # "negative"

GetConfig(q) ==
    IF Addressed(q) /\ normalizeConfigType(q.config_type) # "unknown"
    THEN buildConfigCommand(normalizeConfigType(q.config_type),
                            normalizeDeviceType(q.device_type))
    ELSE Refused

RunShowCommand(q) ==
    IF Addressed(q)
    THEN normalizeOperationalCommand(q.command, normalizeDeviceType(q.device_type))
    ELSE Refused

RunPing(q) ==
    IF /\ Addressed(q)
       /\ q.args.destination # Unset
       /\ NotNegative(q.args, {"count", "timeout", "size"})
    THEN buildPingCommands(q.args, normalizeDeviceType(q.device_type))
    ELSE Refused

RunTraceroute(q) ==
    IF /\ Addressed(q)
       /\ q.args.destination # Unset
       /\ NotNegative(q.args, {"max_hops", "timeout", "probe"})
    THEN buildTracerouteCommands(q.args, normalizeDeviceType(q.device_type))
    ELSE Refused

ScriptOf(q) ==
    CASE q.tool = "get_config"       -> GetConfig(q)
      [] q.tool = "run_show_command" -> RunShowCommand(q)
      [] q.tool = "run_ping"         -> RunPing(q)
      [] q.tool = "run_traceroute"   -> RunTraceroute(q)

\* Mutant: run_show_command answers as run_ping does.
OnlyConfigObfuscated(q) == IF q.tool = "get_config" THEN "hashed" ELSE "clear"

Answer(q) == IF q.tool \in {"get_config", "run_show_command"} THEN "hashed" ELSE "clear"

-----------------------------------------------------------------------------
(***************************************************************************)
(* The device.                                                             *)
(***************************************************************************)
IsOption(line) == line[1] = "execute" /\ line[2] \in Tables
IsReset(line) == IsOption(line) /\ line[3] = "reset"

Owner(c) == IF scope[request[c].host] = "session" THEN c ELSE request[c].host

Configured(set, line) ==
    IF IsReset(line) THEN {}
    ELSE {s \in set : s[1] # line[3]} \cup {<<line[3], line[4]>>}

\* The session of c is open and has lines still to run.
Running(c) == request[c] # None /\ at[c] \in DOMAIN script[c]

\* The options that the script of c sets and depends on.
SlotsOf(c) ==
    {<<Owner(c), script[c][i][2]>> : i \in {j \in DOMAIN script[c] : IsOption(script[c][j])}}

Uses(c, slot) == Running(c) /\ slot \in SlotsOf(c)

UsedByOther(c, slot) == \E d \in Calls \ {c} : Uses(d, slot)

-----------------------------------------------------------------------------
Init ==
    /\ scope \in [Hosts -> {"session", "device"}]
    /\ request = [c \in Calls |-> None]
    /\ script = [c \in Calls |-> Refused]
    /\ at = [c \in Calls |-> 0]
    /\ settings = [s \in Slots |-> {}]
    /\ answer = [c \in Calls |-> "none"]
    /\ dirty = {}

\* The arguments are checked before anything is sent.
Refuse(c, q) ==
    /\ request[c] = None
    /\ ScriptOf(q) = Refused
    /\ answer' = [answer EXCEPT ![c] = "error"]
    /\ UNCHANGED <<scope, request, script, at, settings, dirty>>

Accept(c, q) ==
    /\ request[c] = None
    /\ ScriptOf(q) # Refused
    /\ request' = [request EXCEPT ![c] = q]
    /\ script' = [script EXCEPT ![c] = ScriptOf(q)]
    /\ answer' = [answer EXCEPT ![c] = "none"]
    /\ UNCHANGED <<scope, at, settings, dirty>>

\* RunCommand, RunCommands: the whole script is one exec request.
Exec(c) ==
    /\ request[c] # None
    /\ at[c] = 0
    /\ at' = [at EXCEPT ![c] = 1]
    /\ dirty' = dirty \cup {slot \in SlotsOf(c) : UsedByOther(c, slot)}
    /\ UNCHANGED <<scope, request, script, settings, answer>>

\* The device runs one line.
RunLine(c) ==
    LET line == script[c][at[c]]
        slot == <<Owner(c), line[2]>>
    IN
    /\ Running(c)
    /\ settings' = IF IsOption(line)
                   THEN [settings EXCEPT ![slot] = Configured(@, line)] ELSE settings
    /\ dirty' = IF IsReset(line) /\ ~UsedByOther(c, slot) THEN dirty \ {slot} ELSE dirty
    /\ at' = [at EXCEPT ![c] = @ + 1]
    /\ UNCHANGED <<scope, request, script, answer>>

\* Mutant: the next call goes on where this one stopped.
EndSessionMidway(c) ==
    /\ request' = [request EXCEPT ![c] = None]
    /\ script' = [script EXCEPT ![c] = Refused]
    /\ settings' = [s \in Slots |-> IF s[1] = c THEN {} ELSE settings[s]]
    /\ UNCHANGED <<scope, at>>

\* What the session held goes with it.
EndSession(c) ==
    /\ request' = [request EXCEPT ![c] = None]
    /\ script' = [script EXCEPT ![c] = Refused]
    /\ at' = [at EXCEPT ![c] = 0]
    /\ settings' = [s \in Slots |-> IF s[1] = c THEN {} ELSE settings[s]]
    /\ UNCHANGED scope

Reply(c) ==
    /\ request[c] # None
    /\ at[c] = Len(script[c]) + 1
    /\ answer' = [answer EXCEPT ![c] = Answer(request[c])]
    /\ EndSession(c)
    /\ UNCHANGED dirty

\* The dial fails, the session breaks, or the output is lost.
Fail(c) ==
    /\ request[c] # None
    /\ answer' = [answer EXCEPT ![c] = "error"]
    /\ EndSession(c)
    /\ dirty' = dirty \cup {slot \in Hosts \X Tables : Uses(c, slot)}

Next ==
    \E c \in Calls :
        \/ \E q \in Requests[c] : Refuse(c, q) \/ Accept(c, q)
        \/ Exec(c)
        \/ RunLine(c)
        \/ Reply(c)
        \/ Fail(c)

Spec == Init /\ [][Next]_vars

-----------------------------------------------------------------------------
(***************************************************************************)
(* Properties.                                                             *)
(***************************************************************************)
TypeOK ==
    /\ scope \in [Hosts -> {"session", "device"}]
    /\ request \in [Calls -> Request \cup {None}]
    /\ script = [c \in Calls |-> IF request[c] = None THEN Refused ELSE ScriptOf(request[c])]
    /\ at \in [Calls -> Nat]
    /\ \A c \in Calls : at[c] <= IF request[c] = None THEN 0 ELSE Len(script[c]) + 1
    /\ answer \in [Calls -> {"none", "error", "hashed", "clear"}]
    /\ DOMAIN settings = Slots
    /\ dirty \subseteq Hosts \X Tables

Reads == {"show", "get"}
Probes == {"ping", "traceroute"}

OptionsOf == [ping |-> "ping-options", traceroute |-> "traceroute-options"]

IsRead(line) == line[1] \in Reads
IsProbe(line) == line[1] \in Probes \/ (line[1] = "execute" /\ line[2] \in Probes)

\* Filters that do something else than select or format output.
WritingFilters == {"save", "redirect", "tee", "append", "request"}

HarmlessWords(line) ==
    /\ WordsOf(line) \cap (Separators \cup Redirections) = {}
    /\ IsRead(line) \/ WordsOf(line) \cap Unsafe = {}
    /\ \A i \in DOMAIN line : line[i] = "|" =>
           i + 1 \in DOMAIN line /\ line[i + 1] \notin WritingFilters

\* One read or one probe, and around it only the options of that very probe,
\* whose last line resets them.
SingleOperation(lines) ==
    /\ \E i \in DOMAIN lines :
           /\ IsRead(lines[i]) \/ IsProbe(lines[i])
           /\ i < Len(lines) \/ Len(lines) = 1
           /\ \A j \in DOMAIN lines \ {i} :
                  /\ IsOption(lines[j])
                  /\ IsReset(lines[j]) <=> j = Len(lines)
                  /\ lines[j][2] = OptionsOf[lines[i][2]]
    /\ \A j \in DOMAIN lines : HarmlessWords(lines[j])

\* SECURITY.md: a call does one read-only operation, whatever arguments pass
\* the checks.
OneOperation == \A c \in Calls : request[c] # None => SingleOperation(script[c])

\* How each platform words the parameters, by the tool descriptions
\* (main.go:118-140) and README.md:109-112.
PingKeyword(dt) ==
    CASE dt = "fortios" -> [count |-> "repeat-count", size |-> "data-size",
                            timeout |-> "timeout", source |-> "source",
                            outgoing_interface |-> "interface"]
      [] dt = "junos"   -> [count |-> "count", size |-> "size", source |-> "source",
                            vrf |-> "routing-instance"]
      [] dt = "nxos"    -> [count |-> "count", size |-> "packet-size", source |-> "source",
                            vrf |-> "vrf"]
      [] OTHER          -> [count |-> "repeat", size |-> "size", source |-> "source",
                            vrf |-> "vrf"]

TracerouteKeyword(dt) ==
    CASE dt = "fortios" -> [probe |-> "queries", source |-> "source",
                            outgoing_interface |-> "device"]
      [] dt = "junos"   -> [max_hops |-> "ttl", timeout |-> "wait", source |-> "source",
                            vrf |-> "routing-instance"]
      [] OTHER          -> [max_hops |-> "maximum-hops", timeout |-> "timeout",
                            probe |-> "probe", source |-> "source", vrf |-> "vrf"]

Keyword(q) ==
    LET dt == normalizeDeviceType(q.device_type) IN
    IF q.tool = "run_ping" THEN PingKeyword(dt) ELSE TracerouteKeyword(dt)

\* The options a device finds on a line: the destination, then keywords and
\* values in turn.  IOS wants the VRF of a traceroute before the destination.
OnLine(q, line) ==
    LET vrfFirst == IF line[2] = "vrf" THEN 2 ELSE 0
        places == {i \in 3 + vrfFirst .. Len(line) - 1 : i % 2 = 1}
        pairs == {<<line[i], line[i + 1]>> : i \in places}
    IN  IF normalizeDeviceType(q.device_type) = "ios" /\ q.tool = "run_traceroute"
        THEN {p \in pairs : p[1] # "vrf"} \cup (IF vrfFirst = 2 THEN {<<"vrf", line[3]>>} ELSE {})
        ELSE pairs

\* What the probe that c is about to run is done with.
Heard(c) ==
    LET line == script[c][at[c]] IN
    IF line[1] = "execute" THEN settings[<<Owner(c), OptionsOf[line[2]]>>]
    ELSE OnLine(request[c], line)

Given(a) == {p \in DOMAIN a \ {"destination"} : a[p] # Unset}

\* A probe is done as the caller asked: the device knows every given parameter
\* by its own name, with the given value, and no other, unless an overlapping
\* or broken call has touched the options of that device.  Nothing is dropped
\* in silence but the number of probes on JunOS, as documented.
ProbedAsAsked ==
    \A c \in Calls :
        LET q == request[c] IN
        /\ Running(c) /\ IsProbe(script[c][at[c]])
        /\ \A slot \in dirty : ~Uses(c, slot)
        =>
        /\ Heard(c) = {<<Keyword(q)[p], q.args[p]>> : p \in Given(q.args) \cap DOMAIN Keyword(q)}
        /\ \A p \in Given(q.args) \ DOMAIN Keyword(q) :
               p = "probe" /\ normalizeDeviceType(q.device_type) = "junos"

\* A device that keeps options is left without any by calls that neither
\* overlapped nor broke, and a later complete call clears what others left.
NothingLeftBehind ==
    \A slot \in Slots \ dirty :
        settings[slot] # {} => \E c \in Calls : Uses(c, slot)

\* What a device shows, the configuration by whichever tool, is never answered
\* in clear.
ReadsAreHashed ==
    [][\A c \in Calls :
           request[c] # None /\ request'[c] = None /\ answer'[c] = "clear" =>
               \A i \in DOMAIN script[c] : ~IsRead(script[c][i])]_vars
=============================================================================
