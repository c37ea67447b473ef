---------------------------- MODULE DeviceCommands ----------------------------
(***************************************************************************)
(* The commands the tools send: internal/netdev/device_type.go and         *)
(* command_safety.go.  A script is a sequence of lines, a line a sequence  *)
(* of words in lower case; blanks only separate words, and "|", ";", "<",  *)
(* ">" and "line break" are words of their own.  An argument is a text, or *)
(* Unset when the caller left it out; numbers are the texts they print as. *)
(***************************************************************************)
EXTENDS Integers, Sequences

CONSTANTS
    Plain,     \* texts that argPattern accepts: addresses, interfaces, VRFs
    Unsafe,    \* texts that it does not, or that are too long
    Numbers,   \* positive integers, as they print
    RuSta      \* words that begin with "ru" or "sta"

Unset == ""
Refused == <<>>
Separators == {"line break", ";"}
Redirections == {"<", ">"}

\* The words that the tools add themselves.
Keywords ==
    {"execute", "ping", "traceroute", "ping-options", "traceroute-options", "reset",
     "repeat", "repeat-count", "count", "size", "packet-size", "data-size", "timeout", "wait",
     "queries", "probe", "ttl", "maximum-hops", "source", "interface", "device", "vrf",
     "routing-instance"}

ASSUME PlainAssumption ==
    (Plain \cup Numbers)
        \cap (Unsafe \cup Separators \cup Redirections \cup {"|", Unset}) = {}
ASSUME UnsafeAssumption == Unsafe \cap Keywords = {}

DeviceTypes == {"", "eos", "ios", "nxos", "junos", "fortios"}

normalizeDeviceType(raw) ==
    CASE raw \in DeviceTypes -> raw
      [] raw = "fortigate"   -> "fortios"
      [] OTHER               -> "unknown"

normalizeConfigType(raw) ==
    CASE raw = Unset                     -> "running"
      [] raw \in {"running", "startup"} -> raw
      [] OTHER                           -> "unknown"

ConfigWord(configType) ==
    IF configType = "startup" THEN "startup-config" ELSE "running-config"

buildConfigCommand(configType, dt) ==
    IF dt \in {"junos", "fortios"} /\ configType = "startup" THEN Refused
    ELSE CASE
         dt = "junos"   -> << <<"show", "configuration", "|", "no-more">> >>
      [] dt = "fortios" -> << <<"show", "full-configuration">> >>
      [] dt = "ios"     -> << <<"show", ConfigWord(configType)>> >>
      [] OTHER          -> << <<"show", ConfigWord(configType), "|", "no-more">> >>

-----------------------------------------------------------------------------
(***************************************************************************)
(* run_show_command.  A command is its words and whether more than one     *)
(* blank follows the first of them, which the prefix tests can see.        *)
(***************************************************************************)
WordsOf(line) == {line[i] : i \in DOMAIN line}

allowedPipes ==
    [eos     |-> {"json", "no-more", "include", "exclude", "begin", "section"},
     ios     |-> {"include", "exclude", "begin", "section", "count"},
     nxos    |-> {"json", "json-pretty", "xml", "no-more", "include", "exclude", "begin",
                  "section", "count", "grep", "egrep", "last", "head"},
     junos   |-> {"display", "no-more", "match", "except", "count", "last", "find", "trim"},
     fortios |-> {"grep"}]

junosDisplayFormats == {"json", "xml", "set"}

pipesFor(dt) ==
    IF dt = "" THEN allowedPipes["eos"] \cup allowedPipes["ios"] ELSE allowedPipes[dt]

\* The filter behind the pipe at position i.
FilterAllowed(line, i, dt) ==
    /\ i + 1 \in DOMAIN line
    /\ line[i + 1] \in pipesFor(dt)
    /\ dt = "junos" /\ line[i + 1] = "display" =>
           /\ i + 2 \in DOMAIN line
           /\ line[i + 2] \in junosDisplayFormats
           /\ i + 3 \in DOMAIN line => line[i + 3] = "|"

\* Mutant: only the first pipe is looked at.
FirstPipeChecked(line, verb, dt) ==
    /\ WordsOf(line) \cap (Separators \cup Redirections) = {}
    /\ line # <<>> /\ line[1] = verb
    /\ \A i \in DOMAIN line :
           line[i] = "|" /\ (\A j \in 1 .. i - 1 : line[j] # "|") => FilterAllowed(line, i, dt)

checkOperationalCommand(line, verb, dt) ==
    /\ WordsOf(line) \cap (Separators \cup Redirections) = {}
    /\ line # <<>> /\ line[1] = verb
    /\ \A i \in DOMAIN line : line[i] = "|" => FilterAllowed(line, i, dt)

\* The command begins, as text, with "show" and one of words.
ShowPrefix(command, words) ==
    ~command.wide /\ Len(command.words) > 1 /\ command.words[2] \in words

\* On FortiOS the refused prefixes are those that do not begin with get.
normalizeOperationalCommand(command, dt) ==
    IF /\ checkOperationalCommand(command.words, IF dt = "fortios" THEN "get" ELSE "show", dt)
       /\ dt # "fortios" => ~ShowPrefix(command, RuSta)
       /\ dt = "junos" => ~ShowPrefix(command, {"configuration"})
    THEN <<command.words>> ELSE Refused

-----------------------------------------------------------------------------
(***************************************************************************)
(* run_ping and run_traceroute.                                            *)
(***************************************************************************)
checkCommandArgs(a) ==
    {a.destination, a.source, a.vrf, a.outgoing_interface} \subseteq Plain \cup {Unset}

\* A keyword and its value on the line of the command itself.
Option(keyword, value) == IF value = Unset THEN <<>> ELSE <<keyword, value>>

\* On FortiOS: a line of its own, before the command.
OptionLine(table, keyword, value) ==
    IF value = Unset THEN <<>> ELSE << <<"execute", table, keyword, value>> >>

ProbeThenReset(name, table, destination) ==
    << <<"execute", name, destination>>, <<"execute", table, "reset">> >>

\* Mutant: the reset is that of ping.
ResetsPing(a) ==
    OptionLine("traceroute-options", "queries", a.probe)
    \o OptionLine("traceroute-options", "source", a.source)
    \o OptionLine("traceroute-options", "device", a.outgoing_interface)
    \o ProbeThenReset("traceroute", "ping-options", a.destination)

fortiOSPing(a) ==
    OptionLine("ping-options", "repeat-count", a.count)
    \o OptionLine("ping-options", "data-size", a.size)
    \o OptionLine("ping-options", "timeout", a.timeout)
    \o OptionLine("ping-options", "source", a.source)
    \o OptionLine("ping-options", "interface", a.outgoing_interface)
    \o ProbeThenReset("ping", "ping-options", a.destination)

fortiOSTraceroute(a) ==
    OptionLine("traceroute-options", "queries", a.probe)
    \o OptionLine("traceroute-options", "source", a.source)
    \o OptionLine("traceroute-options", "device", a.outgoing_interface)
    \o ProbeThenReset("traceroute", "traceroute-options", a.destination)

pingLine(a, dt) ==
    <<"ping", a.destination>>
    \o Option(IF dt \in {"nxos", "junos"} THEN "count" ELSE "repeat", a.count)
    \o Option(IF dt = "nxos" THEN "packet-size" ELSE "size", a.size)
    \o Option("source", a.source)
    \o Option(IF dt = "junos" THEN "routing-instance" ELSE "vrf", a.vrf)

\* On IOS the VRF comes before the destination; JunOS has no number of probes.
tracerouteLine(a, dt) ==
    <<"traceroute">>
    \o Option("vrf", IF dt = "ios" THEN a.vrf ELSE Unset)
    \o <<a.destination>>
    \o Option(IF dt = "junos" THEN "ttl" ELSE "maximum-hops", a.max_hops)
    \o Option(IF dt = "junos" THEN "wait" ELSE "timeout", a.timeout)
    \o Option("probe", IF dt = "junos" THEN Unset ELSE a.probe)
    \o Option("source", a.source)
    \o Option(IF dt = "junos" THEN "routing-instance" ELSE "vrf",
              IF dt = "ios" THEN Unset ELSE a.vrf)

\* Mutant: it is dropped.
NothingUnsupported(a, params) == FALSE

\* What a platform does not have is refused, not dropped.
Unsupported(a, params) == \E p \in params : a[p] # Unset

buildPingCommands(a, dt) ==
    IF \/ ~checkCommandArgs(a)
       \/ Unsupported(a, IF dt = "fortios" THEN {"vrf"} ELSE {"timeout", "outgoing_interface"})
    THEN Refused
    ELSE IF dt = "fortios" THEN fortiOSPing(a) ELSE <<pingLine(a, dt)>>

buildTracerouteCommands(a, dt) ==
    IF \/ ~checkCommandArgs(a)
       \/ Unsupported(a, IF dt = "fortios" THEN {"vrf", "max_hops", "timeout"}
                         ELSE {"outgoing_interface"})
    THEN Refused
    ELSE IF dt = "fortios" THEN fortiOSTraceroute(a) ELSE <<tracerouteLine(a, dt)>>
=============================================================================
