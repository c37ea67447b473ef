----------------------------- MODULE MCToolCalls ------------------------------
(***************************************************************************)
(* Instances of ToolCalls for TLC.                                         *)
(***************************************************************************)
EXTENDS ToolCalls, TLC

\* An address or interface that argPattern accepts, and a text that it does not.
MCPlain == {"10.0.0.1"}
MCUnsafe == {"a b"}

\* What the integer parameters print as.
MCNumbers == {"5", "7"}

\* show running-config, show rule, show startup-config.
MCRuSta == {"running-config", "rule", "startup-config"}

RawDeviceTypes == DeviceTypes \cup {"fortigate", "catos"}

Complete == [host |-> "h1", username |-> "admin"]
Targets == {Complete, [Complete EXCEPT !.host = ""], [Complete EXCEPT !.username = ""]}

ConfigRequests ==
    {[tool |-> "get_config", host |-> n.host, username |-> n.username,
      device_type |-> raw, config_type |-> ct] :
         n \in Targets, raw \in RawDeviceTypes, ct \in {"", "running", "startup", "candidate"}}

Lines ==
    LET topics == {"version", "running-config", "rule", "configuration"}
        filters == {"json", "include", "display", "redirect"}
    IN  {<<verb, w>> : verb \in {"show", "get"}, w \in topics}
        \cup {<<"show", "version", "|", f>> : f \in filters}
        \cup {<<"get", "version", "|", "grep", "json">>, <<"get", "version", "|", "save">>}
        \cup {<<"show", "version", "|", f, "json", "|", g>> : f, g \in filters}
        \cup {<<"show", "version", sep, "reload">> : sep \in {";", "line break", ">"}}
        \cup {<<>>, <<"show">>, <<"config">>, <<"show", "version", "|">>}

ShowRequests ==
    {[tool |-> "run_show_command", host |-> "h1", username |-> "admin",
      device_type |-> raw, command |-> [words |-> l, wide |-> FALSE]] :
         raw \in DeviceTypes, l \in Lines}
    \cup {[tool |-> "run_show_command", host |-> "h1", username |-> "admin",
           device_type |-> "eos", command |-> [words |-> <<"show", "running-config">>,
                                               wide |-> TRUE]]}

NoPing == [destination |-> "10.0.0.1", count |-> "", size |-> "", timeout |-> "",
           source |-> "", vrf |-> "", outgoing_interface |-> ""]
NoTraceroute == [destination |-> "10.0.0.1", max_hops |-> "", timeout |-> "", probe |-> "",
                 source |-> "", vrf |-> "", outgoing_interface |-> ""]

Maybe(text) == {"", text}

BadTexts(a) ==
    {[a EXCEPT ![p] = "a b"] : p \in {"destination", "source", "vrf", "outgoing_interface"}}
        \cup {[a EXCEPT !.destination = ""]}

\* none, every single parameter of all, and all but those of without.
Some(none, all, without) ==
    {none} \cup {[none EXCEPT ![p] = all[p]] : p \in DOMAIN none}
           \cup {[p \in DOMAIN all |-> IF p \in w THEN none[p] ELSE all[p]] : w \in without}

AllPing == [destination |-> "10.0.0.1", count |-> "5", size |-> "5", timeout |-> "5",
            source |-> "10.0.0.1", vrf |-> "10.0.0.1", outgoing_interface |-> "10.0.0.1"]
AllTraceroute == [destination |-> "10.0.0.1", max_hops |-> "5", timeout |-> "5",
                  probe |-> "5", source |-> "10.0.0.1", vrf |-> "10.0.0.1",
                  outgoing_interface |-> "10.0.0.1"]

MCPingArgs ==
    Some(NoPing, AllPing, {{}, {"vrf"}, {"timeout", "outgoing_interface"}})
    \cup {[NoPing EXCEPT ![p] = "negative"] : p \in {"count", "size", "timeout"}}
    \cup BadTexts(NoPing)

MCTracerouteArgs ==
    Some(NoTraceroute, AllTraceroute,
         {{}, {"vrf", "max_hops", "timeout"}, {"outgoing_interface"}})
    \cup {[NoTraceroute EXCEPT ![p] = "negative"] : p \in {"max_hops", "timeout", "probe"}}
    \cup BadTexts(NoTraceroute)

ProbeRequests(tool, types, allArgs) ==
    {[tool |-> tool, host |-> "h1", username |-> "admin", device_type |-> raw, args |-> a] :
         raw \in types, a \in allArgs}

\* FortiOS diagnostics with options of their own.
FewDiagnostics ==
    ProbeRequests("run_ping", {"fortios"}, {[NoPing EXCEPT !.count = "7", !.source = "10.0.0.1"]})
    \cup ProbeRequests("run_traceroute", {"fortios"}, {[NoTraceroute EXCEPT !.probe = "7"]})

AllRequests ==
    ConfigRequests \cup ShowRequests
    \cup ProbeRequests("run_ping", RawDeviceTypes \ {"fortigate"}, MCPingArgs)
    \cup ProbeRequests("run_ping", {"fortigate"}, {NoPing})
    \cup ProbeRequests("run_traceroute", RawDeviceTypes \ {"fortigate"}, MCTracerouteArgs)

MCRequests == "c1" :> AllRequests @@ "c2" :> FewDiagnostics

\* Bound: scripts of one line, which no option concerns, run alone.
OneLinersAlone ==
    \A c \in Calls : Len(script[c]) = 1 =>
        dirty = {} /\ \A d \in Calls \ {c} : request[d] = None

\* What the steps read: a reply changes nothing.
WithoutReplies == <<scope, request, script, at, settings, dirty>>
=============================================================================
