---------------------------- MODULE ToolCallsProofs ---------------------------
(***************************************************************************)
(* Type correctness of ToolCalls, that every call does one read or one     *)
(* probe, and that no option is left behind, for any calls, devices and    *)
(* requests.                                                               *)
(***************************************************************************)
EXTENDS ToolCalls, SequenceTheorems, TLAPS

\* The words of a probe: keywords and arguments that passed the checks.
ProbeWords == Keywords \cup Plain \cup Numbers

OptionLines(table) ==
    {<<"execute", table, k, v>> : k \in Keywords \ {"reset"}, v \in Plain \cup Numbers}

\* The sequences over S that begin with w.
Starting(S, w) == {s \in Seq(S) : Len(s) > 0 /\ s[1] = w}

-----------------------------------------------------------------------------
(***************************************************************************)
(* Lines.                                                                  *)
(***************************************************************************)
LEMMA StartingConcat ==
    ASSUME NEW S, NEW w, NEW s \in Starting(S, w), NEW t \in Seq(S)
    PROVE  s \o t \in Starting(S, w)
<1>1. s \in Seq(S) /\ Len(s) > 0 /\ s[1] = w
  BY DEF Starting
<1>2. Len(s) \in Nat /\ Len(t) \in Nat
  BY <1>1
<1>3. /\ s \o t \in Seq(S)
      /\ Len(s \o t) = Len(s) + Len(t)
      /\ \A i \in 1 .. Len(s) + Len(t) :
             (s \o t)[i] = IF i <= Len(s) THEN s[i] ELSE t[i - Len(s)]
  BY <1>1, ConcatProperties
<1>4. 1 \in 1 .. Len(s) + Len(t) /\ 1 <= Len(s)
  BY <1>1, <1>2
<1>5. (s \o t)[1] = w /\ Len(s \o t) > 0
  BY <1>1, <1>2, <1>3, <1>4
<1> QED
  BY <1>3, <1>5 DEF Starting

LEMMA SeqMonotone ==
    ASSUME NEW S, NEW T, S \subseteq T, NEW s \in Seq(S)
    PROVE  s \in Seq(T)
<1>1. /\ Len(s) \in Nat /\ DOMAIN s = 1 .. Len(s)
      /\ \A i \in 1 .. Len(s) : s[i] \in T
  OBVIOUS
<1>2. s = [i \in 1 .. Len(s) |-> s[i]]
  BY <1>1
<1> QED
  BY <1>1, <1>2

LEMMA OptionType ==
    ASSUME NEW k \in Keywords, NEW v \in Plain \cup Numbers \cup {Unset}
    PROVE  Option(k, v) \in Seq(ProbeWords)
<1>1. CASE v = Unset
  BY <1>1 DEF Option
<1>2. CASE v # Unset
  <2>1. k \in ProbeWords /\ v \in ProbeWords
    BY <1>2 DEF ProbeWords
  <2>2. <<k, v>> \in Seq(ProbeWords)
    BY <2>1
  <2> QED
    BY <1>2, <2>2 DEF Option
<1> QED
  BY <1>1, <1>2

LEMMA OptionLineType ==
    ASSUME NEW table, NEW k \in Keywords \ {"reset"}, NEW v \in Plain \cup Numbers \cup {Unset}
    PROVE  OptionLine(table, k, v) \in Seq(OptionLines(table))
<1>1. CASE v = Unset
  BY <1>1 DEF OptionLine
<1>2. CASE v # Unset
  <2> DEFINE line == <<"execute", table, k, v>>
  <2>1. line \in OptionLines(table)
    BY <1>2 DEF OptionLines
  <2>2. OptionLine(table, k, v) = <<line>>
    BY <1>2 DEF OptionLine
  <2> HIDE DEF line
  <2> QED
    BY <2>1, <2>2
<1> QED
  BY <1>1, <1>2

\* No word of a probe separates, redirects or is unsafe.
LEMMA ProbeWordsHarmless ==
    ProbeWords \cap (Separators \cup Redirections \cup Unsafe \cup {"|"}) = {}
  BY PlainAssumption, UnsafeAssumption DEF ProbeWords, Keywords, Separators, Redirections

LEMMA HarmlessProbe ==
    ASSUME NEW line \in Seq(ProbeWords)
    PROVE  HarmlessWords(line)
<1>1. \A i \in DOMAIN line : line[i] \in ProbeWords
  OBVIOUS
<1>2. WordsOf(line) \subseteq ProbeWords
  BY <1>1 DEF WordsOf
<1> QED
  BY <1>1, <1>2, ProbeWordsHarmless DEF HarmlessWords

LEMMA PingLineType ==
    ASSUME NEW dt \in DeviceTypes, NEW a \in PingArgs, checkCommandArgs(a),
           a.destination # Unset, NotNegative(a, {"count", "timeout", "size"})
    PROVE  pingLine(a, dt) \in Starting(ProbeWords, "ping")
<1>1. /\ a.destination \in Plain
      /\ \A v \in {a.count, a.size, a.source, a.vrf} : v \in Plain \cup Numbers \cup {Unset}
  BY DEF checkCommandArgs, NotNegative, PingArgs, Amounts
<1>2. <<"ping", a.destination>> \in Starting(ProbeWords, "ping")
  BY <1>1 DEF Starting, ProbeWords, Keywords
<1>3. \A k \in Keywords, v \in {a.count, a.size, a.source, a.vrf} :
          Option(k, v) \in Seq(ProbeWords)
  BY <1>1, OptionType
<1>4. {"count", "repeat", "packet-size", "size", "source", "routing-instance", "vrf"}
          \subseteq Keywords
  BY DEF Keywords
<1> DEFINE l1 == <<"ping", a.destination>>
               \o Option(IF dt \in {"nxos", "junos"} THEN "count" ELSE "repeat", a.count)
           l2 == l1 \o Option(IF dt = "nxos" THEN "packet-size" ELSE "size", a.size)
           l3 == l2 \o Option("source", a.source)
<1>5. l1 \in Starting(ProbeWords, "ping")
  BY <1>2, <1>3, <1>4, StartingConcat
<1>6. l2 \in Starting(ProbeWords, "ping")
  <2> HIDE DEF l1
  <2> QED BY <1>3, <1>4, <1>5, StartingConcat
<1>7. l3 \in Starting(ProbeWords, "ping")
  <2> HIDE DEF l2
  <2> QED BY <1>3, <1>4, <1>6, StartingConcat
<1>8. l3 \o Option(IF dt = "junos" THEN "routing-instance" ELSE "vrf", a.vrf)
          \in Starting(ProbeWords, "ping")
  <2> HIDE DEF l3
  <2> QED BY <1>3, <1>4, <1>7, StartingConcat
<1> QED
  BY <1>8 DEF pingLine

LEMMA TracerouteLineType ==
    ASSUME NEW dt \in DeviceTypes, NEW a \in TracerouteArgs, checkCommandArgs(a),
           a.destination # Unset, NotNegative(a, {"max_hops", "timeout", "probe"})
    PROVE  tracerouteLine(a, dt) \in Starting(ProbeWords, "traceroute")
<1> DEFINE vs == {a.max_hops, a.timeout, a.probe, a.source, a.vrf, Unset}
           l0 == <<"traceroute">> \o Option("vrf", IF dt = "ios" THEN a.vrf ELSE Unset)
           l1 == l0 \o <<a.destination>>
           l2 == l1 \o Option(IF dt = "junos" THEN "ttl" ELSE "maximum-hops", a.max_hops)
           l3 == l2 \o Option(IF dt = "junos" THEN "wait" ELSE "timeout", a.timeout)
           l4 == l3 \o Option("probe", IF dt = "junos" THEN Unset ELSE a.probe)
           l5 == l4 \o Option("source", a.source)
           l6 == l5 \o Option(IF dt = "junos" THEN "routing-instance" ELSE "vrf",
                              IF dt = "ios" THEN Unset ELSE a.vrf)
<1>1. a.destination \in Plain /\ vs \subseteq Plain \cup Numbers \cup {Unset}
  BY DEF checkCommandArgs, NotNegative, TracerouteArgs, Amounts
<1>2. <<"traceroute">> \in Starting(ProbeWords, "traceroute")
  BY DEF Starting, ProbeWords, Keywords
<1>3. \A k \in Keywords, v \in vs : Option(k, v) \in Seq(ProbeWords)
  BY <1>1, OptionType
<1>4. {"ttl", "maximum-hops", "wait", "timeout", "probe", "source", "routing-instance", "vrf"}
          \subseteq Keywords
  BY DEF Keywords
<1>5. <<a.destination>> \in Seq(ProbeWords)
  BY <1>1 DEF ProbeWords
<1>10. l0 \in Starting(ProbeWords, "traceroute")
  BY <1>2, <1>3, <1>4, StartingConcat
<1>11. l1 \in Starting(ProbeWords, "traceroute")
  <2> HIDE DEF l0
  <2> QED BY <1>5, <1>10, StartingConcat
<1>12. l2 \in Starting(ProbeWords, "traceroute")
  <2> HIDE DEF l1
  <2> QED BY <1>3, <1>4, <1>11, StartingConcat
<1>13. l3 \in Starting(ProbeWords, "traceroute")
  <2> HIDE DEF l2
  <2> QED BY <1>3, <1>4, <1>12, StartingConcat
<1>14. l4 \in Starting(ProbeWords, "traceroute")
  <2> HIDE DEF l3
  <2> QED BY <1>3, <1>4, <1>13, StartingConcat
<1>15. l5 \in Starting(ProbeWords, "traceroute")
  <2> HIDE DEF l4
  <2> QED BY <1>3, <1>4, <1>14, StartingConcat
<1>16. l6 \in Starting(ProbeWords, "traceroute")
  <2> HIDE DEF l5
  <2> QED BY <1>3, <1>4, <1>15, StartingConcat
<1> QED
  BY <1>16 DEF tracerouteLine

-----------------------------------------------------------------------------
(***************************************************************************)
(* Scripts.                                                                *)
(***************************************************************************)
ProperSequence(lines) == Len(lines) \in Nat /\ DOMAIN lines = 1 .. Len(lines)

ProbesOnly(lines) == \A i \in DOMAIN lines : ~IsRead(lines[i])

LEMMA SingleLine ==
    ASSUME NEW line, IsRead(line) \/ IsProbe(line), HarmlessWords(line)
    PROVE  /\ ProperSequence(<<line>>) /\ SingleOperation(<<line>>)
           /\ ~IsRead(line) => ProbesOnly(<<line>>)
<1> DEFINE lines == <<line>>
<1>1. Len(lines) = 1 /\ DOMAIN lines = {1} /\ lines[1] = line
  OBVIOUS
<1>2. ProperSequence(lines)
  BY <1>1 DEF ProperSequence
<1>3. SingleOperation(lines)
  <2> HIDE DEF lines
  <2> QED
    BY <1>1 DEF SingleOperation
<1>4. ~IsRead(line) => ProbesOnly(lines)
  BY <1>1 DEF ProbesOnly
<1> QED
  BY <1>2, <1>3, <1>4

LEMMA OptionHarmless ==
    ASSUME NEW table \in Tables, NEW line \in OptionLines(table)
    PROVE  /\ IsOption(line) /\ ~IsReset(line) /\ ~IsRead(line) /\ line[2] = table
           /\ HarmlessWords(line)
<1>1. PICK k \in Keywords \ {"reset"}, v \in Plain \cup Numbers :
          line = <<"execute", table, k, v>>
  BY DEF OptionLines
<1>2. /\ line[1] = "execute" /\ line[2] = table /\ line[3] = k
      /\ line \in Seq(ProbeWords)
  BY <1>1 DEF ProbeWords, Keywords, Tables
<1> QED
  BY <1>2, HarmlessProbe DEF IsOption, IsReset, IsRead, Reads

LEMMA ProbeAndReset ==
    ASSUME NEW name \in Probes, NEW destination \in Plain
    PROVE  LET pair == ProbeThenReset(name, OptionsOf[name], destination) IN
           /\ Len(pair) = 2
           /\ IsProbe(pair[1]) /\ HarmlessWords(pair[1])
           /\ pair[1][2] = name
           /\ ~IsRead(pair[1]) /\ ~IsRead(pair[2])
           /\ IsReset(pair[2]) /\ IsOption(pair[2]) /\ HarmlessWords(pair[2])
           /\ pair[2][2] = OptionsOf[name]
<1> DEFINE probe == <<"execute", name, destination>>
           reset == <<"execute", OptionsOf[name], "reset">>
<1>1. OptionsOf[name] \in Tables
  BY DEF Probes, OptionsOf, Tables
<1>2. probe \in Seq(ProbeWords) /\ reset \in Seq(ProbeWords)
  BY <1>1 DEF Probes, ProbeWords, Keywords, Tables
<1>3. HarmlessWords(probe) /\ HarmlessWords(reset)
  BY <1>2, HarmlessProbe
<1>4. /\ probe[1] = "execute" /\ probe[2] = name
      /\ reset[1] = "execute" /\ reset[2] = OptionsOf[name] /\ reset[3] = "reset"
  OBVIOUS
<1>5. ProbeThenReset(name, OptionsOf[name], destination) = <<probe, reset>>
  BY DEF ProbeThenReset
<1> HIDE DEF probe, reset
<1> QED
  BY <1>1, <1>3, <1>4, <1>5 DEF IsProbe, IsReset, IsOption, IsRead, Reads

\* The form of a FortiOS script: options, the probe, the reset.
LEMMA FortiOSScript ==
    ASSUME NEW name \in Probes, NEW destination \in Plain,
           NEW options \in Seq(OptionLines(OptionsOf[name]))
    PROVE  LET lines == options \o ProbeThenReset(name, OptionsOf[name], destination) IN
           ProperSequence(lines) /\ SingleOperation(lines) /\ ProbesOnly(lines)
<1> DEFINE pair == ProbeThenReset(name, OptionsOf[name], destination)
           lines == options \o pair
           n == Len(options)
           S == OptionLines(OptionsOf[name]) \cup {pair[1], pair[2]}
<1>1. OptionsOf[name] \in Tables
  BY DEF Probes, OptionsOf, Tables
<1>2. /\ Len(pair) = 2
      /\ IsProbe(pair[1]) /\ HarmlessWords(pair[1]) /\ pair[1][2] = name
      /\ IsReset(pair[2]) /\ IsOption(pair[2]) /\ HarmlessWords(pair[2])
      /\ pair[2][2] = OptionsOf[name]
      /\ ~IsRead(pair[1]) /\ ~IsRead(pair[2])
  BY ProbeAndReset
<1>3. pair \in Seq(S) /\ options \in Seq(S) /\ n \in Nat
  <2>1. pair = <<pair[1], pair[2]>>
    BY DEF ProbeThenReset
  <2>2. OptionLines(OptionsOf[name]) \subseteq S /\ pair[1] \in S /\ pair[2] \in S
    OBVIOUS
  <2> HIDE DEF pair, S
  <2>3. \A x, y \in S : <<x, y>> \in Seq(S)
    OBVIOUS
  <2>4. pair \in Seq(S)
    BY <2>1, <2>2, <2>3, Zenon
  <2>5. options \in Seq(S) /\ n \in Nat
    BY <2>2, SeqMonotone
  <2> QED
    BY <2>4, <2>5
<1> HIDE DEF pair, S
<1>4. /\ lines \in Seq(S) /\ Len(lines) = n + 2
      /\ \A i \in 1 .. n + 2 : lines[i] = IF i <= n THEN options[i] ELSE pair[i - n]
  <2>1. /\ lines \in Seq(S) /\ Len(lines) = Len(options) + Len(pair)
        /\ \A i \in 1 .. Len(options) + Len(pair) :
               lines[i] = IF i <= Len(options) THEN options[i] ELSE pair[i - Len(options)]
    BY <1>3, ConcatProperties
  <2> QED
    BY <1>2, <2>1
<1>5. DOMAIN lines = 1 .. n + 2
  BY <1>4
<1> HIDE DEF lines
<1>6. lines[n + 1] = pair[1] /\ lines[n + 2] = pair[2]
  BY <1>3, <1>4
<1>7. \A i \in 1 .. n : lines[i] = options[i] /\ options[i] \in OptionLines(OptionsOf[name])
  BY <1>3, <1>4
<1>8. \A i \in 1 .. n : /\ IsOption(lines[i]) /\ ~IsReset(lines[i]) /\ ~IsRead(lines[i])
                        /\ lines[i][2] = OptionsOf[name] /\ HarmlessWords(lines[i])
  BY <1>1, <1>7, OptionHarmless
<1>9. \A i \in 1 .. n + 2 : i \in 1 .. n \/ i = n + 1 \/ i = n + 2
  BY <1>3
<1>10. ProperSequence(lines)
  BY <1>3, <1>4, <1>5 DEF ProperSequence
<1>11. \A j \in DOMAIN lines : HarmlessWords(lines[j])
  BY <1>2, <1>5, <1>6, <1>8, <1>9
<1>12. \A j \in DOMAIN lines \ {n + 1} :
           /\ IsOption(lines[j])
           /\ IsReset(lines[j]) <=> j = Len(lines)
           /\ lines[j][2] = OptionsOf[lines[n + 1][2]]
  BY <1>2, <1>3, <1>4, <1>5, <1>6, <1>8, <1>9
<1>13. n + 1 \in DOMAIN lines /\ n + 1 < Len(lines) /\ IsProbe(lines[n + 1])
  BY <1>2, <1>3, <1>4, <1>5, <1>6
<1>14. SingleOperation(lines)
  BY <1>11, <1>12, <1>13 DEF SingleOperation
<1>15. ProbesOnly(lines)
  BY <1>2, <1>5, <1>6, <1>8, <1>9 DEF ProbesOnly
<1> QED
  BY <1>10, <1>14, <1>15 DEF lines, pair

LEMMA FortiOSPingScript ==
    ASSUME NEW a \in PingArgs, checkCommandArgs(a), a.destination # Unset,
           NotNegative(a, {"count", "timeout", "size"})
    PROVE  /\ ProperSequence(fortiOSPing(a)) /\ SingleOperation(fortiOSPing(a))
           /\ ProbesOnly(fortiOSPing(a))
<1> DEFINE t == "ping-options"
           Lines == Seq(OptionLines(t))
           o1 == OptionLine(t, "repeat-count", a.count)
           o2 == OptionLine(t, "data-size", a.size)
           o3 == OptionLine(t, "timeout", a.timeout)
           o4 == OptionLine(t, "source", a.source)
           o5 == OptionLine(t, "interface", a.outgoing_interface)
<1>1. /\ a.destination \in Plain
      /\ {a.count, a.size, a.timeout, a.source, a.outgoing_interface}
             \subseteq Plain \cup Numbers \cup {Unset}
  BY DEF checkCommandArgs, NotNegative, PingArgs, Amounts
<1>2. {"repeat-count", "data-size", "timeout", "source", "interface"} \subseteq Keywords \ {"reset"}
  BY DEF Keywords
<1>3. o1 \in Lines /\ o2 \in Lines /\ o3 \in Lines /\ o4 \in Lines /\ o5 \in Lines
  BY <1>1, <1>2, OptionLineType
<1>4. fortiOSPing(a) = o1 \o o2 \o o3 \o o4 \o o5 \o ProbeThenReset("ping", t, a.destination)
  BY DEF fortiOSPing
<1>5. "ping" \in Probes /\ OptionsOf["ping"] = t
  BY DEF Probes, OptionsOf
<1> HIDE DEF o1, o2, o3, o4, o5
<1>6. o1 \o o2 \o o3 \o o4 \o o5 \in Lines
  BY <1>3
<1> HIDE DEF t
<1> QED
  BY <1>1, <1>4, <1>5, <1>6, FortiOSScript

LEMMA FortiOSTracerouteScript ==
    ASSUME NEW a \in TracerouteArgs, checkCommandArgs(a), a.destination # Unset,
           NotNegative(a, {"max_hops", "timeout", "probe"})
    PROVE  /\ ProperSequence(fortiOSTraceroute(a)) /\ SingleOperation(fortiOSTraceroute(a))
           /\ ProbesOnly(fortiOSTraceroute(a))
<1> DEFINE t == "traceroute-options"
           Lines == Seq(OptionLines(t))
           o1 == OptionLine(t, "queries", a.probe)
           o2 == OptionLine(t, "source", a.source)
           o3 == OptionLine(t, "device", a.outgoing_interface)
<1>1. /\ a.destination \in Plain
      /\ {a.probe, a.source, a.outgoing_interface} \subseteq Plain \cup Numbers \cup {Unset}
  BY DEF checkCommandArgs, NotNegative, TracerouteArgs, Amounts
<1>2. {"queries", "source", "device"} \subseteq Keywords \ {"reset"}
  BY DEF Keywords
<1>3. o1 \in Lines /\ o2 \in Lines /\ o3 \in Lines
  BY <1>1, <1>2, OptionLineType
<1>4. fortiOSTraceroute(a) = o1 \o o2 \o o3 \o ProbeThenReset("traceroute", t, a.destination)
  BY DEF fortiOSTraceroute
<1>5. "traceroute" \in Probes /\ OptionsOf["traceroute"] = t
  BY DEF Probes, OptionsOf
<1> HIDE DEF o1, o2, o3
<1>6. o1 \o o2 \o o3 \in Lines
  BY <1>3
<1> HIDE DEF t
<1> QED
  BY <1>1, <1>4, <1>5, <1>6, FortiOSScript

LEMMA DeviceTypesKnown ==
    ASSUME NEW raw, normalizeDeviceType(raw) # "unknown"
    PROVE  normalizeDeviceType(raw) \in DeviceTypes
  BY DEF normalizeDeviceType, DeviceTypes

\* A script is refused or does what it may.
Sound(lines) == lines = Refused \/ (ProperSequence(lines) /\ SingleOperation(lines))

LEMMA PingSound ==
    ASSUME NEW q \in RunPingInput
    PROVE  Sound(RunPing(q)) /\ ProbesOnly(RunPing(q))
<1> DEFINE a == q.args
           dt == normalizeDeviceType(q.device_type)
<1> SUFFICES ASSUME RunPing(q) # Refused
             PROVE  Sound(RunPing(q)) /\ ProbesOnly(RunPing(q))
  BY DEF Sound, ProbesOnly, Refused
<1>1. /\ Addressed(q) /\ a.destination # Unset
      /\ NotNegative(a, {"count", "timeout", "size"})
      /\ RunPing(q) = buildPingCommands(a, dt)
  BY DEF RunPing
<1>2. a \in PingArgs /\ dt \in DeviceTypes
  BY <1>1, DeviceTypesKnown DEF RunPingInput, Addressed
<1>3. /\ checkCommandArgs(a)
      /\ \/ dt = "fortios" /\ RunPing(q) = fortiOSPing(a)
         \/ RunPing(q) = <<pingLine(a, dt)>>
  BY <1>1 DEF buildPingCommands
<1>4. CASE RunPing(q) = fortiOSPing(a)
  BY <1>1, <1>2, <1>3, <1>4, FortiOSPingScript DEF Sound
<1>5. CASE RunPing(q) = <<pingLine(a, dt)>>
  <2>1. pingLine(a, dt) \in Seq(ProbeWords) /\ pingLine(a, dt)[1] = "ping"
    BY <1>1, <1>2, <1>3, PingLineType DEF Starting
  <2>2. /\ IsProbe(pingLine(a, dt)) /\ ~IsRead(pingLine(a, dt))
        /\ HarmlessWords(pingLine(a, dt))
    BY <2>1, HarmlessProbe DEF IsProbe, IsRead, Reads, Probes
  <2> QED
    BY <1>5, <2>2, SingleLine DEF Sound
<1> QED
  BY <1>3, <1>4, <1>5

LEMMA TracerouteSound ==
    ASSUME NEW q \in RunTracerouteInput
    PROVE  Sound(RunTraceroute(q)) /\ ProbesOnly(RunTraceroute(q))
<1> DEFINE a == q.args
           dt == normalizeDeviceType(q.device_type)
<1> SUFFICES ASSUME RunTraceroute(q) # Refused
             PROVE  Sound(RunTraceroute(q)) /\ ProbesOnly(RunTraceroute(q))
  BY DEF Sound, ProbesOnly, Refused
<1>1. /\ Addressed(q) /\ a.destination # Unset
      /\ NotNegative(a, {"max_hops", "timeout", "probe"})
      /\ RunTraceroute(q) = buildTracerouteCommands(a, dt)
  BY DEF RunTraceroute
<1>2. a \in TracerouteArgs /\ dt \in DeviceTypes
  BY <1>1, DeviceTypesKnown DEF RunTracerouteInput, Addressed
<1>3. /\ checkCommandArgs(a)
      /\ \/ dt = "fortios" /\ RunTraceroute(q) = fortiOSTraceroute(a)
         \/ RunTraceroute(q) = <<tracerouteLine(a, dt)>>
  BY <1>1 DEF buildTracerouteCommands
<1>4. CASE RunTraceroute(q) = fortiOSTraceroute(a)
  BY <1>1, <1>2, <1>3, <1>4, FortiOSTracerouteScript DEF Sound
<1>5. CASE RunTraceroute(q) = <<tracerouteLine(a, dt)>>
  <2>1. tracerouteLine(a, dt) \in Seq(ProbeWords) /\ tracerouteLine(a, dt)[1] = "traceroute"
    BY <1>1, <1>2, <1>3, TracerouteLineType DEF Starting
  <2>2. /\ IsProbe(tracerouteLine(a, dt)) /\ ~IsRead(tracerouteLine(a, dt))
        /\ HarmlessWords(tracerouteLine(a, dt))
    BY <2>1, HarmlessProbe DEF IsProbe, IsRead, Reads, Probes
  <2> QED
    BY <1>5, <2>2, SingleLine DEF Sound
<1> QED
  BY <1>3, <1>4, <1>5

LEMMA FiltersHarmless ==
    ASSUME NEW dt \in DeviceTypes
    PROVE  pipesFor(dt) \cap WritingFilters = {}
<1>1. /\ allowedPipes["eos"] \cap WritingFilters = {}
      /\ allowedPipes["ios"] \cap WritingFilters = {}
      /\ allowedPipes["nxos"] \cap WritingFilters = {}
      /\ allowedPipes["junos"] \cap WritingFilters = {}
      /\ allowedPipes["fortios"] \cap WritingFilters = {}
  BY DEF allowedPipes, WritingFilters
<1> QED
  BY <1>1 DEF DeviceTypes, pipesFor

LEMMA ShowSound ==
    ASSUME NEW q \in RunShowCommandInput
    PROVE  Sound(RunShowCommand(q))
<1> DEFINE line == q.command.words
           dt == normalizeDeviceType(q.device_type)
           verb == IF dt = "fortios" THEN "get" ELSE "show"
<1> SUFFICES ASSUME RunShowCommand(q) # Refused PROVE Sound(RunShowCommand(q))
  BY DEF Sound
<1>1. Addressed(q) /\ checkOperationalCommand(line, verb, dt) /\ RunShowCommand(q) = <<line>>
  BY DEF RunShowCommand, normalizeOperationalCommand
<1>2. dt \in DeviceTypes
  BY <1>1, DeviceTypesKnown DEF Addressed
<1>3. IsRead(line)
  BY <1>1 DEF checkOperationalCommand, IsRead, Reads
<1>4. pipesFor(dt) \cap WritingFilters = {}
  BY <1>2, FiltersHarmless
<1>5. HarmlessWords(line)
  BY <1>1, <1>3, <1>4 DEF checkOperationalCommand, FilterAllowed, HarmlessWords
<1> QED
  BY <1>1, <1>3, <1>5, SingleLine DEF Sound

LEMMA ConfigSound ==
    ASSUME NEW q \in GetConfigInput
    PROVE  Sound(GetConfig(q))
<1> DEFINE ConfigLines == {<<"show", "configuration", "|", "no-more">>,
                           <<"show", "full-configuration">>,
                           <<"show", "running-config">>, <<"show", "startup-config">>,
                           <<"show", "running-config", "|", "no-more">>,
                           <<"show", "startup-config", "|", "no-more">>}
<1>1. GetConfig(q) = Refused \/ \E line \in ConfigLines : GetConfig(q) = <<line>>
  BY DEF GetConfig, buildConfigCommand, ConfigWord
<1>2. ASSUME NEW line \in ConfigLines
      PROVE  IsRead(line) /\ HarmlessWords(line)
  <2> DEFINE Words == {"show", "configuration", "|", "no-more", "full-configuration",
                       "running-config", "startup-config"}
  <2>1. line[1] = "show" /\ line \in Seq(Words)
    <3>1. line[1] = "show"
      OBVIOUS
    <3>2. /\ <<"show", "configuration", "|", "no-more">> \in Seq(Words)
          /\ <<"show", "full-configuration">> \in Seq(Words)
          /\ <<"show", "running-config">> \in Seq(Words)
          /\ <<"show", "startup-config">> \in Seq(Words)
          /\ <<"show", "running-config", "|", "no-more">> \in Seq(Words)
          /\ <<"show", "startup-config", "|", "no-more">> \in Seq(Words)
      OBVIOUS
    <3> QED
      BY <3>1, <3>2
  <2>2. WordsOf(line) \cap (Separators \cup Redirections) = {}
    <3>1. Words \cap (Separators \cup Redirections) = {}
      BY DEF Separators, Redirections
    <3> HIDE DEF Words
    <3>2. \A i \in DOMAIN line : line[i] \in Words
      BY <2>1
    <3> QED
      BY <3>1, <3>2 DEF WordsOf
  <2>3. \A i \in DOMAIN line : line[i] = "|" =>
            i + 1 \in DOMAIN line /\ line[i + 1] \notin WritingFilters
    BY DEF WritingFilters
  <2> QED
    BY <2>1, <2>2, <2>3 DEF IsRead, Reads, HarmlessWords
<1> HIDE DEF ConfigLines
<1> QED
  BY <1>1, <1>2, SingleLine DEF Sound

\* Whatever passes the checks is one operation, on a device.
LEMMA ScriptSound ==
    ASSUME NEW q \in Request
    PROVE  /\ Sound(ScriptOf(q))
           /\ ScriptOf(q) # Refused => q.host \in Hosts
           /\ Answer(q) = "clear" => ProbesOnly(ScriptOf(q))
<1>1. CASE q \in GetConfigInput
  BY <1>1, ConfigSound DEF Answer, GetConfigInput, ScriptOf, GetConfig, Addressed
<1>2. CASE q \in RunShowCommandInput
  BY <1>2, ShowSound DEF Answer, RunShowCommandInput, ScriptOf, RunShowCommand, Addressed
<1>3. CASE q \in RunPingInput
  BY <1>3, PingSound DEF Answer, RunPingInput, ScriptOf, RunPing, Addressed
<1>4. CASE q \in RunTracerouteInput
  BY <1>4, TracerouteSound DEF Answer, RunTracerouteInput, ScriptOf, RunTraceroute, Addressed
<1> QED
  BY <1>1, <1>2, <1>3, <1>4 DEF Request

-----------------------------------------------------------------------------
(***************************************************************************)
(* The invariant: an idle call is before its session, and an option that   *)
(* is set on a clean slot is that of a call which has still to run its     *)
(* reset.                                                                  *)
(***************************************************************************)
Accepted == \A c \in Calls : request[c] # None => script[c] # Refused

Inv == TypeOK /\ Accepted /\ NothingLeftBehind

\* The call c has what it needs to be in progress.
LEMMA InProgress ==
    ASSUME TypeOK, Accepted, NEW c \in Calls, request[c] # None
    PROVE  /\ request[c] \in Request /\ script[c] = ScriptOf(request[c])
           /\ request[c].host \in Hosts
           /\ ProperSequence(script[c]) /\ SingleOperation(script[c])
           /\ Owner(c) \in {c} \cup Hosts
<1>1. request[c] \in Request /\ script[c] = ScriptOf(request[c]) /\ script[c] # Refused
  BY DEF TypeOK, Accepted
<1>2. request[c].host \in Hosts /\ ProperSequence(script[c]) /\ SingleOperation(script[c])
  BY <1>1, ScriptSound DEF Sound
<1> QED
  BY <1>1, <1>2 DEF Owner

\* A script that sets an option ends with the reset of its table.
LEMMA ResetAtEnd ==
    ASSUME NEW lines, ProperSequence(lines), SingleOperation(lines),
           NEW j \in DOMAIN lines, IsOption(lines[j])
    PROVE  LET last == lines[Len(lines)] IN
           IsOption(last) /\ IsReset(last) /\ last[2] = lines[j][2]
<1>1. PICK i \in DOMAIN lines :
          /\ IsRead(lines[i]) \/ IsProbe(lines[i])
          /\ i < Len(lines) \/ Len(lines) = 1
          /\ \A k \in DOMAIN lines \ {i} :
                 /\ IsOption(lines[k])
                 /\ IsReset(lines[k]) <=> k = Len(lines)
                 /\ lines[k][2] = OptionsOf[lines[i][2]]
  BY DEF SingleOperation
<1>2. ~IsOption(lines[i])
  BY <1>1 DEF IsRead, IsProbe, IsOption, Reads, Probes, Tables
<1>3. j # i
  BY <1>2
<1>4. Len(lines) \in DOMAIN lines \ {i} /\ j \in DOMAIN lines \ {i}
  BY <1>1, <1>3 DEF ProperSequence
<1> QED
  BY <1>1, <1>4

LEMMA SlotsType ==
    ASSUME TypeOK, Accepted, NEW c \in Calls, request[c] # None
    PROVE  /\ SlotsOf(c) \subseteq ({c} \cup Hosts) \X Tables
           /\ SlotsOf(c) \subseteq Slots
<1>1. Owner(c) \in {c} \cup Hosts
  BY InProgress
<1>2. SlotsOf(c) \subseteq ({c} \cup Hosts) \X Tables
  BY <1>1 DEF SlotsOf, IsOption
<1> QED
  BY <1>2 DEF Slots

\* Only the options of a device are used by two calls.
LEMMA SharedSlot ==
    ASSUME TypeOK, Accepted, NEW c \in Calls, request[c] # None,
           NEW slot \in SlotsOf(c), UsedByOther(c, slot)
    PROVE  slot \in Hosts \X Tables
<1>1. PICK d \in Calls \ {c} : Uses(d, slot)
  BY DEF UsedByOther
<1>2. request[d] # None /\ slot \in SlotsOf(d)
  BY <1>1 DEF Uses, Running
<1>3. slot \in ({c} \cup Hosts) \X Tables
  BY SlotsType
<1>4. slot \in ({d} \cup Hosts) \X Tables
  BY <1>2, SlotsType
<1> QED
  BY <1>3, <1>4, CallsAssumption

\* What a step of c leaves as it is for the others.
LEMMA OthersUse ==
    ASSUME NEW c \in Calls, NEW d \in Calls \ {c}, NEW slot,
           request'[d] = request[d], script'[d] = script[d], at'[d] = at[d], scope' = scope
    PROVE  Uses(d, slot)' <=> Uses(d, slot)
<1>1. Owner(d)' = Owner(d)
  BY DEF Owner
<1>2. SlotsOf(d)' = SlotsOf(d)
  BY <1>1 DEF SlotsOf
<1> QED
  BY <1>2 DEF Uses, Running

LEMMA InitInv == Init => Inv
  BY DEF Init, Inv, TypeOK, Accepted, NothingLeftBehind, Refused

LEMMA AcceptInv ==
    ASSUME Inv, NEW c \in Calls, NEW q \in Requests[c], Accept(c, q)
    PROVE  Inv'
<1>1. TypeOK /\ Accepted /\ q \in Request /\ q # None
  BY RequestsAssumption, NoneAssumption DEF Inv
<1>2. request[c] = None /\ ScriptOf(q) # Refused /\ at[c] = 0
  BY <1>1 DEF Accept, TypeOK
<1>3. /\ request' = [request EXCEPT ![c] = q]
      /\ script' = [script EXCEPT ![c] = ScriptOf(q)]
      /\ UNCHANGED <<scope, at, settings, dirty>>
      /\ answer' = [answer EXCEPT ![c] = "none"]
  BY DEF Accept
<1>4. ProperSequence(ScriptOf(q))
  BY <1>1, <1>2, ScriptSound DEF Sound
<1>5. TypeOK'
  <2>1. request' \in [Calls -> Request \cup {None}]
    BY <1>1, <1>3 DEF TypeOK
  <2>2. script' = [d \in Calls |-> IF request'[d] = None THEN Refused ELSE ScriptOf(request'[d])]
    BY <1>1, <1>3 DEF TypeOK
  <2>3. \A d \in Calls : at'[d] <= IF request'[d] = None THEN 0 ELSE Len(script'[d]) + 1
    BY <1>1, <1>2, <1>3, <1>4 DEF TypeOK, ProperSequence
  <2> QED
    BY <1>1, <1>3, <2>1, <2>2, <2>3 DEF TypeOK
<1>6. Accepted'
  BY <1>1, <1>2, <1>3 DEF TypeOK, Accepted
<1>7. NothingLeftBehind'
  <2>1. ASSUME NEW slot \in Slots \ dirty, NEW d \in Calls, Uses(d, slot)
        PROVE  Uses(d, slot)'
    <3>1. d # c
      BY <1>2, <2>1 DEF Uses, Running
    <3> QED
      BY <1>1, <1>3, <2>1, <3>1, OthersUse DEF TypeOK
  <2> QED
    BY <1>3, <2>1 DEF Inv, NothingLeftBehind
<1> QED
  BY <1>5, <1>6, <1>7 DEF Inv

LEMMA ExecInv ==
    ASSUME Inv, NEW c \in Calls, Exec(c)
    PROVE  Inv'
<1>1. TypeOK /\ Accepted /\ request[c] # None /\ at[c] = 0
  BY DEF Inv, Exec
<1>2. /\ at' = [at EXCEPT ![c] = 1]
      /\ dirty' = dirty \cup {slot \in SlotsOf(c) : UsedByOther(c, slot)}
      /\ UNCHANGED <<scope, request, script, settings, answer>>
  BY DEF Exec
<1>3. ProperSequence(script[c])
  BY <1>1, InProgress
<1>4. dirty' \subseteq Hosts \X Tables
  BY <1>1, <1>2, SharedSlot DEF TypeOK
<1>5. TypeOK'
  BY <1>1, <1>2, <1>3, <1>4 DEF TypeOK, ProperSequence
<1>6. Accepted'
  BY <1>1, <1>2 DEF Accepted
<1>7. NothingLeftBehind'
  <2>1. ASSUME NEW slot \in Slots \ dirty, NEW d \in Calls, Uses(d, slot)
        PROVE  Uses(d, slot)'
    <3>1. d # c
      BY <1>1, <1>3, <2>1 DEF Uses, Running, ProperSequence
    <3> QED
      BY <1>1, <1>2, <2>1, <3>1, OthersUse DEF TypeOK
  <2> QED
    BY <1>2, <2>1 DEF Inv, NothingLeftBehind
<1> QED
  BY <1>5, <1>6, <1>7 DEF Inv

LEMMA RunLineInv ==
    ASSUME Inv, NEW c \in Calls, RunLine(c)
    PROVE  Inv'
<1> DEFINE line == script[c][at[c]]
           slot == <<Owner(c), line[2]>>
           n == Len(script[c])
<1>1. TypeOK /\ Accepted /\ request[c] # None /\ at[c] \in DOMAIN script[c]
  BY DEF Inv, RunLine, Running
<1>2. /\ settings' = IF IsOption(line)
                     THEN [settings EXCEPT ![slot] = Configured(@, line)] ELSE settings
      /\ dirty' = IF IsReset(line) /\ ~UsedByOther(c, slot) THEN dirty \ {slot} ELSE dirty
      /\ at' = [at EXCEPT ![c] = @ + 1]
      /\ UNCHANGED <<scope, request, script, answer>>
  BY DEF RunLine
<1>3. ProperSequence(script[c]) /\ SingleOperation(script[c])
  BY <1>1, InProgress
<1>4. at[c] \in 1 .. n /\ at'[c] = at[c] + 1 /\ n \in Nat
  BY <1>1, <1>2, <1>3 DEF ProperSequence, TypeOK
<1>5. TypeOK'
  BY <1>1, <1>2, <1>4 DEF TypeOK
<1>6. Accepted'
  BY <1>1, <1>2 DEF Accepted
<1>7. SlotsOf(c)' = SlotsOf(c)
  BY <1>2 DEF SlotsOf, Owner
<1>8. SlotsOf(c) \subseteq Slots /\ (IsOption(line) => slot \in SlotsOf(c))
  BY <1>1, SlotsType DEF SlotsOf
<1>9. NothingLeftBehind'
  <2> HIDE DEF slot, line, n
  <2> SUFFICES ASSUME NEW t \in Slots \ dirty', settings'[t] # {}
               PROVE  \E d \in Calls : Uses(d, t)'
    BY DEF NothingLeftBehind
  <2>1. ASSUME NEW d \in Calls \ {c}, Uses(d, t) PROVE Uses(d, t)'
    BY <1>1, <1>2, <2>1, OthersUse DEF TypeOK
  <2>2. CASE t \in SlotsOf(c) /\ at[c] < n
    <3>1. at'[c] \in DOMAIN script'[c]
      BY <1>2, <1>3, <1>4, <2>2 DEF ProperSequence, n
    <3>2. Uses(c, t)'
      BY <1>1, <1>2, <1>7, <2>2, <3>1 DEF Uses, Running
    <3> QED
      BY <3>2
  <2>3. CASE t \in SlotsOf(c) /\ at[c] = n
    <3>1. PICK j \in DOMAIN script[c] : IsOption(script[c][j]) /\ t = <<Owner(c), script[c][j][2]>>
      BY <2>3 DEF SlotsOf
    <3>2. IsOption(line) /\ IsReset(line) /\ t = slot
      BY <1>3, <2>3, <3>1, ResetAtEnd DEF slot, line, n
    <3>3. settings'[t] = {}
      BY <1>1, <1>2, <3>2 DEF Configured, TypeOK
    <3> QED
      BY <3>3
  <2>4. CASE t \notin SlotsOf(c)
    <3>1. settings'[t] = settings[t] /\ t \notin dirty
      <4>1. IsReset(line) => IsOption(line)
        BY DEF IsReset
      <4> QED
        BY <1>1, <1>2, <1>8, <2>4, <4>1 DEF TypeOK
    <3>2. PICK d \in Calls : Uses(d, t)
      BY <3>1 DEF Inv, NothingLeftBehind
    <3>3. d # c
      BY <2>4, <3>2 DEF Uses
    <3> QED
      BY <2>1, <3>2, <3>3
  <2> QED
    BY <1>4, <2>2, <2>3, <2>4
<1> QED
  BY <1>5, <1>6, <1>9 DEF Inv

\* The end of a session, with a reply or without.
LEMMA EndInv ==
    ASSUME Inv, NEW c \in Calls, request[c] # None, EndSession(c),
           answer' \in [Calls -> {"none", "error", "hashed", "clear"}],
           dirty' = dirty \cup {slot \in Hosts \X Tables : Uses(c, slot)}
    PROVE  Inv'
<1>1. /\ TypeOK /\ Accepted
      /\ request' = [request EXCEPT ![c] = None]
      /\ script' = [script EXCEPT ![c] = Refused]
      /\ at' = [at EXCEPT ![c] = 0]
      /\ settings' = [s \in Slots |-> IF s[1] = c THEN {} ELSE settings[s]]
      /\ scope' = scope
  BY DEF Inv, EndSession
<1>2. TypeOK'
  <2>1. request' \in [Calls -> Request \cup {None}]
    BY <1>1 DEF TypeOK
  <2>2. script' = [d \in Calls |-> IF request'[d] = None THEN Refused ELSE ScriptOf(request'[d])]
    BY <1>1 DEF TypeOK
  <2>3. \A d \in Calls : at'[d] <= IF request'[d] = None THEN 0 ELSE Len(script'[d]) + 1
    BY <1>1 DEF TypeOK
  <2> QED
    BY <1>1, <2>1, <2>2, <2>3 DEF TypeOK
<1>3. Accepted'
  BY <1>1 DEF TypeOK, Accepted
<1>4. NothingLeftBehind'
  <2> SUFFICES ASSUME NEW t \in Slots \ dirty', settings'[t] # {}
               PROVE  \E d \in Calls : Uses(d, t)'
    BY DEF NothingLeftBehind
  <2>1. t[1] # c /\ settings[t] # {} /\ t \notin dirty
    BY <1>1
  <2>2. PICK d \in Calls : Uses(d, t)
    BY <2>1 DEF Inv, NothingLeftBehind
  <2>3. d # c
    <3>1. Uses(c, t) => t \in ({c} \cup Hosts) \X Tables
      BY <1>1, SlotsType DEF Uses
    <3>2. Uses(c, t) => t \in Hosts \X Tables
      BY <2>1, <3>1
    <3> QED
      BY <2>2, <3>2
  <2> QED
    BY <1>1, <2>2, <2>3, OthersUse DEF TypeOK
<1> QED
  BY <1>2, <1>3, <1>4 DEF Inv

LEMMA ReplyInv ==
    ASSUME Inv, NEW c \in Calls, Reply(c) \/ Fail(c)
    PROVE  Inv'
<1>1. request[c] # None /\ EndSession(c) /\ TypeOK /\ Accepted
  BY DEF Reply, Fail, Inv
<1>2. CASE Reply(c)
  <2>1. ~Running(c)
    BY <1>1, <1>2, InProgress DEF Reply, Running, ProperSequence
  <2>2. dirty' = dirty \cup {slot \in Hosts \X Tables : Uses(c, slot)}
    BY <1>2, <2>1 DEF Reply, Uses
  <2>3. answer' \in [Calls -> {"none", "error", "hashed", "clear"}]
    BY <1>1, <1>2 DEF Reply, Answer, TypeOK
  <2> QED
    BY <1>1, <2>2, <2>3, EndInv
<1>3. CASE Fail(c)
  <2>1. /\ dirty' = dirty \cup {slot \in Hosts \X Tables : Uses(c, slot)}
        /\ answer' \in [Calls -> {"none", "error", "hashed", "clear"}]
    BY <1>1, <1>3 DEF Fail, TypeOK
  <2> QED
    BY <1>1, <2>1, EndInv
<1> QED
  BY <1>2, <1>3

\* Neither a refused request nor a stuttering step changes what Inv is about.
LEMMA StutterInv ==
    ASSUME Inv, UNCHANGED <<scope, request, script, at, settings, dirty>>,
           answer' \in [Calls -> {"none", "error", "hashed", "clear"}]
    PROVE  Inv'
<1>1. TypeOK'
  BY DEF Inv, TypeOK
<1>2. Accepted'
  BY DEF Inv, Accepted
<1>3. \A d \in Calls : \A t : Uses(d, t)' <=> Uses(d, t)
  BY DEF Uses, Running, SlotsOf, Owner
<1>4. NothingLeftBehind'
  BY <1>3 DEF Inv, NothingLeftBehind
<1> QED
  BY <1>1, <1>2, <1>4 DEF Inv

LEMMA NextInv == Inv /\ [Next]_vars => Inv'
<1> SUFFICES ASSUME Inv, [Next]_vars PROVE Inv'
  OBVIOUS
<1>1. CASE UNCHANGED vars
  BY <1>1, StutterInv DEF vars, Inv, TypeOK
<1>2. ASSUME NEW c \in Calls, NEW q \in Requests[c], Refuse(c, q) PROVE Inv'
  <2>1. answer' \in [Calls -> {"none", "error", "hashed", "clear"}]
    BY <1>2 DEF Refuse, Inv, TypeOK
  <2> QED
    BY <1>2, <2>1, StutterInv DEF Refuse
<1> QED
  BY <1>1, <1>2, AcceptInv, ExecInv, RunLineInv, ReplyInv DEF Next

LEMMA InvHolds == Spec => []Inv
  BY InitInv, NextInv, PTL DEF Spec

-----------------------------------------------------------------------------
\* In every reachable state every variable has its type, and the script of a
\* call in progress is the one built for its request.
THEOREM TypeCorrect == Spec => []TypeOK
<1>1. Inv => TypeOK
  BY DEF Inv
<1> QED
  BY <1>1, InvHolds, PTL

\* Whatever a client asks of any of the four tools, what a call sends is one
\* read or one probe with its own options around it.
THEOREM OneOperationEach == Spec => []OneOperation
<1>1. Inv => OneOperation
  BY InProgress DEF Inv, OneOperation
<1> QED
  BY <1>1, InvHolds, PTL

\* Options are left on a device only where calls overlapped or broke.
THEOREM NothingLeft == Spec => []NothingLeftBehind
<1>1. Inv => NothingLeftBehind
  BY DEF Inv
<1> QED
  BY <1>1, InvHolds, PTL

\* What a device shows, by whichever tool, is answered with its secrets hashed.
THEOREM ReadsHashed == Spec => ReadsAreHashed
<1>1. Inv /\ [Next]_vars =>
          [\A c \in Calls :
               request[c] # None /\ request'[c] = None /\ answer'[c] = "clear" =>
                   \A i \in DOMAIN script[c] : ~IsRead(script[c][i])]_vars
  <2> SUFFICES ASSUME Inv, [Next]_vars, NEW c \in Calls,
                      request[c] # None, request'[c] = None, answer'[c] = "clear"
               PROVE  ProbesOnly(script[c])
    BY DEF ProbesOnly
  <2>1. TypeOK /\ Accepted
    BY DEF Inv
  <2>2. request[c] \in Request /\ script[c] = ScriptOf(request[c])
    BY <2>1, InProgress
  <2>3. Reply(c)
    <3>1. ~UNCHANGED vars
      BY DEF vars
    <3>2. ASSUME NEW d \in Calls, NEW q \in Requests[d], Refuse(d, q) \/ Accept(d, q)
          PROVE  FALSE
      BY <2>1, <3>2, RequestsAssumption, NoneAssumption DEF Refuse, Accept, TypeOK
    <3>3. ASSUME NEW d \in Calls, Exec(d) \/ RunLine(d) PROVE FALSE
      BY <3>3 DEF Exec, RunLine
    <3>4. ASSUME NEW d \in Calls, Reply(d) PROVE d = c
      BY <2>1, <3>4 DEF Reply, EndSession, TypeOK
    <3>5. ASSUME NEW d \in Calls, Fail(d) PROVE FALSE
      BY <2>1, <3>5 DEF Fail, EndSession, TypeOK
    <3> QED
      BY <3>1, <3>2, <3>3, <3>4, <3>5 DEF Next
  <2>4. Answer(request[c]) = "clear"
    BY <2>1, <2>3 DEF Reply, TypeOK
  <2> QED
    BY <2>2, <2>4, ScriptSound
<1> QED
  BY <1>1, InvHolds, PTL DEF Spec, ReadsAreHashed
=============================================================================
