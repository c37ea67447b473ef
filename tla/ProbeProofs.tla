------------------------------ MODULE ProbeProofs ------------------------------
(***************************************************************************)
(* ProbedAsAsked for ToolCalls, for any calls, devices and arguments.      *)
(*                                                                         *)
(* First what the builders say: a line of IOS, EOS, NX-OS or JunOS is a    *)
(* head followed by keyword and value pairs (Says), a FortiOS script is    *)
(* option lines with the probe behind them (AsksBySetting); either way it  *)
(* says what the caller asked (Faithful).  Then that the device knows it   *)
(* when the probe runs: a table of options that is not dirty has one user  *)
(* at a time, and holds what the lines run so far set (SetSoFar).          *)
(***************************************************************************)
EXTENDS ToolCallsProofs

-----------------------------------------------------------------------------
(***************************************************************************)
(* Lines of words.                                                         *)
(***************************************************************************)
LEMMA ConcatIs ==
    ASSUME NEW S, NEW s \in Seq(S), NEW t \in Seq(S), NEW u \in Seq(S),
           Len(u) = Len(s) + Len(t),
           \A i \in 1 .. Len(s) : u[i] = s[i],
           \A i \in 1 .. Len(t) : u[Len(s) + i] = t[i]
    PROVE  s \o t = u
<1>1. /\ s \o t \in Seq(S) /\ Len(s \o t) = Len(s) + Len(t)
      /\ \A i \in 1 .. Len(s) + Len(t) :
             (s \o t)[i] = IF i <= Len(s) THEN s[i] ELSE t[i - Len(s)]
  BY ConcatProperties
<1>2. Len(s) \in Nat /\ Len(t) \in Nat
  OBVIOUS
<1>3. ASSUME NEW i \in 1 .. Len(u) PROVE (s \o t)[i] = u[i]
  <2>1. CASE i <= Len(s)
    BY <1>1, <1>2, <2>1
  <2>2. CASE i > Len(s)
    <3>1. i - Len(s) \in 1 .. Len(t) /\ Len(s) + (i - Len(s)) = i
      BY <1>2, <2>2
    <3> QED
      BY <1>1, <1>2, <2>2, <3>1
  <2> QED
    BY <1>2, <2>1, <2>2
<1> DEFINE st == s \o t
<1>4. st \in Seq(S) /\ Len(st) = Len(u) /\ \A i \in 1 .. Len(u) : st[i] = u[i]
  BY <1>1, <1>3
<1> HIDE DEF st
<1>5. st = u
  BY <1>4, SeqEqual
<1> QED
  BY <1>5 DEF st

LEMMA FourWords ==
    ASSUME NEW S, NEW x \in S, NEW y \in S, NEW z \in S, NEW w \in S
    PROVE  <<x>> \o <<y, z>> \o <<w>> = <<x,y,z,w>>
<1>1. <<x>> \o <<y, z>> = <<x,y,z>>
  <2> DEFINE s == <<x>>
             t == <<y, z>>
             u == <<x, y, z>>
  <2>1. /\ s \in Seq(S) /\ t \in Seq(S) /\ u \in Seq(S) /\ Len(s) = 1 /\ Len(t) = 2 /\ Len(u) = 3
        /\ s[1] = u[1] /\ t[1] = u[2] /\ t[2] = u[3]
    OBVIOUS
  <2> HIDE DEF s, t, u
  <2>2. /\ Len(u) = Len(s) + Len(t)
        /\ \A i \in 1 .. Len(s) : u[i] = s[i]
        /\ \A i \in 1 .. Len(t) : u[Len(s) + i] = t[i]
    BY <2>1
  <2>3. s \o t = u
    BY <2>1, <2>2, ConcatIs
  <2> QED
    BY <2>3 DEF s, t, u
<1>2. <<x, y, z>> \o <<w>> = <<x,y,z,w>>
  <2> DEFINE s == <<x, y, z>>
             t == <<w>>
             u == <<x, y, z, w>>
  <2>1. /\ s \in Seq(S) /\ t \in Seq(S) /\ u \in Seq(S) /\ Len(s) = 3 /\ Len(t) = 1 /\ Len(u) = 4
        /\ s[1] = u[1] /\ s[2] = u[2] /\ s[3] = u[3] /\ t[1] = u[4]
    OBVIOUS
  <2> HIDE DEF s, t, u
  <2>2. /\ Len(u) = Len(s) + Len(t)
        /\ \A i \in 1 .. Len(s) : u[i] = s[i]
        /\ \A i \in 1 .. Len(t) : u[Len(s) + i] = t[i]
    BY <2>1
  <2>3. s \o t = u
    BY <2>1, <2>2, ConcatIs
  <2> QED
    BY <2>3 DEF s, t, u
<1> QED
  BY <1>1, <1>2

LEMMA TwoWords ==
    ASSUME NEW S, NEW x \in S, NEW w \in S
    PROVE  <<x>> \o <<>> \o <<w>> = <<x,w>>
<1>1. <<x>> \o <<>> = <<x>>
  OBVIOUS
<1>2. <<x>> \o <<w>> = <<x,w>>
  <2> DEFINE s == <<x>>
             t == <<w>>
             u == <<x, w>>
  <2>1. /\ s \in Seq(S) /\ t \in Seq(S) /\ u \in Seq(S) /\ Len(s) = 1 /\ Len(t) = 1 /\ Len(u) = 2
        /\ s[1] = u[1] /\ t[1] = u[2]
    OBVIOUS
  <2> HIDE DEF s, t, u
  <2>2. /\ Len(u) = Len(s) + Len(t)
        /\ \A i \in 1 .. Len(s) : u[i] = s[i]
        /\ \A i \in 1 .. Len(t) : u[Len(s) + i] = t[i]
    BY <2>1
  <2>3. s \o t = u
    BY <2>1, <2>2, ConcatIs
  <2> QED
    BY <2>3 DEF s, t, u
<1> QED
  BY <1>1, <1>2

Pair(k, v) == IF v = Unset THEN {} ELSE {<<k, v>>}

\* What a line that begins with head says after it, in keywords and values.
Odd(m, n) == {j \in m + 1 .. n - 1 : j % 2 = 1}
SaidAfter(m, s) == {<<s[i], s[i + 1]>> : i \in Odd(m, Len(s))}

Says(s, head, pairs) ==
    /\ s \in Seq(ProbeWords)
    /\ Len(s) % 2 = 0 /\ Len(head) <= Len(s)
    /\ \A i \in 1 .. Len(head) : s[i] = head[i]
    /\ SaidAfter(Len(head), s) = pairs

LEMMA SaysOption ==
    ASSUME NEW head \in Seq(ProbeWords), Len(head) \in {2, 4}, NEW s, NEW pairs,
           Says(s, head, pairs),
           NEW k \in Keywords, NEW v \in Plain \cup Numbers \cup {Unset}
    PROVE  Says(s \o Option(k, v), head, pairs \cup Pair(k, v))
<1> DEFINE m == Len(head)
           t == s \o Option(k, v)
           n == Len(s)
<1>1. /\ s \in Seq(ProbeWords) /\ n % 2 = 0 /\ m <= n /\ n \in Nat /\ m \in Nat
      /\ \A i \in 1 .. m : s[i] = head[i]
      /\ SaidAfter(m, s) = pairs
  BY DEF Says
<1>2. CASE v = Unset
  <2>1. t = s
    BY <1>1, <1>2 DEF Option
  <2> QED
    BY <1>2, <2>1 DEF Pair
<1>3. CASE v # Unset
  <2>1. Option(k, v) = <<k, v>> /\ Option(k, v) \in Seq(ProbeWords)
    BY <1>3, OptionType DEF Option
  <2>2. /\ t \in Seq(ProbeWords) /\ Len(t) = n + 2
        /\ \A i \in 1 .. n + 2 : t[i] = IF i <= n THEN s[i] ELSE <<k, v>>[i - n]
    <3> DEFINE o == <<k, v>>
    <3>1. Len(o) = 2 /\ o \in Seq(ProbeWords) /\ t = s \o o
      BY <2>1
    <3> HIDE DEF o, t
    <3>2. /\ s \o o \in Seq(ProbeWords) /\ Len(s \o o) = Len(s) + Len(o)
          /\ \A i \in 1 .. Len(s) + Len(o) :
                 (s \o o)[i] = IF i <= Len(s) THEN s[i] ELSE o[i - Len(s)]
      BY <1>1, <3>1, ConcatProperties
    <3> QED
      BY <3>1, <3>2 DEF o
  <2> HIDE DEF t
  <2>3. (\A i \in 1 .. n : t[i] = s[i]) /\ t[n + 1] = k /\ t[n + 2] = v
    BY <1>1, <2>2
  <2>4. Odd(m, n + 2) = Odd(m, n) \cup {n + 1}
    BY <1>1 DEF Odd
  <2>5. SaidAfter(m, t) = SaidAfter(m, s) \cup {<<k, v>>}
    <3>1. \A i \in Odd(m, n) : i \in 1 .. n /\ i + 1 \in 1 .. n
      BY <1>1 DEF Odd
    <3>2. \A i \in Odd(m, n) : t[i] = s[i] /\ t[i + 1] = s[i + 1]
      BY <2>3, <3>1
    <3>3. t[n + 1] = k /\ t[(n + 1) + 1] = v
      BY <1>1, <2>3
    <3>4. SaidAfter(m, t) = {<<t[i], t[i + 1]>> : i \in Odd(m, n) \cup {n + 1}}
      BY <2>2, <2>4 DEF SaidAfter
    <3>5. SaidAfter(m, s) = {<<s[i], s[i + 1]>> : i \in Odd(m, n)}
      BY DEF SaidAfter
    <3>6. {<<t[i], t[i + 1]>> : i \in Odd(m, n)} = {<<s[i], s[i + 1]>> : i \in Odd(m, n)}
      BY <3>2
    <3>7. {<<t[i], t[i + 1]>> : i \in Odd(m, n) \cup {n + 1}}
              = {<<t[i], t[i + 1]>> : i \in Odd(m, n)} \cup {<<t[n + 1], t[(n + 1) + 1]>>}
      OBVIOUS
    <3> QED
      BY <3>3, <3>4, <3>5, <3>6, <3>7
  <2>6. \A i \in 1 .. m : t[i] = head[i]
    BY <1>1, <2>3
  <2>7. Len(t) % 2 = 0 /\ m <= Len(t)
    BY <1>1, <2>2
  <2> QED
    BY <1>1, <1>3, <2>2, <2>5, <2>6, <2>7 DEF Says, Pair, t
<1> QED
  BY <1>2, <1>3

\* A line that is nothing but its head says nothing after it.
LEMMA SaysNothing ==
    ASSUME NEW head \in Seq(ProbeWords), Len(head) \in {2, 4}
    PROVE  Says(head, head, {})
<1>0. 2 % 2 = 0 /\ 4 % 2 = 0
  OBVIOUS
<1>1. Odd(Len(head), Len(head)) = {} /\ Len(head) % 2 = 0
  <2>1. Len(head) % 2 = 0
    BY <1>0, Zenon
  <2>2. Odd(Len(head), Len(head)) = {}
    BY DEF Odd
  <2> QED
    BY <2>1, <2>2
<1>2. SaidAfter(Len(head), head) = {}
  BY <1>1 DEF SaidAfter
<1>3. Len(head) <= Len(head) /\ \A i \in 1 .. Len(head) : head[i] = head[i]
  OBVIOUS
<1> QED
  BY <1>1, <1>2, <1>3 DEF Says

\* What the caller asks of a device, in its words.
Asked(kw, a) == {<<kw[p], a[p]>> : p \in Given(a) \cap DOMAIN kw}

LEMMA PingSays ==
    ASSUME NEW dt \in DeviceTypes, NEW a \in PingArgs, checkCommandArgs(a),
           a.destination # Unset, NotNegative(a, {"count", "timeout", "size"})
    PROVE  Says(pingLine(a, dt), <<"ping", a.destination>>,
                Pair(IF dt \in {"nxos", "junos"} THEN "count" ELSE "repeat", a.count)
                    \cup Pair(IF dt = "nxos" THEN "packet-size" ELSE "size", a.size)
                    \cup Pair("source", a.source)
                    \cup Pair(IF dt = "junos" THEN "routing-instance" ELSE "vrf", a.vrf))
<1> DEFINE vs == {a.count, a.size, a.source, a.vrf}
           k1 == IF dt \in {"nxos", "junos"} THEN "count" ELSE "repeat"
           k2 == IF dt = "nxos" THEN "packet-size" ELSE "size"
           k4 == IF dt = "junos" THEN "routing-instance" ELSE "vrf"
           head == <<"ping", a.destination>>
           l1 == head \o Option(k1, a.count)
           l2 == l1 \o Option(k2, a.size)
           l3 == l2 \o Option("source", a.source)
           l4 == l3 \o Option(k4, a.vrf)
           p1 == {} \cup Pair(k1, a.count)
           p2 == p1 \cup Pair(k2, a.size)
           p3 == p2 \cup Pair("source", a.source)
           p4 == p3 \cup Pair(k4, a.vrf)
<1>1. a.destination \in Plain /\ vs \subseteq Plain \cup Numbers \cup {Unset}
  BY DEF checkCommandArgs, NotNegative, PingArgs, Amounts
<1>2. head \in Seq(ProbeWords) /\ Len(head) \in {2, 4}
  BY <1>1 DEF ProbeWords, Keywords
<1>3. k1 \in Keywords /\ k2 \in Keywords /\ "source" \in Keywords /\ k4 \in Keywords
  BY DEF Keywords
<1>4. a.count \in vs /\ a.size \in vs /\ a.source \in vs /\ a.vrf \in vs
  OBVIOUS
<1>5. pingLine(a, dt) = l4
  BY DEF pingLine
<1> HIDE DEF vs, head, k1, k2, k4
<1>6. \A s, pairs : \A k \in Keywords, v \in vs :
          Says(s, head, pairs) => Says(s \o Option(k, v), head, pairs \cup Pair(k, v))
  BY <1>1, <1>2, SaysOption
<1>10. Says(head, head, {})
  BY <1>2, SaysNothing
<1>11. Says(l1, head, p1)
  BY <1>3, <1>4, <1>6, <1>10
<1> HIDE DEF l1, p1
<1>12. Says(l2, head, p2)
  BY <1>3, <1>4, <1>6, <1>11
<1> HIDE DEF l2, p2
<1>13. Says(l3, head, p3)
  BY <1>3, <1>4, <1>6, <1>12
<1> HIDE DEF l3, p3
<1>14. Says(l4, head, p4)
  BY <1>3, <1>4, <1>6, <1>13
<1>15. p4 = Pair(k1, a.count) \cup Pair(k2, a.size) \cup Pair("source", a.source)
                \cup Pair(k4, a.vrf)
  BY DEF p1, p2, p3
<1> QED
  BY <1>5, <1>14, <1>15 DEF k1, k2, k4, head

LEMMA TracerouteSays ==
    ASSUME NEW dt \in DeviceTypes, NEW a \in TracerouteArgs, checkCommandArgs(a),
           a.destination # Unset, NotNegative(a, {"max_hops", "timeout", "probe"})
    PROVE  Says(tracerouteLine(a, dt),
                IF dt = "ios" /\ a.vrf # Unset
                THEN <<"traceroute", "vrf", a.vrf, a.destination>>
                ELSE <<"traceroute", a.destination>>,
                Pair(IF dt = "junos" THEN "ttl" ELSE "maximum-hops", a.max_hops)
                    \cup Pair(IF dt = "junos" THEN "wait" ELSE "timeout", a.timeout)
                    \cup Pair("probe", IF dt = "junos" THEN Unset ELSE a.probe)
                    \cup Pair("source", a.source)
                    \cup Pair(IF dt = "junos" THEN "routing-instance" ELSE "vrf",
                              IF dt = "ios" THEN Unset ELSE a.vrf))
<1> DEFINE vs == {a.max_hops, a.timeout, a.probe, a.source, a.vrf, Unset}
           k1 == IF dt = "junos" THEN "ttl" ELSE "maximum-hops"
           k2 == IF dt = "junos" THEN "wait" ELSE "timeout"
           v3 == IF dt = "junos" THEN Unset ELSE a.probe
           k5 == IF dt = "junos" THEN "routing-instance" ELSE "vrf"
           v5 == IF dt = "ios" THEN Unset ELSE a.vrf
           head == IF dt = "ios" /\ a.vrf # Unset
                   THEN <<"traceroute", "vrf", a.vrf, a.destination>>
                   ELSE <<"traceroute", a.destination>>
           l1 == head \o Option(k1, a.max_hops)
           l2 == l1 \o Option(k2, a.timeout)
           l3 == l2 \o Option("probe", v3)
           l4 == l3 \o Option("source", a.source)
           l5 == l4 \o Option(k5, v5)
           p1 == {} \cup Pair(k1, a.max_hops)
           p2 == p1 \cup Pair(k2, a.timeout)
           p3 == p2 \cup Pair("probe", v3)
           p4 == p3 \cup Pair("source", a.source)
           p5 == p4 \cup Pair(k5, v5)
<1>1. a.destination \in Plain /\ vs \subseteq Plain \cup Numbers \cup {Unset}
  BY DEF checkCommandArgs, NotNegative, TracerouteArgs, Amounts
<1>2. head \in Seq(ProbeWords) /\ Len(head) \in {2, 4}
  <2>1. "traceroute" \in ProbeWords /\ "vrf" \in ProbeWords /\ a.destination \in ProbeWords
    BY <1>1 DEF ProbeWords, Keywords
  <2>2. a.vrf # Unset => a.vrf \in ProbeWords
    BY <1>1 DEF ProbeWords
  <2> QED
    BY <2>1, <2>2
<1>3. {k1, k2, "probe", "source", k5} \subseteq Keywords
  BY DEF Keywords
<1>4. {a.max_hops, a.timeout, v3, a.source, v5} \subseteq vs
  OBVIOUS
<1>5. tracerouteLine(a, dt) = l5
  <2>1. <<"traceroute">> \o Option("vrf", IF dt = "ios" THEN a.vrf ELSE Unset)
            \o <<a.destination>> = head
    <3> DEFINE o == Option("vrf", IF dt = "ios" THEN a.vrf ELSE Unset)
    <3>1. "traceroute" \in ProbeWords /\ "vrf" \in ProbeWords /\ a.destination \in ProbeWords
      BY <1>1 DEF ProbeWords, Keywords
    <3>2. CASE dt = "ios" /\ a.vrf # Unset
      <4>1. o = <<"vrf", a.vrf>> /\ head = <<"traceroute", "vrf", a.vrf, a.destination>>
        BY <3>2 DEF Option
      <4>2. a.vrf \in ProbeWords
        BY <1>1, <3>2 DEF ProbeWords
      <4>3. <<"traceroute">> \o <<"vrf", a.vrf>> \o <<a.destination>>
                = <<"traceroute", "vrf", a.vrf, a.destination>>
        BY <3>1, <4>2, FourWords
      <4> HIDE DEF head, o
      <4>4. <<"traceroute">> \o o \o <<a.destination>> = head
        BY <4>1, <4>3
      <4> QED
        BY <4>4 DEF o
    <3>3. CASE ~(dt = "ios" /\ a.vrf # Unset)
      <4>1. o = <<>> /\ head = <<"traceroute", a.destination>>
        BY <3>3 DEF Option
      <4>2. <<"traceroute">> \o <<>> \o <<a.destination>> = <<"traceroute", a.destination>>
        BY <3>1, TwoWords
      <4> HIDE DEF head, o
      <4>3. <<"traceroute">> \o o \o <<a.destination>> = head
        BY <4>1, <4>2
      <4> QED
        BY <4>3 DEF o
    <3> QED
      BY <3>2, <3>3
  <2> HIDE DEF head, k1, k2, v3, k5, v5
  <2> QED
    BY <2>1 DEF tracerouteLine, k1, k2, v3, k5, v5
<1> HIDE DEF vs, head, k1, k2, v3, k5, v5
<1>6. \A s, pairs : \A k \in Keywords, v \in vs :
          Says(s, head, pairs) => Says(s \o Option(k, v), head, pairs \cup Pair(k, v))
  BY <1>1, <1>2, SaysOption
<1>10. Says(head, head, {})
  BY <1>2, SaysNothing
<1>11. Says(l1, head, p1)
  BY <1>3, <1>4, <1>6, <1>10
<1> HIDE DEF l1, p1
<1>12. Says(l2, head, p2)
  BY <1>3, <1>4, <1>6, <1>11
<1> HIDE DEF l2, p2
<1>13. Says(l3, head, p3)
  BY <1>3, <1>4, <1>6, <1>12
<1> HIDE DEF l3, p3
<1>14. Says(l4, head, p4)
  BY <1>3, <1>4, <1>6, <1>13
<1> HIDE DEF l4, p4
<1>15. Says(l5, head, p5)
  BY <1>3, <1>4, <1>6, <1>14
<1>16. p5 = Pair(k1, a.max_hops) \cup Pair(k2, a.timeout) \cup Pair("probe", v3)
                \cup Pair("source", a.source) \cup Pair(k5, v5)
  BY DEF p1, p2, p3, p4
<1> QED
  BY <1>5, <1>15, <1>16 DEF k1, k2, v3, k5, v5, head

-----------------------------------------------------------------------------
(***************************************************************************)
(* What a FortiOS script sets.                                             *)
(***************************************************************************)

\* What the option lines before line i set.
SetBefore(lines, i) ==
    {<<lines[j][3], lines[j][4]>> : j \in {k \in 1 .. i - 1 : IsOption(lines[k])}}

\* No option is set twice.
Distinct(lines) ==
    \A j, k \in DOMAIN lines :
        IsOption(lines[j]) /\ IsOption(lines[k]) /\ lines[j][3] = lines[k][3] => j = k

\* Lines that set the given pairs, all of keys and each key once.
Sets(s, table, keys, pairs) ==
    /\ s \in Seq(OptionLines(table))
    /\ \A j \in 1 .. Len(s) : s[j][3] \in keys
    /\ \A j, k \in 1 .. Len(s) : s[j][3] = s[k][3] => j = k
    /\ {<<s[j][3], s[j][4]>> : j \in 1 .. Len(s)} = pairs

LEMMA SetsNothing ==
    ASSUME NEW table
    PROVE  Sets(<<>>, table, {}, {})
  BY DEF Sets

LEMMA SetsOption ==
    ASSUME NEW table, NEW s, NEW keys, NEW pairs, Sets(s, table, keys, pairs),
           NEW k \in Keywords \ {"reset"}, k \notin keys,
           NEW v \in Plain \cup Numbers \cup {Unset}
    PROVE  Sets(s \o OptionLine(table, k, v), table, keys \cup {k}, pairs \cup Pair(k, v))
<1> DEFINE t == s \o OptionLine(table, k, v)
           n == Len(s)
<1>1. /\ s \in Seq(OptionLines(table)) /\ n \in Nat
      /\ \A j \in 1 .. n : s[j][3] \in keys
      /\ \A j, i \in 1 .. n : s[j][3] = s[i][3] => j = i
      /\ {<<s[j][3], s[j][4]>> : j \in 1 .. n} = pairs
  BY DEF Sets
<1>2. CASE v = Unset
  <2>1. t = s
    BY <1>1, <1>2 DEF OptionLine
  <2>2. Pair(k, v) = {}
    BY <1>2 DEF Pair
  <2>3. pairs \cup Pair(k, v) = pairs
    BY <2>2
  <2>4. Sets(s, table, keys \cup {k}, pairs)
    BY <1>1 DEF Sets
  <2> HIDE DEF t
  <2>5. Sets(t, table, keys \cup {k}, pairs \cup Pair(k, v))
    BY <2>1, <2>3, <2>4
  <2> QED
    BY <2>5 DEF t
<1>3. CASE v # Unset
  <2> DEFINE line == <<"execute", table, k, v>>
             o == <<line>>
  <2>1. line \in OptionLines(table) /\ line[3] = k /\ line[4] = v
    BY <1>3 DEF OptionLines
  <2>2. t = s \o o
    BY <1>3 DEF OptionLine
  <2> HIDE DEF line, t
  <2>3. Len(o) = 1 /\ o \in Seq(OptionLines(table)) /\ o[1] = line
    BY <2>1
  <2> HIDE DEF o
  <2>4. /\ t \in Seq(OptionLines(table)) /\ Len(t) = n + 1
        /\ \A i \in 1 .. n + 1 : t[i] = IF i <= n THEN s[i] ELSE o[i - n]
    <3> DEFINE Os == OptionLines(table)
    <3>1. s \in Seq(Os) /\ o \in Seq(Os)
      BY <1>1, <2>3
    <3> HIDE DEF Os
    <3>2. /\ s \o o \in Seq(Os) /\ Len(s \o o) = Len(s) + Len(o)
          /\ \A i \in 1 .. Len(s) + Len(o) :
                 (s \o o)[i] = IF i <= Len(s) THEN s[i] ELSE o[i - Len(s)]
      BY <3>1, ConcatProperties
    <3> QED
      BY <2>2, <2>3, <3>2 DEF Os
  <2>5. (\A i \in 1 .. n : t[i] = s[i]) /\ t[n + 1] = line
    BY <1>1, <2>3, <2>4
  <2>6. 1 .. n + 1 = (1 .. n) \cup {n + 1}
    BY <1>1
  <2>7. \A j \in 1 .. n + 1 : t[j][3] \in keys \cup {k}
    BY <1>1, <2>1, <2>5, <2>6
  <2>8. \A j, i \in 1 .. n + 1 : t[j][3] = t[i][3] => j = i
    <3>1. \A j \in 1 .. n : t[j][3] \in keys /\ t[j][3] # k
      BY <1>1, <2>5
    <3>2. \A j, i \in 1 .. n : t[j][3] = t[i][3] => j = i
      BY <1>1, <2>5
    <3>3. t[n + 1][3] = k
      BY <2>1, <2>5
    <3> QED
      BY <2>6, <3>1, <3>2, <3>3
  <2>9. {<<t[j][3], t[j][4]>> : j \in 1 .. n + 1} = pairs \cup {<<k, v>>}
    <3>1. {<<t[j][3], t[j][4]>> : j \in 1 .. n} = {<<s[j][3], s[j][4]>> : j \in 1 .. n}
      BY <2>5
    <3>2. {<<t[j][3], t[j][4]>> : j \in (1 .. n) \cup {n + 1}}
              = {<<t[j][3], t[j][4]>> : j \in 1 .. n} \cup {<<t[n + 1][3], t[n + 1][4]>>}
      OBVIOUS
    <3> QED
      BY <1>1, <2>1, <2>5, <2>6, <3>1, <3>2
  <2>10. Pair(k, v) = {<<k, v>>}
    BY <1>3 DEF Pair
  <2>11. Sets(t, table, keys \cup {k}, pairs \cup {<<k, v>>})
    BY <2>4, <2>7, <2>8, <2>9 DEF Sets
  <2> QED
    BY <2>10, <2>11 DEF t
<1> QED
  BY <1>2, <1>3

\* What holds of a FortiOS script that asks for the given pairs.
AsksBySetting(lines, name, pairs) ==
    /\ Distinct(lines)
    /\ \E j \in DOMAIN lines : IsOption(lines[j]) /\ lines[j][2] = OptionsOf[name]
    /\ \A i \in DOMAIN lines : IsProbe(lines[i]) =>
           lines[i][1] = "execute" /\ lines[i][2] = name /\ SetBefore(lines, i) = pairs

\* At the probe of such a script the options before it are all set.
LEMMA SetsAll ==
    ASSUME NEW name \in Probes, NEW destination \in Plain, NEW options, NEW keys, NEW pairs,
           Sets(options, OptionsOf[name], keys, pairs)
    PROVE  AsksBySetting(options \o ProbeThenReset(name, OptionsOf[name], destination),
                         name, pairs)
<1> DEFINE table == OptionsOf[name]
           pair == ProbeThenReset(name, table, destination)
           lines == options \o pair
           n == Len(options)
           S == OptionLines(table) \cup {pair[1], pair[2]}
<1>1. table \in Tables
  BY DEF Probes, OptionsOf, Tables
<1>2. /\ Len(pair) = 2 /\ pair = <<pair[1], pair[2]>>
      /\ pair[1][1] = "execute" /\ pair[1][2] = name
      /\ pair[2][1] = "execute" /\ pair[2][2] = table /\ pair[2][3] = "reset"
  BY DEF ProbeThenReset
<1>3. /\ options \in Seq(OptionLines(table)) /\ n \in Nat
      /\ \A j, i \in 1 .. n : options[j][3] = options[i][3] => j = i
      /\ {<<options[j][3], options[j][4]>> : j \in 1 .. n} = pairs
  BY DEF Sets
<1> HIDE DEF pair, table
<1>4. /\ lines \in Seq(S) /\ Len(lines) = n + 2
      /\ \A i \in 1 .. n + 2 : lines[i] = IF i <= n THEN options[i] ELSE pair[i - n]
  <2>1. OptionLines(table) \subseteq S /\ pair[1] \in S /\ pair[2] \in S
    OBVIOUS
  <2> HIDE DEF S
  <2>2. options \in Seq(S)
    BY <1>3, <2>1, SeqMonotone
  <2>3. \A x, y \in S : <<x, y>> \in Seq(S)
    OBVIOUS
  <2>4. pair \in Seq(S)
    BY <1>2, <2>1, <2>3, Zenon
  <2>5. /\ lines \in Seq(S) /\ Len(lines) = Len(options) + Len(pair)
        /\ \A i \in 1 .. Len(options) + Len(pair) :
               lines[i] = IF i <= Len(options) THEN options[i] ELSE pair[i - Len(options)]
    BY <2>2, <2>4, ConcatProperties
  <2> QED
    BY <1>2, <2>5
<1>5. DOMAIN lines = 1 .. n + 2
  BY <1>4
<1> HIDE DEF lines, S
<1>6. lines[n + 1] = pair[1] /\ lines[n + 2] = pair[2]
  BY <1>3, <1>4
<1>7. \A j \in 1 .. n : lines[j] = options[j] /\ lines[j] \in OptionLines(table)
  BY <1>3, <1>4
<1>8. \A j \in 1 .. n : IsOption(lines[j]) /\ ~IsReset(lines[j]) /\ lines[j][1] = "execute"
                        /\ lines[j][2] = table
  BY <1>1, <1>7, OptionHarmless DEF IsOption
<1>9. \A i \in 1 .. n + 2 : i \in 1 .. n \/ i = n + 1 \/ i = n + 2
  BY <1>3
<1>10. ~IsOption(lines[n + 1]) /\ IsOption(lines[n + 2]) /\ IsReset(lines[n + 2])
  BY <1>1, <1>2, <1>6 DEF IsOption, IsReset, Probes, Tables
<1>11. Distinct(lines)
  <2>1. \A j, i \in 1 .. n : lines[j][3] = lines[i][3] => j = i
    BY <1>3, <1>7
  <2>2. \A j \in 1 .. n : lines[j][3] # "reset"
    BY <1>8 DEF IsReset
  <2>3. lines[n + 2][3] = "reset"
    BY <1>2, <1>6
  <2> QED
    BY <1>5, <1>9, <1>10, <2>1, <2>2, <2>3 DEF Distinct
<1>12. \A i \in DOMAIN lines : IsProbe(lines[i]) => i = n + 1
  <2>1. \A line : IsOption(line) => ~IsProbe(line)
    BY DEF IsOption, IsProbe, Tables, Probes
  <2> QED
    BY <1>5, <1>8, <1>9, <1>10, <2>1
<1>13. SetBefore(lines, n + 1) = pairs
  <2>1. {k \in 1 .. (n + 1) - 1 : IsOption(lines[k])} = 1 .. n
    BY <1>3, <1>8
  <2>2. SetBefore(lines, n + 1) = {<<lines[j][3], lines[j][4]>> : j \in 1 .. n}
    BY <2>1 DEF SetBefore
  <2>3. {<<lines[j][3], lines[j][4]>> : j \in 1 .. n}
            = {<<options[j][3], options[j][4]>> : j \in 1 .. n}
    BY <1>7
  <2> QED
    BY <1>3, <2>2, <2>3
<1>14. n + 2 \in DOMAIN lines /\ IsOption(lines[n + 2]) /\ lines[n + 2][2] = table
  BY <1>2, <1>3, <1>5, <1>6, <1>10
<1>15. /\ Distinct(lines)
       /\ \E j \in DOMAIN lines : IsOption(lines[j]) /\ lines[j][2] = table
       /\ \A i \in DOMAIN lines : IsProbe(lines[i]) =>
              lines[i][1] = "execute" /\ lines[i][2] = name /\ SetBefore(lines, i) = pairs
  BY <1>2, <1>6, <1>11, <1>12, <1>13, <1>14
<1> QED
  BY <1>15 DEF lines, pair, table, AsksBySetting

LEMMA FortiOSPingAsks ==
    ASSUME NEW a \in PingArgs, checkCommandArgs(a), a.destination # Unset,
           NotNegative(a, {"count", "timeout", "size"})
    PROVE  AsksBySetting(fortiOSPing(a), "ping",
               Pair("repeat-count", a.count) \cup Pair("data-size", a.size)
                   \cup Pair("timeout", a.timeout) \cup Pair("source", a.source)
                   \cup Pair("interface", a.outgoing_interface))
<1> DEFINE t == "ping-options"
           s1 == OptionLine(t, "repeat-count", a.count)
           s2 == s1 \o OptionLine(t, "data-size", a.size)
           s3 == s2 \o OptionLine(t, "timeout", a.timeout)
           s4 == s3 \o OptionLine(t, "source", a.source)
           s5 == s4 \o OptionLine(t, "interface", a.outgoing_interface)
           p1 == {} \cup Pair("repeat-count", a.count)
           p2 == p1 \cup Pair("data-size", a.size)
           p3 == p2 \cup Pair("timeout", a.timeout)
           p4 == p3 \cup Pair("source", a.source)
           p5 == p4 \cup Pair("interface", a.outgoing_interface)
           k1 == {} \cup {"repeat-count"}
           k2 == k1 \cup {"data-size"}
           k3 == k2 \cup {"timeout"}
           k4 == k3 \cup {"source"}
           vs == {a.count, a.size, a.timeout, a.source, a.outgoing_interface}
<1>1. a.destination \in Plain /\ vs \subseteq Plain \cup Numbers \cup {Unset}
  BY DEF checkCommandArgs, NotNegative, PingArgs, Amounts
<1>2. {"repeat-count", "data-size", "timeout", "source", "interface"} \subseteq Keywords \ {"reset"}
  BY DEF Keywords
<1>3. fortiOSPing(a) = s5 \o ProbeThenReset("ping", t, a.destination)
  BY DEF fortiOSPing
<1>4. "ping" \in Probes /\ OptionsOf["ping"] = t
  BY DEF Probes, OptionsOf
<1>5. /\ "data-size" \notin k1 /\ "timeout" \notin k2 /\ "source" \notin k3
      /\ "interface" \notin k4
  OBVIOUS
<1>6. {a.count, a.size, a.timeout, a.source, a.outgoing_interface} \subseteq vs
  OBVIOUS
<1> HIDE DEF vs, t
<1>7. \A s, keys, pairs : \A k \in Keywords \ {"reset"}, v \in vs :
          k \notin keys /\ Sets(s, t, keys, pairs) =>
              Sets(s \o OptionLine(t, k, v), t, keys \cup {k}, pairs \cup Pair(k, v))
  BY <1>1, SetsOption
<1>8. Sets(s1, t, k1, p1)
  <2>1. <<>> \o s1 = s1
    <3>1. s1 \in Seq(OptionLines(t))
      BY <1>1, <1>2, <1>6, OptionLineType
    <3> HIDE DEF s1
    <3> QED
      BY <3>1
  <2>2. Sets(<<>>, t, {}, {})
    BY SetsNothing
  <2>3. Sets(<<>> \o s1, t, k1, p1)
    BY <1>2, <1>6, <1>7, <2>2
  <2> QED
    BY <2>1, <2>3
<1> HIDE DEF s1, p1, k1
<1>9. Sets(s2, t, k2, p2)
  BY <1>2, <1>5, <1>6, <1>7, <1>8
<1> HIDE DEF s2, p2, k2
<1>10. Sets(s3, t, k3, p3)
  BY <1>2, <1>5, <1>6, <1>7, <1>9
<1> HIDE DEF s3, p3, k3
<1>11. Sets(s4, t, k4, p4)
  BY <1>2, <1>5, <1>6, <1>7, <1>10
<1> HIDE DEF s4, p4, k4
<1>12. Sets(s5, t, k4 \cup {"interface"}, p5)
  BY <1>2, <1>5, <1>6, <1>7, <1>11
<1> HIDE DEF s5, p5
<1>13. AsksBySetting(s5 \o ProbeThenReset("ping", t, a.destination), "ping", p5)
  <2> DEFINE name == "ping"
             keys == k4 \cup {"interface"}
  <2>1. name \in Probes /\ OptionsOf[name] = t
    BY <1>4
  <2>2. Sets(s5, t, keys, p5)
    BY <1>12
  <2> HIDE DEF name, keys
  <2>3. Sets(s5, OptionsOf[name], keys, p5)
    BY <2>1, <2>2
  <2>4. AsksBySetting(s5 \o ProbeThenReset(name, OptionsOf[name], a.destination), name, p5)
    BY <1>1, <2>1, <2>3, SetsAll
  <2>5. AsksBySetting(s5 \o ProbeThenReset(name, t, a.destination), name, p5)
    BY <2>1, <2>4
  <2> QED
    BY <2>5 DEF name
<1>14. p5 = Pair("repeat-count", a.count) \cup Pair("data-size", a.size)
                \cup Pair("timeout", a.timeout) \cup Pair("source", a.source)
                \cup Pair("interface", a.outgoing_interface)
  BY DEF p1, p2, p3, p4, p5
<1> QED
  BY <1>3, <1>13, <1>14

LEMMA FortiOSTracerouteAsks ==
    ASSUME NEW a \in TracerouteArgs, checkCommandArgs(a), a.destination # Unset,
           NotNegative(a, {"max_hops", "timeout", "probe"})
    PROVE  AsksBySetting(fortiOSTraceroute(a), "traceroute",
               Pair("queries", a.probe) \cup Pair("source", a.source)
                   \cup Pair("device", a.outgoing_interface))
<1> DEFINE t == "traceroute-options"
           s1 == OptionLine(t, "queries", a.probe)
           s2 == s1 \o OptionLine(t, "source", a.source)
           s3 == s2 \o OptionLine(t, "device", a.outgoing_interface)
           p1 == {} \cup Pair("queries", a.probe)
           p2 == p1 \cup Pair("source", a.source)
           p3 == p2 \cup Pair("device", a.outgoing_interface)
           k1 == {} \cup {"queries"}
           k2 == k1 \cup {"source"}
           vs == {a.probe, a.source, a.outgoing_interface}
<1>1. a.destination \in Plain /\ vs \subseteq Plain \cup Numbers \cup {Unset}
  BY DEF checkCommandArgs, NotNegative, TracerouteArgs, Amounts
<1>2. {"queries", "source", "device"} \subseteq Keywords \ {"reset"}
  BY DEF Keywords
<1>3. fortiOSTraceroute(a) = s3 \o ProbeThenReset("traceroute", t, a.destination)
  BY DEF fortiOSTraceroute
<1>4. "traceroute" \in Probes /\ OptionsOf["traceroute"] = t
  BY DEF Probes, OptionsOf
<1>5. "source" \notin k1 /\ "device" \notin k2
  OBVIOUS
<1>6. {a.probe, a.source, a.outgoing_interface} \subseteq vs
  OBVIOUS
<1> HIDE DEF vs, t
<1>7. \A s, keys, pairs : \A k \in Keywords \ {"reset"}, v \in vs :
          k \notin keys /\ Sets(s, t, keys, pairs) =>
              Sets(s \o OptionLine(t, k, v), t, keys \cup {k}, pairs \cup Pair(k, v))
  BY <1>1, SetsOption
<1>8. Sets(s1, t, k1, p1)
  <2>1. <<>> \o s1 = s1
    <3>1. s1 \in Seq(OptionLines(t))
      BY <1>1, <1>2, <1>6, OptionLineType
    <3> HIDE DEF s1
    <3> QED
      BY <3>1
  <2>2. Sets(<<>>, t, {}, {})
    BY SetsNothing
  <2>3. Sets(<<>> \o s1, t, k1, p1)
    BY <1>2, <1>6, <1>7, <2>2
  <2> QED
    BY <2>1, <2>3
<1> HIDE DEF s1, p1, k1
<1>9. Sets(s2, t, k2, p2)
  BY <1>2, <1>5, <1>6, <1>7, <1>8
<1> HIDE DEF s2, p2, k2
<1>10. Sets(s3, t, k2 \cup {"device"}, p3)
  BY <1>2, <1>5, <1>6, <1>7, <1>9
<1> HIDE DEF s3, p3
<1>11. AsksBySetting(s3 \o ProbeThenReset("traceroute", t, a.destination), "traceroute", p3)
  <2> DEFINE name == "traceroute"
             keys == k2 \cup {"device"}
  <2>1. name \in Probes /\ OptionsOf[name] = t
    BY <1>4
  <2>2. Sets(s3, t, keys, p3)
    BY <1>10
  <2> HIDE DEF name, keys
  <2>3. Sets(s3, OptionsOf[name], keys, p3)
    BY <2>1, <2>2
  <2>4. AsksBySetting(s3 \o ProbeThenReset(name, OptionsOf[name], a.destination), name, p3)
    BY <1>1, <2>1, <2>3, SetsAll
  <2>5. AsksBySetting(s3 \o ProbeThenReset(name, t, a.destination), name, p3)
    BY <2>1, <2>4
  <2> QED
    BY <2>5 DEF name
<1>12. p3 = Pair("queries", a.probe) \cup Pair("source", a.source)
                \cup Pair("device", a.outgoing_interface)
  BY DEF p1, p2, p3
<1> QED
  BY <1>3, <1>11, <1>12

-----------------------------------------------------------------------------
(***************************************************************************)
(* What a request asks for, and what its script says.                      *)
(***************************************************************************)
AskedBy(q) == Asked(Keyword(q), q.args)

Faithful(q, lines) ==
    /\ Distinct(lines)
    /\ \A i \in DOMAIN lines : IsProbe(lines[i]) =>
           /\ IF lines[i][1] = "execute"
              THEN /\ SetBefore(lines, i) = AskedBy(q)
                   /\ \E j \in DOMAIN lines :
                          IsOption(lines[j]) /\ lines[j][2] = OptionsOf[lines[i][2]]
              ELSE OnLine(q, lines[i]) = AskedBy(q)
           /\ \A p \in Given(q.args) \ DOMAIN Keyword(q) :
                  p = "probe" /\ normalizeDeviceType(q.device_type) = "junos"

\* A script without options says it all on its only line.
LEMMA OneLineFaithful ==
    ASSUME NEW q, NEW line, line[1] # "execute",
           IsProbe(line) =>
               /\ OnLine(q, line) = AskedBy(q)
               /\ \A p \in Given(q.args) \ DOMAIN Keyword(q) :
                      p = "probe" /\ normalizeDeviceType(q.device_type) = "junos"
    PROVE  Faithful(q, <<line>>)
<1> DEFINE lines == <<line>>
<1>1. DOMAIN lines = {1} /\ lines[1] = line
  OBVIOUS
<1> HIDE DEF lines
<1>2. Distinct(lines)
  BY <1>1 DEF Distinct
<1>3. Faithful(q, lines)
  BY <1>1, <1>2 DEF Faithful
<1> QED
  BY <1>3 DEF lines

LEMMA AskedPing ==
    ASSUME NEW q \in RunPingInput, NEW dt \in DeviceTypes,
           dt = normalizeDeviceType(q.device_type)
    PROVE  LET a == q.args IN
           /\ dt = "fortios" =>
                  AskedBy(q) = Pair("repeat-count", a.count) \cup Pair("data-size", a.size)
                                  \cup Pair("timeout", a.timeout) \cup Pair("source", a.source)
                                  \cup Pair("interface", a.outgoing_interface)
           /\ dt # "fortios" =>
                  AskedBy(q) = Pair(IF dt \in {"nxos", "junos"} THEN "count" ELSE "repeat", a.count)
                                  \cup Pair(IF dt = "nxos" THEN "packet-size" ELSE "size", a.size)
                                  \cup Pair("source", a.source)
                                  \cup Pair(IF dt = "junos" THEN "routing-instance" ELSE "vrf", a.vrf)
           /\ DOMAIN Keyword(q) = IF dt = "fortios"
                                  THEN {"count", "size", "timeout", "source", "outgoing_interface"}
                                  ELSE {"count", "size", "source", "vrf"}
           /\ DOMAIN a = {"destination", "count", "size", "timeout", "source", "vrf",
                          "outgoing_interface"}
<1> DEFINE a == q.args
<1>1. q.tool = "run_ping" /\ a \in PingArgs
  BY DEF RunPingInput
<1>2. DOMAIN a = {"destination", "count", "size", "timeout", "source", "vrf",
                  "outgoing_interface"}
  BY <1>1 DEF PingArgs
<1>3. Keyword(q) = PingKeyword(dt)
  BY <1>1 DEF Keyword
<1> HIDE DEF a
<1>4. CASE dt = "fortios"
  <2>1. Keyword(q) = [count |-> "repeat-count", size |-> "data-size",
                      timeout |-> "timeout", source |-> "source",
                      outgoing_interface |-> "interface"]
    BY <1>3, <1>4 DEF PingKeyword
  <2>2. AskedBy(q) = {<<Keyword(q)[p], a[p]>> : p \in {x \in
            {"count", "size", "timeout", "source", "outgoing_interface"} : a[x] # Unset}}
    <3>1. DOMAIN Keyword(q) = {"count", "size", "timeout", "source", "outgoing_interface"}
      BY <2>1
    <3>2. Given(a) \cap DOMAIN Keyword(q) = {x \in
            {"count", "size", "timeout", "source", "outgoing_interface"} : a[x] # Unset}
      BY <1>2, <3>1 DEF Given
    <3> QED
      BY <3>2 DEF AskedBy, Asked, a
  <2> QED
    BY <1>2, <1>4, <2>1, <2>2 DEF Pair, a
<1>5. CASE dt # "fortios"
  <2> DEFINE kc == IF dt \in {"nxos", "junos"} THEN "count" ELSE "repeat"
             ks == IF dt = "nxos" THEN "packet-size" ELSE "size"
             kv == IF dt = "junos" THEN "routing-instance" ELSE "vrf"
  <2>1. Keyword(q) = [count |-> kc, size |-> ks, source |-> "source", vrf |-> kv]
    BY <1>3, <1>5 DEF PingKeyword
  <2> HIDE DEF kc, ks, kv
  <2>2. AskedBy(q) = {<<Keyword(q)[p], a[p]>> : p \in {x \in
            {"count", "size", "source", "vrf"} : a[x] # Unset}}
    <3>1. DOMAIN Keyword(q) = {"count", "size", "source", "vrf"}
      BY <2>1
    <3>2. Given(a) \cap DOMAIN Keyword(q) = {x \in
            {"count", "size", "source", "vrf"} : a[x] # Unset}
      BY <1>2, <3>1 DEF Given
    <3> QED
      BY <3>2 DEF AskedBy, Asked, a
  <2>3. AskedBy(q) = Pair(kc, a.count) \cup Pair(ks, a.size)
                         \cup Pair("source", a.source) \cup Pair(kv, a.vrf)
    BY <2>1, <2>2 DEF Pair
  <2> QED
    BY <1>2, <1>5, <2>1, <2>3 DEF a, kc, ks, kv
<1> QED
  BY <1>4, <1>5

LEMMA PingFaithful ==
    ASSUME NEW q \in RunPingInput, RunPing(q) # Refused, q.args.destination # "vrf"
    PROVE  Faithful(q, RunPing(q))
<1> DEFINE a == q.args
           dt == normalizeDeviceType(q.device_type)
<1>1. /\ Addressed(q) /\ a.destination # Unset
      /\ NotNegative(a, {"count", "timeout", "size"})
      /\ RunPing(q) = buildPingCommands(a, dt)
  BY DEF RunPing
<1>2. a \in PingArgs /\ dt \in DeviceTypes /\ q.tool = "run_ping"
  BY <1>1, DeviceTypesKnown DEF RunPingInput, Addressed
<1>3. checkCommandArgs(a)
  BY <1>1 DEF buildPingCommands
<1>4. CASE dt = "fortios"
  <2>1. RunPing(q) = fortiOSPing(a) /\ a.vrf = Unset
    BY <1>1, <1>4 DEF buildPingCommands, Unsupported
  <2>2. AsksBySetting(fortiOSPing(a), "ping", AskedBy(q))
    <3> HIDE DEF a, dt
    <3> DEFINE pairs == Pair("repeat-count", a.count) \cup Pair("data-size", a.size)
                            \cup Pair("timeout", a.timeout) \cup Pair("source", a.source)
                            \cup Pair("interface", a.outgoing_interface)
    <3>1. AsksBySetting(fortiOSPing(a), "ping", pairs)
      BY <1>1, <1>2, <1>3, FortiOSPingAsks
    <3>2. AskedBy(q) = pairs
      BY <1>2, <1>4, AskedPing DEF a, dt
    <3> QED
      BY <3>1, <3>2
  <2>3. Given(a) \ DOMAIN Keyword(q) = {}
    <3>1. /\ DOMAIN Keyword(q) = {"count", "size", "timeout", "source", "outgoing_interface"}
          /\ DOMAIN a = {"destination", "count", "size", "timeout", "source", "vrf",
                         "outgoing_interface"}
      BY <1>2, <1>4, AskedPing
    <3> QED
      BY <2>1, <3>1 DEF Given
  <2> QED
    BY <2>1, <2>2, <2>3 DEF AsksBySetting, Faithful
<1>5. CASE dt # "fortios"
  <2> DEFINE line == pingLine(a, dt)
  <2>1. RunPing(q) = <<line>> /\ a.timeout = Unset /\ a.outgoing_interface = Unset
    BY <1>1, <1>5 DEF buildPingCommands, Unsupported
  <2>2. Says(line, <<"ping", a.destination>>, AskedBy(q))
    <3> HIDE DEF a, dt
    <3> DEFINE pairs == Pair(IF dt \in {"nxos", "junos"} THEN "count" ELSE "repeat", a.count)
                            \cup Pair(IF dt = "nxos" THEN "packet-size" ELSE "size", a.size)
                            \cup Pair("source", a.source)
                            \cup Pair(IF dt = "junos" THEN "routing-instance" ELSE "vrf", a.vrf)
    <3>1. Says(line, <<"ping", a.destination>>, pairs)
      BY <1>1, <1>2, <1>3, PingSays
    <3>2. AskedBy(q) = pairs
      BY <1>2, <1>5, AskedPing DEF a, dt
    <3> QED
      BY <3>1, <3>2
  <2> HIDE DEF line
  <2>3. /\ line[1] = "ping" /\ line[2] = a.destination
        /\ SaidAfter(2, line) = AskedBy(q)
    BY <2>2 DEF Says
  <2>4. line[2] # "vrf"
    BY <2>3
  <2>5. OnLine(q, line) = AskedBy(q)
    <3>1. SaidAfter(2, line)
              = {<<line[i], line[i + 1]>> : i \in {j \in 3 .. Len(line) - 1 : j % 2 = 1}}
      BY DEF SaidAfter, Odd
    <3> QED
      BY <1>2, <2>3, <2>4, <3>1 DEF OnLine
  <2>6. Given(a) \ DOMAIN Keyword(q) = {}
    <3>1. /\ DOMAIN Keyword(q) = {"count", "size", "source", "vrf"}
          /\ DOMAIN a = {"destination", "count", "size", "timeout", "source", "vrf",
                         "outgoing_interface"}
      BY <1>2, <1>5, AskedPing
    <3> QED
      BY <2>1, <3>1 DEF Given
  <2> QED
    BY <2>1, <2>3, <2>5, <2>6, OneLineFaithful
<1> QED
  BY <1>4, <1>5

LEMMA AskedTraceroute ==
    ASSUME NEW q \in RunTracerouteInput, NEW dt \in DeviceTypes,
           dt = normalizeDeviceType(q.device_type)
    PROVE  LET a == q.args IN
           /\ dt = "fortios" =>
                  /\ AskedBy(q) = Pair("queries", a.probe) \cup Pair("source", a.source)
                                      \cup Pair("device", a.outgoing_interface)
                  /\ DOMAIN Keyword(q) = {"probe", "source", "outgoing_interface"}
           /\ dt = "junos" =>
                  /\ AskedBy(q) = Pair("ttl", a.max_hops) \cup Pair("wait", a.timeout)
                                      \cup Pair("source", a.source)
                                      \cup Pair("routing-instance", a.vrf)
                  /\ DOMAIN Keyword(q) = {"max_hops", "timeout", "source", "vrf"}
           /\ dt \notin {"fortios", "junos"} =>
                  /\ AskedBy(q) = Pair("maximum-hops", a.max_hops) \cup Pair("timeout", a.timeout)
                                      \cup Pair("probe", a.probe) \cup Pair("source", a.source)
                                      \cup Pair("vrf", a.vrf)
                  /\ DOMAIN Keyword(q) = {"max_hops", "timeout", "probe", "source", "vrf"}
           /\ DOMAIN a = {"destination", "max_hops", "timeout", "probe", "source", "vrf",
                          "outgoing_interface"}
<1> DEFINE a == q.args
           kw == Keyword(q)
<1>1. q.tool = "run_traceroute" /\ a \in TracerouteArgs
  BY DEF RunTracerouteInput
<1>2. DOMAIN a = {"destination", "max_hops", "timeout", "probe", "source", "vrf",
                  "outgoing_interface"}
  BY <1>1 DEF TracerouteArgs
<1>3. kw = TracerouteKeyword(dt)
  BY <1>1 DEF Keyword
<1>4. AskedBy(q) = {<<kw[p], a[p]>> : p \in Given(a) \cap DOMAIN kw}
  BY DEF AskedBy, Asked
<1> HIDE DEF a, kw
<1>5. CASE dt = "fortios"
  <2>1. kw = [probe |-> "queries", source |-> "source", outgoing_interface |-> "device"]
    BY <1>3, <1>5 DEF TracerouteKeyword
  <2>2. Given(a) \cap DOMAIN kw = {x \in {"probe", "source", "outgoing_interface"} : a[x] # Unset}
    BY <1>2, <2>1 DEF Given
  <2> QED
    BY <1>2, <1>4, <1>5, <2>1, <2>2 DEF Pair, a, kw
<1>6. CASE dt = "junos"
  <2>1. kw = [max_hops |-> "ttl", timeout |-> "wait", source |-> "source",
              vrf |-> "routing-instance"]
    BY <1>3, <1>6 DEF TracerouteKeyword
  <2>2. Given(a) \cap DOMAIN kw = {x \in {"max_hops", "timeout", "source", "vrf"} : a[x] # Unset}
    BY <1>2, <2>1 DEF Given
  <2> QED
    BY <1>2, <1>4, <1>6, <2>1, <2>2 DEF Pair, a, kw
<1>7. CASE dt \notin {"fortios", "junos"}
  <2>1. kw = [max_hops |-> "maximum-hops", timeout |-> "timeout",
              probe |-> "probe", source |-> "source", vrf |-> "vrf"]
    BY <1>3, <1>7 DEF TracerouteKeyword
  <2>2. Given(a) \cap DOMAIN kw
            = {x \in {"max_hops", "timeout", "probe", "source", "vrf"} : a[x] # Unset}
    BY <1>2, <2>1 DEF Given
  <2> QED
    BY <1>2, <1>4, <1>7, <2>1, <2>2 DEF Pair, a, kw
<1> QED
  BY <1>5, <1>6, <1>7

\* On IOS the VRF is read before the destination, elsewhere among the rest.
LEMMA TracerouteRead ==
    ASSUME NEW q \in RunTracerouteInput, RunTraceroute(q) # Refused,
           q.args.destination # "vrf", normalizeDeviceType(q.device_type) # "fortios"
    PROVE  LET line == tracerouteLine(q.args, normalizeDeviceType(q.device_type)) IN
           line[1] # "execute" /\ OnLine(q, line) = AskedBy(q)
<1> DEFINE a == q.args
           dt == normalizeDeviceType(q.device_type)
           line == tracerouteLine(a, dt)
           said == Pair(IF dt = "junos" THEN "ttl" ELSE "maximum-hops", a.max_hops)
                       \cup Pair(IF dt = "junos" THEN "wait" ELSE "timeout", a.timeout)
                       \cup Pair("probe", IF dt = "junos" THEN Unset ELSE a.probe)
                       \cup Pair("source", a.source)
                       \cup Pair(IF dt = "junos" THEN "routing-instance" ELSE "vrf",
                                 IF dt = "ios" THEN Unset ELSE a.vrf)
           head == IF dt = "ios" /\ a.vrf # Unset
                   THEN <<"traceroute", "vrf", a.vrf, a.destination>>
                   ELSE <<"traceroute", a.destination>>
           pairs(m) == {<<line[i], line[i + 1]>> :
                            i \in {j \in 3 + m .. Len(line) - 1 : j % 2 = 1}}
<1>1. /\ Addressed(q) /\ a.destination # Unset
      /\ NotNegative(a, {"max_hops", "timeout", "probe"})
      /\ RunTraceroute(q) = buildTracerouteCommands(a, dt)
  BY DEF RunTraceroute
<1>2. a \in TracerouteArgs /\ dt \in DeviceTypes /\ q.tool = "run_traceroute"
  BY <1>1, DeviceTypesKnown DEF RunTracerouteInput, Addressed
<1>3. checkCommandArgs(a) /\ a.destination # "vrf"
  BY <1>1 DEF buildTracerouteCommands
<1>4. Says(line, head, said)
  <2> HIDE DEF a, dt
  <2> QED
    BY <1>1, <1>2, <1>3, TracerouteSays
<1>5. /\ dt = "junos" => AskedBy(q) = Pair("ttl", a.max_hops) \cup Pair("wait", a.timeout)
                                        \cup Pair("source", a.source)
                                        \cup Pair("routing-instance", a.vrf)
      /\ dt # "junos" => AskedBy(q) = Pair("maximum-hops", a.max_hops)
                                        \cup Pair("timeout", a.timeout)
                                        \cup Pair("probe", a.probe) \cup Pair("source", a.source)
                                        \cup Pair("vrf", a.vrf)
  BY <1>2, AskedTraceroute
<1>6. \A m \in {0, 2} : SaidAfter(2 + m, line) = pairs(m)
  BY DEF SaidAfter, Odd
<1>7. OnLine(q, line) =
          LET vrfFirst == IF line[2] = "vrf" THEN 2 ELSE 0 IN
          IF dt = "ios"
          THEN {p \in pairs(vrfFirst) : p[1] # "vrf"}
                   \cup (IF vrfFirst = 2 THEN {<<"vrf", line[3]>>} ELSE {})
          ELSE pairs(vrfFirst)
  BY <1>2 DEF OnLine
<1> HIDE DEF a, dt, line, pairs
<1>8. CASE dt = "ios" /\ a.vrf # Unset
  <2>1. /\ line[1] = "traceroute" /\ line[2] = "vrf" /\ line[3] = a.vrf
        /\ SaidAfter(4, line) = said
    BY <1>4, <1>8 DEF Says
  <2>2. pairs(2) = said
    BY <1>6, <2>1
  <2>3. OnLine(q, line) = {p \in said : p[1] # "vrf"} \cup {<<"vrf", a.vrf>>}
    BY <1>7, <1>8, <2>1, <2>2
  <2>4. said = Pair("maximum-hops", a.max_hops) \cup Pair("timeout", a.timeout)
                   \cup Pair("probe", a.probe) \cup Pair("source", a.source)
    BY <1>8 DEF Pair
  <2>5. {p \in said : p[1] # "vrf"} = said
    <3> HIDE DEF said
    <3> QED
      BY <2>4 DEF Pair
  <2>6. AskedBy(q) = said \cup {<<"vrf", a.vrf>>}
    <3> HIDE DEF said
    <3> QED
      BY <1>5, <1>8, <2>4 DEF Pair
  <2>7. line[1] # "execute" /\ OnLine(q, line) = AskedBy(q)
    BY <2>1, <2>3, <2>5, <2>6
  <2> QED
    BY <2>7 DEF line, a, dt
<1>9. CASE ~(dt = "ios" /\ a.vrf # Unset)
  <2>1. /\ line[1] = "traceroute" /\ line[2] = a.destination
        /\ SaidAfter(2, line) = said
    BY <1>4, <1>9 DEF Says
  <2>2. pairs(0) = said
    BY <1>6, <2>1
  <2>3. OnLine(q, line) = IF dt = "ios" THEN {p \in said : p[1] # "vrf"} ELSE said
    <3>1. line[2] # "vrf"
      BY <1>3, <2>1
    <3>2. OnLine(q, line) = IF dt = "ios" THEN {p \in pairs(0) : p[1] # "vrf"} ELSE pairs(0)
      <4>1. CASE dt = "ios"
        BY <1>7, <3>1, <4>1
      <4>2. CASE dt # "ios"
        BY <1>7, <3>1, <4>2
      <4> QED
        BY <4>1, <4>2
    <3> HIDE DEF said
    <3> QED
      BY <2>2, <3>2
  <2>4. CASE dt = "ios"
    <3>1. said = Pair("maximum-hops", a.max_hops) \cup Pair("timeout", a.timeout)
                     \cup Pair("probe", a.probe) \cup Pair("source", a.source)
      BY <1>9, <2>4 DEF Pair
    <3>2. {p \in said : p[1] # "vrf"} = said
      <4> HIDE DEF said
      <4> QED
        BY <3>1 DEF Pair
    <3>3. AskedBy(q) = said
      <4> HIDE DEF said
      <4> QED
        BY <1>5, <1>9, <2>4, <3>1 DEF Pair
    <3>4. line[1] # "execute" /\ OnLine(q, line) = AskedBy(q)
      BY <2>1, <2>3, <2>4, <3>2, <3>3
    <3> QED
      BY <3>4 DEF line, a, dt
  <2>5. CASE dt # "ios"
    <3>1. AskedBy(q) = said
      BY <1>5, <2>5 DEF Pair
    <3>2. line[1] # "execute" /\ OnLine(q, line) = AskedBy(q)
      BY <2>1, <2>3, <2>5, <3>1
    <3> QED
      BY <3>2 DEF line, a, dt
  <2> QED
    BY <2>4, <2>5
<1> QED
  BY <1>8, <1>9

LEMMA TracerouteFaithful ==
    ASSUME NEW q \in RunTracerouteInput, RunTraceroute(q) # Refused,
           q.args.destination # "vrf"
    PROVE  Faithful(q, RunTraceroute(q))
<1> DEFINE a == q.args
           dt == normalizeDeviceType(q.device_type)
<1>1. /\ Addressed(q) /\ a.destination # Unset
      /\ NotNegative(a, {"max_hops", "timeout", "probe"})
      /\ RunTraceroute(q) = buildTracerouteCommands(a, dt)
  BY DEF RunTraceroute
<1>2. a \in TracerouteArgs /\ dt \in DeviceTypes /\ q.tool = "run_traceroute"
  BY <1>1, DeviceTypesKnown DEF RunTracerouteInput, Addressed
<1>3. checkCommandArgs(a)
  BY <1>1 DEF buildTracerouteCommands
<1>4. DOMAIN a = {"destination", "max_hops", "timeout", "probe", "source", "vrf",
                  "outgoing_interface"}
  BY <1>2, AskedTraceroute
<1>5. CASE dt = "fortios"
  <2>1. /\ RunTraceroute(q) = fortiOSTraceroute(a)
        /\ a.vrf = Unset /\ a.max_hops = Unset /\ a.timeout = Unset
    BY <1>1, <1>5 DEF buildTracerouteCommands, Unsupported
  <2>2. AsksBySetting(fortiOSTraceroute(a), "traceroute", AskedBy(q))
    <3> HIDE DEF a, dt
    <3> DEFINE pairs == Pair("queries", a.probe) \cup Pair("source", a.source)
                            \cup Pair("device", a.outgoing_interface)
    <3>1. AsksBySetting(fortiOSTraceroute(a), "traceroute", pairs)
      BY <1>1, <1>2, <1>3, FortiOSTracerouteAsks
    <3>2. AskedBy(q) = pairs
      BY <1>2, <1>5, AskedTraceroute DEF a, dt
    <3> QED
      BY <3>1, <3>2
  <2>3. Given(a) \ DOMAIN Keyword(q) = {}
    <3>1. DOMAIN Keyword(q) = {"probe", "source", "outgoing_interface"}
      BY <1>2, <1>5, AskedTraceroute
    <3> QED
      BY <1>4, <2>1, <3>1 DEF Given
  <2> QED
    BY <2>1, <2>2, <2>3 DEF AsksBySetting, Faithful
<1>6. CASE dt # "fortios"
  <2> DEFINE line == tracerouteLine(a, dt)
  <2>1. RunTraceroute(q) = <<line>> /\ a.outgoing_interface = Unset
    BY <1>1, <1>6 DEF buildTracerouteCommands, Unsupported
  <2>2. line[1] # "execute" /\ OnLine(q, line) = AskedBy(q)
    BY <1>6, TracerouteRead
  <2> HIDE DEF line
  <2>3. \A p \in Given(a) \ DOMAIN Keyword(q) : p = "probe" /\ dt = "junos"
    <3>1. dt = "junos" => DOMAIN Keyword(q) = {"max_hops", "timeout", "source", "vrf"}
      BY <1>2, AskedTraceroute
    <3>2. dt # "junos" => DOMAIN Keyword(q) = {"max_hops", "timeout", "probe", "source", "vrf"}
      BY <1>2, <1>6, AskedTraceroute
    <3> QED
      BY <1>4, <2>1, <3>1, <3>2 DEF Given
  <2> QED
    BY <2>1, <2>2, <2>3, OneLineFaithful
<1> QED
  BY <1>5, <1>6

\* The other two tools probe nothing and set nothing.
LEMMA ReadFaithful ==
    ASSUME NEW q \in GetConfigInput \cup RunShowCommandInput, ScriptOf(q) # Refused
    PROVE  Faithful(q, ScriptOf(q))
<1>1. \E line : ScriptOf(q) = <<line>> /\ IsRead(line)
  <2>1. CASE q \in GetConfigInput
    <3>1. ScriptOf(q) = GetConfig(q)
      BY <2>1 DEF ScriptOf, GetConfigInput
    <3> QED
      BY <3>1 DEF GetConfig, buildConfigCommand, ConfigWord, IsRead, Reads
  <2>2. CASE q \in RunShowCommandInput
    <3>1. ScriptOf(q) = RunShowCommand(q)
      BY <2>2 DEF ScriptOf, RunShowCommandInput
    <3> QED
      BY <3>1 DEF RunShowCommand, normalizeOperationalCommand, checkOperationalCommand,
                  IsRead, Reads
  <2> QED
    BY <2>1, <2>2
<1>2. PICK line : ScriptOf(q) = <<line>> /\ IsRead(line)
  BY <1>1
<1>3. line[1] # "execute" /\ ~IsProbe(line)
  BY <1>2 DEF IsRead, Reads, IsProbe, Probes
<1> QED
  BY <1>2, <1>3, OneLineFaithful

\* A probe of a host called vrf reads, on IOS, as one in another VRF.
NotToVrf(q) ==
    q \in RunPingInput \cup RunTracerouteInput => q.args.destination # "vrf"

LEMMA ScriptFaithful ==
    ASSUME NEW q \in Request, ScriptOf(q) # Refused, NotToVrf(q)
    PROVE  Faithful(q, ScriptOf(q))
<1>1. CASE q \in GetConfigInput \cup RunShowCommandInput
  BY <1>1, ReadFaithful
<1>2. CASE q \in RunPingInput
  <2>1. ScriptOf(q) = RunPing(q)
    BY <1>2 DEF RunPingInput, ScriptOf
  <2> QED
    BY <1>2, <2>1, PingFaithful DEF NotToVrf
<1>3. CASE q \in RunTracerouteInput
  <2>1. ScriptOf(q) = RunTraceroute(q)
    BY <1>3 DEF RunTracerouteInput, ScriptOf
  <2> QED
    BY <1>3, <2>1, TracerouteFaithful DEF NotToVrf
<1> QED
  BY <1>1, <1>2, <1>3 DEF Request

-----------------------------------------------------------------------------
(***************************************************************************)
(* The invariant behind ProbedAsAsked: a clean table of options has one    *)
(* user, and holds what the lines it has run so far set.                   *)
(***************************************************************************)
SetSoFar ==
    \A c \in Calls : \A slot \in Slots \ dirty :
        Uses(c, slot) =>
            /\ ~UsedByOther(c, slot)
            /\ settings[slot] = SetBefore(script[c], at[c])

\* What is served is what a caller sent.
FromCaller == \A c \in Calls : request[c] # None => request[c] \in Requests[c]

LEMMA NextFromCaller ==
    ASSUME Inv, FromCaller, [Next]_vars
    PROVE  FromCaller'
<1>1. ASSUME NEW c \in Calls
      PROVE  \/ request'[c] \in {None, request[c]}
             \/ request'[c] \in Requests[c]
  BY DEF Inv, TypeOK, vars, Next, Refuse, Accept, Exec, RunLine, Reply, Fail, EndSession
<1> QED
  BY <1>1 DEF FromCaller

NoHostVrf == \A c \in Calls : \A q \in Requests[c] : NotToVrf(q)

LEMMA InitSetSoFar == Init => SetSoFar /\ FromCaller
  BY DEF Init, SetSoFar, FromCaller, Uses, Running

LEMMA AcceptSetSoFar ==
    ASSUME Inv, SetSoFar, NEW c \in Calls, NEW q \in Requests[c], Accept(c, q)
    PROVE  SetSoFar'
<1>1. TypeOK /\ Accepted /\ q \in Request /\ q # None
  BY RequestsAssumption, NoneAssumption DEF Inv
<1>2. request[c] = None /\ ScriptOf(q) # Refused /\ at[c] = 0
  BY <1>1 DEF Accept, TypeOK
<1>3. /\ request' = [request EXCEPT ![c] = q]
      /\ script' = [script EXCEPT ![c] = ScriptOf(q)]
      /\ UNCHANGED <<scope, at, settings, dirty>>
  BY DEF Accept
<1>4. ProperSequence(ScriptOf(q))
  BY <1>1, <1>2, ScriptSound DEF Sound
<1>5. \A slot : ~Uses(c, slot)'
  BY <1>1, <1>2, <1>3, <1>4 DEF Uses, Running, ProperSequence, TypeOK
<1>6. \A slot : ~Uses(c, slot)
  BY <1>2 DEF Uses, Running
<1>7. \A d \in Calls \ {c} : \A slot :
          /\ Uses(d, slot)' <=> Uses(d, slot)
          /\ script'[d] = script[d] /\ at'[d] = at[d]
  BY <1>1, <1>3, OthersUse DEF TypeOK
<1>8. \A d \in Calls : \A slot : UsedByOther(d, slot)' <=> UsedByOther(d, slot)
  BY <1>5, <1>6, <1>7 DEF UsedByOther
<1> QED
  BY <1>3, <1>5, <1>7, <1>8 DEF SetSoFar

LEMMA ExecSetSoFar ==
    ASSUME Inv, SetSoFar, NEW c \in Calls, Exec(c)
    PROVE  SetSoFar'
<1>1. TypeOK /\ Accepted /\ request[c] # None /\ at[c] = 0
  BY DEF Inv, Exec
<1>2. /\ at' = [at EXCEPT ![c] = 1]
      /\ dirty' = dirty \cup {slot \in SlotsOf(c) : UsedByOther(c, slot)}
      /\ UNCHANGED <<scope, request, script, settings, answer>>
  BY DEF Exec
<1>3. \A slot : ~Uses(c, slot)
  BY <1>1, InProgress DEF Uses, Running, ProperSequence
<1>4. \A d \in Calls \ {c} : \A slot :
          /\ Uses(d, slot)' <=> Uses(d, slot)
          /\ script'[d] = script[d] /\ at'[d] = at[d]
  BY <1>1, <1>2, OthersUse DEF TypeOK
<1>5. SlotsOf(c)' = SlotsOf(c)
  BY <1>2 DEF SlotsOf, Owner
<1> SUFFICES ASSUME NEW d \in Calls, NEW slot \in Slots \ dirty', Uses(d, slot)'
             PROVE  /\ ~UsedByOther(d, slot)'
                    /\ settings'[slot] = SetBefore(script'[d], at'[d])
  BY DEF SetSoFar
<1>6. slot \notin dirty /\ (slot \in SlotsOf(c) => ~UsedByOther(c, slot))
  BY <1>2
<1>7. Uses(c, slot)' => slot \in SlotsOf(c)
  BY <1>5 DEF Uses
<1>8. CASE d = c
  <2>1. ~UsedByOther(c, slot)
    BY <1>6, <1>7, <1>8
  <2>2. \A e \in Calls : ~Uses(e, slot)
    BY <1>3, <2>1 DEF UsedByOther
  <2>3. settings[slot] = {}
    BY <1>6, <2>2 DEF Inv, NothingLeftBehind
  <2>4. at'[c] = 1 /\ SetBefore(script'[c], 1) = {}
    BY <1>1, <1>2 DEF SetBefore, TypeOK
  <2> QED
    BY <1>2, <1>4, <1>8, <2>1, <2>3, <2>4 DEF UsedByOther
<1>9. CASE d # c
  <2>1. Uses(d, slot)
    BY <1>4, <1>9
  <2>2. ~UsedByOther(d, slot) /\ settings[slot] = SetBefore(script[d], at[d])
    BY <1>6, <2>1 DEF SetSoFar
  <2>3. ~Uses(c, slot)'
    BY <1>6, <1>7, <1>9, <2>1 DEF UsedByOther
  <2> QED
    BY <1>2, <1>4, <1>9, <2>2, <2>3 DEF UsedByOther
<1> QED
  BY <1>8, <1>9

\* Setting one more option.
LEMMA OneMoreSet ==
    ASSUME NEW lines, ProperSequence(lines), Distinct(lines),
           NEW i \in DOMAIN lines, IsOption(lines[i]), ~IsReset(lines[i])
    PROVE  Configured(SetBefore(lines, i), lines[i]) = SetBefore(lines, i + 1)
<1> DEFINE line == lines[i]
           Before == {k \in 1 .. i - 1 : IsOption(lines[k])}
<1>1. i \in 1 .. Len(lines) /\ Len(lines) \in Nat
  BY DEF ProperSequence
<1>2. {k \in 1 .. (i + 1) - 1 : IsOption(lines[k])} = Before \cup {i}
  BY <1>1
<1>3. \A k \in Before : lines[k][3] # line[3]
  <2>1. \A k \in Before : k \in DOMAIN lines /\ k # i
    BY <1>1 DEF ProperSequence
  <2> QED
    BY <2>1 DEF Distinct
<1> HIDE DEF Before
<1>4. SetBefore(lines, i) = {<<lines[j][3], lines[j][4]>> : j \in Before}
  BY DEF SetBefore, Before
<1>5. SetBefore(lines, i + 1) = {<<lines[j][3], lines[j][4]>> : j \in Before}
                                    \cup {<<line[3], line[4]>>}
  <2>1. SetBefore(lines, i + 1) = {<<lines[j][3], lines[j][4]>> : j \in Before \cup {i}}
    BY <1>2 DEF SetBefore
  <2> QED
    BY <2>1
<1>6. {s \in SetBefore(lines, i) : s[1] # line[3]} = SetBefore(lines, i)
  <2>1. ASSUME NEW s \in SetBefore(lines, i) PROVE s[1] # line[3]
    <3>1. PICK j \in Before : s = <<lines[j][3], lines[j][4]>>
      BY <1>4
    <3> QED
      BY <1>3, <3>1
  <2> QED
    BY <2>1
<1> QED
  BY <1>4, <1>5, <1>6 DEF Configured

LEMMA RunLineSetSoFar ==
    ASSUME Inv, FromCaller, NoHostVrf, SetSoFar, NEW c \in Calls, RunLine(c)
    PROVE  SetSoFar'
<1> DEFINE lines == script[c]
           i == at[c]
           line == lines[i]
           mine == <<Owner(c), line[2]>>
<1>1. TypeOK /\ Accepted /\ Running(c) /\ request[c] # None /\ i \in DOMAIN lines
  BY DEF Inv, RunLine, Running
<1>2. /\ settings' = IF IsOption(line)
                     THEN [settings EXCEPT ![mine] = Configured(@, line)] ELSE settings
      /\ dirty' = IF IsReset(line) /\ ~UsedByOther(c, mine) THEN dirty \ {mine} ELSE dirty
      /\ at' = [at EXCEPT ![c] = @ + 1]
      /\ UNCHANGED <<scope, request, script, answer>>
  BY DEF RunLine
<1>3. /\ ProperSequence(lines) /\ SingleOperation(lines)
      /\ request[c] \in Request /\ lines = ScriptOf(request[c])
  BY <1>1, InProgress
<1>4. Distinct(lines)
  BY <1>1, <1>3, ScriptFaithful DEF Faithful, Accepted, FromCaller, NoHostVrf
<1>5. \A d \in Calls \ {c} : \A slot :
          /\ Uses(d, slot)' <=> Uses(d, slot)
          /\ script'[d] = script[d] /\ at'[d] = at[d]
  BY <1>1, <1>2, OthersUse DEF TypeOK
<1>6. SlotsOf(c)' = SlotsOf(c)
  BY <1>2 DEF SlotsOf, Owner
<1>7. \A slot : Uses(c, slot)' => Uses(c, slot)
  BY <1>1, <1>6 DEF Uses
<1>8. \A d \in Calls : \A slot : UsedByOther(d, slot)' => UsedByOther(d, slot)
  BY <1>5, <1>7 DEF UsedByOther
<1>9. IsOption(line) => Uses(c, mine) /\ mine \in Slots
  BY <1>1, SlotsType DEF Uses, SlotsOf
<1>10. at'[c] = i + 1 /\ i \in 1 .. Len(lines) /\ Len(lines) \in Nat
  BY <1>1, <1>2, <1>3 DEF TypeOK, ProperSequence
<1>11. IsReset(line) => IsOption(line)
  BY DEF IsReset
<1> HIDE DEF mine
<1> SUFFICES ASSUME NEW d \in Calls, NEW slot \in Slots \ dirty', Uses(d, slot)'
             PROVE  /\ ~UsedByOther(d, slot)'
                    /\ settings'[slot] = SetBefore(script'[d], at'[d])
  BY DEF SetSoFar
<1>12. CASE d = c
  <2>1. Uses(c, slot) /\ i + 1 \in DOMAIN lines /\ slot \in SlotsOf(c)
    BY <1>2, <1>6, <1>7, <1>10, <1>12 DEF Uses, Running
  <2>2. PICK j \in DOMAIN lines : IsOption(lines[j]) /\ slot = <<Owner(c), lines[j][2]>>
    BY <2>1 DEF SlotsOf
  <2>3. IsOption(line) => line[2] = lines[j][2] /\ ~IsReset(line)
    <3>1. \A k \in DOMAIN lines : IsOption(lines[k]) =>
              IsReset(lines[Len(lines)]) /\ lines[Len(lines)][2] = lines[k][2]
              /\ IsOption(lines[Len(lines)])
      BY <1>3, ResetAtEnd
    <3>2. i # Len(lines) /\ Len(lines) \in DOMAIN lines
      BY <1>3, <1>10, <2>1 DEF ProperSequence
    <3>3. IsOption(line) /\ IsReset(line) => FALSE
      <4>1. IsOption(line) /\ IsReset(line) => line[3] = lines[Len(lines)][3]
        BY <1>1, <3>1 DEF IsReset
      <4> QED
        BY <1>1, <1>4, <3>1, <3>2, <4>1 DEF Distinct
    <3> QED
      BY <1>1, <2>2, <3>1, <3>3
  <2>4. dirty' = dirty /\ (IsOption(line) => slot = mine)
    BY <1>2, <1>11, <2>2, <2>3 DEF mine
  <2>5. ~UsedByOther(c, slot) /\ settings[slot] = SetBefore(lines, i)
    BY <2>1, <2>4 DEF SetSoFar
  <2>6. settings'[slot] = SetBefore(lines, i + 1)
    <3>1. CASE IsOption(line)
      <4>1. Configured(SetBefore(lines, i), line) = SetBefore(lines, i + 1)
        BY <1>1, <1>3, <1>4, <2>3, <3>1, OneMoreSet
      <4> QED
        BY <1>1, <1>2, <2>4, <2>5, <3>1, <4>1 DEF TypeOK
    <3>2. CASE ~IsOption(line)
      <4>1. {k \in 1 .. (i + 1) - 1 : IsOption(lines[k])}
                = {k \in 1 .. i - 1 : IsOption(lines[k])}
        BY <1>10, <3>2
      <4>2. SetBefore(lines, i + 1) = SetBefore(lines, i)
        BY <4>1 DEF SetBefore
      <4> QED
        BY <1>2, <2>5, <3>2, <4>2
    <3> QED
      BY <3>1, <3>2
  <2> QED
    BY <1>2, <1>8, <1>10, <1>12, <2>5, <2>6
<1>13. CASE d # c
  <2>1. Uses(d, slot)
    BY <1>5, <1>13
  <2>2. slot \notin dirty
    BY <1>2, <1>13, <2>1 DEF UsedByOther
  <2>3. ~UsedByOther(d, slot) /\ settings[slot] = SetBefore(script[d], at[d])
    BY <2>1, <2>2 DEF SetSoFar
  <2>4. ~Uses(c, slot)
    BY <1>13, <2>3 DEF UsedByOther
  <2>5. settings'[slot] = settings[slot]
    BY <1>1, <1>2, <1>9, <2>4 DEF TypeOK
  <2> QED
    BY <1>5, <1>8, <1>13, <2>3, <2>5
<1> QED
  BY <1>12, <1>13

LEMMA EndSetSoFar ==
    ASSUME Inv, SetSoFar, NEW c \in Calls, request[c] # None, EndSession(c),
           dirty \subseteq dirty'
    PROVE  SetSoFar'
<1>1. /\ TypeOK /\ Accepted
      /\ request' = [request EXCEPT ![c] = None]
      /\ script' = [script EXCEPT ![c] = Refused]
      /\ at' = [at EXCEPT ![c] = 0]
      /\ settings' = [s \in Slots |-> IF s[1] = c THEN {} ELSE settings[s]]
      /\ scope' = scope
  BY DEF Inv, EndSession
<1>2. \A slot : ~Uses(c, slot)'
  BY <1>1 DEF Uses, Running, TypeOK
<1>3. \A d \in Calls \ {c} : \A slot :
          /\ Uses(d, slot)' <=> Uses(d, slot)
          /\ script'[d] = script[d] /\ at'[d] = at[d]
  BY <1>1, OthersUse DEF TypeOK
<1>4. \A d \in Calls : \A slot : UsedByOther(d, slot)' => UsedByOther(d, slot)
  BY <1>2, <1>3 DEF UsedByOther
<1> SUFFICES ASSUME NEW d \in Calls, NEW slot \in Slots \ dirty', Uses(d, slot)'
             PROVE  /\ ~UsedByOther(d, slot)'
                    /\ settings'[slot] = SetBefore(script'[d], at'[d])
  BY DEF SetSoFar
<1>5. d # c /\ Uses(d, slot) /\ slot \notin dirty
  BY <1>2, <1>3
<1>6. ~UsedByOther(d, slot) /\ settings[slot] = SetBefore(script[d], at[d])
  BY <1>5 DEF SetSoFar
<1>7. slot[1] # c
  <2>1. slot \in ({d} \cup Hosts) \X Tables
    BY <1>1, <1>5, SlotsType DEF Uses, Running
  <2> QED
    BY <1>5, <2>1, CallsAssumption
<1> QED
  BY <1>1, <1>3, <1>4, <1>5, <1>6, <1>7

LEMMA StutterSetSoFar ==
    ASSUME SetSoFar, UNCHANGED <<scope, request, script, at, settings, dirty>>
    PROVE  SetSoFar'
<1>1. \A d \in Calls : \A t : Uses(d, t)' <=> Uses(d, t)
  BY DEF Uses, Running, SlotsOf, Owner
<1>2. \A d \in Calls : \A t : UsedByOther(d, t)' <=> UsedByOther(d, t)
  BY <1>1 DEF UsedByOther
<1> QED
  BY <1>1, <1>2 DEF SetSoFar

LEMMA NextSetSoFar ==
    ASSUME Inv, FromCaller, NoHostVrf, SetSoFar, [Next]_vars
    PROVE  SetSoFar'
<1>1. CASE UNCHANGED vars
  BY <1>1, StutterSetSoFar DEF vars
<1>2. ASSUME NEW c \in Calls, NEW q \in Requests[c], Refuse(c, q) PROVE SetSoFar'
  BY <1>2, StutterSetSoFar DEF Refuse
<1>3. ASSUME NEW c \in Calls, Reply(c) \/ Fail(c) PROVE SetSoFar'
  <2>1. request[c] # None /\ EndSession(c) /\ dirty \subseteq dirty'
    BY <1>3 DEF Reply, Fail
  <2> QED
    BY <2>1, EndSetSoFar
<1> QED
  BY <1>1, <1>2, <1>3, AcceptSetSoFar, ExecSetSoFar, RunLineSetSoFar DEF Next

LEMMA SetSoFarProbed ==
    ASSUME Inv, FromCaller, NoHostVrf, SetSoFar
    PROVE  ProbedAsAsked
<1> SUFFICES ASSUME NEW c \in Calls, Running(c), IsProbe(script[c][at[c]]),
                    \A slot \in dirty : ~Uses(c, slot)
             PROVE  LET q == request[c] IN
                    /\ Heard(c) = AskedBy(q)
                    /\ \A p \in Given(q.args) \ DOMAIN Keyword(q) :
                           p = "probe" /\ normalizeDeviceType(q.device_type) = "junos"
  BY DEF ProbedAsAsked, AskedBy, Asked
<1> DEFINE q == request[c]
           lines == script[c]
           line == lines[at[c]]
<1>1. TypeOK /\ Accepted /\ request[c] # None /\ at[c] \in DOMAIN lines
  BY DEF Inv, Running
<1>2. q \in Request /\ lines = ScriptOf(q) /\ lines # Refused
  BY <1>1, InProgress DEF Accepted
<1>3. Faithful(q, lines)
  BY <1>1, <1>2, ScriptFaithful DEF FromCaller, NoHostVrf
<1>4. \A p \in Given(q.args) \ DOMAIN Keyword(q) :
          p = "probe" /\ normalizeDeviceType(q.device_type) = "junos"
  BY <1>1, <1>3 DEF Faithful
<1>5. CASE line[1] = "execute"
  <2> DEFINE slot == <<Owner(c), OptionsOf[line[2]]>>
  <2>1. /\ SetBefore(lines, at[c]) = AskedBy(q)
        /\ \E j \in DOMAIN lines : IsOption(lines[j]) /\ lines[j][2] = OptionsOf[line[2]]
    BY <1>1, <1>3, <1>5 DEF Faithful
  <2>2. slot \in SlotsOf(c) /\ slot \in Slots
    BY <1>1, <2>1, SlotsType DEF SlotsOf
  <2>3. Uses(c, slot) /\ slot \notin dirty
    BY <2>2 DEF Uses
  <2>4. settings[slot] = SetBefore(lines, at[c])
    <3> HIDE DEF slot
    <3> QED
      BY <2>2, <2>3 DEF SetSoFar
  <2> QED
    BY <1>4, <1>5, <2>1, <2>4 DEF Heard
<1>6. CASE line[1] # "execute"
  <2>1. OnLine(q, line) = AskedBy(q)
    BY <1>1, <1>3, <1>6 DEF Faithful
  <2> QED
    BY <1>4, <1>6, <2>1 DEF Heard
<1> QED
  BY <1>5, <1>6

\* The device does a probe with the parameters of the caller and no others,
\* whatever calls run beside it, unless they share a table of options with it.
\* The host to probe is not called vrf, which IOS reads as the keyword.
THEOREM ProbesAsAsked == NoHostVrf => (Spec => []ProbedAsAsked)
<1> SUFFICES ASSUME NoHostVrf PROVE Spec => []ProbedAsAsked
  OBVIOUS
<1>1. Init => SetSoFar /\ FromCaller
  BY InitSetSoFar
<1>2. Inv /\ SetSoFar /\ FromCaller /\ [Next]_vars => SetSoFar' /\ FromCaller'
  BY NextSetSoFar, NextFromCaller
<1>3. Inv /\ SetSoFar /\ FromCaller => ProbedAsAsked
  BY SetSoFarProbed
<1> QED
  BY <1>1, <1>2, <1>3, InvHolds, PTL DEF Spec
=============================================================================
