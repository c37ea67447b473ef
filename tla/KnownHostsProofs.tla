--------------------------- MODULE KnownHostsProofs ---------------------------
(***************************************************************************)
(* Facts about the known_hosts file that the proofs about the tools cite.  *)
(***************************************************************************)
EXTENDS KnownHosts, TLAPS

\* A rendered line is a line, and vouches for its host and key only.
LEMMA KnownHostsLineType ==
    ASSUME NEW h \in Hosts, NEW k \in Keys
    PROVE  knownHostsLine(h, k) \in Line
  BY DEF knownHostsLine, Line

LEMMA NoFileType == NoFile \in File
  BY DEF NoFile, File

LEMMA EmptyFileType == EmptyFile \in File
  BY DEF EmptyFile, File

\* The rewrite keeps lines of the file and adds one: it invents no other.
LEMMA UpsertLines ==
    ASSUME NEW f, NEW h, NEW k, NEW replace
    PROVE  upsertKnownHost(f, h, k, replace).lines
               \subseteq f.lines \cup {knownHostsLine(h, k)}
  BY DEF upsertKnownHost

LEMMA UpsertType ==
    ASSUME NEW f \in File, NEW h \in Hosts, NEW k \in Keys, NEW replace \in BOOLEAN
    PROVE  upsertKnownHost(f, h, k, replace) \in File
<1>1. f.lines \subseteq Line /\ f.torn \in BOOLEAN
  BY DEF File
<1>2. {l \in f.lines : ~(replace /\ lineMatchesHost(l, h))}
          \cup {knownHostsLine(h, k)} \subseteq Line
  BY <1>1, KnownHostsLineType
<1> QED
  BY <1>1, <1>2 DEF upsertKnownHost, File

\* A lookup answers "trusted" only on the strength of a line.
LEMMA TrustedHasLine ==
    ASSUME NEW f, NEW h, NEW k,
           hostKeyStatus(f, h, k) = "trusted"
    PROVE  \E l \in f.lines : l.marker = "none" /\ h \in l.covers /\ l.key = k
<1>1. k \in Entries(f, h)
  BY DEF hostKeyStatus
<1> QED
  BY <1>1 DEF Entries

-----------------------------------------------------------------------------
(***************************************************************************)
(* Files on which the rewrite does what the tool promises: every trusted   *)
(* host stands on lines of its own, verbatim, and revocations go by        *)
(* pattern.                                                                *)
(***************************************************************************)

\* A line for one host, named as it is; or a revocation by pattern.
Verbatim(l) ==
    IF l.marker = "none"
    THEN \E h \in Hosts : l.covers = {h} /\ l.literal = {h}
    ELSE l.covers # {} /\ l.literal = {}

WellKept(f) ==
    /\ ~f.exists => f.lines = {} /\ ~f.torn
    /\ \A l \in f.lines : Verbatim(l)

LEMMA UpsertWellKept ==
    ASSUME NEW f, WellKept(f), NEW h \in Hosts, NEW k, NEW replace
    PROVE  WellKept(upsertKnownHost(f, h, k, replace))
<1>1. Verbatim(knownHostsLine(h, k))
  BY DEF Verbatim, knownHostsLine
<1>2. upsertKnownHost(f, h, k, replace).exists
  BY DEF upsertKnownHost
<1> QED
  BY <1>1, <1>2, UpsertLines DEF WellKept

\* What a lookup finds after the rewrite.
LEMMA UpsertEntries ==
    ASSUME NEW f \in File, WellKept(f), NEW h \in Hosts, NEW k \in Keys,
           NEW replace \in BOOLEAN,
           NEW g, g = upsertKnownHost(f, h, k, replace)
    PROVE  /\ Revoked(g) = Revoked(f)
           /\ Entries(g, h) = {k} \cup (IF replace THEN {} ELSE Entries(f, h))
           /\ \A x \in Hosts \ {h} : Entries(g, x) = Entries(f, x)
<1> DEFINE new == knownHostsLine(h, k)
<1>1. g.lines = {l \in f.lines : ~(replace /\ h \in l.literal)} \cup {new}
  BY DEF upsertKnownHost, lineMatchesHost
<1>2. new.marker = "none" /\ new.covers = {h} /\ new.key = k
  BY DEF knownHostsLine
<1>3. \A l \in f.lines : l \in Line /\ Verbatim(l)
  BY DEF File, WellKept
<1>4. \A l \in f.lines : l.marker = "revoked" => h \notin l.literal
  BY <1>3 DEF Verbatim
<1>5. \A l \in f.lines : l.marker = "none" => l.covers = l.literal
  BY <1>3 DEF Verbatim
<1>6. \A l \in f.lines : \A x \in Hosts \ {h} :
          l.marker = "none" /\ x \in l.covers => h \notin l.literal
  BY <1>3 DEF Verbatim
<1>7. Revoked(g) = Revoked(f)
  <2>1. {m \in g.lines : m.marker = "revoked"} = {m \in f.lines : m.marker = "revoked"}
    BY <1>1, <1>2, <1>4
  <2> QED
    BY <2>1 DEF Revoked
<1>8. Entries(g, h) = {k} \cup (IF replace THEN {} ELSE Entries(f, h))
  <2>1. {m \in g.lines : m.marker = "none" /\ h \in m.covers}
            = {new} \cup (IF replace THEN {}
                          ELSE {m \in f.lines : m.marker = "none" /\ h \in m.covers})
    BY <1>1, <1>2, <1>5
  <2> QED
    BY <1>2, <2>1 DEF Entries
<1>9. ASSUME NEW x \in Hosts \ {h} PROVE Entries(g, x) = Entries(f, x)
  <2>1. {m \in g.lines : m.marker = "none" /\ x \in m.covers}
            = {m \in f.lines : m.marker = "none" /\ x \in m.covers}
    BY <1>1, <1>2, <1>6
  <2> QED
    BY <2>1 DEF Entries
<1> QED
  BY <1>7, <1>8, <1>9

\* What a well-kept file that parses trusts.
LEMMA TrustedOfWellKept ==
    ASSUME NEW f \in File, WellKept(f), ~f.torn
    PROVE  TrustedPairs(f)
               = {p \in Hosts \X Keys : p[2] \in Entries(f, p[1]) \ Revoked(f)}
<1>1. ~f.exists => \A h : Entries(f, h) = {}
  BY DEF WellKept, Entries
<1>2. \A h, k : hostKeyStatus(f, h, k) = "trusted" <=> k \in Entries(f, h) \ Revoked(f)
  BY <1>1 DEF hostKeyStatus
<1> QED
  BY <1>2 DEF TrustedPairs

\* The rewrite replaces what the host had, or adds to nothing.
LEMMA UpsertTrusted ==
    ASSUME NEW f \in File, WellKept(f), ~f.torn, NEW h \in Hosts, NEW k \in Keys,
           NEW replace \in BOOLEAN, k \notin Revoked(f),
           ~replace => Entries(f, h) = {},
           NEW g \in File, g = upsertKnownHost(f, h, k, replace)
    PROVE  TrustedPairs(g) = {p \in TrustedPairs(f) : p[1] # h} \cup {<<h, k>>}
<1>1. WellKept(g)
  BY UpsertWellKept
<1>2. ~g.torn
  BY DEF upsertKnownHost
<1>3. TrustedPairs(g) = {p \in Hosts \X Keys : p[2] \in Entries(g, p[1]) \ Revoked(g)}
  BY <1>1, <1>2, TrustedOfWellKept
<1>4. TrustedPairs(f) = {p \in Hosts \X Keys : p[2] \in Entries(f, p[1]) \ Revoked(f)}
  BY TrustedOfWellKept
<1>5. /\ Revoked(g) = Revoked(f)
      /\ Entries(g, h) = {k}
      /\ \A x \in Hosts \ {h} : Entries(g, x) = Entries(f, x)
  BY UpsertEntries
<1>6. ASSUME NEW p \in Hosts \X Keys
      PROVE  p \in TrustedPairs(g) <=> p \in {q \in TrustedPairs(f) : q[1] # h} \cup {<<h, k>>}
  <2>1. p[1] \in Hosts /\ p = <<p[1], p[2]>>
    OBVIOUS
  <2>2. CASE p[1] = h
    BY <1>3, <1>5, <2>1, <2>2
  <2>3. CASE p[1] # h
    BY <1>3, <1>4, <1>5, <2>1, <2>3
  <2> QED
    BY <2>2, <2>3
<1> QED
  BY <1>3, <1>4, <1>6
=============================================================================
