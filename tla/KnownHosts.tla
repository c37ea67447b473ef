------------------------------ MODULE KnownHosts ------------------------------
(***************************************************************************)
(* The known_hosts file as internal/sshclient/client.go reads and rewrites *)
(* it: what a line is, what a lookup of a (host, key) pair answers, and    *)
(* what the read-modify-write of trust_host_key computes.                  *)
(*                                                                         *)
(* A file is a set of lines.  Their order, duplicates and comments never   *)
(* change the answer of a lookup: golang.org/x/crypto/ssh/knownhosts takes *)
(* ANY matching line whose key is the presented one as a match.  A host    *)
(* stands for the normalized address of a (host, port) pair, and a key for *)
(* a public host key together with its fingerprint.  Certificates          *)
(* (@cert-authority lines) are not modelled.                               *)
(***************************************************************************)
CONSTANTS
    Hosts,  \* normalized addresses
    Keys,   \* host keys
    None    \* no host, or no key

ASSUME NoneAssumption == None \notin Hosts \cup Keys

(***************************************************************************)
(* covers: the hosts whose lookup matches the line (a name, a pattern or a *)
(* hashed name).  literal: the hosts that stand verbatim in the comma list *)
(* of the line, the only ones lineMatchesHost can find.  A hashed or a     *)
(* wildcard line has literal = {}; a line shared by two names has both.    *)
(***************************************************************************)
Line == [marker: {"none", "revoked"},
         covers: SUBSET Hosts,
         literal: SUBSET Hosts,
         key: Keys]

(***************************************************************************)
(* torn: the file holds a fragment that does not parse, which makes        *)
(* knownhosts.New fail for the whole file.                                 *)
(***************************************************************************)
File == [exists: BOOLEAN, lines: SUBSET Line, torn: BOOLEAN]

NoFile == [exists |-> FALSE, lines |-> {}, torn |-> FALSE]
EmptyFile == [exists |-> TRUE, lines |-> {}, torn |-> FALSE]

\* The line that knownhosts.Line renders for the presented key.
knownHostsLine(h, k) ==
    [marker |-> "none", covers |-> {h}, literal |-> {h}, key |-> k]

-----------------------------------------------------------------------------
(***************************************************************************)
(* Lookups.                                                                *)
(***************************************************************************)

\* The keys of the lines that match h: KeyError.Want when none is presented.
Entries(f, h) == {l.key : l \in {m \in f.lines : m.marker = "none" /\ h \in m.covers}}

\* A key on an @revoked line is refused whatever the host.
Revoked(f) == {l.key : l \in {m \in f.lines : m.marker = "revoked"}}

Loadable(f) == f.exists /\ ~f.torn

\* Mutant: a missing file is an error, as it is for a device command.
StatusNeedsFile(f, h, k) ==
    IF ~Loadable(f) \/ k \in Revoked(f) THEN "error"
    ELSE IF k \in Entries(f, h)          THEN "trusted"
    ELSE IF Entries(f, h) = {}           THEN "unknown"
    ELSE "mismatch"

hostKeyStatus(f, h, k) ==
    IF ~f.exists                 THEN "unknown"
    ELSE IF f.torn               THEN "error"
    ELSE IF k \in Revoked(f)     THEN "error"
    ELSE IF k \in Entries(f, h)  THEN "trusted"
    ELSE IF Entries(f, h) = {}   THEN "unknown"
    ELSE "mismatch"

\* The pairs the file vouches for.
TrustedPairs(f) == {p \in Hosts \X Keys : hostKeyStatus(f, p[1], p[2]) = "trusted"}

-----------------------------------------------------------------------------
(***************************************************************************)
(* The rewrite.                                                            *)
(***************************************************************************)

\* Mutants: patterns match too; any named host is the target.
LineCoversHost(l, h) == h \in l.covers
LineNamesAnyHost(l, h) == l.literal # {}

\* Only verbatim names are found: HashHostname salts every call afresh, so
\* a hashed name never equals the target's hash; the marker is ignored.
lineMatchesHost(l, h) == h \in l.literal

\* Mutants: what was read is not written back; nothing is filtered out.
OnlyNewLine(f, h, k, replace) ==
    [exists |-> TRUE, lines |-> {knownHostsLine(h, k)}, torn |-> f.torn]
AlwaysAppend(f, h, k, replace) ==
    [exists |-> TRUE, lines |-> f.lines \cup {knownHostsLine(h, k)}, torn |-> f.torn]

\* The new content: a replacing call filters out the lines that name the
\* host, and the presented key's line is appended.  Unparseable fragments
\* are copied as they are.
upsertKnownHost(f, h, k, replace) ==
    [exists |-> TRUE,
     lines  |-> {l \in f.lines : ~(replace /\ lineMatchesHost(l, h))}
                    \cup {knownHostsLine(h, k)},
     torn   |-> f.torn]
=============================================================================
