----------------------------- MODULE TrustHostKey -----------------------------
(***************************************************************************)
(* The trust_host_key tool: netdev.TrustHostKey over sshclient.TrustHostKey.*)
(* A call probes the device for its key and, when confirmed, reads the     *)
(* known_hosts file twice and rewrites it with os.WriteFile, which first   *)
(* truncates.  The MCP server runs calls concurrently, several server      *)
(* processes share one file, and nothing locks it: every read, truncation  *)
(* and write below is a step of its own.                                   *)
(***************************************************************************)
EXTENDS KnownHosts

CONSTANTS
    Calls,          \* concurrent tool calls, of one or of several processes
    BaseFiles,      \* what known_hosts may hold at the start
    ExternalLines,  \* lines that ssh, or the user, appends meanwhile
    Disturbances    \* what the environment may do

ASSUME BaseFilesAssumption == BaseFiles \subseteq File
ASSUME ExternalLinesAssumption == ExternalLines \subseteq Line
ASSUME DisturbancesAssumption == Disturbances \subseteq {"rekey", "dial", "open", "write", "crash"}

VARIABLES
    options,    \* currentOptions, set once by Configure
    file,       \* the known_hosts file
    device,     \* the key each host presents
    pc,         \* where each call is
    req,        \* its arguments
    presented,  \* the key its probe captured (HostKeyInfo.publicKey)
    status,     \* what hostKeyStatus answered
    content,    \* the content it computed
    outcome     \* what the last call of the slot replied

(***************************************************************************)
(* History variables: no action reads them.                                *)
(***************************************************************************)
VARIABLES
    shown,      \* (host, key) fingerprints that replies of the tool displayed
    confirmed,  \* pairs captured by a probe of a confirm=true call
    ideal       \* the file, had each finished call been one atomic step

serverVars == <<pc, req, presented, status, content, outcome>>
history == <<shown, confirmed, ideal>>
vars == <<options, file, device, pc, req, presented, status, content, outcome,
          shown, confirmed, ideal>>

Request == [host: Hosts, confirm: BOOLEAN, replace: BOOLEAN]
NoRequest == [host |-> None, confirm |-> FALSE, replace |-> FALSE]

Options == [insecureSkip: BOOLEAN, pathSet: BOOLEAN]

\* Configure: unless the check is skipped, a path is given or defaulted.
Configured == {o \in Options : o.insecureSkip \/ o.pathSet}

Pairs == Hosts \X Keys

\* Where a call holds a captured key.
KeyHeld == {"status", "read", "open", "write"}
Places == {"idle", "inspect"} \cup KeyHeld
Replies == {"none", "shown", "already_trusted", "added", "replaced", "error"}

TypeOK ==
    /\ options \in Configured
    /\ file \in File
    /\ device \in [Hosts -> Keys]
    /\ pc \in [Calls -> Places]
    /\ req \in [Calls -> Request \cup {NoRequest}]
    /\ presented \in [Calls -> Keys \cup {None}]
    /\ status \in [Calls -> {"none", "unknown", "mismatch"}]
    /\ content \in [Calls -> File]
    /\ outcome \in [Calls -> Replies]
    /\ shown \subseteq Pairs
    /\ confirmed \subseteq Pairs
    /\ ideal \in File

Init ==
    /\ options \in Configured
    /\ file \in BaseFiles
    /\ device \in [Hosts -> Keys]
    /\ pc = [c \in Calls |-> "idle"]
    /\ req = [c \in Calls |-> NoRequest]
    /\ presented = [c \in Calls |-> None]
    /\ status = [c \in Calls |-> "none"]
    /\ content = [c \in Calls |-> NoFile]
    /\ outcome = [c \in Calls |-> "none"]
    /\ shown = {}
    /\ confirmed = {}
    /\ ideal = file

-----------------------------------------------------------------------------
(***************************************************************************)
(* A call.                                                                 *)
(***************************************************************************)

\* replace_existing is not looked at without confirm.
Invoke(c, h, confirm, replace) ==
    /\ pc[c] = "idle"
    /\ replace => confirm
    /\ pc' = [pc EXCEPT ![c] = "inspect"]
    /\ req' = [req EXCEPT ![c] = [host |-> h, confirm |-> confirm, replace |-> replace]]
    /\ outcome' = [outcome EXCEPT ![c] = "none"]
    /\ UNCHANGED <<options, file, device, presented, status, content, history>>

\* The calls of C leave their slots with the given reply.
Return(C, reply) ==
    /\ pc' = [c \in Calls |-> IF c \in C THEN "idle" ELSE pc[c]]
    /\ req' = [c \in Calls |-> IF c \in C THEN NoRequest ELSE req[c]]
    /\ presented' = [c \in Calls |-> IF c \in C THEN None ELSE presented[c]]
    /\ status' = [c \in Calls |-> IF c \in C THEN "none" ELSE status[c]]
    /\ content' = [c \in Calls |-> IF c \in C THEN NoFile ELSE content[c]]
    /\ outcome' = [c \in Calls |-> IF c \in C THEN reply ELSE outcome[c]]

\* A confirmed call first refuses to manage keys it would not check.
Refuse(c) ==
    /\ pc[c] = "inspect"
    /\ req[c].confirm
    /\ options.insecureSkip \/ ~options.pathSet
    /\ Return({c}, "error")
    /\ UNCHANGED <<options, file, device, history>>

\* Without confirm the probe's fingerprint is all there is.
InspectShows(c) ==
    LET h == req[c].host IN
    /\ pc[c] = "inspect"
    /\ ~req[c].confirm
    /\ Return({c}, "shown")
    /\ shown' = shown \cup {<<h, device[h]>>}
    /\ UNCHANGED <<options, file, device, confirmed, ideal>>

\* A confirmed call probes the device anew: the key is whatever the host
\* presents now, not the one an earlier call displayed.
InspectForTrust(c) ==
    LET h == req[c].host IN
    /\ pc[c] = "inspect"
    /\ req[c].confirm
    /\ ~options.insecureSkip /\ options.pathSet
    /\ presented' = [presented EXCEPT ![c] = device[h]]
    /\ confirmed' = confirmed \cup {<<h, device[h]>>}
    /\ pc' = [pc EXCEPT ![c] = "status"]
    /\ UNCHANGED <<options, file, device, req, status, content, outcome, shown, ideal>>

\* The dial timed out or was refused, or no host key came.
InspectFails(c) ==
    /\ "dial" \in Disturbances
    /\ pc[c] = "inspect"
    /\ req[c].confirm => ~options.insecureSkip /\ options.pathSet
    /\ Return({c}, "error")
    /\ UNCHANGED <<options, file, device, history>>

-----------------------------------------------------------------------------
(***************************************************************************)
(* The first read of the file: hostKeyStatus.                              *)
(***************************************************************************)

StatusOf(c) == hostKeyStatus(file, req[c].host, presented[c])

\* Mutants: a mismatch is taken for leave to write; no answer is looked at.
MismatchMayWrite(r, answer) == answer \in {"unknown", "mismatch"}
AnyAnswerMayWrite(r, answer) == TRUE

MayWrite(r, answer) == answer = "unknown" \/ (answer = "mismatch" /\ r.replace)

\* The calls that end here all display the presented fingerprint, but for
\* the load and revocation errors.
StatusReturns(c) ==
    LET answer == StatusOf(c) IN
    /\ pc[c] = "status"
    /\ ~MayWrite(req[c], answer)
    /\ Return({c}, IF answer = "trusted" THEN "already_trusted" ELSE "error")
    /\ shown' = IF answer = "error" THEN shown
                ELSE shown \cup {<<req[c].host, presented[c]>>}
    /\ UNCHANGED <<options, file, device, confirmed, ideal>>

StatusProceeds(c) ==
    LET answer == StatusOf(c) IN
    /\ pc[c] = "status"
    /\ MayWrite(req[c], answer)
    /\ status' = [status EXCEPT ![c] = answer]
    /\ pc' = [pc EXCEPT ![c] = "read"]
    /\ UNCHANGED <<options, file, device, req, presented, content, outcome, history>>

-----------------------------------------------------------------------------
(***************************************************************************)
(* upsertKnownHost: a second read, then os.WriteFile.                      *)
(***************************************************************************)

\* Mutant: the captured key is in a variable that all calls share.
ReadWithSharedKey(c) ==
    /\ pc[c] = "read"
    /\ \E d \in Calls :
           /\ presented[d] # None
           /\ content' = [content EXCEPT ![c] =
                  upsertKnownHost(file, req[c].host, presented[d], req[c].replace)]
    /\ pc' = [pc EXCEPT ![c] = "open"]
    /\ UNCHANGED <<options, file, device, req, presented, status, outcome, history>>

ReadKnownHosts(c) ==
    /\ pc[c] = "read"
    /\ content' = [content EXCEPT ![c] =
                      upsertKnownHost(file, req[c].host, presented[c], req[c].replace)]
    /\ pc' = [pc EXCEPT ![c] = "open"]
    /\ UNCHANGED <<options, file, device, req, presented, status, outcome, history>>

\* MkdirAll, the second read, or opening the file for writing failed.
FileErrorReturns(c) ==
    /\ "open" \in Disturbances
    /\ pc[c] \in {"read", "open"}
    /\ Return({c}, "error")
    /\ UNCHANGED <<options, file, device, history>>

\* os.WriteFile opens with O_TRUNC: from here to WriteFile the file is empty.
TruncateFile(c) ==
    /\ pc[c] = "open"
    /\ file' = EmptyFile
    /\ pc' = [pc EXCEPT ![c] = "write"]
    /\ UNCHANGED <<options, device, req, presented, status, content, outcome, history>>

(***************************************************************************)
(* The write starts at offset 0.  What another writer put in the file      *)
(* since the truncation is overwritten up to the length written; of its    *)
(* tail any lines may survive (lengths are not modelled), the first of     *)
(* them cut.  A cut line does not parse, or names a host outside Hosts.    *)
(***************************************************************************)
Overlays(f, written) ==
    IF f = EmptyFile
    THEN {written}
    ELSE {[exists |-> TRUE, lines |-> written.lines \cup tail, torn |-> t] :
              tail \in SUBSET f.lines,
              t \in {written.torn, TRUE}}

\* A write cut short leaves some of the lines, the last of them maybe cut.
ShortWrites(written) ==
    {[exists |-> TRUE, lines |-> part, torn |-> t] :
        part \in SUBSET written.lines, t \in BOOLEAN}

\* What a finished call should have done to the file, in one step: a
\* replacing call takes h off the lines that vouch for it, and only h.
Without(l, h) ==
    [marker  |-> l.marker,
     covers  |-> l.covers \ {h},
     literal |-> l.literal \ {h},
     key     |-> l.key]

Relieved(l, h) == IF l.marker = "none" THEN Without(l, h) ELSE l

IntendedUpdate(f, h, k, replace) ==
    LET kept == IF replace
                THEN {l \in {Relieved(m, h) : m \in f.lines} : l.covers # {}}
                ELSE f.lines
    IN [exists |-> TRUE, lines |-> kept \cup {knownHostsLine(h, k)}, torn |-> f.torn]

WriteFile(c) ==
    LET h == req[c].host
        k == presented[c]
    IN
    /\ pc[c] = "write"
    /\ file' \in Overlays(file, content[c])
    /\ ideal' = IntendedUpdate(ideal, h, k, req[c].replace)
    /\ shown' = shown \cup {<<h, k>>}
    /\ Return({c}, IF status[c] = "mismatch" THEN "replaced" ELSE "added")
    /\ UNCHANGED <<options, device, confirmed>>

\* The disk is full: the call reports an error, the file stays as it is.
WriteFileFails(c) ==
    /\ "write" \in Disturbances
    /\ pc[c] = "write"
    /\ file' \in UNION {Overlays(file, part) : part \in ShortWrites(content[c])}
    /\ Return({c}, "error")
    /\ UNCHANGED <<options, device, history>>

-----------------------------------------------------------------------------
(***************************************************************************)
(* The environment.                                                        *)
(***************************************************************************)

\* The processes of some calls end: the MCP client closed stdin, or killed
\* them.  The file keeps what was written to it.
Crash(C) ==
    /\ "crash" \in Disturbances
    /\ C # {} /\ \A c \in C : pc[c] # "idle"
    /\ Return(C, "none")
    /\ UNCHANGED <<options, file, device, history>>

\* A device is replaced, re-imaged, or another answers at its address.
Rekey(h, k) ==
    /\ "rekey" \in Disturbances
    /\ k # device[h]
    /\ device' = [device EXCEPT ![h] = k]
    /\ UNCHANGED <<options, file, serverVars, history>>

AppendLine(f, l) == [f EXCEPT !.exists = TRUE, !.lines = @ \cup {l}]

ExternalAppend(l) ==
    /\ l \notin file.lines
    /\ file' = AppendLine(file, l)
    /\ ideal' = AppendLine(ideal, l)
    /\ UNCHANGED <<options, device, serverVars, shown, confirmed>>

-----------------------------------------------------------------------------
(***************************************************************************)
(* The steps the server takes on its own once a call is in progress.       *)
(***************************************************************************)
Step(c) ==
    \/ Refuse(c)
    \/ InspectShows(c)
    \/ InspectForTrust(c)
    \/ InspectFails(c)
    \/ StatusReturns(c)
    \/ StatusProceeds(c)
    \/ ReadKnownHosts(c)
    \/ FileErrorReturns(c)
    \/ TruncateFile(c)
    \/ WriteFile(c)
    \/ WriteFileFails(c)

Environment ==
    \/ \E C \in SUBSET Calls : Crash(C)
    \/ \E h \in Hosts, k \in Keys : Rekey(h, k)
    \/ \E l \in ExternalLines : ExternalAppend(l)

Next ==
    \/ \E c \in Calls, h \in Hosts, confirm, replace \in BOOLEAN :
           Invoke(c, h, confirm, replace)
    \/ \E c \in Calls : Step(c)
    \/ Environment

Spec == Init /\ [][Next]_vars

(***************************************************************************)
(* Fairness of the server: a call in progress goes on.  The dial is cut    *)
(* after 15 s, but the handshake of the probe has no deadline: fairness of *)
(* the probe is an assumption about the device, that it answers or closes  *)
(* the connection.                                                         *)
(***************************************************************************)
FairSpec == Spec /\ \A c \in Calls : WF_vars(Step(c))

-----------------------------------------------------------------------------
(***************************************************************************)
(* Calls that take turns.  No lock in the code makes them do so: this is   *)
(* what one around hostKeyStatus and upsertKnownHost, which every program  *)
(* honours, would give, and what a single user gives who makes one call    *)
(* after the other; on a machine that does not stop in mid-write.          *)
(***************************************************************************)

\* Where a call relies on what hostKeyStatus found in the file.
Section == {"read", "open", "write"}

OneInSection == \A c, d \in Calls : pc[c] \in Section /\ pc[d] \in Section => c = d

\* One call at a time, of all processes, is between its status and its
\* write; a write that was begun is finished; meanwhile nobody else edits
\* the file.  Probes, inspections and failures elsewhere overlap freely.
InTurn ==
    /\ OneInSection'
    /\ \A c \in Calls :
           pc[c] = "write" /\ pc'[c] # "write" => outcome'[c] \in {"added", "replaced"}
    /\ file' # file /\ pc' = pc => \A c \in Calls : pc[c] \notin Section

InTurnSpec == Init /\ [][Next /\ InTurn]_vars

-----------------------------------------------------------------------------
(***************************************************************************)
(* The user README describes: no confirmed call before the server has      *)
(* displayed a fingerprint of the same host.                               *)
(***************************************************************************)
TwoSteps(c) ==
    pc[c] = "idle" /\ pc'[c] = "inspect" /\ req'[c].confirm =>
        \E p \in shown : p[1] = req'[c].host

TwoStepSpec == Init /\ [][Next /\ \A c \in Calls : TwoSteps(c)]_vars

-----------------------------------------------------------------------------
(***************************************************************************)
(* Safety.                                                                 *)
(***************************************************************************)

BaseLines == UNION {f.lines : f \in BaseFiles}

Vouched == BaseLines \cup ExternalLines \cup {knownHostsLine(p[1], p[2]) : p \in confirmed}

\* Every line of the file, and of every content on its way to the file, was
\* there at the start, was written by another program, or vouches for a key
\* that a confirm=true call captured from that very host: whatever calls
\* interleave, overlay each other, fail half way or crash, no line comes
\* from an inspection, and no line pairs a host with the key of another.
Provenance ==
    /\ file.lines \subseteq Vouched
    /\ \A c \in Calls : content[c].lines \subseteq Vouched

Quiet == \A c \in Calls : pc[c] # "write"

\* trust_host_key adds: a pair that the finished calls and the external
\* edits left trusted is trusted by the file whenever no call is between
\* its truncation and its write.
NothingForgotten == Quiet => TrustedPairs(ideal) \subseteq TrustedPairs(file)

\* trust_host_key replaces: the file then trusts no pair that the finished
\* calls should have removed, so a replaced key is not accepted any more.
ReplacedIsGone == Quiet => TrustedPairs(file) \subseteq TrustedPairs(ideal)

\* A key the user revoked stays revoked, whatever is added or replaced.
RevocationsKept == Quiet => Revoked(ideal) \subseteq Revoked(file)

\* A host that has a key gets another one only from a replacing call: when
\* a call without replace_existing is about to write, what the finished
\* calls left holds no entry for its host.
NoSecondKey ==
    \A c \in Calls :
        pc[c] \in {"open", "write"} /\ ~req[c].replace => Entries(ideal, req[c].host) = {}

\* The key a call writes is one whose fingerprint an earlier reply showed.
WrittenWasShown ==
    \A c \in Calls : pc[c] = "write" => <<req[c].host, presented[c]>> \in shown

-----------------------------------------------------------------------------
(***************************************************************************)
(* Liveness.                                                               *)
(***************************************************************************)

\* A device whose key no longer changes, and that is not out of reach for
\* ever, is trusted from some time on if its owner keeps asking for it: no
\* sequence of calls leads to a file that trust_host_key cannot bring up to
\* date.  (Not said of a file that revokes the key, or does not parse.)
StableDeviceTrusted ==
    \A h \in Hosts, k \in Keys :
        options.pathSet /\ ~options.insecureSkip /\ <>[](device[h] = k)
            => <>[](Quiet => <<h, k>> \in TrustedPairs(file))

\* The user's half of that promise: the call is made again and again, and
\* the probe of the host is answered now and then.
RetryingSpec ==
    /\ FairSpec
    /\ \A c \in Calls, h \in Hosts :
           /\ SF_vars(Invoke(c, h, TRUE, TRUE))
           /\ SF_vars(/\ req[c] = [host |-> h, confirm |-> TRUE, replace |-> TRUE]
                      /\ InspectForTrust(c))

-----------------------------------------------------------------------------
(***************************************************************************)
(* Calls that do not overlap implement the atomic store.  While the file   *)
(* is truncated, the store holds what the finished calls left.             *)
(***************************************************************************)
Store == INSTANCE TrustStore
    WITH trusted <- TrustedPairs(IF Quiet THEN file ELSE ideal)

\* A call takes effect at its write and nowhere else, on its own host only,
\* as an Add or, with replace_existing, as a Replace.
ImplementsTrustStore == Store!Spec
=============================================================================
