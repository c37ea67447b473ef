-------------------------- MODULE TrustHostKeyProofs --------------------------
(***************************************************************************)
(* Type correctness and Provenance of trust_host_key, for any number of    *)
(* hosts, keys and concurrent calls, any initial files, external lines and *)
(* disturbances.                                                           *)
(*                                                                         *)
(* TypeOK is not inductive alone: a step uses req and presented as a host  *)
(* and a key, which they are only while the call is under way.  InFlight   *)
(* says so, and that what a call holds was captured by a confirmed probe:  *)
(* it is the fact that carries Provenance through the two reads and the    *)
(* write.                                                                  *)
(*                                                                         *)
(* The second half is about calls that take turns, where the tool keeps    *)
(* all it promises.                                                        *)
(***************************************************************************)
EXTENDS TrustHostKey, KnownHostsProofs

InFlight ==
    \A c \in Calls :
        /\ pc[c] # "idle" => req[c] \in Request
        /\ pc[c] \in KeyHeld =>
               /\ presented[c] \in Keys
               /\ <<req[c].host, presented[c]>> \in confirmed

Inv == TypeOK /\ InFlight

-----------------------------------------------------------------------------
\* A call that ends leaves a slot of the right type, and the others alone.
LEMMA ReturnType ==
    ASSUME TypeOK, NEW C \in SUBSET Calls, NEW reply \in Replies, Return(C, reply)
    PROVE  /\ pc' \in [Calls -> Places]
           /\ req' \in [Calls -> Request \cup {NoRequest}]
           /\ presented' \in [Calls -> Keys \cup {None}]
           /\ status' \in [Calls -> {"none", "unknown", "mismatch"}]
           /\ content' \in [Calls -> File]
           /\ outcome' \in [Calls -> Replies]
  BY NoFileType DEF Return, TypeOK, Places

LEMMA ReturnInFlight ==
    ASSUME Inv, NEW C \in SUBSET Calls, NEW reply, Return(C, reply),
           confirmed \subseteq confirmed'
    PROVE  InFlight'
  BY DEF Inv, TypeOK, InFlight, Return, KeyHeld

\* What a write leaves: lines of the file it overlays and of its content.
LEMMA OverlayLines ==
    ASSUME NEW f, NEW written, NEW g \in Overlays(f, written)
    PROVE  g.lines \subseteq f.lines \cup written.lines
  BY DEF Overlays

LEMMA OverlayType ==
    ASSUME NEW f \in File, NEW written \in File, NEW g \in Overlays(f, written)
    PROVE  g \in File
<1>1. CASE f = EmptyFile
  BY <1>1 DEF Overlays
<1>2. CASE f # EmptyFile
  <2>1. PICK tail \in SUBSET f.lines, t \in {written.torn, TRUE} :
            g = [exists |-> TRUE, lines |-> written.lines \cup tail, torn |-> t]
    BY <1>2 DEF Overlays
  <2>2. written.lines \cup tail \in SUBSET Line /\ t \in BOOLEAN
    BY DEF File
  <2> QED
    BY <2>1, <2>2 DEF File
<1> QED
  BY <1>1, <1>2

LEMMA ShortWriteType ==
    ASSUME NEW written \in File, NEW part \in ShortWrites(written)
    PROVE  part \in File /\ part.lines \subseteq written.lines
<1>1. PICK lines \in SUBSET written.lines, t \in BOOLEAN :
          part = [exists |-> TRUE, lines |-> lines, torn |-> t]
  BY DEF ShortWrites
<1>2. lines \in SUBSET Line
  BY DEF File
<1> QED
  BY <1>1, <1>2 DEF File

\* The intended update, a yardstick of the runs, is a file again.
LEMMA IntendedType ==
    ASSUME NEW f \in File, NEW h \in Hosts, NEW k \in Keys, NEW replace \in BOOLEAN
    PROVE  IntendedUpdate(f, h, k, replace) \in File
<1> DEFINE kept == IF replace
                   THEN {l \in {Relieved(m, h) : m \in f.lines} : l.covers # {}}
                   ELSE f.lines
<1>1. ASSUME NEW l \in Line PROVE Relieved(l, h) \in Line
  BY <1>1 DEF Relieved, Without, Line
<1>2. f.lines \subseteq Line /\ f.torn \in BOOLEAN
  BY DEF File
<1>3. kept \subseteq Line
  BY <1>1, <1>2
<1>4. kept \cup {knownHostsLine(h, k)} \in SUBSET Line
  BY <1>3, KnownHostsLineType
<1> QED
  BY <1>2, <1>4 DEF IntendedUpdate, File

-----------------------------------------------------------------------------
LEMMA InitInv == Init => Inv
  BY BaseFilesAssumption, NoFileType
     DEF Init, Inv, TypeOK, InFlight, Configured, Options, Places, KeyHeld,
         Replies, Pairs

\* What the host and the key of a call in progress are.
LEMMA HeldType ==
    ASSUME Inv, NEW c \in Calls
    PROVE  /\ pc[c] # "idle" => /\ req[c].host \in Hosts
                                /\ req[c].confirm \in BOOLEAN
                                /\ req[c].replace \in BOOLEAN
           /\ pc[c] \in KeyHeld => presented[c] \in Keys
  BY DEF Inv, InFlight, Request

LEMMA InvokeInv ==
    ASSUME Inv, NEW c \in Calls, NEW h \in Hosts, NEW confirm \in BOOLEAN,
           NEW replace \in BOOLEAN, Invoke(c, h, confirm, replace)
    PROVE  Inv'
<1>1. TypeOK'
  BY DEF Inv, TypeOK, Invoke, history, Places, Request, Replies
<1>2. InFlight'
  BY DEF Inv, TypeOK, InFlight, Invoke, history, KeyHeld, Request
<1> QED
  BY <1>1, <1>2 DEF Inv

\* The steps that only end a call.
LEMMA OnlyReturnsInv ==
    ASSUME Inv, NEW C \in SUBSET Calls, NEW reply \in Replies, Return(C, reply),
           UNCHANGED <<options, device, confirmed, ideal>>,
           file' \in File, shown' \subseteq Pairs
    PROVE  Inv'
<1>1. TypeOK'
  BY ReturnType DEF Inv, TypeOK
<1>2. InFlight'
  BY ReturnInFlight
<1> QED
  BY <1>1, <1>2 DEF Inv

LEMMA InspectForTrustInv ==
    ASSUME Inv, NEW c \in Calls, InspectForTrust(c)
    PROVE  Inv'
<1>1. req[c].host \in Hosts /\ device[req[c].host] \in Keys
  BY HeldType DEF InspectForTrust, Inv, TypeOK
<1>2. TypeOK'
  BY <1>1 DEF Inv, TypeOK, InspectForTrust, Places, KeyHeld, Pairs
<1>3. InFlight'
  BY <1>1 DEF Inv, TypeOK, InFlight, InspectForTrust, KeyHeld
<1> QED
  BY <1>2, <1>3 DEF Inv

LEMMA StatusProceedsInv ==
    ASSUME Inv, NEW c \in Calls, StatusProceeds(c)
    PROVE  Inv'
<1>1. TypeOK'
  BY DEF Inv, TypeOK, StatusProceeds, MayWrite, Places, KeyHeld, history
<1>2. InFlight'
  BY DEF Inv, TypeOK, InFlight, StatusProceeds, KeyHeld, history
<1> QED
  BY <1>1, <1>2 DEF Inv

LEMMA ReadKnownHostsInv ==
    ASSUME Inv, NEW c \in Calls, ReadKnownHosts(c)
    PROVE  Inv'
<1> DEFINE new == upsertKnownHost(file, req[c].host, presented[c], req[c].replace)
<1>1. new \in File
  BY HeldType, UpsertType DEF ReadKnownHosts, KeyHeld, Inv, TypeOK
<1>2. TypeOK'
  BY <1>1 DEF Inv, TypeOK, ReadKnownHosts, Places, KeyHeld, history
<1>3. InFlight'
  BY DEF Inv, TypeOK, InFlight, ReadKnownHosts, KeyHeld, history
<1> QED
  BY <1>2, <1>3 DEF Inv

LEMMA TruncateFileInv ==
    ASSUME Inv, NEW c \in Calls, TruncateFile(c)
    PROVE  Inv'
<1>1. TypeOK'
  BY EmptyFileType DEF Inv, TypeOK, TruncateFile, Places, KeyHeld, history
<1>2. InFlight'
  BY DEF Inv, TypeOK, InFlight, TruncateFile, KeyHeld, history
<1> QED
  BY <1>1, <1>2 DEF Inv

\* Every file a write may leave is a file.
LEMMA WriteType ==
    ASSUME Inv, NEW c \in Calls, pc[c] = "write"
    PROVE  /\ Overlays(file, content[c]) \subseteq File
           /\ \A part \in ShortWrites(content[c]) : Overlays(file, part) \subseteq File
<1>1. file \in File /\ content[c] \in File
  BY DEF Inv, TypeOK
<1> QED
  BY <1>1, OverlayType, ShortWriteType

LEMMA StepInv ==
    ASSUME Inv, NEW c \in Calls, Step(c)
    PROVE  Inv'
<1> USE DEF Replies
<1>1. file \in File /\ shown \subseteq Pairs
  BY DEF Inv, TypeOK
<1>2. CASE Refuse(c)
  BY <1>1, <1>2, OnlyReturnsInv DEF Refuse, history
<1>3. CASE InspectShows(c)
  <2>1. <<req[c].host, device[req[c].host]>> \in Pairs
    BY <1>3, HeldType DEF InspectShows, Inv, TypeOK, Pairs
  <2> QED
    BY <1>1, <1>3, <2>1, OnlyReturnsInv DEF InspectShows
<1>4. CASE InspectForTrust(c)
  BY <1>4, InspectForTrustInv
<1>5. CASE InspectFails(c)
  BY <1>1, <1>5, OnlyReturnsInv DEF InspectFails, history
<1>6. CASE StatusReturns(c)
  <2>1. <<req[c].host, presented[c]>> \in Pairs
    BY <1>6, HeldType DEF StatusReturns, KeyHeld, Pairs
  <2>2. shown' \subseteq Pairs
    BY <1>1, <1>6, <2>1 DEF StatusReturns
  <2>3. PICK reply \in Replies : Return({c}, reply)
    BY <1>6 DEF StatusReturns
  <2> QED
    BY <1>1, <1>6, <2>2, <2>3, OnlyReturnsInv DEF StatusReturns
<1>7. CASE StatusProceeds(c)
  BY <1>7, StatusProceedsInv
<1>8. CASE ReadKnownHosts(c)
  BY <1>8, ReadKnownHostsInv
<1>9. CASE FileErrorReturns(c)
  BY <1>1, <1>9, OnlyReturnsInv DEF FileErrorReturns, history
<1>10. CASE TruncateFile(c)
  BY <1>10, TruncateFileInv
<1>11. CASE WriteFile(c)
  <2>1. req[c].host \in Hosts /\ presented[c] \in Keys /\ req[c].replace \in BOOLEAN
    BY <1>11, HeldType DEF WriteFile, KeyHeld
  <2>2. file' \in File
    BY <1>11, WriteType DEF WriteFile
  <2>3. ideal' \in File
    BY <1>11, <2>1, IntendedType DEF WriteFile, Inv, TypeOK
  <2>4. shown' \subseteq Pairs
    BY <1>1, <1>11, <2>1 DEF WriteFile, Pairs
  <2>5. PICK reply \in Replies : Return({c}, reply)
    BY <1>11 DEF WriteFile
  <2>6. TypeOK'
    BY <1>11, <2>2, <2>3, <2>4, <2>5, ReturnType DEF WriteFile, Inv, TypeOK
  <2>7. InFlight'
    BY <1>11, <2>5, ReturnInFlight DEF WriteFile
  <2> QED
    BY <2>6, <2>7 DEF Inv
<1>12. CASE WriteFileFails(c)
  <2>1. file' \in File
    BY <1>12, WriteType DEF WriteFileFails
  <2> QED
    BY <1>1, <1>12, <2>1, OnlyReturnsInv DEF WriteFileFails, history
<1> QED
  BY <1>2, <1>3, <1>4, <1>5, <1>6, <1>7, <1>8, <1>9, <1>10, <1>11, <1>12 DEF Step

LEMMA EnvironmentInv ==
    ASSUME Inv, Environment
    PROVE  Inv'
<1>1. ASSUME NEW C \in SUBSET Calls, Crash(C) PROVE Inv'
  <2>1. file \in File /\ shown \subseteq Pairs
    BY DEF Inv, TypeOK
  <2> QED
    BY <1>1, <2>1, OnlyReturnsInv DEF Crash, history, Replies
<1>2. ASSUME NEW h \in Hosts, NEW k \in Keys, Rekey(h, k) PROVE Inv'
  <2>1. TypeOK'
    BY <1>2 DEF Rekey, serverVars, history, Inv, TypeOK
  <2>2. InFlight'
    BY <1>2 DEF Rekey, serverVars, history, Inv, InFlight
  <2> QED
    BY <2>1, <2>2 DEF Inv
<1>3. ASSUME NEW l \in ExternalLines, ExternalAppend(l) PROVE Inv'
  <2>1. ASSUME NEW f \in File PROVE AppendLine(f, l) \in File
    <3>1. l \in Line
      BY ExternalLinesAssumption
    <3> QED
      BY <3>1 DEF AppendLine, File
  <2>2. TypeOK'
    BY <1>3, <2>1 DEF ExternalAppend, serverVars, Inv, TypeOK
  <2>3. InFlight'
    BY <1>3 DEF ExternalAppend, serverVars, Inv, InFlight
  <2> QED
    BY <2>2, <2>3 DEF Inv
<1> QED
  BY <1>1, <1>2, <1>3 DEF Environment

LEMMA NextInv == Inv /\ [Next]_vars => Inv'
<1> SUFFICES ASSUME Inv, [Next]_vars PROVE Inv'
  OBVIOUS
<1>1. CASE UNCHANGED vars
  <2>1. TypeOK'
    BY <1>1 DEF vars, Inv, TypeOK
  <2>2. InFlight'
    BY <1>1 DEF vars, Inv, InFlight
  <2> QED
    BY <2>1, <2>2 DEF Inv
<1>2. CASE Next
  BY <1>2, InvokeInv, StepInv, EnvironmentInv DEF Next
<1> QED
  BY <1>1, <1>2

\* In every reachable state every variable has its type.
THEOREM TypeCorrect == Spec => []TypeOK
<1>1. Inv => TypeOK
  BY DEF Inv
<1> QED
  BY <1>1, InitInv, NextInv, PTL DEF Spec

-----------------------------------------------------------------------------
(***************************************************************************)
(* Provenance.                                                             *)
(***************************************************************************)

\* What vouches once vouches for ever.
LEMMA VouchedGrows ==
    ASSUME confirmed \subseteq confirmed'
    PROVE  Vouched \subseteq Vouched'
  BY DEF Vouched, BaseLines

LEMMA InitProvenance == Init => Provenance
  BY DEF Init, Provenance, Vouched, BaseLines, NoFile

\* The shape of every step: the lines a step leaves in the file or in a
\* content come from the file, from a content, or vouch already.
LEMMA ProvenancePreserved ==
    ASSUME Provenance,
           confirmed \subseteq confirmed',
           file'.lines \subseteq Vouched',
           \A c \in Calls : \/ content'[c] = content[c]
                             \/ content'[c].lines \subseteq Vouched'
    PROVE  Provenance'
  BY VouchedGrows DEF Provenance

LEMMA ReturnContent ==
    ASSUME NEW C, NEW reply, Return(C, reply)
    PROVE  \A c \in Calls : \/ content'[c] = content[c]
                             \/ content'[c].lines \subseteq Vouched'
  BY DEF Return, NoFile

LEMMA ReadKnownHostsProvenance ==
    ASSUME Inv, Provenance, NEW c \in Calls, ReadKnownHosts(c)
    PROVE  Provenance'
<1> DEFINE h == req[c].host
           k == presented[c]
           new == upsertKnownHost(file, h, k, req[c].replace)
<1>1. <<h, k>> \in confirmed
  BY DEF ReadKnownHosts, KeyHeld, Inv, InFlight
<1>2. knownHostsLine(h, k) \in Vouched
  BY <1>1 DEF Vouched
<1>3. new.lines \subseteq Vouched
  BY <1>2, UpsertLines DEF Provenance
<1>4. Vouched' = Vouched /\ file' = file
  BY DEF ReadKnownHosts, history, Vouched, BaseLines
<1>5. \A d \in Calls : content'[d] = content[d] \/ content'[d].lines \subseteq Vouched'
  BY <1>3, <1>4 DEF ReadKnownHosts, Inv, TypeOK
<1> QED
  BY <1>4, <1>5, ProvenancePreserved DEF Provenance, ReadKnownHosts, history

LEMMA WriteProvenance ==
    ASSUME Provenance, NEW c \in Calls,
           \/ file' \in Overlays(file, content[c])
           \/ \E part \in ShortWrites(content[c]) : file' \in Overlays(file, part),
           confirmed' = confirmed
    PROVE  file'.lines \subseteq Vouched'
<1>1. file.lines \subseteq Vouched /\ content[c].lines \subseteq Vouched
  BY DEF Provenance
<1>2. \A part \in ShortWrites(content[c]) : part.lines \subseteq content[c].lines
  BY DEF ShortWrites
<1>3. file'.lines \subseteq Vouched
  BY <1>1, <1>2, OverlayLines
<1>4. Vouched \subseteq Vouched'
  BY VouchedGrows
<1> QED
  BY <1>3, <1>4

LEMMA StepProvenance ==
    ASSUME Inv, Provenance, NEW c \in Calls, Step(c)
    PROVE  Provenance'
<1>1. ASSUME confirmed \subseteq confirmed', file' = file
      PROVE  file'.lines \subseteq Vouched'
  BY <1>1, VouchedGrows DEF Provenance
<1>2. CASE Refuse(c) \/ InspectShows(c) \/ InspectFails(c) \/ StatusReturns(c)
               \/ FileErrorReturns(c)
  <2>1. file' = file /\ confirmed' = confirmed
    BY <1>2 DEF Refuse, InspectShows, InspectFails, StatusReturns,
                FileErrorReturns, history
  <2>2. PICK reply : Return({c}, reply)
    BY <1>2 DEF Refuse, InspectShows, InspectFails, StatusReturns, FileErrorReturns
  <2> QED
    BY <1>1, <2>1, <2>2, ReturnContent, ProvenancePreserved
<1>3. CASE InspectForTrust(c) \/ StatusProceeds(c)
  <2>1. /\ file' = file
        /\ confirmed \subseteq confirmed'
        /\ content' = content
    BY <1>3 DEF InspectForTrust, StatusProceeds, history
  <2> QED
    BY <1>1, <2>1, ProvenancePreserved
<1>4. CASE ReadKnownHosts(c)
  BY <1>4, ReadKnownHostsProvenance
<1>5. CASE TruncateFile(c)
  <2>1. file'.lines = {} /\ confirmed' = confirmed /\ content' = content
    BY <1>5 DEF TruncateFile, history, EmptyFile
  <2> QED
    BY <2>1, ProvenancePreserved
<1>6. CASE WriteFile(c) \/ WriteFileFails(c)
  <2>1. confirmed' = confirmed
    BY <1>6 DEF WriteFile, WriteFileFails, history
  <2>2. file'.lines \subseteq Vouched'
    BY <1>6, <2>1, WriteProvenance DEF WriteFile, WriteFileFails
  <2>3. PICK reply : Return({c}, reply)
    BY <1>6 DEF WriteFile, WriteFileFails
  <2> QED
    BY <2>1, <2>2, <2>3, ReturnContent, ProvenancePreserved
<1> QED
  BY <1>2, <1>3, <1>4, <1>5, <1>6 DEF Step

LEMMA EnvironmentProvenance ==
    ASSUME Inv, Provenance, Environment
    PROVE  Provenance'
<1>1. ASSUME NEW C \in SUBSET Calls, Crash(C) PROVE Provenance'
  <2>1. file' = file /\ confirmed' = confirmed /\ Vouched' = Vouched
    BY <1>1 DEF Crash, history, Vouched, BaseLines
  <2> QED
    BY <1>1, <2>1, ReturnContent, ProvenancePreserved DEF Crash, Provenance
<1>2. ASSUME NEW h \in Hosts, NEW k \in Keys, Rekey(h, k) PROVE Provenance'
  BY <1>2 DEF Rekey, serverVars, history, Provenance, Vouched, BaseLines
<1>3. ASSUME NEW l \in ExternalLines, ExternalAppend(l) PROVE Provenance'
  <2>1. file'.lines = file.lines \cup {l}
    BY <1>3 DEF ExternalAppend, AppendLine, Inv, TypeOK, File
  <2>2. confirmed' = confirmed /\ content' = content /\ Vouched' = Vouched
    BY <1>3 DEF ExternalAppend, serverVars, Vouched, BaseLines
  <2>3. l \in Vouched
    BY DEF Vouched
  <2> QED
    BY <2>1, <2>2, <2>3 DEF Provenance
<1> QED
  BY <1>1, <1>2, <1>3 DEF Environment

LEMMA NextProvenance == Inv /\ Provenance /\ [Next]_vars => Provenance'
<1> SUFFICES ASSUME Inv, Provenance, [Next]_vars PROVE Provenance'
  OBVIOUS
<1>1. CASE UNCHANGED vars
  BY <1>1 DEF vars, Provenance, Vouched, BaseLines
<1>2. ASSUME NEW c \in Calls, NEW h \in Hosts, NEW confirm \in BOOLEAN,
             NEW replace \in BOOLEAN, Invoke(c, h, confirm, replace)
      PROVE  Provenance'
  BY <1>2 DEF Invoke, history, Provenance, Vouched, BaseLines
<1> QED
  BY <1>1, <1>2, StepProvenance, EnvironmentProvenance DEF Next

\* trust_host_key puts nothing into known_hosts, or into what it is about to
\* write there, but lines that were there, lines of other programs, and keys
\* captured from their own host by a confirmed call.
THEOREM ProvenanceHolds == Spec => []Provenance
<1>1. Inv /\ Provenance /\ [Next]_vars => (Inv /\ Provenance)'
  BY NextInv, NextProvenance
<1>2. Init => Inv /\ Provenance
  BY InitInv, InitProvenance
<1> QED
  BY <1>1, <1>2, PTL DEF Spec

-----------------------------------------------------------------------------
(***************************************************************************)
(* Calls that take turns, over well-kept files.  Any number of calls may   *)
(* be under way, probe, inspect, fail and crash; one at a time is between  *)
(* its status and its write.  Then the tool implements TrustStore, forgets *)
(* no pair, brings no replaced key back, keeps revocations and adds no     *)
(* second key.  The runs lost_update, hashed_stays and shared_line show    *)
(* that without the turns, or over other files, these are false.           *)
(***************************************************************************)
WellKeptWorld ==
    /\ \A f \in BaseFiles : WellKept(f)
    /\ \A l \in ExternalLines : Verbatim(l)

\* What the status established still holds when the call writes, and what it
\* writes is the intended update of the file.
Pending(c) ==
    LET h == req[c].host
        k == presented[c]
    IN
    /\ pc[c] \in {"read", "open", "write"} =>
           /\ ~ideal.torn
           /\ k \notin Revoked(ideal) \cup Entries(ideal, h)
           /\ ~req[c].replace => Entries(ideal, h) = {}
    /\ pc[c] \in {"open", "write"} =>
           content[c] = IntendedUpdate(ideal, h, k, req[c].replace)

InStep ==
    /\ OneInSection
    /\ WellKept(ideal)
    /\ file = IF Quiet THEN ideal ELSE EmptyFile
    /\ \A c \in Calls : Pending(c)

\* On a line of its own host the rewrite does what is intended.
LEMMA RelievedLine ==
    ASSUME NEW l \in Line, Verbatim(l), NEW h \in Hosts
    PROVE  /\ h \in l.literal => l.marker = "none" /\ Relieved(l, h).covers = {}
           /\ h \notin l.literal => Relieved(l, h) = l /\ l.covers # {}
<1>1. CASE l.marker # "none"
  BY <1>1 DEF Verbatim, Relieved
<1>2. CASE l.marker = "none"
  <2>1. PICK g \in Hosts : l.covers = {g} /\ l.literal = {g}
    BY <1>2 DEF Verbatim
  <2>2. CASE g = h
    BY <1>2, <2>1, <2>2 DEF Relieved, Without
  <2>3. CASE g # h
    <3>1. l.covers \ {h} = l.covers /\ l.literal \ {h} = l.literal
      BY <2>1, <2>3
    <3>2. l = [marker |-> l.marker, covers |-> l.covers, literal |-> l.literal, key |-> l.key]
      BY DEF Line
    <3>3. Relieved(l, h) = l
      BY <1>2, <3>1, <3>2 DEF Relieved, Without
    <3> QED
      BY <2>1, <2>3, <3>3
  <2> QED
    BY <2>2, <2>3
<1> QED
  BY <1>1, <1>2

LEMMA UpsertIsIntended ==
    ASSUME NEW f \in File, WellKept(f), NEW h \in Hosts, NEW k \in Keys,
           NEW replace \in BOOLEAN
    PROVE  upsertKnownHost(f, h, k, replace) = IntendedUpdate(f, h, k, replace)
<1>1. \A l \in f.lines : l \in Line /\ Verbatim(l)
  BY DEF File, WellKept
<1>2. {l \in f.lines : h \notin l.literal}
          = {l \in {Relieved(m, h) : m \in f.lines} : l.covers # {}}
  BY <1>1, RelievedLine
<1>3. CASE replace
  BY <1>2, <1>3 DEF upsertKnownHost, IntendedUpdate, lineMatchesHost
<1>4. CASE ~replace
  <2>1. {l \in f.lines : ~(replace /\ lineMatchesHost(l, h))} = f.lines
    BY <1>4
  <2> QED
    BY <1>4, <2>1 DEF upsertKnownHost, IntendedUpdate
<1> QED
  BY <1>3, <1>4

-----------------------------------------------------------------------------
LEMMA InitInStep ==
    ASSUME WellKeptWorld, Init
    PROVE  InStep
<1>1. Quiet /\ OneInSection /\ \A c \in Calls : Pending(c)
  BY DEF Init, Quiet, Pending, OneInSection, Section
<1>2. WellKept(ideal) /\ file = ideal
  BY DEF Init, WellKeptWorld
<1> QED
  BY <1>1, <1>2 DEF InStep

\* While a call is in its section no other is, and it alone may have
\* truncated the file.
LEMMA OnlyInSection ==
    ASSUME InStep, NEW c \in Calls, pc[c] \in Section
    PROVE  /\ \A d \in Calls \ {c} : pc[d] \notin Section
           /\ Quiet <=> pc[c] # "write"
  BY DEF InStep, OneInSection, Section, Quiet

\* A step of a call touches no other call.
LEMMA OthersKept ==
    ASSUME Inv, NEW c \in Calls, NEW d \in Calls \ {c},
           \/ Step(c)
           \/ \E h \in Hosts, confirm, replace \in BOOLEAN : Invoke(c, h, confirm, replace)
    PROVE  /\ pc'[d] = pc[d] /\ req'[d] = req[d]
           /\ presented'[d] = presented[d] /\ content'[d] = content[d]
  BY DEF Inv, TypeOK, Step, Invoke, Refuse, InspectShows, InspectForTrust, InspectFails,
         StatusReturns, StatusProceeds, ReadKnownHosts, FileErrorReturns, TruncateFile,
         WriteFile, WriteFileFails, Return

\* Most steps change neither the file nor the intended one.
LEMMA FileKept ==
    ASSUME InStep, OneInSection', UNCHANGED <<file, ideal>>, Quiet' <=> Quiet,
           \A c \in Calls : Pending(c)'
    PROVE  InStep'
  BY DEF InStep, WellKept

\* Those of a call leave it with what it needs to know.
LEMMA CallKeepsFile ==
    ASSUME Inv, InStep, OneInSection', NEW c \in Calls,
           \/ Step(c)
           \/ \E h \in Hosts, confirm, replace \in BOOLEAN : Invoke(c, h, confirm, replace),
           UNCHANGED <<file, ideal>>,
           pc[c] # "write", pc'[c] # "write", Pending(c)'
    PROVE  InStep'
<1>1. ASSUME NEW d \in Calls \ {c} PROVE Pending(d)' /\ pc'[d] = pc[d]
  <2>1. /\ pc'[d] = pc[d] /\ req'[d] = req[d]
        /\ presented'[d] = presented[d] /\ content'[d] = content[d]
    BY OthersKept
  <2>2. Pending(d)
    BY DEF InStep
  <2> QED
    BY <2>1, <2>2 DEF Pending
<1>2. Quiet' <=> Quiet
  BY <1>1 DEF Quiet
<1>3. \A d \in Calls : Pending(d)'
  BY <1>1
<1> QED
  BY <1>2, <1>3, FileKept

LEMMA EndsCall ==
    ASSUME NEW C \in SUBSET Calls, NEW reply, Return(C, reply), NEW c \in C
    PROVE  pc'[c] = "idle" /\ outcome'[c] = reply /\ Pending(c)'
<1>1. pc'[c] = "idle" /\ outcome'[c] = reply
  BY DEF Return
<1> QED
  BY <1>1 DEF Pending

\* The answer that lets a call write is one about the intended file: were
\* another call between truncation and write, this one would not be let in.
LEMMA StatusInStep ==
    ASSUME Inv, InStep, OneInSection', NEW c \in Calls, StatusProceeds(c)
    PROVE  InStep'
<1> DEFINE h == req[c].host
           k == presented[c]
<1>1. pc[c] = "status" /\ pc'[c] = "read" /\ UNCHANGED <<file, ideal, req, presented>>
  BY DEF StatusProceeds, history, Inv, TypeOK
<1>2. ASSUME NEW d \in Calls PROVE pc[d] # "write"
  <2>1. CASE d = c
    BY <1>1, <2>1
  <2>2. CASE d # c
    <3>1. pc'[d] = pc[d]
      BY <2>2, OthersKept DEF Step
    <3>2. pc'[d] \notin Section
      BY <1>1, <2>2 DEF OneInSection, Section
    <3> QED
      BY <3>1, <3>2 DEF Section
  <2> QED
    BY <2>1, <2>2
<1>3. ideal = file /\ WellKept(file) /\ file \in File
  BY <1>2 DEF InStep, Quiet, Inv, TypeOK
<1>4. \/ hostKeyStatus(file, h, k) = "unknown"
      \/ hostKeyStatus(file, h, k) = "mismatch" /\ req[c].replace
  BY DEF StatusProceeds, MayWrite, StatusOf
<1>5. CASE ~file.exists
  <2>1. Revoked(file) = {} /\ Entries(file, h) = {} /\ ~file.torn
    BY <1>3, <1>5 DEF WellKept, Revoked, Entries
  <2>2. Pending(c)'
    BY <1>1, <1>3, <2>1 DEF Pending
  <2> QED
    BY <1>1, <2>2, CallKeepsFile DEF Step
<1>6. CASE file.exists
  <2>1. ~file.torn /\ k \notin Revoked(file) \cup Entries(file, h)
    BY <1>4, <1>6 DEF hostKeyStatus
  <2>2. ~req[c].replace => Entries(file, h) = {}
    BY <1>4, <1>6, <2>1 DEF hostKeyStatus
  <2>3. Pending(c)'
    BY <1>1, <1>3, <2>1, <2>2 DEF Pending
  <2> QED
    BY <1>1, <2>3, CallKeepsFile DEF Step
<1> QED
  BY <1>5, <1>6

LEMMA ReadInStep ==
    ASSUME Inv, InStep, OneInSection', NEW c \in Calls, ReadKnownHosts(c)
    PROVE  InStep'
<1> DEFINE h == req[c].host
           k == presented[c]
<1>1. pc[c] = "read" /\ pc'[c] = "open" /\ UNCHANGED <<file, ideal, req, presented>>
  BY DEF ReadKnownHosts, history, Inv, TypeOK
<1>2. ideal = file /\ WellKept(ideal) /\ ideal \in File
  <2>1. Quiet
    BY <1>1, OnlyInSection DEF Section
  <2> QED
    BY <2>1 DEF InStep, Inv, TypeOK
<1>3. h \in Hosts /\ k \in Keys /\ req[c].replace \in BOOLEAN
  BY <1>1, HeldType DEF KeyHeld
<1>4. content'[c] = upsertKnownHost(ideal, h, k, req[c].replace)
  BY <1>2 DEF ReadKnownHosts, Inv, TypeOK
<1>5. content'[c] = IntendedUpdate(ideal, h, k, req[c].replace)
  BY <1>2, <1>3, <1>4, UpsertIsIntended
<1>6. Pending(c)
  BY DEF InStep
<1>7. Pending(c)'
  BY <1>1, <1>5, <1>6 DEF Pending
<1> QED
  BY <1>1, <1>7, CallKeepsFile DEF Step

LEMMA TruncateInStep ==
    ASSUME Inv, InStep, OneInSection', NEW c \in Calls, TruncateFile(c)
    PROVE  InStep'
<1>1. /\ pc[c] = "open" /\ pc'[c] = "write" /\ file' = EmptyFile
      /\ UNCHANGED <<ideal, req, presented, content>>
  BY DEF TruncateFile, history, Inv, TypeOK
<1>2. ASSUME NEW d \in Calls PROVE Pending(d)'
  <2>1. CASE d = c
    BY <1>1, <2>1 DEF InStep, Pending
  <2>2. CASE d # c
    <3>1. pc'[d] \notin Section
      BY <1>1, <2>2 DEF OneInSection, Section
    <3> QED
      BY <3>1 DEF Pending, Section
  <2> QED
    BY <2>1, <2>2
<1>3. ~Quiet'
  BY <1>1 DEF Quiet
<1> QED
  BY <1>1, <1>2, <1>3 DEF InStep, WellKept

\* What the call that writes has in hand, and what the file becomes.
LEMMA Written ==
    ASSUME Inv, InStep, NEW c \in Calls, WriteFile(c)
    PROVE  LET h == req[c].host
               k == presented[c]
           IN  /\ h \in Hosts /\ k \in Keys /\ req[c].replace \in BOOLEAN
               /\ ideal \in File /\ WellKept(ideal) /\ ~ideal.torn
               /\ k \notin Revoked(ideal) \cup Entries(ideal, h)
               /\ ~req[c].replace => Entries(ideal, h) = {}
               /\ ideal' = upsertKnownHost(ideal, h, k, req[c].replace)
               /\ file' = ideal'
               /\ pc'[c] = "idle"
<1> DEFINE h == req[c].host
           k == presented[c]
<1>1. pc[c] = "write" /\ h \in Hosts /\ k \in Keys /\ req[c].replace \in BOOLEAN
  BY HeldType DEF WriteFile, KeyHeld
<1>2. ideal \in File /\ WellKept(ideal) /\ Pending(c)
  BY DEF InStep, Inv, TypeOK
<1>3. /\ ~ideal.torn
      /\ k \notin Revoked(ideal) \cup Entries(ideal, h)
      /\ ~req[c].replace => Entries(ideal, h) = {}
      /\ content[c] = IntendedUpdate(ideal, h, k, req[c].replace)
  BY <1>1, <1>2 DEF Pending
<1>4. file = EmptyFile
  BY <1>1 DEF InStep, Quiet
<1>5. file' = content[c]
  BY <1>4 DEF WriteFile, Overlays
<1>6. ideal' = IntendedUpdate(ideal, h, k, req[c].replace)
  BY DEF WriteFile
<1>7. ideal' = upsertKnownHost(ideal, h, k, req[c].replace)
  BY <1>1, <1>2, <1>6, UpsertIsIntended
<1>8. pc'[c] = "idle"
  BY DEF WriteFile, Return
<1> QED
  BY <1>1, <1>2, <1>3, <1>5, <1>6, <1>7, <1>8

LEMMA WriteInStep ==
    ASSUME Inv, InStep, OneInSection', NEW c \in Calls, WriteFile(c)
    PROVE  InStep'
<1>1. file' = ideal' /\ pc'[c] = "idle"
  BY Written
<1>2. WellKept(ideal')
  BY Written, UpsertWellKept
<1>3. ASSUME NEW d \in Calls PROVE pc'[d] \notin Section
  <2>1. CASE d = c
    BY <1>1, <2>1 DEF Section
  <2>2. CASE d # c
    <3>1. pc[d] \notin Section
      BY <2>2, OnlyInSection DEF WriteFile, Section
    <3>2. pc'[d] = pc[d]
      BY <2>2, OthersKept DEF Step
    <3> QED
      BY <3>1, <3>2
  <2> QED
    BY <2>1, <2>2
<1>4. Quiet' /\ \A d \in Calls : Pending(d)'
  BY <1>3 DEF Quiet, Pending, Section
<1> QED
  BY <1>1, <1>2, <1>4 DEF InStep, WellKept

LEMMA StepInStep ==
    ASSUME Inv, InStep, InTurn, NEW c \in Calls, Step(c)
    PROVE  InStep'
<1>1. OneInSection'
  BY DEF InTurn
<1>2. CASE Refuse(c) \/ InspectShows(c) \/ InspectFails(c) \/ StatusReturns(c)
               \/ FileErrorReturns(c)
  <2>1. UNCHANGED <<file, ideal>> /\ pc[c] # "write"
    BY <1>2 DEF Refuse, InspectShows, InspectFails, StatusReturns, FileErrorReturns, history
  <2>2. PICK reply : Return({c}, reply)
    BY <1>2 DEF Refuse, InspectShows, InspectFails, StatusReturns, FileErrorReturns
  <2>3. pc'[c] = "idle" /\ Pending(c)'
    BY <2>2, EndsCall
  <2> QED
    BY <1>1, <2>1, <2>3, CallKeepsFile
<1>3. CASE InspectForTrust(c)
  <2>1. UNCHANGED <<file, ideal>> /\ pc[c] = "inspect" /\ pc'[c] = "status"
    BY <1>3 DEF InspectForTrust, Inv, TypeOK
  <2>2. Pending(c)'
    BY <2>1 DEF Pending
  <2> QED
    BY <1>1, <2>1, <2>2, CallKeepsFile
<1>4. CASE StatusProceeds(c)
  BY <1>1, <1>4, StatusInStep
<1>5. CASE ReadKnownHosts(c)
  BY <1>1, <1>5, ReadInStep
<1>6. CASE TruncateFile(c)
  BY <1>1, <1>6, TruncateInStep
<1>7. CASE WriteFile(c)
  BY <1>1, <1>7, WriteInStep
<1>8. ~WriteFileFails(c)
  <2> SUFFICES ASSUME WriteFileFails(c) PROVE FALSE
    OBVIOUS
  <2>1. pc[c] = "write" /\ pc'[c] = "idle" /\ outcome'[c] = "error"
    BY DEF WriteFileFails, Return
  <2> QED
    BY <2>1 DEF InTurn
<1> QED
  BY <1>2, <1>3, <1>4, <1>5, <1>6, <1>7, <1>8 DEF Step

\* The processes that end have no call that writes.
LEMMA CrashInStep ==
    ASSUME Inv, InStep, InTurn, NEW C \in SUBSET Calls, Crash(C)
    PROVE  InStep'
<1>1. UNCHANGED <<file, ideal>> /\ Return(C, "none")
  BY DEF Crash, history
<1>2. ASSUME NEW c \in C
      PROVE  Pending(c)' /\ pc[c] # "write" /\ pc'[c] # "write"
  <2>1. pc'[c] = "idle" /\ outcome'[c] = "none" /\ Pending(c)'
    BY <1>1, EndsCall
  <2> QED
    BY <2>1 DEF InTurn
<1>3. ASSUME NEW c \in Calls \ C PROVE Pending(c)' /\ pc'[c] = pc[c]
  <2>1. /\ pc'[c] = pc[c] /\ req'[c] = req[c]
        /\ presented'[c] = presented[c] /\ content'[c] = content[c]
    BY <1>1 DEF Return
  <2>2. Pending(c)
    BY DEF InStep
  <2> QED
    BY <1>1, <2>1, <2>2 DEF Pending
<1>4. Quiet' <=> Quiet
  BY <1>2, <1>3 DEF Quiet
<1> QED
  BY <1>1, <1>2, <1>3, <1>4, FileKept DEF InTurn

\* Another program's line goes to a file that no call is working on.
LEMMA AppendInStep ==
    ASSUME WellKeptWorld, Inv, InStep, InTurn, NEW l \in ExternalLines, ExternalAppend(l)
    PROVE  InStep'
<1>1. pc' = pc /\ file' = AppendLine(file, l) /\ ideal' = AppendLine(ideal, l)
      /\ l \notin file.lines /\ file \in File
  BY DEF ExternalAppend, serverVars, Inv, TypeOK
<1>2. file' # file
  <2>1. l \in file'.lines
    BY <1>1 DEF AppendLine, File
  <2> QED
    BY <1>1, <2>1
<1>3. \A c \in Calls : pc[c] \notin Section
  BY <1>1, <1>2 DEF InTurn
<1>4. Quiet /\ Quiet' /\ \A c \in Calls : Pending(c)'
  BY <1>1, <1>3 DEF Quiet, Pending, Section
<1>5. ideal = file
  BY <1>4 DEF InStep
<1>6. WellKept(ideal')
  <2>1. ideal' = [file EXCEPT !.exists = TRUE, !.lines = @ \cup {l}]
    BY <1>1, <1>5 DEF AppendLine
  <2>2. ideal'.exists /\ ideal'.lines = file.lines \cup {l}
    BY <1>1, <2>1 DEF File
  <2>3. \A m \in file.lines \cup {l} : Verbatim(m)
    BY <1>5 DEF InStep, WellKept, WellKeptWorld
  <2> QED
    BY <2>2, <2>3 DEF WellKept
<1> QED
  BY <1>1, <1>4, <1>5, <1>6 DEF InStep, InTurn, WellKept

LEMMA UnchangedInStep ==
    ASSUME InStep, UNCHANGED <<file, ideal, pc, req, presented, content>>
    PROVE  InStep'
  BY DEF InStep, OneInSection, WellKept, Quiet, Pending

LEMMA NextInStep ==
    ASSUME WellKeptWorld, Inv, InStep, [Next]_vars, [InTurn]_vars
    PROVE  InStep'
<1>1. CASE UNCHANGED vars
  BY <1>1, UnchangedInStep DEF vars
<1> SUFFICES ASSUME Next, InTurn PROVE InStep'
  BY <1>1
<1>2. ASSUME NEW c \in Calls, NEW h \in Hosts, NEW confirm \in BOOLEAN,
             NEW replace \in BOOLEAN, Invoke(c, h, confirm, replace)
      PROVE  InStep'
  <2>1. UNCHANGED <<file, ideal>> /\ pc[c] = "idle" /\ pc'[c] = "inspect"
    BY <1>2 DEF Invoke, history, Inv, TypeOK
  <2>2. Pending(c)'
    BY <2>1 DEF Pending
  <2> QED
    BY <1>2, <2>1, <2>2, CallKeepsFile DEF InTurn
<1>3. ASSUME NEW h \in Hosts, NEW k \in Keys, Rekey(h, k)
      PROVE  InStep'
  BY <1>3, UnchangedInStep DEF Rekey, serverVars, history
<1> QED
  BY <1>2, <1>3, StepInStep, CrashInStep, AppendInStep DEF Next, Environment

LEMMA InTurnInv == WellKeptWorld => (InTurnSpec => [](Inv /\ InStep))
<1> SUFFICES ASSUME WellKeptWorld PROVE InTurnSpec => [](Inv /\ InStep)
  OBVIOUS
<1>1. Init => Inv /\ InStep
  BY InitInv, InitInStep
<1>2. Inv /\ InStep /\ [Next /\ InTurn]_vars => (Inv /\ InStep)'
  BY NextInv, NextInStep
<1> QED
  BY <1>1, <1>2, PTL DEF InTurnSpec

-----------------------------------------------------------------------------
\* Calls that take turns forget no pair that they, the file at the start, or
\* another program's line made trusted.
THEOREM NothingForgottenInTurn == WellKeptWorld => (InTurnSpec => []NothingForgotten)
<1> SUFFICES ASSUME WellKeptWorld PROVE InTurnSpec => []NothingForgotten
  OBVIOUS
<1>1. InStep => NothingForgotten
  BY DEF InStep, NothingForgotten
<1> QED
  BY <1>1, InTurnInv, PTL

\* Nor do they leave a pair trusted that one of them replaced.
THEOREM ReplacedIsGoneInTurn == WellKeptWorld => (InTurnSpec => []ReplacedIsGone)
<1> SUFFICES ASSUME WellKeptWorld PROVE InTurnSpec => []ReplacedIsGone
  OBVIOUS
<1>1. InStep => ReplacedIsGone
  BY DEF InStep, ReplacedIsGone
<1> QED
  BY <1>1, InTurnInv, PTL

\* A revocation by pattern outlives them all.
THEOREM RevocationsKeptInTurn == WellKeptWorld => (InTurnSpec => []RevocationsKept)
<1> SUFFICES ASSUME WellKeptWorld PROVE InTurnSpec => []RevocationsKept
  OBVIOUS
<1>1. InStep => RevocationsKept
  BY DEF InStep, RevocationsKept
<1> QED
  BY <1>1, InTurnInv, PTL

\* A host that has a key gets another only where replace_existing asks for it,
\* although a call looks at the file twice.
THEOREM NoSecondKeyInTurn == WellKeptWorld => (InTurnSpec => []NoSecondKey)
<1> SUFFICES ASSUME WellKeptWorld PROVE InTurnSpec => []NoSecondKey
  OBVIOUS
<1>1. InStep => NoSecondKey
  BY DEF InStep, Pending, NoSecondKey
<1> QED
  BY <1>1, InTurnInv, PTL

-----------------------------------------------------------------------------
(***************************************************************************)
(* The refinement.                                                         *)
(***************************************************************************)
Held == TrustedPairs(IF Quiet THEN file ELSE ideal)

\* The store holds what the intended file trusts.
LEMMA HeldIsIdeal ==
    ASSUME InStep
    PROVE  Held = TrustedPairs(ideal)
  BY DEF InStep, Held

\* Outside the write nothing changes what the store holds, if nobody else
\* writes to the file.
LEMMA IdealSteps ==
    ASSUME ExternalLines = {}, [Next]_vars
    PROVE  \/ ideal' = ideal
           \/ \E c \in Calls : WriteFile(c)
<1>1. ~(\E l \in ExternalLines : ExternalAppend(l))
  OBVIOUS
<1> QED
  BY <1>1
     DEF Next, Step, Environment, Invoke, Refuse, InspectShows, InspectForTrust,
         InspectFails, StatusReturns, StatusProceeds, ReadKnownHosts, FileErrorReturns,
         TruncateFile, WriteFileFails, Crash, Rekey, history, vars

\* The write is one step of the store, for the host of the call alone.
LEMMA WriteImplements ==
    ASSUME Inv, InStep, InStep', Inv', NEW c \in Calls, WriteFile(c)
    PROVE  Store!Next
<1> DEFINE h == req[c].host
           k == presented[c]
           held == TrustedPairs(ideal)
           heldNext == TrustedPairs(ideal')
<1>1. /\ h \in Hosts /\ k \in Keys /\ req[c].replace \in BOOLEAN
      /\ ideal \in File /\ WellKept(ideal) /\ ~ideal.torn
      /\ k \notin Revoked(ideal) \cup Entries(ideal, h)
      /\ ~req[c].replace => Entries(ideal, h) = {}
      /\ ideal' = upsertKnownHost(ideal, h, k, req[c].replace)
  BY Written
<1>2. ideal' \in File
  BY DEF Inv, TypeOK
<1>3. heldNext = {p \in held : p[1] # h} \cup {<<h, k>>}
  BY <1>1, <1>2, UpsertTrusted
<1>4. held = {p \in Hosts \X Keys : p[2] \in Entries(ideal, p[1]) \ Revoked(ideal)}
  BY <1>1, TrustedOfWellKept
<1>5. <<h, k>> \notin held
  BY <1>1, <1>4
<1>6. Held = held /\ Held' = heldNext
  <2>1. Held = held
    BY HeldIsIdeal
  <2>2. Held' = heldNext
    BY DEF InStep, Held
  <2> QED
    BY <2>1, <2>2
<1>7. CASE req[c].replace
  <2>1. k \notin Store!KeysOf(h)
    BY <1>5, <1>6 DEF Store!KeysOf, Held
  <2>2. Store!Replace(h, k)
    BY <1>3, <1>6, <2>1 DEF Store!Replace, Held
  <2> QED
    BY <1>1, <2>2 DEF Store!Next
<1>8. CASE ~req[c].replace
  <2>1. \A x \in Keys : <<h, x>> \notin held
    BY <1>1, <1>4, <1>8
  <2>2. Store!KeysOf(h) = {}
    BY <1>6, <2>1 DEF Store!KeysOf, Held
  <2>3. \A p \in held : p[1] # h
    BY <1>4, <1>1, <1>8
  <2>4. heldNext = held \cup {<<h, k>>}
    BY <1>3, <2>3
  <2>5. Store!Add(h, k)
    BY <1>6, <2>2, <2>4 DEF Store!Add, Held
  <2> QED
    BY <1>1, <2>5 DEF Store!Next
<1> QED
  BY <1>1, <1>7, <1>8

\* Calls that take turns implement the atomic store, if no other program
\* writes to the file: truncated and half-done files, and calls that fail or
\* whose process ends before the truncation, are never observed as a state of
\* it.
THEOREM ImplementsTrustStoreInTurn ==
    WellKeptWorld /\ ExternalLines = {} => (InTurnSpec => ImplementsTrustStore)
<1> SUFFICES ASSUME WellKeptWorld, ExternalLines = {}
             PROVE  InTurnSpec => ImplementsTrustStore
  OBVIOUS
<1>1. Init => Store!Init
  BY DEF Store!Init, TrustedPairs
<1>2. Inv /\ InStep /\ Inv' /\ InStep' /\ [Next /\ InTurn]_vars => [Store!Next]_Held
  <2> SUFFICES ASSUME Inv, InStep, Inv', InStep', [Next]_vars, Held' # Held
               PROVE  Store!Next
    OBVIOUS
  <2>1. ideal' # ideal
    BY HeldIsIdeal DEF InStep, Held
  <2> QED
    BY <2>1, IdealSteps, WriteImplements
<1> QED
  BY <1>1, <1>2, InTurnInv, PTL DEF InTurnSpec, ImplementsTrustStore, Store!Spec, Held

-----------------------------------------------------------------------------
(***************************************************************************)
(* One call after the other is a way to take turns.                        *)
(***************************************************************************)
Serial ==
    /\ \E c : Calls = {c}
    /\ ExternalLines = {}
    /\ Disturbances \subseteq {"rekey", "dial", "open"}

LEMMA SerialStep ==
    ASSUME Serial, Inv, [Next]_vars
    PROVE  [InTurn]_vars
<1> SUFFICES ASSUME Next PROVE InTurn
  OBVIOUS
<1>1. PICK c : Calls = {c}
  BY DEF Serial
<1>2. OneInSection'
  BY <1>1 DEF OneInSection
<1>3. /\ ~(\E l \in ExternalLines : ExternalAppend(l))
      /\ ~(\E C \in SUBSET Calls : Crash(C))
      /\ ~WriteFileFails(c)
  BY DEF Serial, Crash, WriteFileFails
<1>4. CASE WriteFile(c)
  <2>1. pc[c] = "write" /\ pc'[c] = "idle" /\ outcome'[c] \in {"added", "replaced"}
    BY <1>1, <1>4 DEF WriteFile, Return
  <2> QED
    BY <1>1, <1>2, <2>1 DEF InTurn
<1>5. CASE TruncateFile(c)
  <2>1. pc[c] = "open" /\ pc'[c] = "write"
    BY <1>1, <1>5 DEF TruncateFile, Inv, TypeOK
  <2> QED
    BY <1>1, <1>2, <2>1 DEF InTurn
<1>6. CASE ~WriteFile(c) /\ ~TruncateFile(c)
  <2>1. Step(c) => file' = file /\ pc[c] # "write"
    BY <1>3, <1>6
       DEF Step, Refuse, InspectShows, InspectForTrust, InspectFails, StatusReturns,
           StatusProceeds, ReadKnownHosts, FileErrorReturns
  <2>2. Environment => file' = file /\ pc' = pc
    BY <1>3 DEF Environment, Rekey, serverVars
  <2>3. (\E h \in Hosts, confirm, replace \in BOOLEAN : Invoke(c, h, confirm, replace))
            => file' = file /\ pc[c] # "write"
    BY DEF Invoke
  <2>4. file' = file /\ (pc[c] # "write" \/ pc' = pc)
    BY <1>1, <2>1, <2>2, <2>3 DEF Next
  <2> QED
    BY <1>1, <1>2, <2>4 DEF InTurn
<1> QED
  BY <1>4, <1>5, <1>6

\* A user who makes one call after the other, on a machine that neither stops
\* nor runs out of disk in mid-write, takes turns.
THEOREM SerialInTurn == Serial => (Spec => InTurnSpec)
<1> SUFFICES ASSUME Serial PROVE Spec => InTurnSpec
  OBVIOUS
<1>1. Inv /\ [Next]_vars => [Next /\ InTurn]_vars
  BY SerialStep
<1> QED
  BY <1>1, InitInv, NextInv, PTL DEF Spec, InTurnSpec

-----------------------------------------------------------------------------
(***************************************************************************)
(* The key a call writes was displayed, if devices keep theirs: that the   *)
(* confirmed call probes anew is all that key_swapped turns on.            *)
(***************************************************************************)
Displayed ==
    /\ \A p \in shown : p[2] = device[p[1]]
    /\ \A c \in Calls :
           /\ pc[c] # "idle" /\ req[c].confirm => \E p \in shown : p[1] = req[c].host
           /\ pc[c] \in KeyHeld => req[c].confirm /\ presented[c] = device[req[c].host]

\* A step of the calls displays no other key than the device has.
LEMMA StepShows ==
    ASSUME Inv, Displayed, NEW c \in Calls, Step(c)
    PROVE  /\ device' = device /\ shown \subseteq shown'
           /\ \A p \in shown' : p[2] = device[p[1]]
<1>1. CASE InspectShows(c)
  BY <1>1 DEF InspectShows, Displayed
<1>2. CASE StatusReturns(c)
  <2>1. presented[c] = device[req[c].host]
    BY <1>2 DEF StatusReturns, KeyHeld, Displayed
  <2> QED
    BY <1>2, <2>1 DEF StatusReturns, Displayed
<1>3. CASE WriteFile(c)
  <2>1. presented[c] = device[req[c].host]
    BY <1>3 DEF WriteFile, KeyHeld, Displayed
  <2> QED
    BY <1>3, <2>1 DEF WriteFile, Displayed
<1>4. CASE ~(InspectShows(c) \/ StatusReturns(c) \/ WriteFile(c))
  <2>1. UNCHANGED <<device, shown>>
    BY <1>4 DEF Step, Refuse, InspectForTrust, InspectFails, StatusProceeds,
                ReadKnownHosts, FileErrorReturns, TruncateFile, WriteFileFails, history
  <2> QED
    BY <2>1 DEF Displayed
<1> QED
  BY <1>1, <1>2, <1>3, <1>4

\* The call itself ends, or holds the key its device has.
LEMMA StepHolds ==
    ASSUME Inv, Displayed, NEW c \in Calls, Step(c)
    PROVE  \/ pc'[c] = "idle"
           \/ /\ req'[c] = req[c] /\ req[c].confirm /\ pc[c] # "idle"
              /\ presented'[c] = device[req[c].host]
<1>1. CASE InspectForTrust(c)
  BY <1>1 DEF InspectForTrust, Inv, TypeOK
<1>2. CASE StatusProceeds(c) \/ ReadKnownHosts(c) \/ TruncateFile(c)
  BY <1>2 DEF StatusProceeds, ReadKnownHosts, TruncateFile, KeyHeld, Displayed
<1>3. CASE ~(InspectForTrust(c) \/ StatusProceeds(c) \/ ReadKnownHosts(c) \/ TruncateFile(c))
  <2>1. \E reply : Return({c}, reply)
    BY <1>3 DEF Step, Refuse, InspectShows, InspectFails, StatusReturns, FileErrorReturns,
                WriteFile, WriteFileFails
  <2> QED
    BY <2>1 DEF Return
<1> QED
  BY <1>1, <1>2, <1>3

LEMMA StepDisplayed ==
    ASSUME Inv, Displayed, NEW c \in Calls, Step(c)
    PROVE  Displayed'
<1>1. /\ device' = device /\ shown \subseteq shown'
      /\ \A p \in shown' : p[2] = device[p[1]]
  BY StepShows
<1>2. ASSUME NEW d \in Calls
      PROVE  /\ pc'[d] # "idle" /\ req'[d].confirm => \E p \in shown' : p[1] = req'[d].host
             /\ pc'[d] \in KeyHeld =>
                    req'[d].confirm /\ presented'[d] = device'[req'[d].host]
  <2>1. CASE d = c
    BY <1>1, <2>1, StepHolds DEF KeyHeld, Displayed
  <2>2. CASE d # c
    <3>1. pc'[d] = pc[d] /\ req'[d] = req[d] /\ presented'[d] = presented[d]
      BY <2>2, OthersKept
    <3> QED
      BY <1>1, <3>1 DEF Displayed
  <2> QED
    BY <2>1, <2>2
<1> QED
  BY <1>1, <1>2 DEF Displayed

\* A confirmed call starts for a host whose fingerprint was displayed.
LEMMA InvokeDisplayed ==
    ASSUME Inv, Displayed, NEW c \in Calls, NEW h \in Hosts, NEW confirm \in BOOLEAN,
           NEW replace \in BOOLEAN, Invoke(c, h, confirm, replace), TwoSteps(c)
    PROVE  Displayed'
<1>1. UNCHANGED <<device, shown, presented>> /\ pc[c] = "idle" /\ pc'[c] = "inspect"
  BY DEF Invoke, history, Inv, TypeOK
<1>2. req'[c].confirm => \E p \in shown : p[1] = req'[c].host
  BY <1>1 DEF TwoSteps
<1>3. \A d \in Calls \ {c} : pc'[d] = pc[d] /\ req'[d] = req[d]
  BY OthersKept
<1> QED
  BY <1>1, <1>2, <1>3 DEF Displayed, KeyHeld

LEMMA CrashDisplayed ==
    ASSUME Displayed, NEW C \in SUBSET Calls, Crash(C)
    PROVE  Displayed'
<1>1. UNCHANGED <<device, shown>>
  BY DEF Crash, history
<1>2. \A c \in Calls : \/ pc'[c] = "idle"
                       \/ pc'[c] = pc[c] /\ req'[c] = req[c] /\ presented'[c] = presented[c]
  BY DEF Crash, Return
<1> QED
  BY <1>1, <1>2 DEF Displayed, KeyHeld

LEMMA NextDisplayed ==
    ASSUME "rekey" \notin Disturbances, Inv, Displayed,
           [Next /\ \A c \in Calls : TwoSteps(c)]_vars
    PROVE  Displayed'
<1>1. CASE UNCHANGED vars
  BY <1>1 DEF vars, Displayed
<1>2. ASSUME NEW l \in ExternalLines, ExternalAppend(l) PROVE Displayed'
  BY <1>2 DEF ExternalAppend, serverVars, Displayed
<1>3. \A h \in Hosts, k \in Keys : ~Rekey(h, k)
  BY DEF Rekey
<1> QED
  BY <1>1, <1>2, <1>3, StepDisplayed, InvokeDisplayed, CrashDisplayed DEF Next, Environment

\* A user who looks at a fingerprint of the host before confirming gets no key
\* written that was not displayed, as README has it, however many calls and
\* processes there are, as long as no device changes its key.
THEOREM WrittenWasShownIfKeysKept ==
    "rekey" \notin Disturbances => (TwoStepSpec => []WrittenWasShown)
<1> SUFFICES ASSUME "rekey" \notin Disturbances PROVE TwoStepSpec => []WrittenWasShown
  OBVIOUS
<1>1. Init => Inv /\ Displayed
  BY InitInv DEF Init, Displayed, KeyHeld
<1>2. Inv /\ Displayed /\ [Next /\ \A c \in Calls : TwoSteps(c)]_vars => (Inv /\ Displayed)'
  BY NextInv, NextDisplayed
<1>3. Inv /\ Displayed => WrittenWasShown
  <2> SUFFICES ASSUME Inv, Displayed, NEW c \in Calls, pc[c] = "write"
               PROVE  <<req[c].host, presented[c]>> \in shown
    BY DEF WrittenWasShown
  <2>1. presented[c] = device[req[c].host] /\ req[c].confirm
    BY DEF Displayed, KeyHeld
  <2>2. PICK p \in shown : p[1] = req[c].host
    BY <2>1 DEF Displayed
  <2>3. p = <<p[1], p[2]>> /\ p[2] = device[p[1]]
    BY DEF Displayed, Inv, TypeOK, Pairs
  <2> QED
    BY <2>1, <2>2, <2>3
<1> QED
  BY <1>1, <1>2, <1>3, PTL DEF TwoStepSpec
=============================================================================
