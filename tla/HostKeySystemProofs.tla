-------------------------- MODULE HostKeySystemProofs -------------------------
(***************************************************************************)
(* SentOnlyWhereVouched for the composition: whatever trust_host_key calls *)
(* and device commands do at the same time, credentials go only where a    *)
(* line of known provenance sends them.  From the side of trust_host_key   *)
(* the proof takes Provenance: every line of the file is vouched for.  A   *)
(* run carries that from the file to its snapshot, to the key it accepts,  *)
(* and to the pairs it sends to; and what vouches once vouches for ever.   *)
(*                                                                         *)
(* Then ReplacedKeyNotUsed, where the calls take turns.                    *)
(***************************************************************************)
EXTENDS HostKeySystem, TrustHostKeyProofs

RP == INSTANCE RunSessionProofs WITH EnvFiles <- BaseFiles

\* The two instances of RunSession are the same actions.
LEMMA SameRunStep ==
    ASSUME NEW r \in Runs, Run!RunStep(r)
    PROVE  RP!RunStep(r)
<1>1. /\ Run!HostKeyCallback(r, device[runHost[r]])
             <=> RP!HostKeyCallback(r, device[runHost[r]])
      /\ Run!Available = RP!Available
      /\ Run!Loadable(file) <=> RP!Loadable(file)
      /\ Run!EndRun(r) <=> RP!EndRun(r)
      /\ Run!NoFile = RP!NoFile
  BY DEF Run!HostKeyCallback, RP!HostKeyCallback, Run!hostKeyStatus,
         RP!hostKeyStatus, Run!Entries, RP!Entries, Run!Revoked, RP!Revoked,
         Run!Available, RP!Available, Run!AgentFree, RP!AgentFree,
         Run!Loadable, RP!Loadable, Run!EndRun,
         RP!EndRun, Run!NoFile, RP!NoFile
<1> QED
  BY <1>1
     DEF Run!RunStep, RP!RunStep, Run!RunProgress, RP!RunProgress, Run!BeginRun, RP!BeginRun, Run!NoAuthMethod, RP!NoAuthMethod,
         Run!BuildAuthMethods, RP!BuildAuthMethods, Run!BuildHostKeyCallback,
         RP!BuildHostKeyCallback, Run!NoHostKeyCallback, RP!NoHostKeyCallback,
         Run!HandshakeAccepts, RP!HandshakeAccepts, Run!HandshakeRefuses,
         RP!HandshakeRefuses, Run!OfferMethod, RP!OfferMethod, Run!OpenSession,
         RP!OpenSession, Run!Exec, RP!Exec, Run!RunFails, RP!RunFails

VouchedPair(p) == \E l \in Vouched : VouchesFor(l, p)

\* What the runs carry on from the file.
RunsVouched ==
    /\ \A r \in Runs : snapshot[r].lines \subseteq Vouched
    /\ ~options.insecureSkip =>
           \A r \in Runs : accepted[r] # None => VouchedPair(<<runHost[r], accepted[r]>>)
    /\ SentOnlyWhereVouched

SysInv == Inv /\ Provenance /\ RP!RunTyped /\ RunsVouched

-----------------------------------------------------------------------------
LEMMA SysInitInv == SysInit => SysInv
<1> SUFFICES ASSUME SysInit PROVE SysInv
  OBVIOUS
<1>1. Inv /\ Provenance
  BY InitInv, InitProvenance DEF SysInit
<1>2. RP!RunTyped
  BY DEF SysInit, Run!RunInit, RP!RunTyped, RP!InRun, RP!Stages, RP!Connected,
         Run!NoFile, RP!File, RP!Line, RP!Pairs
<1>3. RunsVouched
  BY DEF SysInit, Run!RunInit, RunsVouched, SentOnlyWhereVouched, Run!NoFile
<1> QED
  BY <1>1, <1>2, <1>3 DEF SysInv

LEMMA SharedTypes ==
    ASSUME TypeOK
    PROVE  RP!SharedTyped
  BY DEF TypeOK, RP!SharedTyped, Configured, Options, RP!Configured,
         File, RP!File, Line, RP!Line

\* A step of trust_host_key leaves the runs alone, and what vouched for them
\* goes on vouching.
LEMMA TrustStepInv ==
    ASSUME SysInv, TrustStep
    PROVE  SysInv'
<1>1. UNCHANGED runVars
  BY DEF TrustStep
<1>2. Inv' /\ Provenance'
  BY NextInv, NextProvenance DEF SysInv, TrustStep
<1>3. RP!RunTyped'
  BY <1>1 DEF SysInv, runVars, RP!RunTyped, RP!InRun
<1>4. options' = options /\ confirmed \subseteq confirmed'
  BY DEF TrustStep, Next, Step, Environment, Invoke, Refuse, InspectShows,
         InspectForTrust, InspectFails, StatusReturns, StatusProceeds,
         ReadKnownHosts, FileErrorReturns, TruncateFile, WriteFile,
         WriteFileFails, Crash, Rekey, ExternalAppend, history
<1>5. Vouched \subseteq Vouched'
  BY <1>4, VouchedGrows
<1>6. RunsVouched'
  <2>1. \A p : (\E l \in Vouched : VouchesFor(l, p))
                  => (\E l \in Vouched' : VouchesFor(l, p))
    BY <1>5
  <2> QED
    BY <1>1, <1>4, <1>5, <2>1
       DEF SysInv, RunsVouched, VouchedPair, SentOnlyWhereVouched, runVars
<1> QED
  BY <1>2, <1>3, <1>6 DEF SysInv

\* The key a handshake accepts stands on a line of the snapshot.
LEMMA AcceptedVouched ==
    ASSUME SysInv, NEW r \in Runs, RP!HandshakeAccepts(r), ~options.insecureSkip
    PROVE  VouchedPair(<<runHost[r], device[runHost[r]]>>)
<1> DEFINE h == runHost[r]
           k == device[h]
<1>1. hostKeyStatus(snapshot[r], h, k) = "trusted"
  BY DEF RP!HandshakeAccepts, RP!HostKeyCallback, RP!hostKeyStatus, RP!Entries,
         RP!Revoked, hostKeyStatus, Entries, Revoked
<1>2. PICK l \in snapshot[r].lines : l.marker = "none" /\ h \in l.covers /\ l.key = k
  BY <1>1, TrustedHasLine
<1>3. l \in Vouched
  BY <1>2 DEF SysInv, RunsVouched
<1> QED
  BY <1>2, <1>3 DEF VouchedPair, VouchesFor

LEMMA RunStepInv ==
    ASSUME SysInv, NEW r \in Runs, Run!RunStep(r), UNCHANGED <<serverVars, history>>
    PROVE  SysInv'
<1>1. RP!RunStep(r)
  BY SameRunStep
<1>2. UNCHANGED <<options, file, device, serverVars, history>> /\ RP!RunTyped'
  <2>1. RP!SharedTyped /\ RP!RunTyped
    BY SharedTypes DEF SysInv, Inv
  <2>2. BaseFiles \subseteq RP!File
    BY BaseFilesAssumption DEF File, RP!File, Line, RP!Line
  <2>3. UNCHANGED <<options, file, device>> /\ RP!RunTyped'
    BY <1>1, <2>1, <2>2, NoneAssumption, SysRunsAssumption,
       SysMethodsAssumption, RP!RunStepTyped
  <2> QED
    BY <2>3
<1>3. Inv' /\ Provenance' /\ Vouched' = Vouched
  BY <1>2 DEF SysInv, Inv, TypeOK, InFlight, Provenance, Vouched, BaseLines,
              serverVars, history
<1>4. \A q \in Runs : snapshot'[q].lines \subseteq Vouched
  <2>1. \A q \in Runs : snapshot'[q] = snapshot[q] \/ snapshot'[q] \in {RP!NoFile, file}
    BY <1>1 DEF SysInv, RP!RunTyped, RP!RunStep, RP!RunProgress, RP!BeginRun, RP!NoAuthMethod,
                RP!BuildAuthMethods, RP!BuildHostKeyCallback,
                RP!NoHostKeyCallback, RP!HandshakeAccepts, RP!HandshakeRefuses,
                RP!OfferMethod, RP!OpenSession, RP!Exec, RP!RunFails, RP!EndRun
  <2>2. RP!NoFile.lines \subseteq Vouched
    BY DEF RP!NoFile
  <2>3. file.lines \subseteq Vouched
    BY DEF SysInv, Provenance
  <2> QED
    BY <2>1, <2>2, <2>3 DEF SysInv, RunsVouched
<1>5. ASSUME ~options.insecureSkip, NEW q \in Runs, accepted'[q] # None
      PROVE  VouchedPair(<<runHost'[q], accepted'[q]>>)
  <2>1. CASE accepted'[q] = accepted[q] /\ runHost'[q] = runHost[q]
    BY <1>5, <2>1 DEF SysInv, RunsVouched
  <2>2. CASE q = r /\ RP!HandshakeAccepts(r)
    <3>1. accepted'[r] = device[runHost[r]] /\ runHost'[r] = runHost[r]
      BY <2>2 DEF RP!HandshakeAccepts, SysInv, RP!RunTyped
    <3> QED
      BY <1>5, <2>2, <3>1, AcceptedVouched
  <2>3. CASE q = r /\ \E h \in Hosts : RP!BeginRun(r, h)
    BY <1>5, <2>3 DEF RP!BeginRun, SysInv, RP!RunTyped, RP!InRun, RP!Connected
  <2>4. CASE q = r /\ RP!EndRun(r)
    BY <1>5, <2>4 DEF RP!EndRun, SysInv, RP!RunTyped
  <2> QED
    BY <1>1, <2>1, <2>2, <2>3, <2>4
       DEF SysInv, RP!RunTyped, RP!RunStep, RP!RunProgress, RP!BeginRun, RP!NoAuthMethod,
           RP!BuildAuthMethods, RP!BuildHostKeyCallback, RP!NoHostKeyCallback,
           RP!HandshakeAccepts, RP!HandshakeRefuses, RP!OfferMethod,
           RP!OpenSession, RP!Exec, RP!RunFails, RP!EndRun
<1>6. ASSUME ~options.insecureSkip, NEW p \in sent'
      PROVE  VouchedPair(p)
  <2>1. CASE p \in sent
    BY <1>6, <2>1 DEF SysInv, RunsVouched, SentOnlyWhereVouched, VouchedPair
  <2>2. CASE p \notin sent
    <3>1. p = <<runHost[r], accepted[r]>> /\ runPc[r] \in RP!Connected
      BY <1>1, <1>6, <2>2
         DEF RP!Connected, RP!RunStep, RP!RunProgress, RP!BeginRun, RP!NoAuthMethod,
             RP!BuildAuthMethods, RP!BuildHostKeyCallback, RP!NoHostKeyCallback,
             RP!HandshakeAccepts, RP!HandshakeRefuses, RP!OfferMethod,
             RP!OpenSession, RP!Exec, RP!RunFails
    <3>2. accepted[r] # None
      BY <3>1, NoneAssumption DEF SysInv, RP!RunTyped, RP!InRun
    <3> QED
      BY <1>6, <3>1, <3>2 DEF SysInv, RunsVouched
  <2> QED
    BY <2>1, <2>2
<1>7. RunsVouched'
  BY <1>2, <1>3, <1>4, <1>5, <1>6
     DEF RunsVouched, SentOnlyWhereVouched, VouchedPair
<1> QED
  BY <1>2, <1>3, <1>7 DEF SysInv

\* The collection of a leaked connection changes nothing the invariant reads.
LEMMA CollectInv ==
    ASSUME SysInv, Run!Collect, UNCHANGED <<serverVars, history>>
    PROVE  SysInv'
<1>1. UNCHANGED <<options, file, device, runPc, runHost, snapshot, accepted, methods, sent>>
  BY DEF Run!Collect
<1>2. agentConn' \in [AgentConns -> Runs \cup {"free", "leaked"}]
  BY DEF Run!Collect, Run!Collectable, SysInv, RP!RunTyped
<1>3. RP!RunTyped'
  BY <1>1, <1>2 DEF SysInv, RP!RunTyped, RP!InRun
<1>4. Inv' /\ Provenance' /\ Vouched' = Vouched
  BY <1>1 DEF SysInv, Inv, TypeOK, InFlight, Provenance, Vouched, BaseLines,
              serverVars, history
<1>5. RunsVouched'
  BY <1>1, <1>4 DEF SysInv, RunsVouched, VouchedPair, SentOnlyWhereVouched
<1> QED
  BY <1>3, <1>4, <1>5 DEF SysInv

\* With the check on, credentials and commands go only to a host and key that
\* a line of the initial file, of another program or of a confirmed call
\* vouches for, however many calls, runs, crashes and failed writes there are.
THEOREM CredentialsVouched == SysSpec => []SentOnlyWhereVouched
<1>1. SysInv /\ [SysNext]_sysVars => SysInv'
  <2> SUFFICES ASSUME SysInv, [SysNext]_sysVars PROVE SysInv'
    OBVIOUS
  <2>1. CASE UNCHANGED sysVars
    <3>1. [Next]_vars /\ UNCHANGED runVars /\ options' = options /\ Vouched' = Vouched
      BY <2>1 DEF sysVars, vars, runVars, Vouched, BaseLines
    <3>2. Inv' /\ Provenance'
      BY <3>1, NextInv, NextProvenance DEF SysInv
    <3>3. RP!RunTyped'
      BY <3>1 DEF SysInv, runVars, RP!RunTyped, RP!InRun
    <3>4. RunsVouched'
      BY <3>1 DEF SysInv, RunsVouched, VouchedPair, SentOnlyWhereVouched, runVars
    <3> QED
      BY <3>2, <3>3, <3>4 DEF SysInv
  <2> QED
    BY <2>1, TrustStepInv, RunStepInv, CollectInv DEF SysNext, RunStep
<1>2. SysInv => SentOnlyWhereVouched
  BY DEF SysInv, RunsVouched
<1> QED
  BY <1>1, <1>2, SysInitInv, PTL DEF SysSpec

-----------------------------------------------------------------------------
(***************************************************************************)
(* Device commands beside calls that take turns.                           *)
(***************************************************************************)
LEMMA SameTrustedPairs ==
    ASSUME NEW f
    PROVE  RP!TrustedPairs(f) = TrustedPairs(f)
  BY DEF RP!TrustedPairs, TrustedPairs, RP!hostKeyStatus, hostKeyStatus,
         RP!Entries, Entries, RP!Revoked, Revoked

\* A truncated file trusts nothing; any other is the intended one.
LEMMA FileTrustsHeld ==
    ASSUME InStep
    PROVE  TrustedPairs(file) \subseteq TrustedPairs(ideal)
<1>1. TrustedPairs(EmptyFile) = {}
  BY DEF TrustedPairs, hostKeyStatus, EmptyFile, Entries, Revoked
<1> QED
  BY <1>1 DEF InStep

RunsInv ==
    /\ RP!RunTyped
    /\ seen \in [Runs -> SUBSET Pairs]
    /\ RP!Verified

InTurnSysInv == Inv /\ InStep /\ RunsInv

LEMMA InTurnSysInit ==
    ASSUME WellKeptWorld, SysInit
    PROVE  InTurnSysInv
<1>1. Inv /\ InStep /\ RP!RunTyped
  BY InitInv, InitInStep, SysInitInv DEF SysInit, SysInv
<1>2. seen \in [Runs -> SUBSET Pairs] /\ RP!Verified
  BY DEF SysInit, Run!RunInit, RP!Verified, RP!SnapshotSeen, RP!VerifiedDuringRun
<1> QED
  BY <1>1, <1>2 DEF InTurnSysInv, RunsInv

LEMMA RunAssumptions ==
    /\ BaseFiles \subseteq RP!File
    /\ None \notin Hosts \cup Keys
    /\ Runs \cap {"free", "leaked"} = {}
    /\ Methods \subseteq {"publickey", "password"}
  BY BaseFilesAssumption, NoneAssumption, SysRunsAssumption, SysMethodsAssumption
     DEF File, RP!File, Line, RP!Line

LEMMA RunsInvTyped ==
    ASSUME Inv, RunsInv
    PROVE  RP!Inv
  BY SharedTypes DEF Inv, RunsInv, RP!Inv, Pairs, RP!Pairs

\* seen loses nothing while a run goes on, and takes in what the store holds.
LEMMA SeenGrows ==
    ASSUME RunsInv, SysNext
    PROVE  /\ seen' \in [Runs -> SUBSET Pairs]
           /\ \A q \in Runs : runPc[q] # "idle" /\ runPc'[q] # "idle" =>
                  seen[q] \cup TrustedPairs(ideal') \subseteq seen'[q]
<1>1. TrustedPairs(ideal) \subseteq Pairs /\ TrustedPairs(ideal') \subseteq Pairs
  BY DEF TrustedPairs, Pairs
<1>2. seen' = Run!Observed(TrustedPairs(ideal), TrustedPairs(ideal'))
  BY DEF SysNext
<1> QED
  BY <1>1, <1>2 DEF RunsInv, Run!Observed

\* A step that leaves what the runs hold alone leaves them verified.
LEMMA BystanderVerified ==
    ASSUME Inv, RunsInv, UNCHANGED <<options, runPc, runHost, snapshot, accepted>>,
           \A q \in Runs : runPc[q] # "idle" => seen[q] \subseteq seen'[q]
    PROVE  RP!Verified'
<1> SUFFICES ASSUME ~options.insecureSkip, NEW q \in Runs
             PROVE  /\ runPc'[q] = "dial" => RP!TrustedPairs(snapshot'[q]) \subseteq seen'[q]
                    /\ accepted'[q] # None => <<runHost'[q], accepted'[q]>> \in seen'[q]
  BY DEF RP!Verified, RP!SnapshotSeen, RP!VerifiedDuringRun
<1>1. RP!Inv /\ RP!Verified
  BY RunsInvTyped DEF RunsInv
<1> QED
  BY <1>1, RunAssumptions, RP!KeepsVerified

LEMMA TrustStepInTurn ==
    ASSUME WellKeptWorld, InTurnSysInv, SysNext, TrustStep, [InTurn]_vars
    PROVE  InTurnSysInv'
<1>1. Inv' /\ InStep'
  BY NextInv, NextInStep DEF InTurnSysInv, TrustStep
<1>2. UNCHANGED runVars /\ options' = options
  BY DEF TrustStep, Next, Step, Environment, Invoke, Refuse, InspectShows,
         InspectForTrust, InspectFails, StatusReturns, StatusProceeds,
         ReadKnownHosts, FileErrorReturns, TruncateFile, WriteFile,
         WriteFileFails, Crash, Rekey, ExternalAppend
<1>3. RP!RunTyped'
  BY <1>2 DEF InTurnSysInv, RunsInv, runVars, RP!RunTyped, RP!InRun
<1>4. RP!Verified'
  BY <1>2, SeenGrows, BystanderVerified DEF InTurnSysInv, runVars
<1> QED
  BY <1>1, <1>3, <1>4, SeenGrows DEF InTurnSysInv, RunsInv

LEMMA CollectInTurn ==
    ASSUME InTurnSysInv, SysNext, Run!Collect, UNCHANGED <<serverVars, history>>
    PROVE  InTurnSysInv'
<1>1. UNCHANGED <<options, file, device, runPc, runHost, snapshot, accepted, methods, sent>>
  BY DEF Run!Collect
<1>2. Inv' /\ InStep'
  BY <1>1, UnchangedInStep
     DEF InTurnSysInv, Inv, TypeOK, InFlight, serverVars, history
<1>3. agentConn' \in [AgentConns -> Runs \cup {"free", "leaked"}]
  BY DEF Run!Collect, Run!Collectable, InTurnSysInv, RunsInv, RP!RunTyped
<1>4. RP!RunTyped'
  BY <1>1, <1>3 DEF InTurnSysInv, RunsInv, RP!RunTyped, RP!InRun
<1>5. RP!Verified'
  BY <1>1, SeenGrows, BystanderVerified DEF InTurnSysInv
<1> QED
  BY <1>2, <1>4, <1>5, SeenGrows DEF InTurnSysInv, RunsInv

\* The snapshot that a run takes trusts no more than the store holds.
LEMMA RunStepInTurn ==
    ASSUME InTurnSysInv, SysNext, NEW r \in Runs, Run!RunStep(r),
           UNCHANGED <<serverVars, history>>
    PROVE  InTurnSysInv'
<1>1. RP!RunStep(r) /\ RP!Inv /\ RP!Verified
  BY SameRunStep, RunsInvTyped DEF InTurnSysInv, RunsInv
<1>2. UNCHANGED <<options, file, device>> /\ RP!RunTyped'
  BY <1>1, RunAssumptions, RP!RunStepTyped DEF RP!Inv
<1>3. Inv' /\ InStep'
  BY <1>2, UnchangedInStep
     DEF InTurnSysInv, Inv, TypeOK, InFlight, serverVars, history
<1>4. RP!TrustedPairs(file) \subseteq TrustedPairs(ideal')
  <2>1. ideal' = ideal
    BY DEF history
  <2> QED
    BY <2>1, SameTrustedPairs, FileTrustsHeld DEF InTurnSysInv
<1>5. \A q \in Runs : runPc[q] # "idle" /\ runPc'[q] # "idle" =>
          seen[q] \cup RP!TrustedPairs(file) \subseteq seen'[q]
  BY <1>4, SeenGrows DEF InTurnSysInv
<1>6. RP!Verified'
  BY <1>1, <1>5, RunAssumptions, RP!RunStepVerified
<1> QED
  BY <1>2, <1>3, <1>6, SeenGrows DEF InTurnSysInv, RunsInv

\* Beside calls that take turns, any number of commands, which wait for
\* nobody, accept only a key that what the finished calls left trusted at some
\* moment since the command began: one that starts after a replacement never
\* accepts the old key, even if it loads the file in mid-write.
THEOREM ReplacedKeyNotUsedInTurn == WellKeptWorld => (SysInTurnSpec => []ReplacedKeyNotUsed)
<1> SUFFICES ASSUME WellKeptWorld PROVE SysInTurnSpec => []ReplacedKeyNotUsed
  OBVIOUS
<1>1. InTurnSysInv /\ [SysNext /\ [InTurn]_vars]_sysVars => InTurnSysInv'
  <2> SUFFICES ASSUME InTurnSysInv, [SysNext /\ [InTurn]_vars]_sysVars PROVE InTurnSysInv'
    OBVIOUS
  <2>1. CASE UNCHANGED sysVars
    <3>1. UNCHANGED <<options, file, device, serverVars, history, runVars, seen>>
      BY <2>1 DEF sysVars, vars, serverVars, history
    <3>2. Inv' /\ InStep'
      BY <3>1, UnchangedInStep
         DEF InTurnSysInv, Inv, TypeOK, InFlight, serverVars, history
    <3>3. RP!RunTyped' /\ seen' \in [Runs -> SUBSET Pairs]
      BY <3>1 DEF InTurnSysInv, RunsInv, runVars, RP!RunTyped, RP!InRun
    <3>4. RP!Verified'
      BY <3>1, BystanderVerified DEF InTurnSysInv, runVars
    <3> QED
      BY <3>2, <3>3, <3>4 DEF InTurnSysInv, RunsInv
  <2> QED
    BY <2>1, TrustStepInTurn, RunStepInTurn, CollectInTurn DEF SysNext, RunStep
<1>2. InTurnSysInv => ReplacedKeyNotUsed
  BY DEF InTurnSysInv, RunsInv, RP!Verified, RP!VerifiedDuringRun, ReplacedKeyNotUsed,
         Run!VerifiedDuringRun
<1> QED
  BY <1>1, <1>2, InTurnSysInit, PTL DEF SysInTurnSpec
=============================================================================
