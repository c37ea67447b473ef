--------------------------- MODULE RunSessionProofs ---------------------------
(***************************************************************************)
(* Type correctness and VerifiedDuringRun, for any hosts, keys, numbers of *)
(* runs, and any way the file and the devices change meanwhile.            *)
(*                                                                         *)
(* The argument: the snapshot is a state of the file during the run, hence *)
(* what it trusts is in seen; seen only grows until the run ends; and a    *)
(* key is accepted only by a lookup in the snapshot.                       *)
(***************************************************************************)
EXTENDS RunSession, KnownHostsProofs

Connected == {"authenticate", "session", "exec"}
Stages == {"idle", "methods", "callback", "dial"} \cup Connected

\* What a run holds at each stage.
InRun ==
    \A r \in Runs :
        /\ runPc[r] # "idle" => runHost[r] \in Hosts
        /\ runPc[r] \in Connected => accepted[r] \in Keys
        /\ runPc[r] \notin Connected => accepted[r] = None

RunTyped ==
    /\ runPc \in [Runs -> Stages]
    /\ runHost \in [Runs -> Hosts \cup {None}]
    /\ snapshot \in [Runs -> File]
    /\ accepted \in [Runs -> Keys \cup {None}]
    /\ methods \in [Runs -> SUBSET Methods]
    /\ agentConn \in [AgentConns -> Runs \cup {"free", "leaked"}]
    /\ sent \subseteq Pairs
    /\ InRun

SharedTyped ==
    /\ options \in Configured
    /\ file \in File
    /\ device \in [Hosts -> Keys]

Inv == SharedTyped /\ RunTyped /\ seen \in [Runs -> SUBSET Pairs]

\* The strengthening of VerifiedDuringRun by what is known before the dial.
SnapshotSeen ==
    ~options.insecureSkip =>
        \A r \in Runs : runPc[r] = "dial" => TrustedPairs(snapshot[r]) \subseteq seen[r]

-----------------------------------------------------------------------------
LEMMA TrustedPairsType ==
    ASSUME NEW f
    PROVE  TrustedPairs(f) \subseteq Pairs
  BY DEF TrustedPairs, Pairs

LEMMA InvTypeOK == Inv => TypeOK
  BY MethodsAssumption
     DEF Inv, SharedTyped, RunTyped, TypeOK, RunTypeOK, Stages, Connected

LEMMA InitInv == Init => Inv /\ SnapshotSeen /\ VerifiedDuringRun
  BY EnvFilesAssumption, NoFileType
     DEF Init, RunInit, Inv, SharedTyped, RunTyped, InRun, Stages, Connected,
         SnapshotSeen, VerifiedDuringRun, Pairs

\* The end of a run clears all it held.
LEMMA EndRunTyped ==
    ASSUME RunTyped, NEW r \in Runs, EndRun(r), sent' \subseteq Pairs
    PROVE  RunTyped'
<1>1. InRun'
  BY DEF EndRun, InRun, RunTyped, Connected
<1> QED
  BY <1>1, NoFileType DEF EndRun, RunTyped, Stages, Connected

\* The pair a connected run has accepted.
LEMMA AcceptedPair ==
    ASSUME RunTyped, NEW r \in Runs, runPc[r] \in Connected
    PROVE  sent \cup {<<runHost[r], accepted[r]>>} \subseteq Pairs
  BY DEF RunTyped, InRun, Connected, Pairs

LEMMA RunStepTyped ==
    ASSUME SharedTyped, RunTyped, NEW r \in Runs, RunStep(r)
    PROVE  UNCHANGED <<options, file, device>> /\ RunTyped'
<1> USE DEF Stages, Connected
<1>1. sent \subseteq Pairs
  BY DEF RunTyped
<1>2. CASE \E h \in Hosts : BeginRun(r, h)
  <2>1. InRun'
    BY <1>2 DEF BeginRun, RunTyped, InRun
  <2> QED
    BY <1>2, <2>1 DEF BeginRun, RunTyped
<1>3. CASE NoAuthMethod(r) \/ NoHostKeyCallback(r) \/ HandshakeRefuses(r) \/ RunFails(r)
  BY <1>1, <1>3, EndRunTyped
     DEF NoAuthMethod, NoHostKeyCallback, HandshakeRefuses, RunFails, EndRun
<1>4. CASE BuildAuthMethods(r)
  <2>1. InRun'
    BY <1>4 DEF BuildAuthMethods, RunTyped, InRun
  <2>2. /\ methods' \in [Runs -> SUBSET Methods]
        /\ agentConn' \in [AgentConns -> Runs \cup {"free", "leaked"}]
    BY <1>4 DEF BuildAuthMethods, Available, RunTyped
  <2> QED
    BY <1>4, <2>1, <2>2 DEF BuildAuthMethods, RunTyped
<1>5. CASE BuildHostKeyCallback(r)
  <2>1. InRun'
    BY <1>5 DEF BuildHostKeyCallback, RunTyped, InRun
  <2> QED
    BY <1>5, <2>1, NoFileType DEF BuildHostKeyCallback, RunTyped, SharedTyped
<1>6. CASE HandshakeAccepts(r)
  <2>1. device[runHost[r]] \in Keys
    BY <1>6 DEF HandshakeAccepts, RunTyped, InRun, SharedTyped
  <2>2. InRun'
    BY <1>6, <2>1 DEF HandshakeAccepts, RunTyped, InRun
  <2> QED
    BY <1>6, <2>1, <2>2 DEF HandshakeAccepts, RunTyped
<1>7. CASE \E m \in Methods : OfferMethod(r, m)
  <2>1. PICK m \in Methods : OfferMethod(r, m)
    BY <1>7
  <2>2. runPc' = runPc \/ runPc' = [runPc EXCEPT ![r] = "session"]
    BY <2>1 DEF OfferMethod
  <2>3. InRun'
    BY <2>1, <2>2 DEF OfferMethod, RunTyped, InRun
  <2>4. sent' \subseteq Pairs
    BY <2>1, AcceptedPair DEF OfferMethod
  <2> QED
    BY <2>1, <2>2, <2>3, <2>4 DEF OfferMethod, RunTyped
<1>8. CASE OpenSession(r)
  <2>1. InRun'
    BY <1>8 DEF OpenSession, RunTyped, InRun
  <2> QED
    BY <1>8, <2>1 DEF OpenSession, RunTyped
<1>9. CASE Exec(r)
  BY <1>9, AcceptedPair, EndRunTyped DEF Exec, EndRun
<1> QED
  BY <1>2, <1>3, <1>4, <1>5, <1>6, <1>7, <1>8, <1>9 DEF RunStep, RunProgress

\* seen keeps its type, and loses nothing while the run is in progress.
LEMMA ObservedGrows ==
    ASSUME seen \in [Runs -> SUBSET Pairs], NEW now \in SUBSET Pairs,
           NEW next \in SUBSET Pairs, seen' = Observed(now, next)
    PROVE  /\ seen' \in [Runs -> SUBSET Pairs]
           /\ \A r \in Runs : runPc[r] # "idle" /\ runPc'[r] # "idle" =>
                  seen[r] \cup next \subseteq seen'[r]
  BY DEF Observed

-----------------------------------------------------------------------------
Verified == SnapshotSeen /\ VerifiedDuringRun

\* A run that goes on with what it held stays verified.
LEMMA KeepsVerified ==
    ASSUME Inv, Verified, ~options.insecureSkip, NEW q \in Runs,
           runPc'[q] = runPc[q] \/ (runPc[q] # "dial" /\ runPc'[q] \in Connected),
           runPc[q] # "idle" /\ runPc'[q] # "idle" => seen[q] \subseteq seen'[q],
           runHost'[q] = runHost[q],
           snapshot'[q] = snapshot[q],
           accepted'[q] = accepted[q]
    PROVE  /\ runPc'[q] = "dial" => TrustedPairs(snapshot'[q]) \subseteq seen'[q]
           /\ accepted'[q] # None => <<runHost'[q], accepted'[q]>> \in seen'[q]
<1>1. accepted[q] # None => runPc[q] \in Connected
  BY DEF Inv, RunTyped, InRun
<1>2. runPc'[q] = "dial" => runPc[q] = "dial"
  BY DEF Connected
<1>3. runPc[q] = "dial" => TrustedPairs(snapshot[q]) \subseteq seen[q]
  BY DEF Verified, SnapshotSeen
<1>4. accepted[q] # None => <<runHost[q], accepted[q]>> \in seen[q]
  BY DEF Verified, VerifiedDuringRun
<1>5. accepted[q] # None => runPc[q] # "idle" /\ runPc'[q] # "idle"
  BY <1>1 DEF Connected
<1>6. ASSUME runPc'[q] = "dial"
      PROVE  TrustedPairs(snapshot'[q]) \subseteq seen'[q]
  <2>1. TrustedPairs(snapshot'[q]) = TrustedPairs(snapshot[q])
    OBVIOUS
  <2> QED
    BY <1>2, <1>3, <1>6, <2>1
<1> QED
  BY <1>4, <1>5, <1>6

\* The two steps that establish something, and the one that ends a run.
LEMMA LoadVerified ==
    ASSUME Inv, Verified, ~options.insecureSkip, NEW r \in Runs,
           BuildHostKeyCallback(r), TrustedPairs(file) \subseteq seen'[r]
    PROVE  /\ TrustedPairs(snapshot'[r]) \subseteq seen'[r]
           /\ accepted'[r] = None
<1>1. snapshot'[r] = file
  BY DEF BuildHostKeyCallback, Inv, RunTyped
<1>2. TrustedPairs(snapshot'[r]) = TrustedPairs(file)
  BY <1>1
<1>3. accepted'[r] = None
  BY DEF BuildHostKeyCallback, Inv, RunTyped, InRun, Connected
<1> QED
  BY <1>2, <1>3

LEMMA AcceptVerified ==
    ASSUME Inv, Verified, ~options.insecureSkip, NEW r \in Runs,
           HandshakeAccepts(r), seen[r] \subseteq seen'[r]
    PROVE  /\ runPc'[r] # "dial"
           /\ <<runHost'[r], accepted'[r]>> \in seen'[r]
<1> DEFINE h == runHost[r]
           k == device[h]
<1>1. h \in Hosts /\ k \in Keys
  BY DEF HandshakeAccepts, Inv, RunTyped, InRun, SharedTyped
<1>2. hostKeyStatus(snapshot[r], h, k) = "trusted"
  BY DEF HandshakeAccepts, HostKeyCallback
<1>3. <<h, k>> \in TrustedPairs(snapshot[r])
  BY <1>1, <1>2 DEF TrustedPairs
<1>4. <<h, k>> \in seen[r]
  BY <1>3 DEF Verified, SnapshotSeen, HandshakeAccepts
<1>5. runHost'[r] = h /\ accepted'[r] = k /\ runPc'[r] = "authenticate"
  BY DEF HandshakeAccepts, Inv, RunTyped
<1> QED
  BY <1>4, <1>5

LEMMA RunStepVerified ==
    ASSUME Inv, Verified, NEW r \in Runs, RunStep(r),
           \A q \in Runs : runPc[q] # "idle" /\ runPc'[q] # "idle" =>
               seen[q] \cup TrustedPairs(file) \subseteq seen'[q]
    PROVE  Verified'
<1> SUFFICES ASSUME ~options.insecureSkip, NEW q \in Runs
             PROVE  /\ runPc'[q] = "dial" =>
                          TrustedPairs(snapshot'[q]) \subseteq seen'[q]
                    /\ accepted'[q] # None =>
                          <<runHost'[q], accepted'[q]>> \in seen'[q]
  <2>1. options' = options
    BY RunStepTyped DEF Inv
  <2> QED
    BY <2>1 DEF Verified, SnapshotSeen, VerifiedDuringRun
<1> USE DEF Inv, RunTyped
<1>1. CASE q # r
  <2>1. /\ runPc'[q] = runPc[q]
        /\ runHost'[q] = runHost[q]
        /\ snapshot'[q] = snapshot[q]
        /\ accepted'[q] = accepted[q]
    BY <1>1 DEF RunStep, RunProgress, BeginRun, NoAuthMethod, BuildAuthMethods,
                BuildHostKeyCallback, NoHostKeyCallback, HandshakeAccepts,
                HandshakeRefuses, OfferMethod, OpenSession, Exec, RunFails, EndRun
  <2> QED
    BY <2>1, KeepsVerified
<1>2. CASE q = r /\ \E h \in Hosts : BeginRun(r, h)
  BY <1>2 DEF BeginRun, InRun, Connected
<1>3. CASE q = r /\ EndRun(r)
  BY <1>3 DEF EndRun
<1>4. CASE q = r /\ BuildAuthMethods(r)
  BY <1>4 DEF BuildAuthMethods, InRun, Connected
<1>5. CASE q = r /\ BuildHostKeyCallback(r)
  <2>1. TrustedPairs(file) \subseteq seen'[r]
    BY <1>5 DEF BuildHostKeyCallback
  <2> QED
    BY <1>5, <2>1, LoadVerified
<1>6. CASE q = r /\ HandshakeAccepts(r)
  <2>1. seen[r] \subseteq seen'[r]
    BY <1>6 DEF HandshakeAccepts
  <2> QED
    BY <1>6, <2>1, AcceptVerified
<1>7. CASE q = r /\ \E m \in Methods : OfferMethod(r, m)
  <2>1. PICK m \in Methods : OfferMethod(r, m)
    BY <1>7
  <2>2. runPc' = runPc \/ runPc' = [runPc EXCEPT ![r] = "session"]
    BY <2>1 DEF OfferMethod
  <2>3. runPc[r] = "authenticate" /\ runPc'[r] \in Connected
    BY <2>1, <2>2 DEF OfferMethod, Connected
  <2>4. UNCHANGED <<runHost, snapshot, accepted>>
    BY <2>1 DEF OfferMethod
  <2> QED
    BY <1>7, <2>3, <2>4, KeepsVerified
<1>8. CASE q = r /\ OpenSession(r)
  <2>1. runPc[r] = "session" /\ runPc'[r] \in Connected
    BY <1>8 DEF OpenSession, Connected
  <2>2. UNCHANGED <<runHost, snapshot, accepted>>
    BY <1>8 DEF OpenSession
  <2> QED
    BY <1>8, <2>1, <2>2, KeepsVerified
<1> QED
  BY <1>1, <1>2, <1>3, <1>4, <1>5, <1>6, <1>7, <1>8
     DEF RunStep, RunProgress, NoAuthMethod, NoHostKeyCallback, HandshakeRefuses, Exec, RunFails

LEMMA NextInv ==
    Inv /\ Verified /\ [Next]_vars => Inv' /\ Verified'
<1> SUFFICES ASSUME Inv, Verified, [Next]_vars PROVE Inv' /\ Verified'
  OBVIOUS
<1>1. CASE UNCHANGED vars
  BY <1>1 DEF vars, runVars, Inv, SharedTyped, RunTyped, InRun, Verified, SnapshotSeen,
              VerifiedDuringRun
<1>2. CASE Next
  <2>1. /\ seen' \in [Runs -> SUBSET Pairs]
        /\ \A q \in Runs : runPc[q] # "idle" /\ runPc'[q] # "idle" =>
               seen[q] \cup TrustedPairs(file') \subseteq seen'[q]
    BY <1>2, ObservedGrows, TrustedPairsType DEF Next, Observing, Inv
  <2>2. ASSUME NEW r \in Runs, RunStep(r) PROVE Inv' /\ Verified'
    <3>1. RunTyped' /\ file' = file /\ SharedTyped'
      BY <2>2, RunStepTyped DEF Inv, SharedTyped
    <3>2. TrustedPairs(file') = TrustedPairs(file)
      BY <3>1
    <3>3. Verified'
      BY <2>1, <2>2, <3>2, RunStepVerified
    <3> QED
      BY <2>1, <3>1, <3>3 DEF Inv
  <2>3. CASE Collect \/ FileChanges \/ Rekey
    <3>1. options' = options /\ UNCHANGED <<runPc, runHost, snapshot, accepted, methods, sent>>
      BY <2>3 DEF Collect, FileChanges, Rekey, runVars
    <3>2. agentConn' \in [AgentConns -> Runs \cup {"free", "leaked"}]
      BY <2>3 DEF Collect, Collectable, FileChanges, Rekey, runVars, Inv, RunTyped
    <3>3. SharedTyped'
      BY <2>3, EnvFilesAssumption DEF Collect, FileChanges, Rekey, Inv, SharedTyped
    <3>4. RunTyped'
      BY <3>1, <3>2 DEF Inv, RunTyped, InRun
    <3>5. Verified'
      <4> SUFFICES ASSUME ~options.insecureSkip, NEW q \in Runs
                   PROVE  /\ runPc'[q] = "dial" =>
                                TrustedPairs(snapshot'[q]) \subseteq seen'[q]
                          /\ accepted'[q] # None =>
                                <<runHost'[q], accepted'[q]>> \in seen'[q]
        BY <3>1 DEF Verified, SnapshotSeen, VerifiedDuringRun
      <4> QED
        BY <2>1, <3>1, KeepsVerified
    <3> QED
      BY <2>1, <3>3, <3>4, <3>5 DEF Inv
  <2> QED
    BY <1>2, <2>2, <2>3 DEF Next
<1> QED
  BY <1>1, <1>2

\* In every reachable state every variable has its type.
THEOREM TypeCorrect == Spec => []TypeOK
<1>1. Init => Inv /\ Verified
  BY InitInv DEF Verified
<1> QED
  BY <1>1, NextInv, InvTypeOK, PTL DEF Spec

\* With the check on, a connection goes on only with a key that the file
\* trusted for its host at some moment of the run, however the file changes.
THEOREM RunsVerified == Spec => []VerifiedDuringRun
<1>1. Init => Inv /\ Verified
  BY InitInv DEF Verified
<1>2. Verified => VerifiedDuringRun
  BY DEF Verified
<1> QED
  BY <1>1, <1>2, NextInv, PTL DEF Spec
=============================================================================
