--------------------------- MODULE ServerRunsProofs ---------------------------
(***************************************************************************)
(* Type correctness of ServerRuns and what its tokens tell, for any        *)
(* machines, key texts, launch settings, key files and number of starts.   *)
(*                                                                         *)
(* The argument: a run draws or reads its key once, and keeps it; run      *)
(* numbers are never used again.  So a token names either the random bytes *)
(* of its run, in which case the operator gave none and the client was     *)
(* told, or the text that the operator gave that run, without its padding. *)
(***************************************************************************)
EXTENDS ServerRuns, TLAPS

\* The key of a run whose operator gave the text t.
Trimmed(t) == [core |-> t, padded |-> FALSE]

Clear(m) ==
    /\ obfuscationKey[m] = None
    /\ obfuscationKeySource[m] = "none"
    /\ instructed[m] = FALSE

RandomKey(m) ==
    /\ obfuscationKey[m] = Random(run[m])
    /\ obfuscationKeySource[m] = "ephemeral"
    /\ instructed[m] = TRUE
    /\ intended[run[m]] = None

OperatorKey(m) ==
    /\ intended[run[m]] \in Texts
    /\ obfuscationKey[m] = Trimmed(intended[run[m]])
    /\ obfuscationKeySource[m] \in {"env", "file"}
    /\ instructed[m] = FALSE

\* What a process holds in each phase.
ProcessInv ==
    \A m \in Machines :
        /\ phase[m] = "down" => Clear(m)
        /\ phase[m] # "down" => launch[m] \in Launches /\ run[m] \in 1..runs
        /\ phase[m] = "starting" => Clear(m) /\ intended[run[m]] = None
        /\ phase[m] = "serving" =>
               IF launch[m].noObfuscate THEN Clear(m) /\ intended[run[m]] = None
               ELSE RandomKey(m) \/ OperatorKey(m)

\* A run number is one process, and a number above runs is none yet.
RunsDistinct ==
    /\ \A m, n \in Machines :
           m # n /\ phase[m] # "down" /\ phase[n] # "down" => run[m] # run[n]
    /\ \A n \in 1..MaxRuns : n > runs => intended[n] = None

\* What a token tells of its run.
Explained(i) ==
    \/ i.key = None
    \/ i.key = Random(i.run) /\ i.warned /\ i.instructed /\ intended[i.run] = None
    \/ i.key = Trimmed(intended[i.run]) /\ ~i.warned /\ intended[i.run] \in Texts

\* A run that is still to load its key has sent nothing.
ReceivedInv ==
    /\ \A i \in received : i.run \in 1..runs /\ Explained(i) /\ (i.warned => i.key # None)
    /\ \A i \in received, m \in Machines : phase[m] = "starting" => i.run # run[m]

Inv == TypeOK /\ ProcessInv /\ RunsDistinct /\ ReceivedInv

-----------------------------------------------------------------------------
\* The two kinds of key differ from one another and from None.
LEMMA KeysDiffer ==
    ASSUME NEW n \in 1..MaxRuns, NEW t \in Texts
    PROVE  /\ Random(n) \in Raw /\ Trimmed(t) \in Raw
           /\ Random(n) # None /\ Trimmed(t) # None
           /\ Random(n) # Trimmed(t)
<1>1. Random(n) \in Raw /\ Trimmed(t) \in Raw
  BY DEF Random, Trimmed, Raw, KeyText
<1>2. Random(n) # Trimmed(t)
  <2>1. DOMAIN Random(n) = {"random"} /\ DOMAIN Trimmed(t) = {"core", "padded"}
    BY DEF Random, Trimmed
  <2>2. {"random"} # {"core", "padded"}
    OBVIOUS
  <2> QED
    BY <2>1, <2>2
<1> QED
  BY <1>1, <1>2, NoneRawAssumption

LEMMA RandomInjective ==
    ASSUME NEW n, NEW k, Random(n) = Random(k)
    PROVE  n = k
<1>1. Random(n).random = n /\ Random(k).random = k
  BY DEF Random
<1> QED
  BY <1>1

\* A key is loaded from where the operator put it, or drawn if there is none.
LEMMA LoadedKey ==
    ASSUME NEW m \in Machines, launch[m] \in Launch, keyFile[m] \in KeyText \cup {Missing},
           run[m] \in 1..MaxRuns, Loaded(m) # Failure
    PROVE  LET given == GivenKey(launch[m], keyFile[m]) IN
           \/ given = None /\ Loaded(m) = [raw |-> Random(run[m]), source |-> "ephemeral"]
           \/ /\ given \in Texts
              /\ \E s \in {"env", "file"} : Loaded(m) = [raw |-> Trimmed(given), source |-> s]
<1> DEFINE l == launch[m]
           given == GivenKey(l, keyFile[m])
<1>1. l.key \in KeyText /\ l.keyFile \in BOOLEAN
  BY DEF Launch
<1>2. ASSUME NEW t \in KeyText
      PROVE  TrimSpace(t) = Trimmed(t.core)
  BY DEF TrimSpace, Trimmed
<1>3. ASSUME NEW t \in KeyText, NEW s, checkKeyLen(TrimSpace(t), s) # Failure
      PROVE  /\ t.core \in Texts
             /\ checkKeyLen(TrimSpace(t), s) = [raw |-> Trimmed(t.core), source |-> s]
  <2>1. TrimSpace(t) = Trimmed(t.core)
    BY <1>2
  <2>2. Trimmed(t.core).core = t.core /\ Trimmed(t.core).padded = FALSE
    BY DEF Trimmed
  <2>3. LongEnough(Trimmed(t.core)) <=> t.core \in Texts
    BY <2>2 DEF LongEnough
  <2> QED
    BY <1>3, <2>1, <2>3 DEF checkKeyLen
<1>4. CASE ~IsBlank(l.key) /\ ~l.keyFile
  <2>1. Loaded(m) = checkKeyLen(TrimSpace(l.key), "env")
    BY <1>1, <1>4 DEF Loaded, LoadObfuscationKey
  <2>2. given = l.key.core
    BY <1>4 DEF GivenKey, IsBlank
  <2> QED
    BY <1>1, <1>3, <2>1, <2>2
<1>5. CASE IsBlank(l.key) /\ l.keyFile
  <2>1. Loaded(m) = FromFile(keyFile[m])
    BY <1>1, <1>5 DEF Loaded, LoadObfuscationKey
  <2>2. keyFile[m] # Missing
    BY <2>1 DEF FromFile
  <2>3. Loaded(m) = checkKeyLen(TrimSpace(keyFile[m]), "file")
    BY <2>1, <2>2 DEF FromFile
  <2>4. given = keyFile[m].core
    BY <1>5, <2>2 DEF GivenKey
  <2> QED
    BY <1>3, <2>2, <2>3, <2>4
<1>6. CASE IsBlank(l.key) /\ ~l.keyFile
  <2>1. Loaded(m) = FromRandom(run[m])
    BY <1>1, <1>6 DEF Loaded, LoadObfuscationKey
  <2>2. given = None
    BY <1>6 DEF GivenKey, IsBlank
  <2> QED
    BY <2>1, <2>2 DEF FromRandom
<1>7. CASE ~IsBlank(l.key) /\ l.keyFile
  BY <1>1, <1>7 DEF Loaded, LoadObfuscationKey
<1> QED
  BY <1>4, <1>5, <1>6, <1>7

-----------------------------------------------------------------------------
LEMMA InitInv == Init => Inv
<1> SUFFICES ASSUME Init PROVE Inv
  OBVIOUS
<1>1. TypeOK
  BY MaxRunsAssumption DEF Init, TypeOK
<1>2. ProcessInv
  BY DEF Init, ProcessInv, Clear
<1>3. RunsDistinct /\ ReceivedInv
  BY DEF Init, RunsDistinct, ReceivedInv
<1> QED
  BY <1>1, <1>2, <1>3 DEF Inv

\* The steps that only concern the machine m, of whose process nothing is left.
LEMMA ExitInv ==
    ASSUME Inv, NEW m \in Machines, Exit(m), UNCHANGED <<keyFile, runs, received, intended>>
    PROVE  Inv'
<1> USE DEF Inv
<1>1. TypeOK'
  BY MaxRunsAssumption DEF Exit, TypeOK
<1>2. ProcessInv'
  BY DEF Exit, TypeOK, ProcessInv, Clear, RandomKey, OperatorKey
<1>3. RunsDistinct'
  BY DEF Exit, TypeOK, RunsDistinct
<1>4. ReceivedInv'
  BY DEF Exit, TypeOK, ReceivedInv, Explained
<1> QED
  BY <1>1, <1>2, <1>3, <1>4

LEMMA StartInv ==
    ASSUME Inv, NEW m \in Machines, NEW l \in Launches, Start(m, l)
    PROVE  Inv'
<1> USE DEF Inv
<1>1. runs \in 0..MaxRuns /\ runs' = runs + 1 /\ runs' \in 1..MaxRuns
  BY MaxRunsAssumption DEF Start, TypeOK
<1>2. TypeOK'
  BY <1>1, MaxRunsAssumption DEF Start, TypeOK
<1>3. ProcessInv'
  BY <1>1, MaxRunsAssumption
     DEF Start, TypeOK, ProcessInv, Clear, RandomKey, OperatorKey, RunsDistinct
<1>4. RunsDistinct'
  BY <1>1, MaxRunsAssumption DEF Start, TypeOK, RunsDistinct, ProcessInv
<1>5. ReceivedInv'
  BY <1>1, MaxRunsAssumption DEF Start, TypeOK, ReceivedInv, Explained
<1> QED
  BY <1>2, <1>3, <1>4, <1>5

LEMMA ServeWithKeyInv ==
    ASSUME Inv, NEW m \in Machines, ServeWithKey(m)
    PROVE  Inv'
<1> DEFINE given == GivenKey(launch[m], keyFile[m])
<1> USE DEF Inv
<1>1. launch[m] \in Launch /\ run[m] \in 1..runs /\ run[m] \in 1..MaxRuns
  BY LaunchesAssumption, MaxRunsAssumption DEF ServeWithKey, TypeOK, ProcessInv
<1>2. keyFile[m] \in KeyText \cup {Missing}
  BY KeyFilesAssumption DEF TypeOK
<1>3. \/ /\ given = None
         /\ Loaded(m).raw = Random(run[m]) /\ Loaded(m).source = "ephemeral"
      \/ /\ given \in Texts
         /\ Loaded(m).raw = Trimmed(given) /\ Loaded(m).source \in {"env", "file"}
  <2>1. \/ given = None /\ Loaded(m) = [raw |-> Random(run[m]), source |-> "ephemeral"]
        \/ /\ given \in Texts
           /\ \E s \in {"env", "file"} : Loaded(m) = [raw |-> Trimmed(given), source |-> s]
    BY <1>1, <1>2, LoadedKey DEF ServeWithKey
  <2> HIDE DEF given
  <2> QED
    BY <2>1
<1>4. given \in Texts \cup {None}
  BY <1>3
<1>5. /\ Loaded(m).raw \in Raw
      /\ Loaded(m).source \in {"env", "file", "ephemeral"}
  <2>1. /\ Random(run[m]) \in Raw
        /\ \A t \in Texts : Trimmed(t) \in Raw
    BY <1>1 DEF Random, Trimmed, Raw, KeyText
  <2> HIDE DEF given, Inv
  <2> QED
    BY <1>3, <2>1
<1>6. TypeOK'
  BY <1>4, <1>5 DEF ServeWithKey, TypeOK, EphemeralObfuscationKey
<1>7. \A n \in Machines \ {m} : phase[n] # "down" => run[n] # run[m]
  BY DEF ServeWithKey, RunsDistinct
<1>8. /\ \A n \in Machines \ {m} : phase[n] # "down" => intended'[run[n]] = intended[run[n]]
      /\ intended'[run[m]] = given
  BY <1>1, <1>7, MaxRunsAssumption DEF ServeWithKey, TypeOK, ProcessInv
<1>9. ProcessInv'
  <2> SUFFICES ASSUME NEW n \in Machines
               PROVE  /\ phase'[n] = "down" => Clear(n)'
                      /\ phase'[n] # "down" => launch'[n] \in Launches /\ run'[n] \in 1..runs'
                      /\ phase'[n] = "starting" => Clear(n)' /\ intended'[run'[n]] = None
                      /\ phase'[n] = "serving" =>
                             IF launch'[n].noObfuscate
                             THEN Clear(n)' /\ intended'[run'[n]] = None
                             ELSE RandomKey(n)' \/ OperatorKey(n)'
    BY DEF ProcessInv
  <2>1. CASE n # m
    BY <2>1, <1>8 DEF ServeWithKey, TypeOK, ProcessInv, Clear, RandomKey, OperatorKey
  <2>2. CASE n = m
    <3>1. /\ phase'[m] = "serving" /\ launch'[m] = launch[m] /\ run'[m] = run[m]
          /\ ~launch[m].noObfuscate /\ launch[m] \in Launches
          /\ obfuscationKey'[m] = Loaded(m).raw
          /\ obfuscationKeySource'[m] = Loaded(m).source
          /\ instructed'[m] = (Loaded(m).source = "ephemeral")
          /\ runs' = runs
      BY DEF ServeWithKey, TypeOK, ProcessInv, EphemeralObfuscationKey
    <3>2. RandomKey(m)' \/ OperatorKey(m)'
      BY <1>3, <1>8, <3>1 DEF RandomKey, OperatorKey
    <3> QED
      BY <1>1, <2>2, <3>1, <3>2
  <2> QED
    BY <2>1, <2>2
<1>10. RunsDistinct'
  BY <1>1, MaxRunsAssumption DEF ServeWithKey, TypeOK, RunsDistinct
<1>11. ReceivedInv'
  <2>1. \A i \in received : i.run # run[m] /\ intended'[i.run] = intended[i.run]
    BY <1>1, MaxRunsAssumption DEF ServeWithKey, TypeOK, ReceivedInv, Item
  <2> QED
    BY <2>1 DEF ServeWithKey, TypeOK, ReceivedInv, Explained
<1> QED
  BY <1>6, <1>9, <1>10, <1>11

LEMMA ServeInClearInv ==
    ASSUME Inv, NEW m \in Machines, ServeInClear(m)
    PROVE  Inv'
<1> USE DEF Inv
<1>1. TypeOK'
  BY DEF ServeInClear, TypeOK
<1>2. ProcessInv'
  BY DEF ServeInClear, TypeOK, ProcessInv, Clear, RandomKey, OperatorKey
<1>3. RunsDistinct' /\ ReceivedInv'
  BY DEF ServeInClear, TypeOK, RunsDistinct, ReceivedInv, Explained
<1> QED
  BY <1>1, <1>2, <1>3

\* What a reply says of the run it comes from.
LEMMA ReplyExplained ==
    ASSUME Inv, NEW m \in Machines, NEW s \in Secrets, phase[m] = "serving",
           launch[m].noObfuscate \/ obfuscationKey[m] # None
    PROVE  /\ ReplyItem(m, s) \in Item
           /\ ReplyItem(m, s).run = run[m]
           /\ Explained(ReplyItem(m, s))
           /\ ReplyItem(m, s).warned => ReplyItem(m, s).key # None
<1> DEFINE i == ReplyItem(m, s)
<1>1. launch[m].noObfuscate \in BOOLEAN /\ run[m] \in 1..MaxRuns
  BY LaunchesAssumption, MaxRunsAssumption DEF Inv, TypeOK, ProcessInv, Launch
<1>2. /\ i.run = run[m] /\ i.secret = s /\ i.instructed = instructed[m]
      /\ i.key = IF launch[m].noObfuscate THEN None ELSE obfuscationKey[m]
      /\ i.warned = (~launch[m].noObfuscate /\ obfuscationKeySource[m] = "ephemeral")
  BY DEF ReplyItem, EphemeralObfuscationKey
<1>3. i \in Item
  BY <1>1 DEF ReplyItem, EphemeralObfuscationKey, Item, Inv, TypeOK
<1>4. IF launch[m].noObfuscate THEN Clear(m) ELSE RandomKey(m) \/ OperatorKey(m)
  BY DEF Inv, ProcessInv
<1>5. Explained(i)
  BY <1>1, <1>2, <1>4 DEF Explained, RandomKey, OperatorKey
<1>6. i.warned => i.key # None
  BY <1>1, <1>2
<1> QED
  BY <1>2, <1>3, <1>5, <1>6

LEMMA AnswerInv ==
    ASSUME Inv, NEW m \in Machines, NEW S \in SUBSET Secrets, Answer(m, S)
    PROVE  Inv'
<1> USE DEF Inv
<1>1. \A i \in received' : i \in received \/ \E s \in S : i = ReplyItem(m, s)
  BY DEF Answer
<1>2. \A s \in S : /\ ReplyItem(m, s) \in Item
                   /\ ReplyItem(m, s).run = run[m]
                   /\ Explained(ReplyItem(m, s))
                   /\ ReplyItem(m, s).warned => ReplyItem(m, s).key # None
  BY ReplyExplained DEF Answer
<1>3. UNCHANGED <<phase, launch, run, obfuscationKey, obfuscationKeySource, instructed,
                  keyFile, runs, intended>>
  BY DEF Answer, processVars
<1>4. TypeOK'
  <2>1. ASSUME NEW i \in received' PROVE i \in Item
    <3>1. CASE i \in received
      BY <3>1 DEF TypeOK
    <3>2. ASSUME NEW s \in S, i = ReplyItem(m, s) PROVE i \in Item
      BY <1>2, <3>2
    <3> QED
      BY <1>1, <3>1, <3>2
  <2> QED
    BY <1>3, <2>1 DEF TypeOK
<1>5. ProcessInv' /\ RunsDistinct'
  BY <1>3 DEF ProcessInv, Clear, RandomKey, OperatorKey, RunsDistinct
<1>6. phase[m] = "serving" /\ run[m] \in 1..runs
  BY DEF Answer, ProcessInv
<1>7. ReceivedInv'
  <2>1. ASSUME NEW i \in received'
        PROVE  /\ i.run \in 1..runs
               /\ Explained(i)
               /\ i.warned => i.key # None
               /\ i \in received \/ i.run = run[m]
    <3>1. CASE i \in received
      BY <3>1 DEF ReceivedInv
    <3>2. ASSUME NEW s \in S, i = ReplyItem(m, s)
          PROVE  /\ i.run = run[m]
                 /\ Explained(i)
                 /\ i.warned => i.key # None
      BY <1>2, <3>2
    <3> QED
      BY <1>1, <1>6, <3>1, <3>2
  <2>2. \A i : Explained(i)' <=> Explained(i)
    BY <1>3 DEF Explained
  <2>3. ASSUME NEW i \in received', NEW n \in Machines, phase[n] = "starting"
        PROVE  i.run # run[n]
    BY <1>6, <2>1, <2>3 DEF ReceivedInv, RunsDistinct
  <2> QED
    BY <1>3, <2>1, <2>2, <2>3 DEF ReceivedInv
<1> QED
  BY <1>4, <1>5, <1>7

LEMMA NextInv == Inv /\ [Next]_vars => Inv'
<1> SUFFICES ASSUME Inv, [Next]_vars PROVE Inv'
  OBVIOUS
<1>1. CASE UNCHANGED vars
  BY <1>1 DEF vars, Inv, TypeOK, ProcessInv, Clear, RandomKey, OperatorKey, RunsDistinct,
              ReceivedInv, Explained
<1>2. CASE \E m \in Machines, l \in Launches : Start(m, l)
  BY <1>2, StartInv
<1>3. CASE \E m \in Machines, S \in SUBSET Secrets : Answer(m, S)
  BY <1>3, AnswerInv
<1>4. CASE \E m \in Machines, contents \in KeyFiles : EditKeyFile(m, contents)
  BY <1>4 DEF EditKeyFile, processVars, Inv, TypeOK, ProcessInv, Clear, RandomKey,
              OperatorKey, RunsDistinct, ReceivedInv, Explained
<1>5. CASE \E m \in Machines : PrintVersion(m) \/ ConfigureFails(m) \/ KeyFails(m) \/ Stop(m)
  BY <1>5, ExitInv DEF PrintVersion, ConfigureFails, KeyFails, Stop
<1>6. CASE \E m \in Machines : ServeWithKey(m) \/ ServeInClear(m)
  BY <1>6, ServeWithKeyInv, ServeInClearInv
<1> QED
  BY <1>1, <1>2, <1>3, <1>4, <1>5, <1>6 DEF Next

LEMMA InvHolds == Spec => []Inv
  BY InitInv, NextInv, PTL DEF Spec

-----------------------------------------------------------------------------
\* In every reachable state every variable has its type.
THEOREM TypeCorrect == Spec => []TypeOK
<1>1. Inv => TypeOK
  BY DEF Inv
<1> QED
  BY <1>1, InvHolds, PTL

\* What is known of a token: see Explained.
LEMMA TokenKeys ==
    ASSUME Inv, NEW i \in Tokens
    PROVE  /\ i.run \in 1..MaxRuns
           /\ \/ /\ i.key = Random(i.run) /\ i.warned /\ i.instructed
                 /\ intended[i.run] = None
              \/ /\ i.key = Trimmed(intended[i.run]) /\ ~i.warned
                 /\ intended[i.run] \in Texts /\ intended[i.run] # None
  BY DistinctAssumption DEF Inv, TypeOK, Item, ReceivedInv, Explained, Tokens

\* Two runs whose operators gave the same key send the same tokens, however
\* each of them was given it, whatever happened to key files since.
THEOREM SameTokens == Spec => []SameKeySameTokens
<1>1. Inv => SameKeySameTokens
  BY TokenKeys DEF SameKeySameTokens
<1> QED
  BY <1>1, InvHolds, PTL

\* Two tokens of one secret differ only where the operators gave two keys or a
\* reply came with the warning.
THEOREM MismatchesExplained == Spec => []MismatchExplained
<1>1. Inv => MismatchExplained
  <2> SUFFICES ASSUME Inv, NEW i \in Tokens, NEW j \in Tokens
               PROVE  \/ None \notin {intended[i.run], intended[j.run]}
                      \/ i.warned /\ i.instructed
                      \/ j.warned /\ j.instructed
    BY DEF MismatchExplained
  <2> QED
    BY TokenKeys
<1> QED
  BY <1>1, InvHolds, PTL

\* A token that came with the warning is never sent by another run.
THEOREM WarningsAreTrue == Spec => []WarningIsTrue
<1>1. Inv => WarningIsTrue
  <2> SUFFICES ASSUME Inv, NEW i \in Tokens, NEW j \in Tokens, i.warned, i.run # j.run
               PROVE  i.key # j.key
    BY DEF WarningIsTrue
  <2>1. i.key = Random(i.run) /\ i.run \in 1..MaxRuns
    BY TokenKeys
  <2>3. CASE j.key = Random(j.run)
    BY <2>1, <2>3, RandomInjective
  <2>4. CASE j.key = Trimmed(intended[j.run]) /\ intended[j.run] \in Texts
    BY <2>1, <2>4, KeysDiffer
  <2> QED
    BY <2>3, <2>4, TokenKeys
<1> QED
  BY <1>1, InvHolds, PTL

\* A serving process has the key that its operator gave, a random one only if
\* the operator gave none, and none only if obfuscation is off.
THEOREM KeysAsGiven == Spec => []KeyAsGiven
<1>1. Inv => KeyAsGiven
  <2> SUFFICES ASSUME Inv, NEW m \in Machines, phase[m] = "serving"
               PROVE  /\ obfuscationKey[m] = None <=> launch[m].noObfuscate
                      /\ obfuscationKey[m] = Random(run[m])
                             <=> ~launch[m].noObfuscate /\ intended[run[m]] = None
    BY DEF KeyAsGiven
  <2>1. run[m] \in 1..MaxRuns
    BY MaxRunsAssumption DEF Inv, TypeOK, ProcessInv
  <2>2. IF launch[m].noObfuscate THEN Clear(m) /\ intended[run[m]] = None
        ELSE RandomKey(m) \/ OperatorKey(m)
    BY DEF Inv, ProcessInv
  <2>3. Random(run[m]) # None
    BY <2>1, NoneRawAssumption DEF Random, Raw
  <2>4. CASE launch[m].noObfuscate
    BY <2>2, <2>3, <2>4 DEF Clear
  <2>5. CASE ~launch[m].noObfuscate /\ RandomKey(m)
    BY <2>3, <2>5 DEF RandomKey
  <2>6. CASE ~launch[m].noObfuscate /\ OperatorKey(m)
    BY <2>1, <2>6, KeysDiffer, DistinctAssumption DEF OperatorKey
  <2> QED
    BY <2>2, <2>4, <2>5, <2>6
<1> QED
  BY <1>1, InvHolds, PTL
=============================================================================
