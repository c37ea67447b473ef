------------------------------ MODULE ServerRuns ------------------------------
(***************************************************************************)
(* Runs of the server and the obfuscation keys they use: the startup of    *)
(* main.go with LoadObfuscationKey, the replies of get_config and          *)
(* run_show_command, and what a client that talks to several runs, one     *)
(* after the other or on several machines, can conclude from the tokens it *)
(* was sent.                                                               *)
(*                                                                         *)
(* A token is the pair of the derived key and the secret: HMAC-SHA256 is   *)
(* taken to be injective, its 48-bit truncation included.                  *)
(***************************************************************************)
EXTENDS Naturals

CONSTANTS
    Machines,   \* installations, each running at most one server at a time
    Texts,      \* key texts of 16 bytes or more, without surrounding blanks
    Secrets,    \* values that the patterns find in device output
    Launches,   \* environments and command lines a server is started with
    KeyFiles,   \* what the key file of a machine may hold
    MaxRuns,    \* bound on the number of server starts
    Short, Blank, Missing, None

ASSUME DistinctAssumption ==
    /\ Texts \cap {Short, Blank} = {} /\ Short # Blank
    /\ None \notin Texts

\* A key as it stands in the environment or in a file: Short is non-blank
\* text below the minimum length, Blank is nothing but white space.
KeyText == [core: Texts \cup {Short, Blank}, padded: BOOLEAN]

ASSUME KeyFilesAssumption == KeyFiles \subseteq KeyText \cup {Missing}

\* What startup reads.  boolEnv: SKIP_HOST_KEY_CHECK parses; knownHosts: what
\* the flag, the variable or the default gives; home: a home directory is
\* known; keyFile: --obfuscation-key-file or OBFUSCATION_KEY_FILE names a file.
Launch == [boolEnv: BOOLEAN, version: BOOLEAN, skipHostKeys: BOOLEAN,
           knownHosts: {"absolute", "relative", "blank"}, home: BOOLEAN,
           noObfuscate: BOOLEAN, key: KeyText, keyFile: BOOLEAN]

ASSUME LaunchesAssumption == Launches \subseteq Launch
ASSUME MaxRunsAssumption == MaxRuns \in Nat

VARIABLES
    phase,                \* "down", "starting" or "serving", for each machine
    launch,               \* the environment and flags of its process
    run,                  \* the number of its process
    obfuscationKey,       \* None, or the raw material it was derived from
    obfuscationKeySource, \* "none", "env", "file" or "ephemeral"
    instructed,           \* the server instructions hold the ephemeral notice
    keyFile,              \* the key file of each machine
    runs,                 \* server starts so far, on all machines
    received,             \* history: the secrets the clients were sent
    intended              \* history: the key its operator gave each run

processVars == <<phase, launch, run, obfuscationKey, obfuscationKeySource, instructed>>
vars == <<phase, launch, run, obfuscationKey, obfuscationKeySource, instructed,
          keyFile, runs, received, intended>>

Random(n) == [random |-> n]
Raw == [random: 1..MaxRuns] \cup KeyText

ASSUME NoneRawAssumption == None \notin Raw

\* One secret as it stands in a reply: the key of its token, or None when it
\* is in clear; warned when the reply carries EphemeralKeyNotice.
Item == [run: 1..MaxRuns, secret: Secrets, key: Raw \cup {None},
         warned: BOOLEAN, instructed: BOOLEAN]

TypeOK ==
    /\ phase \in [Machines -> {"down", "starting", "serving"}]
    /\ launch \in [Machines -> Launches \cup {None}]
    /\ run \in [Machines -> 0..MaxRuns]
    /\ obfuscationKey \in [Machines -> Raw \cup {None}]
    /\ obfuscationKeySource \in [Machines -> {"none", "env", "file", "ephemeral"}]
    /\ instructed \in [Machines -> BOOLEAN]
    /\ keyFile \in [Machines -> KeyFiles]
    /\ runs \in 0..MaxRuns
    /\ received \subseteq Item
    /\ intended \in [1..MaxRuns -> Texts \cup {None}]

Init ==
    /\ phase = [m \in Machines |-> "down"]
    /\ launch = [m \in Machines |-> None]
    /\ run = [m \in Machines |-> 0]
    /\ obfuscationKey = [m \in Machines |-> None]
    /\ obfuscationKeySource = [m \in Machines |-> "none"]
    /\ instructed = [m \in Machines |-> FALSE]
    /\ keyFile \in [Machines -> KeyFiles]
    /\ runs = 0
    /\ received = {}
    /\ intended = [n \in 1..MaxRuns |-> None]

-----------------------------------------------------------------------------
(***************************************************************************)
(* LoadObfuscationKey.                                                     *)
(***************************************************************************)

TrimSpace(t) == [core |-> t.core, padded |-> FALSE]

IsBlank(t) == t.core = Blank

\* Mutant: any length will do.
AnyLength(t) == TRUE

\* Of a text that TrimSpace returned: padding would count as length.
LongEnough(t) == t.core \in Texts \/ t.padded

Failure == [raw |-> None, source |-> "none"]

checkKeyLen(t, source) ==
    IF LongEnough(t) THEN [raw |-> t, source |-> source] ELSE Failure

\* Mutants: the file's final newline is part of the key; the random bytes are
\* never drawn.
UntrimmedFile(contents) ==
    IF contents = Missing THEN Failure ELSE checkKeyLen(contents, "file")
NeverDrawn(n) == [raw |-> Random(1), source |-> "ephemeral"]

FromFile(contents) ==
    IF contents = Missing THEN Failure ELSE checkKeyLen(TrimSpace(contents), "file")

\* rand.Read: the bytes of a run are its own.
FromRandom(n) == [raw |-> Random(n), source |-> "ephemeral"]

\* key: the value of OBFUSCATION_KEY; path: whether a key file is named;
\* contents: what that file holds; n: the run.
LoadObfuscationKey(key, path, contents, n) ==
    CASE ~IsBlank(key) /\ path  -> Failure
      [] ~IsBlank(key) /\ ~path -> checkKeyLen(TrimSpace(key), "env")
      [] IsBlank(key) /\ path   -> FromFile(contents)
      [] IsBlank(key) /\ ~path  -> FromRandom(n)

\* What the operator meant, up to surrounding white space.
GivenKey(l, contents) ==
    IF l.keyFile
    THEN (IF contents = Missing THEN None ELSE contents.core)
    ELSE (IF l.key.core = Blank THEN None ELSE l.key.core)

-----------------------------------------------------------------------------
(***************************************************************************)
(* A server.                                                               *)
(***************************************************************************)

Start(m, l) ==
    /\ phase[m] = "down"
    /\ runs < MaxRuns
    /\ runs' = runs + 1
    /\ phase' = [phase EXCEPT ![m] = "starting"]
    /\ launch' = [launch EXCEPT ![m] = l]
    /\ run' = [run EXCEPT ![m] = runs + 1]
    /\ UNCHANGED <<obfuscationKey, obfuscationKeySource, instructed, keyFile,
                   received, intended>>

\* The process of m is gone, with its key.
Exit(m) ==
    /\ phase' = [phase EXCEPT ![m] = "down"]
    /\ launch' = [launch EXCEPT ![m] = None]
    /\ run' = [run EXCEPT ![m] = 0]
    /\ obfuscationKey' = [obfuscationKey EXCEPT ![m] = None]
    /\ obfuscationKeySource' = [obfuscationKeySource EXCEPT ![m] = "none"]
    /\ instructed' = [instructed EXCEPT ![m] = FALSE]

\* sshclient.Configure: a path must be absolute even where it is not used,
\* and without one the home directory is needed, unless checks are skipped.
Configure(l) ==
    /\ l.knownHosts # "relative"
    /\ l.knownHosts = "absolute" \/ l.skipHostKeys \/ l.home

Configures(l) == l.boolEnv /\ ~l.version /\ Configure(l)

ConfigureFails(m) ==
    /\ phase[m] = "starting"
    /\ ~launch[m].boolEnv \/ (~launch[m].version /\ ~Configure(launch[m]))
    /\ Exit(m)
    /\ UNCHANGED <<keyFile, runs, received, intended>>

\* Once the environment has parsed, and before anything is configured.
PrintVersion(m) ==
    /\ phase[m] = "starting"
    /\ launch[m].boolEnv /\ launch[m].version
    /\ Exit(m)
    /\ UNCHANGED <<keyFile, runs, received, intended>>

Loaded(m) ==
    LoadObfuscationKey(launch[m].key, launch[m].keyFile, keyFile[m], run[m])

\* Mutant: the switch is read the wrong way round.
EphemeralWhenOff(l, source) == l.noObfuscate /\ source = "ephemeral"

EphemeralObfuscationKey(l, source) == ~l.noObfuscate /\ source = "ephemeral"

\* The key is set before the server exists, and its instructions tell the
\* client when the key is a random one.
ServeWithKey(m) ==
    LET loaded == Loaded(m) IN
    /\ phase[m] = "starting"
    /\ Configures(launch[m])
    /\ ~launch[m].noObfuscate
    /\ loaded # Failure
    /\ obfuscationKey' = [obfuscationKey EXCEPT ![m] = loaded.raw]
    /\ obfuscationKeySource' = [obfuscationKeySource EXCEPT ![m] = loaded.source]
    /\ instructed' =
           [instructed EXCEPT ![m] = EphemeralObfuscationKey(launch[m], loaded.source)]
    /\ intended' = [intended EXCEPT ![run[m]] = GivenKey(launch[m], keyFile[m])]
    /\ phase' = [phase EXCEPT ![m] = "serving"]
    /\ UNCHANGED <<launch, run, keyFile, runs, received>>

\* Mutant: the error is reported, and the server started all the same.
KeyFailureIgnored(m) ==
    /\ phase[m] = "starting"
    /\ Configures(launch[m])
    /\ ~launch[m].noObfuscate
    /\ Loaded(m) = Failure
    /\ phase' = [phase EXCEPT ![m] = "serving"]
    /\ UNCHANGED <<launch, run, obfuscationKey, obfuscationKeySource, instructed,
                   keyFile, runs, received, intended>>

\* Both settings, a file that cannot be read, or a key that is too short.
KeyFails(m) ==
    /\ phase[m] = "starting"
    /\ Configures(launch[m])
    /\ ~launch[m].noObfuscate
    /\ Loaded(m) = Failure
    /\ Exit(m)
    /\ UNCHANGED <<keyFile, runs, received, intended>>

\* With --no-obfuscate no key is looked for, not even to check it.
ServeInClear(m) ==
    /\ phase[m] = "starting"
    /\ Configures(launch[m])
    /\ launch[m].noObfuscate
    /\ phase' = [phase EXCEPT ![m] = "serving"]
    /\ UNCHANGED <<launch, run, obfuscationKey, obfuscationKeySource, instructed,
                   keyFile, runs, received, intended>>

\* What becomes of the secret s in a reply: obfuscate, then the notice of
\* obfuscatedResult.
ReplyItem(m, s) ==
    [run |-> run[m], secret |-> s,
     key |-> IF launch[m].noObfuscate THEN None ELSE obfuscationKey[m],
     warned |-> EphemeralObfuscationKey(launch[m], obfuscationKeySource[m]),
     instructed |-> instructed[m]]

\* get_config and run_show_command reply with the output of a device in
\* which the patterns found the secrets of S.  A call that fails (arguments,
\* policy, connection, obfuscate without a key) replies with an error that
\* holds no device output, and changes nothing.
Answer(m, S) ==
    /\ phase[m] = "serving"
    /\ S # {}
    /\ launch[m].noObfuscate \/ obfuscationKey[m] # None
    /\ received' = received \cup {ReplyItem(m, s) : s \in S}
    /\ UNCHANGED <<processVars, keyFile, runs, intended>>

\* The client closes stdin, or the process is killed.
Stop(m) ==
    /\ phase[m] # "down"
    /\ Exit(m)
    /\ UNCHANGED <<keyFile, runs, received, intended>>

\* The operator rotates, removes or restores the key file.
EditKeyFile(m, contents) ==
    /\ contents # keyFile[m]
    /\ keyFile' = [keyFile EXCEPT ![m] = contents]
    /\ UNCHANGED <<processVars, runs, received, intended>>

Next ==
    \/ \E m \in Machines, l \in Launches : Start(m, l)
    \/ \E m \in Machines, S \in SUBSET Secrets : Answer(m, S)
    \/ \E m \in Machines, contents \in KeyFiles : EditKeyFile(m, contents)
    \/ \E m \in Machines :
           \/ PrintVersion(m) \/ ConfigureFails(m)
           \/ ServeWithKey(m) \/ KeyFails(m) \/ ServeInClear(m) \/ Stop(m)

Spec == Init /\ [][Next]_vars

-----------------------------------------------------------------------------
Tokens == {i \in received : i.key # None}

\* The same key gives the same tokens in every run and on every machine,
\* whether it came from the variable or from a file, with or without a final
\* newline, and whatever became of the file since.
SameKeySameTokens ==
    \A i, j \in Tokens :
        /\ i.secret = j.secret
        /\ intended[i.run] # None
        /\ intended[i.run] = intended[j.run]
        => i.key = j.key

\* A client is not led to take one secret for two: when a secret it was sent
\* twice has two tokens, the operators gave different keys, or one of the
\* replies and the instructions of its server warn that its tokens are good
\* for one run only.
MismatchExplained ==
    \A i, j \in Tokens :
        i.secret = j.secret /\ i.key # j.key =>
            \/ None \notin {intended[i.run], intended[j.run]}
            \/ i.warned /\ i.instructed
            \/ j.warned /\ j.instructed

\* The warning is true: no other run produces a token that came with it.
WarningIsTrue ==
    \A i, j \in Tokens : i.warned /\ i.run # j.run => i.key # j.key

\* An operator who gave a key does not get a random one, and a reply never
\* comes from a server whose key could not be loaded: a secret in clear, or a
\* key of one run, is in a reply only where that was asked for.
KeyAsGiven ==
    \A m \in Machines :
        phase[m] = "serving" =>
            /\ obfuscationKey[m] = None <=> launch[m].noObfuscate
            /\ obfuscationKey[m] = Random(run[m])
                   <=> ~launch[m].noObfuscate /\ intended[run[m]] = None
=============================================================================
