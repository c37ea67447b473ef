---------------------------- MODULE MCServerRuns ----------------------------
(***************************************************************************)
(* Two machines, two keys and three server starts: enough for a client to  *)
(* compare replies of two runs that overlap with those of a later one, and *)
(* for a key file to change between them.                                  *)
(***************************************************************************)
EXTENDS ServerRuns

CONSTANTS m1, m2, ka, kb, s1, short, blank, missing, none

Text(core, padded) == [core |-> core, padded |-> padded]

\* A start without any setting but a home directory.
Bare == [boolEnv |-> TRUE, version |-> FALSE, skipHostKeys |-> FALSE, knownHosts |-> "blank",
         home |-> TRUE, noObfuscate |-> FALSE, key |-> Text(blank, TRUE), keyFile |-> FALSE]

\* Every way to give a key, or not to, and every way startup gives up.
StartSettings ==
    {Bare,
     [Bare EXCEPT !.key = Text(ka, FALSE)],
     [Bare EXCEPT !.key = Text(short, TRUE)],
     [Bare EXCEPT !.keyFile = TRUE],
     [Bare EXCEPT !.key = Text(ka, TRUE), !.keyFile = TRUE],
     [Bare EXCEPT !.noObfuscate = TRUE, !.keyFile = TRUE],
     [Bare EXCEPT !.home = FALSE],
     [Bare EXCEPT !.boolEnv = FALSE],
     [Bare EXCEPT !.version = TRUE]}

Files == {Text(ka, TRUE), Text(kb, FALSE), Text(blank, TRUE), missing}
=============================================================================
