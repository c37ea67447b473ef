--------------------------- MODULE MCHostKeySystem ----------------------------
(***************************************************************************)
(* Instances of HostKeySystem for TLC.                                     *)
(***************************************************************************)
EXTENDS HostKeySystem

CONSTANTS h1, h2, k1, k2

MCHosts == {h1, h2}
MCKeys == {k1, k2}

Holding(lines) == [exists |-> TRUE, lines |-> lines, torn |-> FALSE]

\* One host known, one not.
OneKnown == {Holding({knownHostsLine(h1, k1)})}

NoLines == {}

\* What the steps read: shown and outcome are reply text only.
WithoutReplies ==
    <<options, file, device, pc, req, presented, status, content, confirmed,
      ideal, runPc, runHost, snapshot, accepted, methods, agentConn,
      sent, seen>>
=============================================================================
