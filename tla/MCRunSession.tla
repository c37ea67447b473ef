----------------------------- MODULE MCRunSession -----------------------------
(***************************************************************************)
(* Instances of RunSession for TLC.                                        *)
(***************************************************************************)
EXTENDS RunSession

CONSTANTS h1, h2, k1, k2

MCHosts == {h1, h2}
MCKeys == {k1, k2}

Holding(lines, torn) == [exists |-> TRUE, lines |-> lines, torn |-> torn]

Revokes(k) == [marker |-> "revoked", covers |-> {}, literal |-> {}, key |-> k]

\* Missing, truncated, whole, rekeyed, revoking and torn.
ChangingFiles ==
    {NoFile,
     EmptyFile,
     Holding({knownHostsLine(h1, k1), knownHostsLine(h2, k2)}, FALSE),
     Holding({knownHostsLine(h1, k2)}, FALSE),
     Holding({knownHostsLine(h1, k1), knownHostsLine(h1, k2), Revokes(k1)}, FALSE),
     Holding({knownHostsLine(h2, k1)}, TRUE)}
=============================================================================
