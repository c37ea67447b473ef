---------------------------- MODULE MCTrustHostKey ----------------------------
(***************************************************************************)
(* Instances of TrustHostKey for TLC: the files and lines to start from.   *)
(***************************************************************************)
EXTENDS TrustHostKey, TLC

CONSTANTS h1, h2, k1, k2

MCHosts == {h1, h2}
MCKeys == {k1, k2}

\* What ssh-keyscan writes for one host, and for a host whose name it hashes.
Plain(h, k) == knownHostsLine(h, k)
Hashed(h, k) == [marker |-> "none", covers |-> {h}, literal |-> {}, key |-> k]

\* One line for both hosts: "h1,h2 key", and "* key" behind @revoked.
Shared(k) == [marker |-> "none", covers |-> {h1, h2}, literal |-> {h1, h2}, key |-> k]
RevokedEverywhere(k) == [marker |-> "revoked", covers |-> {h1, h2}, literal |-> {}, key |-> k]
RevokedFor(h, k) == [marker |-> "revoked", covers |-> {h}, literal |-> {h}, key |-> k]

Holding(lines) == [exists |-> TRUE, lines |-> lines, torn |-> FALSE]

\* Files of the form OpenSSH writes with HashKnownHosts off.
PlainFiles ==
    {NoFile, EmptyFile,
     Holding({Plain(h1, k1)}),
     Holding({Plain(h1, k1), Plain(h2, k2)}),
     Holding({Plain(h1, k1), Plain(h1, k2), Plain(h2, k1)})}

RevokingFiles ==
    {Holding({RevokedEverywhere(k2), Plain(h1, k1)}),
     Holding({RevokedEverywhere(k1), Plain(h1, k1), Plain(h2, k2)})}

SimpleFiles == PlainFiles \cup RevokingFiles

HashedFiles == {Holding({Hashed(h1, k1), Plain(h2, k1)})}
SharedFiles == {Holding({Shared(k1)})}
LiteralRevocationFiles == {Holding({RevokedFor(h1, k1), Plain(h2, k2)})}

TwoFiles == {NoFile, Holding({Plain(h1, k1), Hashed(h2, k1)})}

NoLines == {}
OneLine == {Plain(h2, k2)}

\* Calls are interchangeable.
CallSymmetry == Permutations(Calls)

\* What the steps, and Provenance, read.  TypeOK reads the rest too: under
\* this view it is checked on one state of each class.
WithoutReplies ==
    <<options, file, device, pc, req, presented, status, content, confirmed>>

\* What the steps read, and the properties of calls in turn.
WithoutRecords ==
    <<options, file, device, pc, req, presented, status, content, ideal>>
=============================================================================
