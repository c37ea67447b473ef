------------------------------ MODULE TrustStore ------------------------------
(***************************************************************************)
(* What trust_host_key promises its caller, without files or interleavings: *)
(* a store of (host, key) pairs that a confirmed call changes in one step, *)
(* for its own host only.  A host without an entry gets the presented key; *)
(* a host with one keeps it unless the call replaces it, and then the      *)
(* presented key is the only one left.                                     *)
(***************************************************************************)
CONSTANTS Hosts, Keys

VARIABLE trusted

TypeOK == trusted \subseteq Hosts \X Keys

KeysOf(h) == {k \in Keys : <<h, k>> \in trusted}

Init == trusted \in SUBSET (Hosts \X Keys)

Add(h, k) ==
    /\ KeysOf(h) = {}
    /\ trusted' = trusted \cup {<<h, k>>}

Replace(h, k) ==
    /\ k \notin KeysOf(h)
    /\ trusted' = {p \in trusted : p[1] # h} \cup {<<h, k>>}

Next == \E h \in Hosts, k \in Keys : Add(h, k) \/ Replace(h, k)

Spec == Init /\ [][Next]_trusted
=============================================================================
