----------------------------- MODULE MCDelivery -----------------------------
(***************************************************************************)
(* Instances of Delivery for TLC: agency RAW sends to NIA, Gateway B runs  *)
(* with the rules of gateway_b/main.py.                                    *)
(***************************************************************************)
EXTENDS Delivery, TLC

\* Bundles B may load over its restarts: the first one; one exported after RAW's
\* certificate was reissued; the first one with a key file that cannot be read yet.
Listing(tls, pub) ==
    [agencies |-> [a \in {"RAW"} |-> [tls |-> tls, key |-> "fpKey", pub |-> pub]],
     revoked  |-> {"fpOld"}]
OneStore == {Listing("fpTls", "fpKey")}
Stores == {Listing("fpTls", "fpKey"), Listing("fpNew", "fpKey"),
           Listing("fpTls", "unreadable")}

MCRules ==
    << [sender |-> "RAW", recipient |-> "NIA", tlp |-> "tlp:green", action |-> "ALLOW"],
       [sender |-> "RAW", recipient |-> "NIA", tlp |-> "tlp:amber", action |-> "ALLOW"],
       [sender |-> "RAW", recipient |-> "NIA", tlp |-> "tlp:amber+strict", action |-> "DENY"] >>

MCRecipients == {"NIA"}

Good == [decodes |-> TRUE, complete |-> TRUE, sender |-> "RAW", recipient |-> "NIA",
         tlp |-> "tlp:green", peer |-> "none", signer |-> "fpKey",
         inflates |-> TRUE, bundle |-> TRUE, size |-> "small"]
Large    == [Good EXCEPT !.size = "large"]
Oversize == [Good EXCEPT !.size = "oversize"]
Forged   == [Good EXCEPT !.signer = "fpOther"]
Strict   == [Good EXCEPT !.tlp = "tlp:amber+strict"]
Ally     == [Good EXCEPT !.recipient = "ALLY_X"]

\* For two concurrent transactions, and for one with faults.
PairEnvelopes == {Good, Strict}
FaultEnvelopes == {Large, Oversize, Forged, Ally}
TxSymmetry == Permutations(Tx)
=============================================================================
