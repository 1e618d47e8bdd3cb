------------------------------- MODULE MCTrust ------------------------------
(***************************************************************************)
(* Trust for TLC: the two key types and the two agencies of                *)
(* bootstrap_pki.py, RAW sending, and an inbound rule that lets its        *)
(* bundles pass.                                                           *)
(***************************************************************************)
EXTENDS Trust

MCSuites == <<"mldsa", "ecdsa">>
MCAgencies == <<"RAW", "NIA">>
MCExports == {{"RAW", "NIA"}, {"NIA"}}
MCRules == << [sender |-> "RAW", recipient |-> "NIA", tlp |-> "tlp:green", action |-> "ALLOW"] >>
=============================================================================
