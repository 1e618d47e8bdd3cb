----------------------------- MODULE MCInbound ------------------------------
(***************************************************************************)
(* Inbound for TLC: a bounded set of envelopes, trust stores and rule      *)
(* lists.                                                                  *)
(***************************************************************************)
EXTENDS Inbound

\* The rules of gateway_b/main.py.
DeployedRules ==
    << [sender |-> "RAW", recipient |-> "NIA", tlp |-> "tlp:green", action |-> "ALLOW"],
       [sender |-> "RAW", recipient |-> "NIA", tlp |-> "tlp:amber", action |-> "ALLOW"],
       [sender |-> "RAW", recipient |-> "NIA", tlp |-> "tlp:amber+strict", action |-> "DENY"] >>

\* Lists with wildcards, an unknown action and rules that shadow each other.
AllowAll == [sender |-> "*", recipient |-> "*", tlp |-> "*", action |-> "ALLOW"]
DenyStrict == [AllowAll EXCEPT !.tlp = "tlp:amber+strict", !.action = "DENY"]
AuditRaw == [AllowAll EXCEPT !.sender = "RAW", !.action = "AUDIT"]

MCRuleLists == {DeployedRules, << >>, <<AllowAll>>, <<DenyStrict, AllowAll>>,
                <<AllowAll, DenyStrict>>, <<AuditRaw, DenyStrict, AllowAll>>, <<AuditRaw>>}

\* One agency, one whose key file was replaced after the export, two agencies.
RawEntry == [tls |-> "fpTls", key |-> "fpKey", pub |-> "fpKey"]
IbEntry == [tls |-> "fpTls2", key |-> "fpKey2", pub |-> "fpKey2"]

MCTrustStores ==
    [agencies : {[a \in {"RAW"} |-> RawEntry],
                 [a \in {"RAW"} |-> [RawEntry EXCEPT !.pub = "fpKey2"]],
                 [a \in {"RAW", "IB"} |-> IF a = "RAW" THEN RawEntry ELSE IbEntry]},
     revoked  : SUBSET {"fpTls", "fpKey"}]

MCEnvelopes ==
    [decodes : BOOLEAN, complete : BOOLEAN, sender : {"RAW", "IB", ""},
     recipient : {"NIA", "ALLY_X"}, tlp : TlpMarking \cup {"", "tlp:red"},
     peer : {"fpTls", "fpTls2"}, signer : {"fpKey", "fpKey2"},
     inflates : BOOLEAN, bundle : {TRUE}, size : {"small"}]
    \cup [decodes : {TRUE}, complete : {TRUE}, sender : {"RAW"}, recipient : {"NIA"},
          tlp : {"tlp:green"}, peer : {"fpTls"}, signer : {"fpKey"},
          inflates : {TRUE}, bundle : {FALSE}, size : {"small"}]
=============================================================================
