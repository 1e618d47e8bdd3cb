--------------------------- MODULE InboundVerdict ---------------------------
(***************************************************************************)
(* Gateway B's decision on one envelope: the checks that                   *)
(* GatewayProtocol.process_transaction makes, in the order it makes them,  *)
(* between the protobuf decode and the hand-over to the ingestor.  None of *)
(* them awaits, so Gateway B takes the decision in one step.               *)
(*                                                                         *)
(* An envelope is abstracted to what the checks can tell apart:            *)
(*   decodes   ParseFromString succeeds                                    *)
(*   complete  id, signature and compressed bundle are all non-empty       *)
(*   sender    sender_id, "" when the field is empty                       *)
(*   recipient recipient_id                                                *)
(*   tlp       the raw proto string, "" when the field is empty            *)
(*   peer      fingerprint of the certificate the TLS peer presented       *)
(*   signer    fingerprint of the key that made the signature over the     *)
(*             compressed bytes (any other value: not a valid signature)   *)
(*   inflates  zlib.decompress succeeds                                    *)
(*   bundle    the JSON has type "bundle" and an "objects" member          *)
(*   size      how the frame compares with the transport's buffers and     *)
(*             with the codec's limit (Delivery.tla uses it)               *)
(***************************************************************************)
EXTENDS Integers, Sequences

\* TlpMarking, the values the enumeration accepts.
TlpMarking == {"tlp:green", "tlp:amber", "tlp:amber+strict"}

\* NackReason as process_transaction uses it before the ingestor runs.
VettingNack == {"MALFORMED", "UNKNOWN_SENDER", "IDENTITY_MISMATCH",
                "REVOKED_CERT", "SIG_INVALID", "POLICY_DENIED"}

\* from_proto: an empty marking becomes GREEN, any other string must be a
\* member of the enumeration (else EnvelopeError).
TlpOf(e) == IF e.tlp = "" THEN "tlp:green" ELSE e.tlp
ParsesAsEnvelope(e) == e.decodes /\ TlpOf(e) \in TlpMarking

-----------------------------------------------------------------------------
\* InboundPEP.evaluate.  A rule matches when each of its three fields is "*"
\* or the envelope's value; a matching rule whose action is neither ALLOW nor
\* DENY is passed over; no decisive rule means deny.
FieldMatches(field, value) == field = "*" \/ field = value

RuleMatches(rule, e) ==
    /\ FieldMatches(rule.sender, e.sender)
    /\ FieldMatches(rule.recipient, e.recipient)
    /\ FieldMatches(rule.tlp, TlpOf(e))

Decisive(rule, e) == RuleMatches(rule, e) /\ rule.action \in {"ALLOW", "DENY"}

\* Mutated form: the last decisive rule wins.
PepAllowsLastMatch(rules, e) ==
    \E i \in DOMAIN rules :
        /\ Decisive(rules[i], e) /\ rules[i].action = "ALLOW"
        /\ \A j \in (i+1)..Len(rules) : ~Decisive(rules[j], e)

PepAllows(rules, e) ==
    \E i \in DOMAIN rules :
        /\ Decisive(rules[i], e) /\ rules[i].action = "ALLOW"
        /\ \A j \in 1..(i-1) : ~Decisive(rules[j], e)

-----------------------------------------------------------------------------
\* A loaded trust store.  agencies maps an agency id to the listed fingerprint of
\* its TLS certificate (tls), the listed fingerprint of its payload signing key
\* (key) and the fingerprint of the key in the file that entry points to (pub),
\* as MLDSAVerifier read it: nothing compares the last two.  revoked is the set
\* of fingerprints TrustStore.load took from the revocation list.
KnownSender(ts, e) == e.sender \in DOMAIN ts.agencies
TlsIdentityMatches(ts, e) == ts.agencies[e.sender].tls = e.peer
\* Mutated form: only the certificate is looked up.
NotRevokedCertOnly(ts, e) == e.peer \notin ts.revoked

NotRevoked(ts, e) ==
    /\ e.peer \notin ts.revoked
    /\ ts.agencies[e.sender].key \notin ts.revoked

\* Mutated form: the result of the verification is not looked at.
SignatureIgnored(ts, e) == e.sender \in DOMAIN ts.agencies

SignatureValid(ts, e) == ts.agencies[e.sender].pub = e.signer

\* The NACKs of the gates of process_transaction, in source order.
GateNack == <<"MALFORMED", "UNKNOWN_SENDER", "IDENTITY_MISMATCH", "REVOKED_CERT",
              "SIG_INVALID", "POLICY_DENIED", "MALFORMED", "MALFORMED">>

\* The gates that e does not pass.  A gate that looks the agency up is only
\* reached for a known sender.
FailedGates(ts, rules, e) ==
    LET known == KnownSender(ts, e) IN
    {i \in 1..8 :
        \/ i = 1 /\ ~(ParsesAsEnvelope(e) /\ e.complete /\ e.sender # "")
        \/ i = 2 /\ ~known
        \/ i = 3 /\ known /\ ~TlsIdentityMatches(ts, e)
        \/ i = 4 /\ known /\ ~NotRevoked(ts, e)
        \/ i = 5 /\ known /\ ~SignatureValid(ts, e)
        \/ i = 6 /\ ~PepAllows(rules, e)
        \/ i = 7 /\ ~e.inflates
        \/ i = 8 /\ ~e.bundle}

\* Mutated form: the policy is consulted before the sender is authenticated.
VerdictPolicyFirst(ts, rules, e) ==
    LET failed == FailedGates(ts, rules, e)
        rank(i) == IF i = 6 THEN 2 ELSE IF i \in 2..5 THEN i + 1 ELSE i IN
    IF failed = {} THEN "ACCEPT"
    ELSE GateNack[CHOOSE i \in failed : \A j \in failed : rank(i) <= rank(j)]

\* The outcome of the decision: the NACK of the first gate that fails, or
\* "ACCEPT" when the bundle goes on to the ingestor.
Verdict(ts, rules, e) ==
    LET failed == FailedGates(ts, rules, e) IN
    IF failed = {} THEN "ACCEPT"
    ELSE GateNack[CHOOSE i \in failed : \A j \in failed : i <= j]
=============================================================================
