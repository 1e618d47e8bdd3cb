------------------------------ MODULE Inbound -------------------------------
(***************************************************************************)
(* Gateway B's decision on an envelope that it receives with some trust    *)
(* store loaded and some rules configured: Init picks one of each, the     *)
(* only step takes the decision.                                           *)
(***************************************************************************)
EXTENDS InboundVerdict

CONSTANTS TrustStores,  \* the trust stores Gateway B may have loaded
          RuleLists,    \* the rule lists it may be configured with
          Envelopes     \* the envelopes that may reach it

\* The constructor of InboundPEP takes a list of rules.
ASSUME RuleListAssumption ==
    RuleLists \subseteq Seq([sender : STRING, recipient : STRING, tlp : STRING, action : STRING])

VARIABLES ts, rules, e, verdict

caseVars == <<ts, rules, e, verdict>>

Init ==
    /\ ts \in TrustStores /\ rules \in RuleLists /\ e \in Envelopes
    /\ verdict = "none"

Decide ==
    /\ verdict = "none"
    /\ verdict' = Verdict(ts, rules, e)
    /\ UNCHANGED <<ts, rules, e>>

Spec == Init /\ [][Decide]_caseVars

\* An accepted bundle is vouched for: it came over the sender's own TLS
\* certificate, neither that certificate nor the listed signing key is revoked,
\* the key on file for the sender signed it, and the payload is a bundle.
AcceptedIsVouchedFor ==
    verdict = "ACCEPT" =>
        /\ e.decodes /\ e.complete /\ e.inflates /\ e.bundle
        /\ \E a \in DOMAIN ts.agencies :
              /\ e.sender = a
              /\ ts.agencies[a].tls = e.peer /\ ts.agencies[a].pub = e.signer
              /\ {e.peer, ts.agencies[a].key} \cap ts.revoked = {}

\* Inbound policy fails closed and the first decisive rule wins: a bundle is
\* accepted only if some ALLOW rule covers it, and a DENY rule that covers it
\* and stands before every such ALLOW rule always keeps it out.
PolicyFailsClosed ==
    verdict = "ACCEPT" =>
        \E i \in DOMAIN rules :
            /\ rules[i].action = "ALLOW" /\ RuleMatches(rules[i], e)
            /\ ~\E j \in DOMAIN rules :
                  j < i /\ rules[j].action = "DENY" /\ RuleMatches(rules[j], e)

\* A peer whose certificate, revocation status or signature does not check out
\* learns nothing of the policy or of the payload: the NACKs of the later gates
\* go to authenticated senders only, and MALFORMED to the others only for an
\* envelope that does not parse or lacks a field.
StrangersLearnNothing ==
    LET authentic == /\ e.sender \in DOMAIN ts.agencies
                     /\ ts.agencies[e.sender].tls = e.peer
                     /\ ts.agencies[e.sender].pub = e.signer
                     /\ {e.peer, ts.agencies[e.sender].key} \cap ts.revoked = {} IN
    /\ verdict = "POLICY_DENIED" => authentic
    /\ verdict = "MALFORMED" /\ ~authentic =>
          ~e.decodes \/ ~e.complete \/ e.sender = "" \/ e.tlp \notin TlpMarking \cup {""}
=============================================================================
