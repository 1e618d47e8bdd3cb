--------------------------- MODULE InboundProofs ----------------------------
(***************************************************************************)
(* Proofs about Gateway B's decision, for every trust store, every list of *)
(* rules and every envelope.  What the gates promise is not one gate's     *)
(* doing: an ACCEPT needs all of them passed, and a NACK tells that the    *)
(* gates before its own were passed, which is what keeps strangers from    *)
(* learning about policy and payload.                                      *)
(***************************************************************************)
EXTENDS Inbound, TLAPS

\* Of a set of gates that is not empty, one comes first.
LEMMA FirstGate ==
    ASSUME NEW failed \in SUBSET (1..8), failed # {}
    PROVE  LET first == CHOOSE i \in failed : \A j \in failed : i <= j
           IN  first \in failed /\ \A j \in failed : first <= j
<1>1. \E i \in failed : \A j \in failed : i <= j
  <2>1. CASE 1 \in failed  BY <2>1
  <2>2. CASE 1 \notin failed /\ 2 \in failed  BY <2>2
  <2>3. CASE {1, 2} \cap failed = {} /\ 3 \in failed  BY <2>3
  <2>4. CASE {1, 2, 3} \cap failed = {} /\ 4 \in failed  BY <2>4
  <2>5. CASE {1, 2, 3, 4} \cap failed = {} /\ 5 \in failed  BY <2>5
  <2>6. CASE {1, 2, 3, 4, 5} \cap failed = {} /\ 6 \in failed  BY <2>6
  <2>7. CASE {1, 2, 3, 4, 5, 6} \cap failed = {} /\ 7 \in failed  BY <2>7
  <2>8. CASE {1, 2, 3, 4, 5, 6, 7} \cap failed = {}
    <3>1. ASSUME NEW j \in failed  PROVE j = 8
      <4>1. j \notin {1, 2, 3, 4, 5, 6, 7}
        BY <2>8
      <4>2. j \in Nat /\ 1 <= j /\ j <= 8
        OBVIOUS
      <4> QED  BY <4>1, <4>2
    <3>2. 8 \in failed
      BY <3>1
    <3> QED  BY <3>1, <3>2
  <2> QED  BY <2>1, <2>2, <2>3, <2>4, <2>5, <2>6, <2>7, <2>8
<1> QED  BY <1>1

\* Verdict: a NACK is that of a gate the envelope fails and that follows only
\* gates it passes; without a gate that it fails, the envelope is accepted.
LEMMA VerdictOfGates ==
    ASSUME NEW t, NEW r, NEW env
    PROVE  LET failed == FailedGates(t, r, env) IN
           \/ failed = {} /\ Verdict(t, r, env) = "ACCEPT"
           \/ \E i \in failed : /\ \A j \in failed : i <= j
                                /\ Verdict(t, r, env) = GateNack[i]
<1> DEFINE failed == FailedGates(t, r, env)
<1>1. failed \in SUBSET (1..8)
  BY DEF FailedGates
<1>2. CASE failed = {}
  BY <1>2 DEF Verdict
<1>3. CASE failed # {}
  <2> DEFINE first == CHOOSE i \in failed : \A j \in failed : i <= j
  <2>1. first \in failed /\ \A j \in failed : first <= j
    BY <1>1, <1>3, FirstGate
  <2>2. Verdict(t, r, env) = GateNack[first]
    BY <1>3 DEF Verdict
  <2> QED  BY <2>1, <2>2
<1> QED  BY <1>2, <1>3

\* An envelope that fails none of the gates before the policy is authentic: it
\* parses, and certificate, revocation status and signature check out.
LEMMA GatesBeforePolicy ==
    ASSUME NEW t, NEW r, NEW env
    PROVE  LET failed == FailedGates(t, r, env) IN
           /\ 1 \notin failed => ParsesAsEnvelope(env) /\ env.complete /\ env.sender # ""
           /\ {2, 3, 4, 5} \cap failed = {} =>
                /\ KnownSender(t, env) /\ TlsIdentityMatches(t, env)
                /\ NotRevoked(t, env) /\ SignatureValid(t, env)
           /\ 6 \notin failed => PepAllows(r, env)
           /\ 7 \notin failed => env.inflates
           /\ 8 \notin failed => env.bundle
<1> DEFINE failed == FailedGates(t, r, env)
<1>1. 1 \notin failed => ParsesAsEnvelope(env) /\ env.complete /\ env.sender # ""
  BY 1 \in 1..8, Zenon DEF FailedGates
<1>2. 2 \notin failed => KnownSender(t, env)
  BY DEF FailedGates
<1>3. KnownSender(t, env) /\ 3 \notin failed => TlsIdentityMatches(t, env)
  BY DEF FailedGates
<1>4. KnownSender(t, env) /\ 4 \notin failed => NotRevoked(t, env)
  BY DEF FailedGates
<1>5. KnownSender(t, env) /\ 5 \notin failed => SignatureValid(t, env)
  BY DEF FailedGates
<1>6. 6 \notin failed => PepAllows(r, env)
  BY DEF FailedGates
<1>7. 7 \notin failed => env.inflates
  BY DEF FailedGates
<1>8. 8 \notin failed => env.bundle
  BY DEF FailedGates
<1>9. {2, 3, 4, 5} \cap failed = {} =>
          2 \notin failed /\ 3 \notin failed /\ 4 \notin failed /\ 5 \notin failed
  OBVIOUS
<1> HIDE DEF failed
<1>10. /\ 1 \notin failed => ParsesAsEnvelope(env) /\ env.complete /\ env.sender # ""
       /\ {2, 3, 4, 5} \cap failed = {} =>
            /\ KnownSender(t, env) /\ TlsIdentityMatches(t, env)
            /\ NotRevoked(t, env) /\ SignatureValid(t, env)
       /\ 6 \notin failed => PepAllows(r, env)
       /\ 7 \notin failed => env.inflates
       /\ 8 \notin failed => env.bundle
  BY <1>1, <1>2, <1>3, <1>4, <1>5, <1>6, <1>7, <1>8, <1>9, Zenon
<1> QED  BY <1>10, Zenon DEF failed

-----------------------------------------------------------------------------
\* The decision was not taken yet, or it is that of Verdict.
Decided == /\ rules \in Seq([sender : STRING, recipient : STRING, tlp : STRING, action : STRING])
           /\ verdict \in {"none", Verdict(ts, rules, e)}

\* Every state of the decision has it taken as process_transaction takes it.
LEMMA DecidedAlways == Spec => []Decided
<1>1. Init => Decided
  BY RuleListAssumption DEF Init, Decided
<1>2. Decided /\ [Decide]_caseVars => Decided'
  BY DEF Decided, Decide, caseVars
<1> QED  BY <1>1, <1>2, PTL DEF Spec

\* process_transaction accepts a bundle only when every gate was passed: the
\* sender's own certificate, nothing revoked, the key on file signed it, and the
\* payload is a bundle.
THEOREM AcceptedVouchedFor == Spec => []AcceptedIsVouchedFor
<1>1. Decided => AcceptedIsVouchedFor
  <2> SUFFICES ASSUME Decided, verdict = "ACCEPT"
               PROVE  /\ e.decodes /\ e.complete /\ e.inflates /\ e.bundle
                      /\ \E a \in DOMAIN ts.agencies :
                            /\ e.sender = a
                            /\ ts.agencies[a].tls = e.peer /\ ts.agencies[a].pub = e.signer
                            /\ {e.peer, ts.agencies[a].key} \cap ts.revoked = {}
    BY DEF AcceptedIsVouchedFor
  <2>1. Verdict(ts, rules, e) = "ACCEPT"
    BY DEF Decided
  <2>2. \A i \in 1..8 : GateNack[i] # "ACCEPT"
    BY DEF GateNack
  <2>3. FailedGates(ts, rules, e) \subseteq 1..8
    BY DEF FailedGates
  <2>4. FailedGates(ts, rules, e) = {}
    BY <2>1, <2>2, <2>3, VerdictOfGates, Zenon
  <2>5. /\ ParsesAsEnvelope(e) /\ e.complete /\ KnownSender(ts, e)
        /\ TlsIdentityMatches(ts, e) /\ NotRevoked(ts, e) /\ SignatureValid(ts, e)
        /\ e.inflates /\ e.bundle
    BY <2>4, GatesBeforePolicy
  <2> QED
    BY <2>5 DEF ParsesAsEnvelope, KnownSender, TlsIdentityMatches, NotRevoked, SignatureValid
<1> QED  BY <1>1, DecidedAlways, PTL

\* InboundPEP.evaluate denies by default and its first decisive rule wins, for
\* every list of rules it may be given.
THEOREM PolicyClosed == Spec => []PolicyFailsClosed
<1>1. Decided => PolicyFailsClosed
  <2> SUFFICES ASSUME Decided, verdict = "ACCEPT"
               PROVE  \E i \in DOMAIN rules :
                        /\ rules[i].action = "ALLOW" /\ RuleMatches(rules[i], e)
                        /\ ~\E j \in DOMAIN rules :
                              j < i /\ rules[j].action = "DENY" /\ RuleMatches(rules[j], e)
    BY DEF PolicyFailsClosed
  <2>1. Verdict(ts, rules, e) = "ACCEPT"
    BY DEF Decided
  <2>2. \A i \in 1..8 : GateNack[i] # "ACCEPT"
    BY DEF GateNack
  <2>3. FailedGates(ts, rules, e) \subseteq 1..8
    BY DEF FailedGates
  <2>4. FailedGates(ts, rules, e) = {}
    BY <2>1, <2>2, <2>3, VerdictOfGates, Zenon
  <2>5. PepAllows(rules, e)
    BY <2>4, GatesBeforePolicy
  <2>6. PICK i \in DOMAIN rules :
            /\ Decisive(rules[i], e) /\ rules[i].action = "ALLOW"
            /\ \A j \in 1..(i-1) : ~Decisive(rules[j], e)
    BY <2>5 DEF PepAllows
  <2>7. \A j \in DOMAIN rules : j < i => j \in 1..(i-1)
    BY DEF Decided
  <2>8. ~\E j \in DOMAIN rules : j < i /\ rules[j].action = "DENY" /\ RuleMatches(rules[j], e)
    BY <2>6, <2>7 DEF Decisive
  <2> QED  BY <2>6, <2>8 DEF Decisive
<1> QED  BY <1>1, DecidedAlways, PTL

\* The order of the gates: a peer that is not authenticated is never told what
\* policy or payload would have said.
THEOREM StrangersToldNothing == Spec => []StrangersLearnNothing
<1> DEFINE failed == FailedGates(ts, rules, e)
<1> DEFINE authentic == /\ KnownSender(ts, e) /\ TlsIdentityMatches(ts, e)
                        /\ NotRevoked(ts, e) /\ SignatureValid(ts, e)
<1>1. ASSUME Decided, verdict \in {"POLICY_DENIED", "MALFORMED"}
      PROVE  \/ authentic
             \/ verdict = "MALFORMED" /\ ~(ParsesAsEnvelope(e) /\ e.complete /\ e.sender # "")
  <2>1. Verdict(ts, rules, e) = verdict
    BY <1>1 DEF Decided
  <2>2. failed \subseteq 1..8
    BY DEF FailedGates
  <2>3. \E i \in failed : (\A j \in failed : i <= j) /\ verdict = GateNack[i]
    <3>1. verdict # "ACCEPT"
      BY <1>1
    <3> QED  BY <2>1, <3>1, VerdictOfGates, Zenon
  <2>4. PICK i \in failed : (\A j \in failed : i <= j) /\ verdict = GateNack[i]
    BY <2>3
  <2>5. i \in {1, 6, 7, 8}
    BY <1>1, <2>2, <2>4 DEF GateNack
  <2>6. CASE i = 1
    <3>1. verdict = "MALFORMED"
      BY <2>4, <2>6 DEF GateNack
    <3>2. 1 \in FailedGates(ts, rules, e)
      BY <2>6
    <3>3. 1 # 2 /\ 1 # 3 /\ 1 # 4 /\ 1 # 5 /\ 1 # 6 /\ 1 # 7 /\ 1 # 8
      OBVIOUS
    <3>4. ~(ParsesAsEnvelope(e) /\ e.complete /\ e.sender # "")
      BY <3>2, <3>3, Zenon DEF FailedGates
    <3> QED  BY <3>1, <3>4
  <2>7. CASE i \in {6, 7, 8}
    <3>1. {2, 3, 4, 5} \cap failed = {}
      BY <2>4, <2>7
    <3> QED  BY <3>1, GatesBeforePolicy
  <2> QED  BY <2>5, <2>6, <2>7
<1>2. authentic => /\ e.sender \in DOMAIN ts.agencies
                   /\ ts.agencies[e.sender].tls = e.peer
                   /\ ts.agencies[e.sender].pub = e.signer
                   /\ {e.peer, ts.agencies[e.sender].key} \cap ts.revoked = {}
  BY DEF KnownSender, TlsIdentityMatches, NotRevoked, SignatureValid
<1>3. ~(ParsesAsEnvelope(e) /\ e.complete /\ e.sender # "") =>
          ~e.decodes \/ ~e.complete \/ e.sender = "" \/ e.tlp \notin TlpMarking \cup {""}
  BY DEF ParsesAsEnvelope, TlpOf, TlpMarking
<1> HIDE DEF authentic
<1>4. Decided => StrangersLearnNothing
  <2>1. "MALFORMED" # "POLICY_DENIED"
    OBVIOUS
  <2> QED  BY <1>1, <1>2, <1>3, <2>1 DEF StrangersLearnNothing
<1> QED  BY <1>4, DecidedAlways, PTL
=============================================================================
