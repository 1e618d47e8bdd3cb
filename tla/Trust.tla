------------------------------- MODULE Trust --------------------------------
(***************************************************************************)
(* The life of the trust artifacts: scripts/bootstrap_pki.py and the       *)
(* qstie-ca commands write certificates, keys, trust bundles and the       *)
(* revocation list on a shared volume, file after file and each in place;  *)
(* the gateways read them when they start; Gateway B decides on Gateway    *)
(* A's bundles with what it read then, and with the public keys its        *)
(* verifier caches.  A command or the bootstrap may die at any point, and  *)
(* operators revoke while other commands run: no file is locked.           *)
(*                                                                         *)
(* Every certificate or key pair that is generated gets the next serial    *)
(* number, which also stands for its fingerprint: a certificate or public  *)
(* key belongs to a private key when their serial numbers are the same.    *)
(* A file's content is a set: the serial number of the artifact, the lines *)
(* of a bundle.  A file that was opened for writing and not yet written is *)
(* empty.                                                                  *)
(***************************************************************************)
EXTENDS InboundVerdict, FiniteSets

CONSTANTS Suites,    \* the key types of the bootstrap, in its order
          Agencies,  \* agencies of the trust bundle, in the order of the bootstrap
          Sender,    \* the agency Gateway A runs for
          Receiver,  \* the agency Gateway B runs for
          Exports,   \* the sets of agencies an operator names in an export
          Operators, \* who gives revoke commands, besides the bootstrap
          Suspects,  \* the agencies whose certificates they revoke
          MaxOps,    \* bound on commands given by hand and on bootstrap runs
          MaxDeaths, \* bound on commands and bootstrap runs that die
          Rules      \* Gateway B's inbound rules

Suite == {Suites[i] : i \in DOMAIN Suites}
Agency == {Agencies[i] : i \in DOMAIN Agencies}

\* The bootstrap's key types and agencies are lists without repetition, and none
\* has a name that another directory has.
ASSUME TrustAssumption ==
    /\ Suites \in Seq(STRING) /\ Agencies \in Seq(STRING \ {"ca"})
    /\ \A i, j \in DOMAIN Suites : Suites[i] = Suites[j] => i = j
    /\ \A i, j \in DOMAIN Agencies : Agencies[i] = Agencies[j] => i = j
    /\ Suites # << >> /\ Sender \in Agency /\ Receiver \in Agency
    /\ Exports \subseteq (SUBSET Agency) \ {{}} /\ "bootstrap" \notin Operators
    /\ Suspects \subseteq Agency
    /\ {MaxOps, MaxDeaths} \subseteq Nat

\* The files: of a suite's root CA, of an agency, and a suite's trust bundle.
Root(s, part) == <<s, "ca", part>>
Gateway(s, a, part) == <<s, a, part>>
TrustBundle(s) == <<s, "ca", "trust_store.yaml">>

File == {Root(s, part) : s \in Suite, part \in {"crt", "key"}}
        \cup {Gateway(s, a, part) : s \in Suite, a \in Agency, part \in {"crt", "key", "pem", "pub"}}
        \cup {TrustBundle(s) : s \in Suite}

Revoker == Operators \cup {"bootstrap"}

VARIABLES
    exists,   \* the files there are
    disk,     \* [File -> content, {} for a file that is empty or not there]
    signedBy, \* the serial numbers given out: who signed them, 0 for no one
    todo,     \* what the command under way has still to write
    opened,   \* the first file of todo is open, hence empty
    boot,     \* next command of a bootstrap under way, 0 when none is
    gwA,      \* Gateway A: its suite and the signing key it loaded
    gwB,      \* Gateway B: what it loaded
    cache,    \* [Agency -> public key MLDSAVerifier has cached, or 0]
    last,     \* the last decision of Gateway B and what it was taken on
    skipped,  \* the last bootstrap found the PKI "already bootstrapped"
    crl,      \* revocation_list.yaml: whether it is there, and its entries
    revoke,   \* [Revoker -> the revoke command under way, and its list]
    revoked,  \* for the properties: what revoke commands that ended have saved
    atRisk,   \* for the properties: the entries that an overlap or a death may
              \* have taken out of the file
    ops,      \* commands and bootstrap runs so far
    deaths    \* and those of them that died

pki == <<exists, disk, signedBy>>
command == <<todo, opened>>
serving == <<gwA, gwB, cache, last>>
revocations == <<crl, revoke, revoked, atRisk>>
vars == <<pki, command, boot, serving, skipped, revocations, ops, deaths>>

Init ==
    /\ exists = {} /\ disk = [f \in File |-> {}] /\ signedBy = << >>
    /\ todo = << >> /\ opened = FALSE
    /\ boot = 0
    /\ gwA = [up |-> FALSE, suite |-> Suites[1], key |-> 0]
    /\ gwB = [up |-> FALSE, suite |-> Suites[1], agencies |-> {}, revoked |-> {},
              told |-> {}, crt |-> 0, root |-> 0]
    /\ cache = [a \in Agency |-> 0]
    /\ last = [verdict |-> "none", peer |-> 0, signer |-> 0, listed |-> {}, told |-> {}]
    /\ skipped = FALSE
    /\ crl = [there |-> FALSE, entries |-> {}]
    /\ revoke = [r \in Revoker |-> [pc |-> "none", list |-> {}]]
    /\ revoked = {} /\ atRisk = {}
    /\ ops = 0 /\ deaths = 0

\* What loading a certificate or key file yields; 0 stands for the exception
\* that an empty or missing file raises.
Load(f) == IF disk[f] = {} THEN 0 ELSE CHOOSE n \in disk[f] : TRUE
Readable(f) == Load(f) # 0

-----------------------------------------------------------------------------
(* qstie-ca.  A command reads what it needs and generates, then it writes. *)

Idle == todo = << >>
Write(f, content) == [file |-> f, content |-> content]
Fresh == Len(signedBy) + 1

\* init_root signs with the new key itself, issue_leaf_cert with the CA's.
SelfSigned == signedBy' = Append(signedBy, Fresh)
SignedWith(caKey) == signedBy' = Append(signedBy, caKey)

InitRoot(s) ==
    /\ SelfSigned
    /\ todo' = <<Write(Root(s, "crt"), {Fresh}), Write(Root(s, "key"), {Fresh})>>

\* Mutated form: a private key that is there is not written again.
IssueGatewayCertKeepsKey(s, a) ==
    /\ Readable(Root(s, "crt")) /\ Readable(Root(s, "key"))
    /\ SignedWith(Load(Root(s, "key")))
    /\ todo' = <<Write(Gateway(s, a, "crt"), {Fresh})>> \o
               (IF Gateway(s, a, "key") \in exists THEN << >>
                ELSE <<Write(Gateway(s, a, "key"), {Fresh})>>)

\* Exits when there is no root, or none that can be loaded.
IssueGatewayCert(s, a) ==
    /\ Readable(Root(s, "crt")) /\ Readable(Root(s, "key"))
    /\ SignedWith(Load(Root(s, "key")))
    /\ todo' = <<Write(Gateway(s, a, "crt"), {Fresh}), Write(Gateway(s, a, "key"), {Fresh})>>

IssueSigningKey(s, a) ==
    /\ SignedWith(0)
    /\ todo' = <<Write(Gateway(s, a, "pem"), {Fresh}), Write(Gateway(s, a, "pub"), {Fresh})>>

\* TrustBundleEntry: the fingerprints of what is on disk at the export.
BundleEntry(s, a) ==
    [agency |-> a, tls |-> Load(Gateway(s, a, "crt")), key |-> Load(Gateway(s, a, "pub"))]

\* Exits with "Missing artifacts", or an exception, before it writes.
ExportTrustBundle(s, agencies) ==
    /\ \A a \in agencies : Readable(Gateway(s, a, "crt")) /\ Readable(Gateway(s, a, "pub"))
    /\ todo' = <<Write(TrustBundle(s), {BundleEntry(s, a) : a \in agencies})>>
    /\ UNCHANGED signedBy

\* open(path, 'w') makes the file, or empties it; the content follows when it is
\* closed.
OpenFile ==
    /\ ~Idle /\ ~opened
    /\ opened' = TRUE
    /\ exists' = exists \cup {Head(todo).file}
    /\ disk' = [disk EXCEPT ![Head(todo).file] = {}]
    /\ UNCHANGED <<signedBy, todo, boot, serving, skipped, revocations, ops, deaths>>

WriteFile ==
    /\ opened
    /\ disk' = [disk EXCEPT ![Head(todo).file] = Head(todo).content]
    /\ todo' = Tail(todo)
    /\ opened' = FALSE
    /\ UNCHANGED <<exists, signedBy, boot, serving, skipped, revocations, ops, deaths>>

\* An operator gives a command by hand, other than revoke.
Operator ==
    /\ Idle /\ boot = 0 /\ ops < MaxOps
    /\ \E s \in Suite :
          \/ InitRoot(s)
          \/ \E agencies \in Exports : ExportTrustBundle(s, agencies)
          \/ \E a \in Agency : IssueGatewayCert(s, a) \/ IssueSigningKey(s, a)
    /\ ops' = ops + 1
    /\ UNCHANGED <<exists, disk, opened, boot, serving, skipped, revocations, deaths>>

-----------------------------------------------------------------------------
(* qstie-ca revoke: RevocationList.load, add and save.                     *)

\* Part of an entry of a longer list that another revoke wrote: load() fails on
\* it.  TrustStore.load, which looks for another key, may or may not.
Garbled == <<"garbled", 0>>

\* load: the entries under the key "revoked", none of a missing or empty file.
ListedRevocations == {e \in crl.entries : e[1] = "revoked"}

OthersRevoke(r) == \E q \in Revoker \ {r} : revoke[q].pc # "none"

\* Mutated form: the list is written without the entries it had.
StartRevokeAnew(r, fp) ==
    /\ revoke[r].pc = "none" /\ Garbled \notin crl.entries
    /\ revoke' = [revoke EXCEPT ![r] = [pc |-> "loaded", list |-> {<<"revoked", fp>>}]]
    /\ atRisk' = IF OthersRevoke(r) THEN revoked ELSE atRisk
    /\ UNCHANGED <<crl, revoked>>

\* load and add.
StartRevoke(r, fp) ==
    /\ revoke[r].pc = "none" /\ Garbled \notin crl.entries
    /\ revoke' = [revoke EXCEPT ![r] =
                     [pc |-> "loaded", list |-> ListedRevocations \cup {<<"revoked", fp>>}]]
    /\ atRisk' = IF OthersRevoke(r) THEN revoked ELSE atRisk
    /\ UNCHANGED <<crl, revoked>>

\* save opens the file, which makes or empties it.
OpenList(r) ==
    /\ revoke[r].pc = "loaded"
    /\ revoke' = [revoke EXCEPT ![r].pc = "open"]
    /\ crl' = [there |-> TRUE, entries |-> {}]
    /\ UNCHANGED <<pki, command, boot, serving, skipped, revoked, atRisk, ops, deaths>>

\* save writes and closes it.  If another revoke has written since it was opened,
\* what that one wrote beyond the end of this list remains.
SaveList(r) ==
    LET remains == IF crl.entries = {} THEN {} ELSE crl.entries \cup {Garbled} IN
    /\ revoke[r].pc = "open"
    /\ \E rest \in SUBSET remains :
          crl' = [there |-> TRUE, entries |-> revoke[r].list \cup rest]
    /\ revoke' = [revoke EXCEPT ![r] = [pc |-> "none", list |-> {}]]
    /\ revoked' = revoked \cup revoke[r].list
    /\ atRisk' = IF OthersRevoke(r) \/ remains # {} THEN revoked' ELSE atRisk \ revoke[r].list
    /\ UNCHANGED <<pki, command, boot, serving, skipped, ops, deaths>>

\* The revoke of r, if there is one, is killed.
RevokeStops(r) ==
    /\ revoke' = [revoke EXCEPT ![r] = [pc |-> "none", list |-> {}]]
    /\ atRisk' = IF revoke[r].pc = "open" THEN revoked ELSE atRisk
    /\ UNCHANGED <<crl, revoked>>

\* The fingerprints an operator may name: those of certificates on disk.
CertificateFps == {Load(Gateway(s, a, "crt")) : s \in Suite, a \in Suspects} \ {0}

\* An operator revokes, whatever else is under way, and that command may die.
OperatorRevokes(o) ==
    /\ ops < MaxOps /\ ops' = ops + 1
    /\ \E fp \in CertificateFps : StartRevoke(o, fp)
    /\ UNCHANGED <<pki, command, boot, serving, skipped, deaths>>

OperatorRevokeDies(o) ==
    /\ revoke[o].pc # "none"
    /\ deaths < MaxDeaths /\ deaths' = deaths + 1
    /\ RevokeStops(o)
    /\ UNCHANGED <<pki, command, boot, serving, skipped, ops>>

-----------------------------------------------------------------------------
(* bootstrap_pki.py                                                        *)

\* The commands for one suite: a root, a certificate for each agency, a key for
\* each agency, the bundle.
N == Len(Agencies)
SuiteSteps == 2 * N + 2
GenerateStep(s, k) ==
    \/ k = 1 /\ InitRoot(s)
    \/ k \in 2..(N + 1) /\ IssueGatewayCert(s, Agencies[k - 1])
    \/ k \in (N + 2)..(2 * N + 1) /\ IssueSigningKey(s, Agencies[k - N - 1])
    \/ k = SuiteSteps /\ ExportTrustBundle(s, Agency)
RevokeStep == Len(Suites) * SuiteSteps + 1

\* Mutated form: every run generates the PKI.
BootstrapAlwaysGenerates ==
    /\ Idle /\ boot = 0 /\ ops < MaxOps
    /\ boot' = 1
    /\ skipped' = FALSE
    /\ ops' = ops + 1
    /\ UNCHANGED <<pki, command, serving, revocations, deaths>>

\* main() starts: the generation is skipped if the first suite's bundle exists.
BootstrapStart ==
    /\ Idle /\ boot = 0 /\ ops < MaxOps
    /\ skipped' = (TrustBundle(Suites[1]) \in exists)
    /\ boot' = IF skipped' THEN RevokeStep ELSE 1
    /\ ops' = ops + 1
    /\ UNCHANGED <<pki, command, serving, revocations, deaths>>

\* The next command, once the one before has ended.
BootstrapGenerates ==
    /\ Idle /\ boot \in 1..(RevokeStep - 1)
    /\ GenerateStep(Suites[((boot - 1) \div SuiteSteps) + 1], ((boot - 1) % SuiteSteps) + 1)
    /\ boot' = boot + 1
    /\ UNCHANGED <<exists, disk, opened, serving, skipped, revocations, ops, deaths>>

\* The certificate of the first agency is revoked, if it can be loaded.
BootstrapRevokes ==
    LET crt == Gateway(Suites[1], Agencies[1], "crt") IN
    /\ Idle /\ boot = RevokeStep
    /\ Readable(crt) /\ StartRevoke("bootstrap", Load(crt))
    /\ boot' = boot + 1
    /\ UNCHANGED <<pki, command, serving, skipped, ops, deaths>>

\* main() returns; the tests and the evidence before change nothing of the PKI.
BootstrapEnds ==
    /\ boot = RevokeStep + 1 /\ revoke["bootstrap"].pc = "none"
    /\ boot' = 0
    /\ UNCHANGED <<pki, command, serving, skipped, revocations, ops, deaths>>

\* The command, or the container with it, is killed, or it fails (sys.exit).
Dies ==
    /\ ~Idle \/ boot # 0
    /\ deaths < MaxDeaths /\ deaths' = deaths + 1
    /\ todo' = << >> /\ opened' = FALSE /\ boot' = 0
    /\ RevokeStops("bootstrap")
    /\ UNCHANGED <<pki, serving, skipped, ops>>

-----------------------------------------------------------------------------
(* The gateways                                                            *)

\* Gateway A loads its signing key once; its certificate it reads anew for every
\* session.
StartA(s) ==
    /\ Readable(Gateway(s, Sender, "pem"))
    /\ gwA' = [up |-> TRUE, suite |-> s, key |-> Load(Gateway(s, Sender, "pem"))]
    /\ UNCHANGED <<pki, command, boot, gwB, cache, last, skipped, revocations, ops, deaths>>

\* load_verify_locations and load_cert_chain: a root, and a certificate with its
\* key.
TlsContextLoads(s, a) ==
    /\ Readable(Root(s, "crt")) /\ Readable(Gateway(s, a, "crt"))
    /\ Load(Gateway(s, a, "crt")) = Load(Gateway(s, a, "key"))

\* What TrustStore.load takes from the list: the entries under the key
\* "revoked_certificates".
LoadedRevocations ==
    {e[2] : e \in {x \in crl.entries : x[1] = "revoked_certificates"}}

\* A Gateway B that loaded what is on disk.  told keeps, for the properties, what
\* the list said.
LoadedB(s) ==
    [up |-> TRUE, suite |-> s, agencies |-> disk[TrustBundle(s)],
     revoked |-> LoadedRevocations, told |-> {e[2] : e \in ListedRevocations},
     crt |-> Load(Gateway(s, Receiver, "crt")), root |-> Load(Root(s, "crt"))]

\* Mutated forms: a bundle that holds nothing is not an error; the verifier's
\* cache outlives the process.
StartBUnchecked(s) ==
    /\ TrustBundle(s) \in exists /\ crl.there
    /\ TlsContextLoads(s, Receiver)
    /\ gwB' = LoadedB(s)
    /\ cache' = [a \in Agency |-> 0]
    /\ UNCHANGED <<pki, command, boot, gwA, last, skipped, revocations, ops, deaths>>
StartBKeepsCache(s) ==
    /\ disk[TrustBundle(s)] # {} /\ crl.there
    /\ TlsContextLoads(s, Receiver)
    /\ gwB' = LoadedB(s)
    /\ UNCHANGED <<cache, pki, command, boot, gwA, last, skipped, revocations, ops, deaths>>

\* Gateway B starts, or is restarted: TrustStore.load, a verifier with an empty
\* cache, and the TLS context.  It exits when the bundle is missing or is no
\* bundle, or when the revocation list is missing.
StartB(s) ==
    /\ disk[TrustBundle(s)] # {} /\ crl.there
    /\ TlsContextLoads(s, Receiver)
    /\ gwB' = LoadedB(s)
    /\ cache' = [a \in Agency |-> 0]
    /\ UNCHANGED <<pki, command, boot, gwA, last, skipped, revocations, ops, deaths>>

\* The key _load_public_key returns for an agency.
PublicKey(a) == IF cache[a] # 0 THEN cache[a] ELSE Load(Gateway(gwB.suite, a, "pub"))

\* Gateway B's trust store and the envelope of an honest Gateway A, as
\* InboundVerdict takes them.
Listed(a) == CHOOSE e \in gwB.agencies : e.agency = a
LoadedStore ==
    [agencies |-> [a \in {e.agency : e \in gwB.agencies} |->
        [tls |-> Listed(a).tls, key |-> Listed(a).key, pub |-> PublicKey(a)]],
     revoked |-> gwB.revoked]

SentEnvelope ==
    [decodes |-> TRUE, complete |-> TRUE, sender |-> Sender, recipient |-> Receiver,
     tlp |-> "tlp:green", inflates |-> TRUE, bundle |-> TRUE, size |-> "small",
     peer |-> Load(Gateway(gwA.suite, Sender, "crt")), signer |-> gwA.key]

\* The mutual handshake: Gateway A's files as they are now, Gateway B's as they
\* were when it started.
HandshakeSucceeds ==
    /\ TlsContextLoads(gwA.suite, Sender)
    /\ signedBy[Load(Gateway(gwA.suite, Sender, "crt"))] = gwB.root
    /\ signedBy[gwB.crt] = Load(Root(gwA.suite, "crt"))

\* Gateway A sends a bundle and Gateway B decides.  The verifier caches the key
\* it could load once the checks before the signature pass.
Exchange ==
    LET failed == FailedGates(LoadedStore, Rules, SentEnvelope) IN
    /\ gwA.up /\ gwB.up /\ HandshakeSucceeds
    /\ last' = [verdict |-> Verdict(LoadedStore, Rules, SentEnvelope),
                peer |-> SentEnvelope.peer, signer |-> gwA.key,
                listed |-> gwB.agencies, told |-> gwB.told]
    /\ cache' = [cache EXCEPT ![Sender] =
                   IF failed \cap (1..4) = {} THEN PublicKey(Sender) ELSE @]
    /\ UNCHANGED <<pki, command, boot, gwA, gwB, skipped, revocations, ops, deaths>>

Next ==
    \/ Operator \/ OpenFile \/ WriteFile \/ Dies
    \/ BootstrapStart \/ BootstrapGenerates \/ BootstrapRevokes \/ BootstrapEnds
    \/ \E o \in Operators : OperatorRevokes(o) \/ OperatorRevokeDies(o)
    \/ \E r \in Revoker : OpenList(r) \/ SaveList(r)
    \/ \E s \in Suite : StartA(s) \/ StartB(s)
    \/ Exchange

Spec == Init /\ [][Next]_vars

-----------------------------------------------------------------------------
(* Properties                                                              *)

\* Gateway B only serves with a complete trust bundle, whose entries are of
\* artifacts that were issued: one entry for each agency that an export named.
\* No interrupted bootstrap and no torn file lets it start.
ServesOnlyComplete ==
    gwB.up => /\ {e.agency : e \in gwB.agencies} \in Exports \cup {Agency}
              /\ \A e \in gwB.agencies : {e.tls, e.key} \subseteq DOMAIN signedBy

\* An accepted bundle came over the certificate that Gateway B's bundle lists,
\* and was signed by a key no older than the one it lists: reissued and torn
\* files, restarts and the verifier's cache never bring an older key back.
AcceptedKeyNotOlder ==
    last.verdict = "ACCEPT" =>
        \E e \in last.listed : e.agency = Sender /\ last.peer = e.tls /\ last.signer >= e.key

\* Whatever was revoked stays in the revocation list, and the list can be
\* loaded, unless two revokes were under way at once or one died while it had the
\* list open, and until a revoke that runs on its own has put it back; no
\* bootstrap, and nothing else that dies, takes a revocation out.  (While a
\* revoke has the list open it is empty.)
RevocationsAreKept ==
    (\A r \in Revoker : revoke[r].pc # "open") /\ revoked \ atRisk # {} =>
        Garbled \notin crl.entries /\ revoked \ atRisk \subseteq ListedRevocations

\* Once the bundle of the first suite is there, no bootstrap replaces a
\* certificate or key of that suite.
BootstrapKeepsKeys ==
    [][boot # 0 /\ TrustBundle(Suites[1]) \in exists =>
         \A a \in Agency, part \in {"crt", "key", "pem", "pub"} :
             LET f == Gateway(Suites[1], a, part) IN disk'[f] = disk[f]]_vars

\* The certificate of a is paired with its key, was signed by the root, and both
\* it and the signing key are the ones the bundle lists.
Usable(s, a) ==
    /\ TlsContextLoads(s, a)
    /\ signedBy[Load(Gateway(s, a, "crt"))] = Load(Root(s, "crt"))
    /\ Load(Gateway(s, a, "pem")) = Load(Gateway(s, a, "pub"))
    /\ BundleEntry(s, a) \in disk[TrustBundle(s)]

\* A bootstrap that generates and comes to its end leaves a PKI with which both
\* gateways of every suite can start and talk, whatever earlier commands and
\* bootstraps that died have left behind.
FinishedMeansUsable ==
    boot = RevokeStep + 1 /\ Idle /\ ~skipped => \A s \in Suite, a \in Agency : Usable(s, a)

\* A certificate that was in the revocation list when Gateway B started is
\* rejected by it.
RevokedIsRejected == last.verdict = "ACCEPT" => last.peer \notin last.told
=============================================================================
