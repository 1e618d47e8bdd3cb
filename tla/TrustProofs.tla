---------------------------- MODULE TrustProofs -----------------------------
(***************************************************************************)
(* Proofs about Trust, for any list of key types and agencies, any rules   *)
(* and any number of commands, bootstraps, deaths and restarts.            *)
(***************************************************************************)
EXTENDS Trust, TLAPS

-----------------------------------------------------------------------------
(* The gates                                                               *)

\* process_transaction accepts an envelope only if it passes every gate.
LEMMA AcceptPassesGates ==
    ASSUME NEW store, NEW list, NEW env, Verdict(store, list, env) = "ACCEPT"
    PROVE  FailedGates(store, list, env) = {}
<1> DEFINE failed == FailedGates(store, list, env)
           First(i) == i \in failed /\ \A j \in failed : i <= j
<1>1. failed \subseteq 1..8
  BY DEF FailedGates
<1>2. \A i \in 1..8 : GateNack[i] # "ACCEPT"
  BY DEF GateNack
<1>3. SUFFICES ASSUME failed # {} PROVE FALSE
  OBVIOUS
<1>4. Verdict(store, list, env) = GateNack[CHOOSE i \in failed : \A j \in failed : i <= j]
  BY <1>3 DEF Verdict
<1> HIDE DEF failed
<1>5. \E i \in failed : \A j \in failed : i <= j
  <2>1. CASE 1 \in failed  BY <1>1, <2>1
  <2>2. CASE 1 \notin failed /\ 2 \in failed  BY <1>1, <2>2
  <2>3. CASE {1, 2} \cap failed = {} /\ 3 \in failed  BY <1>1, <2>3
  <2>4. CASE {1, 2, 3} \cap failed = {} /\ 4 \in failed  BY <1>1, <2>4
  <2>5. CASE {1, 2, 3, 4} \cap failed = {} /\ 5 \in failed  BY <1>1, <2>5
  <2>6. CASE {1, 2, 3, 4, 5} \cap failed = {} /\ 6 \in failed  BY <1>1, <2>6
  <2>7. CASE {1, 2, 3, 4, 5, 6} \cap failed = {}
    <3>1. \A j \in failed : j \notin {1, 2, 3, 4, 5, 6}
      BY <2>7
    <3>2. \A j \in failed : j = 7 \/ j = 8
      BY <1>1, <3>1
    <3>3. PICK j \in failed : TRUE
      BY <1>3
    <3>4. CASE 7 \in failed  BY <3>2, <3>4
    <3>5. CASE 7 \notin failed  BY <3>2, <3>3, <3>5
    <3> QED  BY <3>4, <3>5
  <2> QED  BY <2>1, <2>2, <2>3, <2>4, <2>5, <2>6, <2>7
<1>6. (CHOOSE i \in failed : \A j \in failed : i <= j) \in failed
  BY <1>5, Zenon
<1> QED  BY <1>1, <1>2, <1>4, <1>6, Zenon

\* What the gates that an envelope passes say of it.
LEMMA PassedGates ==
    ASSUME NEW store, NEW list, NEW env
    PROVE  FailedGates(store, list, env) = {} =>
               KnownSender(store, env) /\ TlsIdentityMatches(store, env) /\ SignatureValid(store, env)
<1>1. 2 \notin FailedGates(store, list, env) => KnownSender(store, env)
  BY DEF FailedGates
<1>2. KnownSender(store, env) /\ 3 \notin FailedGates(store, list, env) => TlsIdentityMatches(store, env)
  BY DEF FailedGates
<1>3. KnownSender(store, env) /\ 5 \notin FailedGates(store, list, env) => SignatureValid(store, env)
  BY DEF FailedGates
<1> QED  BY <1>1, <1>2, <1>3

USE TrustAssumption

-----------------------------------------------------------------------------
(* The invariants                                                          *)

\* The files by what they hold.
ArtifactFile == {Root(s, part) : s \in Suite, part \in {"crt", "key"}}
                \cup {Gateway(s, a, part) : s \in Suite, a \in Agency, part \in {"crt", "key", "pem", "pub"}}
BundleFile == {TrustBundle(s) : s \in Suite}

\* What a file holds once it is written: one artifact; an entry of issued
\* artifacts for every agency that the export named.
Holds(serials, f, c) ==
    /\ f \in ArtifactFile => \E n \in serials : c = {n}
    /\ f \in BundleFile =>
          /\ c \subseteq [agency : Agency, tls : serials, key : serials]
          /\ {e.agency : e \in c} \in Exports \cup {Agency}

Datum == Nat \cup [agency : Agency, tls : Nat, key : Nat]
Pending == [file : File, content : SUBSET Datum]

\* What a command has to write: one file, or two that belong together.
WritesOK(serials, t) ==
    /\ t \in Seq(Pending) /\ Len(t) <= 2
    /\ \A i \in DOMAIN t : Holds(serials, t[i].file, t[i].content)
    /\ \A i, j \in DOMAIN t : i # j => t[i].file # t[j].file
    /\ \A i \in DOMAIN t : t[i].file \notin ArtifactFile => Len(t) = 1

\* Files are empty, as a command that opened them leaves them, or whole.
FilesOK ==
    /\ exists \subseteq File
    /\ signedBy \in Seq(Nat)
    /\ disk \in [File -> SUBSET Datum]
    /\ \A f \in File : disk[f] = {} \/ Holds(DOMAIN signedBy, f, disk[f])
    /\ WritesOK(DOMAIN signedBy, todo)
    /\ opened \in BOOLEAN /\ (opened => todo # << >>)

\* What is not at risk is in the list while no one has it open, and in what every
\* revoke under way is about to write there; of two that are under way at once
\* the later will take out what the earlier has saved.
Entry == {"revoked"} \X Nat
RevokesOK ==
    /\ revoke \in [Revoker -> [pc : {"none", "loaded", "open"}, list : SUBSET Entry]]
    /\ revoked \subseteq Entry /\ crl.entries \subseteq Entry \cup {Garbled}
RiskKnown ==
    \A q, r \in Revoker : q # r /\ revoke[q].pc # "none" /\ revoke[r].pc # "none" =>
        revoked \subseteq atRisk
ListsKeep ==
    \A r \in Revoker : revoke[r].pc # "none" => revoked \ atRisk \subseteq revoke[r].list
FileKeeps ==
    (\A r \in Revoker : revoke[r].pc # "open") => revoked \ atRisk \subseteq crl.entries
GarbledRisk == Garbled \in crl.entries => revoked \subseteq atRisk
ListInv == RevokesOK /\ RiskKnown /\ ListsKeep /\ FileKeeps /\ GarbledRisk

\* No public key that is on the disk d, or that the writes t bring, is older than
\* the one an entry lists.
NotOlder(d, t, s, entries) ==
    \A e \in entries :
        /\ \A n \in d[Gateway(s, e.agency, "pub")] : e.key <= n
        /\ \A i \in DOMAIN t :
              t[i].file = Gateway(s, e.agency, "pub") => \A n \in t[i].content : e.key <= n

\* What Gateway B loaded is complete, and a key it may use for an agency, from
\* its cache or from the disk, is no older than the one its bundle lists.
KeyInv ==
    /\ \A s \in Suite : NotOlder(disk, todo, s, disk[TrustBundle(s)])
    /\ \A s \in Suite : \A i \in DOMAIN todo :
           todo[i].file = TrustBundle(s) => NotOlder(disk, todo, s, todo[i].content)
    /\ gwB.up => /\ gwB.suite \in Suite
                 /\ Holds(DOMAIN signedBy, TrustBundle(gwB.suite), gwB.agencies)
                 /\ NotOlder(disk, todo, gwB.suite, gwB.agencies)
                 /\ \A e \in gwB.agencies : cache[e.agency] = 0 \/ e.key <= cache[e.agency]
    /\ cache \in [Agency -> Nat]
    /\ gwA.up => gwA.key \in Nat \ {0}

\* The first suite's bundle appears when its certificates and keys are written.
FirstSuite == {Gateway(Suites[1], a, part) : a \in Agency, part \in {"crt", "key", "pem", "pub"}}
BootInv ==
    /\ boot \in 0..(RevokeStep + 1)
    /\ boot # 0 =>
         IF boot <= SuiteSteps
         THEN /\ TrustBundle(Suites[1]) \notin exists
              /\ \A i \in DOMAIN todo : todo[i].file # TrustBundle(Suites[1])
         ELSE \A i \in DOMAIN todo : todo[i].file \notin FirstSuite

\* The disk d once the writes t are made.
Final(d, t) == [f \in File |-> IF \E i \in DOMAIN t : t[i].file = f
                               THEN t[CHOOSE i \in DOMAIN t : t[i].file = f].content
                               ELSE d[f]]

\* What the commands of a bootstrap achieve, on a disk d and with the signers sb
\* of the serial numbers.
RootDone(d, sb, s) == \E n \in DOMAIN sb : d[Root(s, "crt")] = {n} /\ d[Root(s, "key")] = {n}
CertDone(d, sb, s, a) ==
    \E n \in DOMAIN sb : /\ d[Gateway(s, a, "crt")] = {n} /\ d[Gateway(s, a, "key")] = {n}
                         /\ d[Root(s, "crt")] = {sb[n]}
KeyDone(d, sb, s, a) ==
    \E n \in DOMAIN sb : d[Gateway(s, a, "pem")] = {n} /\ d[Gateway(s, a, "pub")] = {n}
BundleDone(d, sb, s) ==
    \A a \in Agency : \E m, n \in DOMAIN sb :
        /\ d[Gateway(s, a, "crt")] = {m} /\ d[Gateway(s, a, "pub")] = {n}
        /\ [agency |-> a, tls |-> m, key |-> n] \in d[TrustBundle(s)]

\* The commands of suite s before its k-th have achieved it.
SuiteDone(d, sb, k, s) ==
    /\ k > 1 => RootDone(d, sb, s)
    /\ \A j \in DOMAIN Agencies :
          /\ k > 1 + j => CertDone(d, sb, s, Agencies[j])
          /\ k > N + 1 + j => KeyDone(d, sb, s, Agencies[j])
    /\ k > SuiteSteps => BundleDone(d, sb, s)

\* The commands that the bootstrap under way has given will have achieved it,
\* once the last of them has written its files.
Progress ==
    ~skipped /\ boot # 0 =>
        \A i \in DOMAIN Suites :
            SuiteDone(Final(disk, todo), signedBy, boot - (i - 1) * SuiteSteps, Suites[i])
-----------------------------------------------------------------------------
(* Files and commands                                                      *)

\* The lists of the bootstrap and the names that no suite and no agency has.
LEMMA Names ==
    /\ Len(Suites) \in Nat \ {0} /\ DOMAIN Suites = 1..Len(Suites)
    /\ N \in Nat \ {0} /\ DOMAIN Agencies = 1..N
    /\ Suites[1] \in Suite
    /\ \A i \in DOMAIN Suites : Suites[i] \in Suite
    /\ \A j \in DOMAIN Agencies : Agencies[j] \in Agency
    /\ "ca" \notin Agency
    /\ SuiteSteps \in Nat \ {0} /\ RevokeStep \in Nat \ {0}
<1>1. Len(Suites) \in Nat \ {0} /\ DOMAIN Suites = 1..Len(Suites)
  OBVIOUS
<1>2. N \in Nat /\ DOMAIN Agencies = 1..N
  BY DEF N
<1>3. \A i \in DOMAIN Suites : Suites[i] \in Suite
  BY DEF Suite
<1>4. \A j \in DOMAIN Agencies : Agencies[j] \in Agency
  BY DEF Agency
<1>5. N # 0
  BY <1>2 DEF Agency
<1>7. "ca" \notin Agency
  BY DEF Agency
<1>8. SuiteSteps \in Nat \ {0}
  BY <1>2 DEF SuiteSteps
<1>9. \A m, n \in Nat : m * n + 1 \in Nat \ {0}
  OBVIOUS
<1>10. RevokeStep \in Nat \ {0}
  BY <1>1, <1>8, <1>9 DEF RevokeStep
<1> QED
  BY <1>1, <1>2, <1>3, <1>4, <1>5, <1>7, <1>8, <1>10

\* Different parts of the PKI are in different files.
LEMMA FileKinds ==
    /\ File = ArtifactFile \cup BundleFile
    /\ ArtifactFile \cap BundleFile = {}
    /\ \A s \in Suite : TrustBundle(s) \in BundleFile
    /\ \A s \in Suite : \A part \in {"crt", "key"} : Root(s, part) \in ArtifactFile
    /\ \A s \in Suite : \A a \in Agency : \A part \in {"crt", "key", "pem", "pub"} :
           Gateway(s, a, part) \in ArtifactFile
<1>1. File = ArtifactFile \cup BundleFile
  BY DEF File, ArtifactFile, BundleFile
<1>2. ArtifactFile \cap BundleFile = {}
  BY DEF ArtifactFile, BundleFile, Root, Gateway, TrustBundle
<1>3. /\ \A s \in Suite : TrustBundle(s) \in BundleFile
      /\ \A s \in Suite : \A part \in {"crt", "key"} : Root(s, part) \in ArtifactFile
      /\ \A s \in Suite : \A a \in Agency : \A part \in {"crt", "key", "pem", "pub"} :
             Gateway(s, a, part) \in ArtifactFile
  BY DEF ArtifactFile, BundleFile
<1> QED
  BY <1>1, <1>2, <1>3

\* The first of a sequence and the rest of it.
LEMMA HeadTail ==
    ASSUME NEW S, NEW q \in Seq(S), q # << >>
    PROVE  /\ Head(q) = q[1] /\ 1 \in DOMAIN q /\ q[1] \in S
           /\ Tail(q) \in Seq(S) /\ Len(Tail(q)) = Len(q) - 1
           /\ \A i \in DOMAIN Tail(q) : i + 1 \in DOMAIN q /\ Tail(q)[i] = q[i + 1]
  OBVIOUS

\* Loading a file of one artifact yields it, and fails only on an empty file.
LEMMA Loads ==
    ASSUME FilesOK, NEW f \in ArtifactFile
    PROVE  /\ Load(f) \in Nat
           /\ Readable(f) => Load(f) \in DOMAIN signedBy /\ disk[f] = {Load(f)}
           /\ disk[f] # {} => Readable(f)
<1>1. f \in File
  BY FileKinds
<1>2. CASE disk[f] = {}
  BY <1>2 DEF Load, Readable
<1>3. CASE disk[f] # {}
  <2>1. PICK n \in DOMAIN signedBy : disk[f] = {n}
    BY <1>1, <1>3 DEF FilesOK, Holds
  <2>2. Load(f) = n
    BY <2>1 DEF Load
  <2>3. n \in Nat \ {0}
    BY DEF FilesOK
  <2> QED  BY <2>1, <2>2, <2>3 DEF Readable
<1> QED  BY <1>2, <1>3

\* A command that generates writes its two files with the next serial number.
IssuesPair(f, g, signer) ==
    /\ signedBy' = Append(signedBy, signer)
    /\ todo' = <<Write(f, {Fresh}), Write(g, {Fresh})>>

\* A command of qstie-ca other than revoke.
Named == Exports \cup {Agency}
NewCommand ==
    \E s \in Suite :
        \/ InitRoot(s)
        \/ \E agencies \in Named : ExportTrustBundle(s, agencies)
        \/ \E a \in Agency : IssueGatewayCert(s, a) \/ IssueSigningKey(s, a)

\* The commands by what they write.
LEMMA CommandForms ==
    ASSUME FilesOK, NewCommand
    PROVE  \/ \E f, g \in ArtifactFile : \E signer \in Nat : f # g /\ IssuesPair(f, g, signer)
           \/ \E s \in Suite : \E agencies \in Named : ExportTrustBundle(s, agencies)
<1>1. Fresh \in Nat
  BY DEF FilesOK, Fresh
<1>2. ASSUME NEW s \in Suite, InitRoot(s)
      PROVE  \E f, g \in ArtifactFile : \E signer \in Nat : f # g /\ IssuesPair(f, g, signer)
  <2>1. Root(s, "crt") # Root(s, "key") /\ Root(s, "crt") \in ArtifactFile /\ Root(s, "key") \in ArtifactFile
    BY FileKinds DEF Root
  <2>2. IssuesPair(Root(s, "crt"), Root(s, "key"), Fresh)
    BY <1>2 DEF InitRoot, IssuesPair, SelfSigned
  <2> QED  BY <1>1, <2>1, <2>2, Zenon
<1>3. ASSUME NEW s \in Suite, NEW a \in Agency, IssueGatewayCert(s, a)
      PROVE  \E f, g \in ArtifactFile : \E signer \in Nat : f # g /\ IssuesPair(f, g, signer)
  <2>1. /\ Gateway(s, a, "crt") # Gateway(s, a, "key")
        /\ Gateway(s, a, "crt") \in ArtifactFile /\ Gateway(s, a, "key") \in ArtifactFile
    BY FileKinds DEF Gateway
  <2>2. IssuesPair(Gateway(s, a, "crt"), Gateway(s, a, "key"), Load(Root(s, "key")))
    BY <1>3 DEF IssueGatewayCert, IssuesPair, SignedWith
  <2>3. Load(Root(s, "key")) \in Nat
    BY FileKinds, Loads
  <2> QED  BY <2>1, <2>2, <2>3, Zenon
<1>4. ASSUME NEW s \in Suite, NEW a \in Agency, IssueSigningKey(s, a)
      PROVE  \E f, g \in ArtifactFile : \E signer \in Nat : f # g /\ IssuesPair(f, g, signer)
  <2>1. /\ Gateway(s, a, "pem") # Gateway(s, a, "pub")
        /\ Gateway(s, a, "pem") \in ArtifactFile /\ Gateway(s, a, "pub") \in ArtifactFile
    BY FileKinds DEF Gateway
  <2>2. IssuesPair(Gateway(s, a, "pem"), Gateway(s, a, "pub"), 0)
    BY <1>4 DEF IssueSigningKey, IssuesPair, SignedWith
  <2>3. 0 \in Nat
    OBVIOUS
  <2> QED  BY <2>1, <2>2, <2>3, Zenon
<1> QED  BY <1>2, <1>3, <1>4, Zenon DEF NewCommand

\* The numbers of the steps: command b of a bootstrap is command k of suite i,
\* and of no other.
LEMMA BootPosition ==
    /\ \A b \in 1..(RevokeStep - 1) :
         LET i == ((b - 1) \div SuiteSteps) + 1
             k == ((b - 1) % SuiteSteps) + 1
         IN  i \in DOMAIN Suites /\ k \in 1..SuiteSteps /\ b = (i - 1) * SuiteSteps + k
    /\ \A i, j \in DOMAIN Suites : \A k, l \in 1..SuiteSteps :
           (i - 1) * SuiteSteps + k = (j - 1) * SuiteSteps + l => i = j /\ k = l
<1> DEFINE S == SuiteSteps  L == Len(Suites)
<1>1. S \in Nat \ {0} /\ L \in Nat \ {0} /\ DOMAIN Suites = 1..L
  BY Names
<1>2. RevokeStep - 1 = L * S
  <2>1. \A x, y \in Nat : x * y + 1 - 1 = x * y
    OBVIOUS
  <2> QED  BY <1>1, <2>1 DEF RevokeStep
<1> HIDE DEF S, L
<1>3. \A x, y \in Nat : x <= y => x * S <= y * S
  BY <1>1
<1>4. ASSUME NEW b \in 1..(L * S)
      PROVE  /\ ((b - 1) \div S) + 1 \in 1..L
             /\ ((b - 1) % S) + 1 \in 1..S
             /\ b = (((b - 1) \div S) + 1 - 1) * S + (((b - 1) % S) + 1)
  <2> DEFINE q == (b - 1) \div S  r == (b - 1) % S
  <2>1. b - 1 \in Nat /\ L * S \in Nat
    BY <1>1
  <2>2. \A x \in Nat : x \div S \in Nat /\ x % S \in 0..(S - 1) /\ x = S * (x \div S) + (x % S)
    BY <1>1
  <2>3. q \in Nat /\ r \in 0..(S - 1) /\ b - 1 = S * q + r
    BY <2>1, <2>2
  <2> HIDE DEF q, r
  <2>4. S * q = q * S /\ q * S \in Nat
    BY <1>1, <2>3
  <2>5. ~(L <= q)
    BY <1>1, <1>3, <2>3, <2>4
  <2>6. q + 1 \in 1..L
    BY <1>1, <2>3, <2>5
  <2>7. r + 1 \in 1..S
    BY <1>1, <2>3
  <2>8. b = (q + 1 - 1) * S + (r + 1)
    BY <1>1, <2>3, <2>4
  <2> QED  BY <2>6, <2>7, <2>8 DEF q, r
<1>5. ASSUME NEW i \in 1..L, NEW j \in 1..L, NEW k \in 1..S, NEW l \in 1..S,
             (i - 1) * S + k = (j - 1) * S + l
      PROVE  i = j /\ k = l
  <2>1. i - 1 \in Nat /\ j - 1 \in Nat /\ i \in Nat /\ j \in Nat
    BY <1>1
  <2>2. (i - 1) * S \in Nat /\ (j - 1) * S \in Nat /\ i * S \in Nat /\ j * S \in Nat
    BY <1>1, <2>1
  <2>3. i * S = (i - 1) * S + S /\ j * S = (j - 1) * S + S
    BY <1>1
  <2>4. ~(i < j)
    <3>1. i < j => i * S <= (j - 1) * S
      BY <1>3, <2>1
    <3> QED  BY <1>1, <1>5, <2>2, <2>3, <3>1
  <2>5. ~(j < i)
    <3>1. j < i => j * S <= (i - 1) * S
      BY <1>3, <2>1
    <3> QED  BY <1>1, <1>5, <2>2, <2>3, <3>1
  <2>6. i = j
    BY <2>1, <2>4, <2>5
  <2> QED  BY <1>1, <1>5, <2>2, <2>6
<1>6. \A b \in 1..(RevokeStep - 1) :
         LET i == ((b - 1) \div SuiteSteps) + 1
             k == ((b - 1) % SuiteSteps) + 1
         IN  i \in DOMAIN Suites /\ k \in 1..SuiteSteps /\ b = (i - 1) * SuiteSteps + k
  <2> TAKE b \in 1..(RevokeStep - 1)
  <2>1. b \in 1..(L * S)
    BY <1>2
  <2>2. /\ ((b - 1) \div S) + 1 \in 1..L /\ ((b - 1) % S) + 1 \in 1..S
        /\ b = (((b - 1) \div S) + 1 - 1) * S + (((b - 1) % S) + 1)
    BY <1>4, <2>1, Zenon
  <2> QED  BY <1>1, <2>2 DEF S
<1>7. \A i, j \in DOMAIN Suites : \A k, l \in 1..SuiteSteps :
           (i - 1) * SuiteSteps + k = (j - 1) * SuiteSteps + l => i = j /\ k = l
  BY <1>1, <1>5, Zenon DEF S
<1> QED  BY <1>6, <1>7, Zenon

-----------------------------------------------------------------------------
(* Steps                                                                   *)

\* An operator or a bootstrap gives a command; a step that leaves files,
\* commands and gateways alone, as all steps of a revoke do.
CommandStep == Idle /\ NewCommand /\ UNCHANGED <<exists, disk, opened, serving>>
QuietStep == UNCHANGED <<pki, command, serving>>

\* What steps there are, as far as files and gateways go.
LEMMA StepKinds ==
    ASSUME FilesOK, [Next]_vars
    PROVE  \/ CommandStep \/ OpenFile \/ WriteFile \/ Dies \/ QuietStep
           \/ \E s \in Suite : StartA(s) \/ StartB(s)
           \/ Exchange
<1>2. CASE Operator
  <2>1. NewCommand
    BY <1>2, Zenon DEF Operator, NewCommand, Named
  <2> QED  BY <1>2, <2>1 DEF Operator, CommandStep
<1>3. CASE BootstrapGenerates
  <2> DEFINE i == ((boot - 1) \div SuiteSteps) + 1
             k == ((boot - 1) % SuiteSteps) + 1
  <2>1. i \in DOMAIN Suites /\ GenerateStep(Suites[i], k)
    BY <1>3, BootPosition DEF BootstrapGenerates
  <2>2. Suites[i] \in Suite
    BY <2>1, Names
  <2>3. k \in 2..(N + 1) => Agencies[k - 1] \in Agency
    BY Names
  <2>4. k \in (N + 2)..(2 * N + 1) => Agencies[k - N - 1] \in Agency
    BY Names
  <2> HIDE DEF i, k
  <2>5. NewCommand
    BY <2>1, <2>2, <2>3, <2>4, Zenon DEF GenerateStep, NewCommand, Named
  <2> QED  BY <1>3, <2>5 DEF BootstrapGenerates, CommandStep
<1>4. CASE BootstrapRevokes
  BY <1>4 DEF BootstrapRevokes, QuietStep
<1>5. CASE BootstrapStart
  BY <1>5 DEF BootstrapStart, QuietStep
<1>6. CASE BootstrapEnds
  BY <1>6 DEF BootstrapEnds, QuietStep
<1>7. CASE UNCHANGED vars
  BY <1>7 DEF vars, QuietStep
<1>8. CASE \E o \in Operators : OperatorRevokes(o) \/ OperatorRevokeDies(o)
  BY <1>8 DEF OperatorRevokes, OperatorRevokeDies, QuietStep
<1>9. CASE \E r \in Revoker : OpenList(r) \/ SaveList(r)
  BY <1>9 DEF OpenList, SaveList, QuietStep
<1> QED  BY <1>2, <1>3, <1>4, <1>5, <1>6, <1>7, <1>8, <1>9, Zenon DEF Next

\* More serial numbers take nothing away from a file or a command.
LEMMA HoldsGrows ==
    ASSUME NEW serials, NEW more, serials \subseteq more, NEW f, NEW c, Holds(serials, f, c)
    PROVE  Holds(more, f, c)
<1>1. [agency : Agency, tls : serials, key : serials] \subseteq [agency : Agency, tls : more, key : more]
  OBVIOUS
<1> QED  BY <1>1 DEF Holds

\* The serial numbers a command gives out, and what it goes on to write.
LEMMA CommandWrites ==
    ASSUME FilesOK, NewCommand
    PROVE  /\ signedBy' \in Seq(Nat) /\ DOMAIN signedBy \subseteq DOMAIN signedBy'
           /\ \A n \in DOMAIN signedBy : signedBy'[n] = signedBy[n]
           /\ WritesOK(DOMAIN signedBy', todo') /\ todo' # << >>
<1>1. ASSUME NEW f \in ArtifactFile, NEW g \in ArtifactFile, NEW signer \in Nat, f # g,
             IssuesPair(f, g, signer)
      PROVE  /\ signedBy' \in Seq(Nat) /\ DOMAIN signedBy \subseteq DOMAIN signedBy'
             /\ \A n \in DOMAIN signedBy : signedBy'[n] = signedBy[n]
             /\ WritesOK(DOMAIN signedBy', todo') /\ todo' # << >>
  <2>1. /\ signedBy' \in Seq(Nat) /\ DOMAIN signedBy \subseteq DOMAIN signedBy'
        /\ \A n \in DOMAIN signedBy : signedBy'[n] = signedBy[n]
        /\ Fresh \in DOMAIN signedBy' /\ Fresh \in Nat
    BY <1>1 DEF FilesOK, IssuesPair, Fresh
  <2>2. {Fresh} \in SUBSET Datum
    BY <2>1 DEF Datum
  <2>3. f \in File /\ g \in File
    BY FileKinds
  <2> DEFINE w == Write(f, {Fresh})  v == Write(g, {Fresh})
  <2>4. w \in Pending /\ v \in Pending
    BY <2>2, <2>3 DEF Pending, Write
  <2>5. w.file = f /\ v.file = g /\ w.content = {Fresh} /\ v.content = {Fresh}
    BY DEF Write
  <2>6. todo' = <<w, v>>
    BY <1>1 DEF IssuesPair
  <2>7. Holds(DOMAIN signedBy', f, {Fresh}) /\ Holds(DOMAIN signedBy', g, {Fresh})
    BY <2>1, FileKinds DEF Holds
  <2> HIDE DEF w, v
  <2>8. /\ todo' \in Seq(Pending) /\ Len(todo') = 2 /\ DOMAIN todo' = {1, 2}
        /\ todo'[1] = w /\ todo'[2] = v
    BY <2>4, <2>6
  <2>9. WritesOK(DOMAIN signedBy', todo')
    <3>1. \A i \in DOMAIN todo' : Holds(DOMAIN signedBy', todo'[i].file, todo'[i].content)
      BY <2>5, <2>7, <2>8
    <3>2. \A i, j \in DOMAIN todo' : i # j => todo'[i].file # todo'[j].file
      BY <1>1, <2>5, <2>8
    <3>3. \A i \in DOMAIN todo' : todo'[i].file \in ArtifactFile
      BY <2>5, <2>8
    <3> QED  BY <2>8, <3>1, <3>2, <3>3 DEF WritesOK
  <2>10. todo' # << >>
    BY <2>6
  <2> QED  BY <2>1, <2>9, <2>10
<1>2. ASSUME NEW s \in Suite, NEW agencies \in Named, ExportTrustBundle(s, agencies)
      PROVE  /\ signedBy' \in Seq(Nat) /\ DOMAIN signedBy \subseteq DOMAIN signedBy'
             /\ \A n \in DOMAIN signedBy : signedBy'[n] = signedBy[n]
             /\ WritesOK(DOMAIN signedBy', todo') /\ todo' # << >>
  <2> DEFINE c == {BundleEntry(s, a) : a \in agencies}
             w == Write(TrustBundle(s), c)
  <2>0. agencies \subseteq Agency
    BY DEF Named
  <2>1. /\ signedBy' = signedBy /\ todo' = <<w>>
        /\ \A a \in agencies : Readable(Gateway(s, a, "crt")) /\ Readable(Gateway(s, a, "pub"))
    BY <1>2 DEF ExportTrustBundle
  <2>2. ASSUME NEW a \in agencies
        PROVE  /\ BundleEntry(s, a) \in [agency : Agency, tls : DOMAIN signedBy, key : DOMAIN signedBy]
               /\ BundleEntry(s, a).agency = a
    <3>1. Load(Gateway(s, a, "crt")) \in DOMAIN signedBy /\ Load(Gateway(s, a, "pub")) \in DOMAIN signedBy
      BY <2>0, <2>1, FileKinds, Loads
    <3> QED  BY <2>0, <3>1 DEF BundleEntry
  <2>3. c \subseteq [agency : Agency, tls : DOMAIN signedBy, key : DOMAIN signedBy]
    BY <2>2
  <2>4. DOMAIN signedBy \subseteq Nat
    BY DEF FilesOK
  <2>5. c \in SUBSET Datum
    BY <2>3, <2>4 DEF Datum
  <2>6. {x.agency : x \in c} \in Named
    <3>1. {x.agency : x \in c} = agencies
      BY <2>2
    <3> QED  BY <3>1
  <2> HIDE DEF c
  <2>7. TrustBundle(s) \in File /\ TrustBundle(s) \in BundleFile
        /\ TrustBundle(s) \notin ArtifactFile
    BY FileKinds
  <2>8. w \in Pending /\ w.file = TrustBundle(s) /\ w.content = c
    BY <2>5, <2>7 DEF Pending, Write
  <2>9. Holds(DOMAIN signedBy, TrustBundle(s), c)
    BY <2>3, <2>6, <2>7 DEF Holds, Named
  <2> HIDE DEF w
  <2>10. todo' \in Seq(Pending) /\ Len(todo') = 1 /\ DOMAIN todo' = {1} /\ todo'[1] = w
    BY <2>1, <2>8
  <2>11. WritesOK(DOMAIN signedBy', todo')
    BY <2>1, <2>8, <2>9, <2>10 DEF WritesOK
  <2> QED  BY <2>1, <2>10, <2>11 DEF FilesOK
<1> QED  BY <1>1, <1>2, CommandForms, Zenon

\* Opening the next file of a command empties it.
LEMMA OpenEffect ==
    ASSUME FilesOK, OpenFile
    PROVE  /\ Head(todo) = todo[1] /\ 1 \in DOMAIN todo /\ todo[1].file \in File
           /\ ~opened /\ opened' = TRUE /\ exists' = exists \cup {todo[1].file}
           /\ disk' = [disk EXCEPT ![todo[1].file] = {}]
           /\ signedBy' = signedBy /\ todo' = todo
<1>1. todo # << >>
  BY DEF OpenFile, Idle
<1>2. Head(todo) = todo[1] /\ 1 \in DOMAIN todo /\ todo[1] \in Pending
  BY <1>1, HeadTail DEF FilesOK, WritesOK
<1>3. todo[1].file \in File
  BY <1>2 DEF Pending
<1> QED  BY <1>2, <1>3 DEF OpenFile

\* Closing it gives it its content and takes it off the command's list.
LEMMA WriteEffect ==
    ASSUME FilesOK, WriteFile
    PROVE  /\ Head(todo) = todo[1] /\ 1 \in DOMAIN todo
           /\ todo[1].file \in File /\ todo[1].content \in SUBSET Datum
           /\ opened /\ opened' = FALSE /\ exists' = exists
           /\ disk' = [disk EXCEPT ![todo[1].file] = todo[1].content]
           /\ signedBy' = signedBy
           /\ todo' \in Seq(Pending) /\ Len(todo') = Len(todo) - 1
           /\ \A i \in DOMAIN todo' : i + 1 \in DOMAIN todo /\ todo'[i] = todo[i + 1]
<1>1. todo # << >>
  BY DEF WriteFile, FilesOK
<1>2. /\ Head(todo) = todo[1] /\ 1 \in DOMAIN todo /\ todo[1] \in Pending
      /\ Tail(todo) \in Seq(Pending) /\ Len(Tail(todo)) = Len(todo) - 1
      /\ \A i \in DOMAIN Tail(todo) : i + 1 \in DOMAIN todo /\ Tail(todo)[i] = todo[i + 1]
  BY <1>1, HeadTail DEF FilesOK, WritesOK
<1>3. todo[1].file \in File /\ todo[1].content \in SUBSET Datum
  BY <1>2 DEF Pending
<1> QED  BY <1>2, <1>3 DEF WriteFile

\* Whatever dies, every file is empty or whole, and a command under way has whole
\* contents to write.
LEMMA FilesInvariant == Spec => []FilesOK
<1>1. Init => FilesOK
  <2> SUFFICES ASSUME Init PROVE FilesOK
    OBVIOUS
  <2>1. signedBy \in Seq(Nat) /\ exists \subseteq File /\ disk \in [File -> SUBSET Datum]
    BY DEF Init
  <2>2. \A f \in File : disk[f] = {}
    BY DEF Init
  <2>3. todo = << >> /\ opened = FALSE
    BY DEF Init
  <2>4. WritesOK(DOMAIN signedBy, todo)
    BY <2>3 DEF WritesOK
  <2> QED  BY <2>1, <2>2, <2>3, <2>4 DEF FilesOK
<1>2. FilesOK /\ [Next]_vars => FilesOK'
  <2> SUFFICES ASSUME FilesOK, [Next]_vars PROVE FilesOK'
    OBVIOUS
  <2>1. CASE CommandStep
    <3>1. /\ signedBy' \in Seq(Nat) /\ DOMAIN signedBy \subseteq DOMAIN signedBy'
          /\ WritesOK(DOMAIN signedBy', todo') /\ todo' # << >>
      BY <2>1, CommandWrites DEF CommandStep
    <3>2. exists' = exists /\ disk' = disk /\ opened' = opened
      BY <2>1 DEF CommandStep
    <3>3. \A f \in File : disk[f] = {} \/ Holds(DOMAIN signedBy', f, disk[f])
      BY <3>1, HoldsGrows, Zenon DEF FilesOK
    <3> QED  BY <3>1, <3>2, <3>3 DEF FilesOK
  <2>2. CASE OpenFile
    <3>1. disk' \in [File -> SUBSET Datum]
      BY <2>2, OpenEffect DEF FilesOK
    <3>2. \A f \in File : disk'[f] = {} \/ Holds(DOMAIN signedBy', f, disk'[f])
      BY <2>2, OpenEffect DEF FilesOK
    <3>3. todo' # << >>
      BY <2>2 DEF OpenFile, Idle
    <3> QED  BY <2>2, <3>1, <3>2, <3>3, OpenEffect DEF FilesOK
  <2>3. CASE WriteFile
    <3>1. disk' \in [File -> SUBSET Datum]
      BY <2>3, WriteEffect DEF FilesOK
    <3>2. \A f \in File : disk'[f] = {} \/ Holds(DOMAIN signedBy', f, disk'[f])
      <4>1. /\ disk' = [disk EXCEPT ![todo[1].file] = todo[1].content]
            /\ disk \in [File -> SUBSET Datum] /\ signedBy' = signedBy
        BY <2>3, WriteEffect DEF FilesOK
      <4>2. Holds(DOMAIN signedBy, todo[1].file, todo[1].content)
        BY <2>3, WriteEffect DEF FilesOK, WritesOK
      <4>3. \A f \in File : disk[f] = {} \/ Holds(DOMAIN signedBy, f, disk[f])
        BY DEF FilesOK
      <4> QED  BY <4>1, <4>2, <4>3
    <3>3. Len(todo) \in Nat /\ Len(todo) <= 2 /\ DOMAIN todo = 1..Len(todo)
      BY DEF FilesOK, WritesOK
    <3>4. DOMAIN todo' \subseteq {1} /\ Len(todo') <= 2 /\ \A i \in DOMAIN todo' : Len(todo') = 1
      <4>1. Len(todo') = Len(todo) - 1 /\ Len(todo') \in Nat /\ DOMAIN todo' = 1..Len(todo')
        BY <2>3, WriteEffect
      <4> QED  BY <3>3, <4>1
    <3>5. \A i \in DOMAIN todo' : Holds(DOMAIN signedBy', todo'[i].file, todo'[i].content)
      BY <2>3, WriteEffect DEF FilesOK, WritesOK
    <3>6. \A i, j \in DOMAIN todo' : i = j
      BY <3>4
    <3>7. WritesOK(DOMAIN signedBy', todo')
      BY <2>3, <3>4, <3>5, <3>6, WriteEffect DEF WritesOK
    <3> QED  BY <2>3, <3>1, <3>2, <3>7, WriteEffect DEF FilesOK
  <2>4. CASE Dies
    <3>1. WritesOK(DOMAIN signedBy', << >>)
      BY DEF WritesOK
    <3>2. todo' = << >> /\ opened' = FALSE /\ exists' = exists /\ disk' = disk /\ signedBy' = signedBy
      BY <2>4 DEF Dies, pki
    <3> QED  BY <3>1, <3>2 DEF FilesOK
  <2>5. CASE QuietStep
    BY <2>5 DEF QuietStep, pki, command, FilesOK
  <2>6. CASE \E s \in Suite : StartA(s) \/ StartB(s)
    BY <2>6 DEF StartA, StartB, pki, command, FilesOK
  <2>7. CASE Exchange
    BY <2>7 DEF Exchange, pki, command, FilesOK
  <2> QED  BY <2>1, <2>2, <2>3, <2>4, <2>5, <2>6, <2>7, StepKinds, Zenon
<1> QED  BY <1>1, <1>2, PTL DEF Spec

-----------------------------------------------------------------------------
(* Revocations                                                             *)

\* What steps do to the revocation list and the commands that rewrite it.
LEMMA RevocationSteps ==
    ASSUME FilesOK, [Next]_vars
    PROVE  \/ UNCHANGED revocations
           \/ \E r \in Revoker : \/ \E fp \in Nat : StartRevoke(r, fp)
                                 \/ OpenList(r) \/ SaveList(r) \/ RevokeStops(r)
<1>1. \A s \in Suite, a \in Agency : Load(Gateway(s, a, "crt")) \in Nat
  BY FileKinds, Loads
<1>2. CertificateFps \subseteq Nat
  BY <1>1 DEF CertificateFps
<1>3. "bootstrap" \in Revoker /\ Operators \subseteq Revoker
  BY DEF Revoker
<1>4. CASE BootstrapRevokes
  <2>1. Suites[1] \in Suite /\ Agencies[1] \in Agency
    BY Names
  <2> QED  BY <1>1, <1>3, <1>4, <2>1 DEF BootstrapRevokes
<1>5. CASE \E o \in Operators : OperatorRevokes(o)
  BY <1>2, <1>3, <1>5, Zenon DEF OperatorRevokes
<1>6. CASE Dies \/ \E o \in Operators : OperatorRevokeDies(o)
  BY <1>3, <1>6, Zenon DEF Dies, OperatorRevokeDies
<1>7. CASE \/ Operator \/ OpenFile \/ WriteFile
           \/ BootstrapStart \/ BootstrapGenerates \/ BootstrapEnds
           \/ \E s \in Suite : StartA(s) \/ StartB(s)
           \/ Exchange \/ UNCHANGED vars
  BY <1>7 DEF Operator, OpenFile, WriteFile, BootstrapStart, BootstrapGenerates, BootstrapEnds,
              StartA, StartB, Exchange, vars
<1> QED  BY <1>4, <1>5, <1>6, <1>7, Zenon DEF Next

\* A revoke rewrites the whole list from what it has read, and no lock keeps
\* another out; still nothing that was revoked is lost but to an overlap of two
\* revokes or to a death with the list open.
THEOREM RevocationsKept == Spec => []RevocationsAreKept
<1>1. Init => ListInv
  BY DEF Init, ListInv, RevokesOK, RiskKnown, ListsKeep, FileKeeps, GarbledRisk
<1>2. FilesOK /\ ListInv /\ [Next]_vars => ListInv'
  <2> SUFFICES ASSUME FilesOK, ListInv, [Next]_vars PROVE ListInv'
    OBVIOUS
  <2>1. CASE UNCHANGED revocations
    BY <2>1 DEF revocations, ListInv, RevokesOK, RiskKnown, ListsKeep, FileKeeps, GarbledRisk
  <2> SUFFICES ASSUME NEW r \in Revoker,
                      \/ \E fp \in Nat : StartRevoke(r, fp)
                      \/ OpenList(r) \/ SaveList(r) \/ RevokeStops(r)
               PROVE  ListInv'
    BY <2>1, RevocationSteps
  <2> DEFINE mine == revoke[r]
             Alone == \A q \in Revoker : q # r => revoke[q].pc = "none"
  <2>2. /\ mine \in [pc : {"none", "loaded", "open"}, list : SUBSET Entry]
        /\ revoked \subseteq Entry /\ crl.entries \subseteq Entry \cup {Garbled}
        /\ DOMAIN revoke = Revoker
    BY DEF ListInv, RevokesOK
  <2>3. OthersRevoke(r) <=> ~Alone
    BY DEF OthersRevoke
  \* With another revoke under way everything saved so far is at risk.
  <2>4. ASSUME RevokesOK', revoked' \subseteq atRisk' PROVE ListInv'
    BY <2>4 DEF ListInv, RiskKnown, ListsKeep, FileKeeps, GarbledRisk
  \* The others do not move.
  <2>5. /\ \A q \in Revoker : q # r => revoke'[q] = revoke[q]
        /\ \E x : revoke' = [revoke EXCEPT ![r] = x]
    BY <2>2 DEF StartRevoke, OpenList, SaveList, RevokeStops
  <2>6. ASSUME NEW fp \in Nat, StartRevoke(r, fp) PROVE ListInv'
    <3> DEFINE list == ListedRevocations \cup {<<"revoked", fp>>}
               x == [pc |-> "loaded", list |-> list]
    <3>1. /\ mine.pc = "none" /\ crl' = crl /\ revoked' = revoked /\ revoke' = [revoke EXCEPT ![r] = x]
          /\ atRisk' = IF Alone THEN atRisk ELSE revoked
      BY <2>3, <2>6 DEF StartRevoke
    <3>2. list \in SUBSET Entry
      <4>1. ListedRevocations \subseteq Entry
        BY <2>2 DEF ListedRevocations, Garbled, Entry
      <4>2. <<"revoked", fp>> \in Entry
        BY DEF Entry
      <4> QED  BY <4>1, <4>2
    <3>3. revoked \cap crl.entries \subseteq list
      BY <2>2 DEF ListedRevocations, Entry
    <3> HIDE DEF list
    <3>4. x \in [pc : {"none", "loaded", "open"}, list : SUBSET Entry] /\ x.list = list /\ x.pc = "loaded"
      BY <3>2
    <3> HIDE DEF x
    <3>5. RevokesOK' /\ revoke'[r] = x
      BY <3>1, <3>4 DEF ListInv, RevokesOK
    <3>6. CASE ~Alone
      BY <2>4, <3>1, <3>5, <3>6
    <3>7. CASE Alone
      <4>1. revoked \ atRisk \subseteq crl.entries
        BY <3>1, <3>7 DEF ListInv, FileKeeps
      <4>2. \A q \in Revoker : q # r => revoke'[q].pc = "none"
        BY <2>5, <3>7
      <4>3. revoked' \ atRisk' \subseteq x.list /\ revoked' \ atRisk' \subseteq crl'.entries
        BY <3>1, <3>3, <3>4, <3>7, <4>1
      <4>4. RiskKnown'
        BY <4>2 DEF RiskKnown
      <4>5. ListsKeep'
        BY <3>5, <4>2, <4>3 DEF ListsKeep
      <4> QED  BY <3>1, <3>5, <3>7, <4>3, <4>4, <4>5 DEF ListInv, FileKeeps, GarbledRisk
    <3> QED  BY <3>6, <3>7
  <2>7. CASE OpenList(r)
    <3> DEFINE x == [mine EXCEPT !.pc = "open"]
    <3>1. /\ mine.pc = "loaded" /\ crl' = [there |-> TRUE, entries |-> {}] /\ revoked' = revoked
          /\ atRisk' = atRisk /\ revoke' = [revoke EXCEPT ![r] = x]
      BY <2>7 DEF OpenList
    <3>2. x \in [pc : {"none", "loaded", "open"}, list : SUBSET Entry] /\ x.list = mine.list /\ x.pc = "open"
      BY <2>2
    <3> HIDE DEF x
    <3>3. RevokesOK' /\ revoke'[r] = x
      BY <3>1, <3>2 DEF ListInv, RevokesOK
    <3>4. \A q \in Revoker : /\ revoke'[q].list = revoke[q].list
                             /\ revoke'[q].pc # "none" <=> revoke[q].pc # "none"
      BY <2>5, <3>1, <3>2, <3>3
    <3>5. RiskKnown' /\ ListsKeep'
      BY <3>1, <3>4 DEF ListInv, RiskKnown, ListsKeep
    <3>6. FileKeeps' /\ GarbledRisk'
      BY <3>1, <3>2, <3>3 DEF FileKeeps, GarbledRisk
    <3> QED  BY <3>3, <3>5, <3>6 DEF ListInv
  <2>8. CASE SaveList(r)
    <3> DEFINE x == [pc |-> "none", list |-> {}]
    <3>1. PICK rest : /\ rest \subseteq crl.entries \cup {Garbled}
                      /\ rest # {} => crl.entries # {}
                      /\ crl' = [there |-> TRUE, entries |-> mine.list \cup rest]
      BY <2>8 DEF SaveList
    <3>2. /\ mine.pc = "open" /\ revoke' = [revoke EXCEPT ![r] = x] /\ revoked' = revoked \cup mine.list
          /\ atRisk' = IF Alone /\ crl.entries = {} THEN atRisk \ mine.list ELSE revoked'
      BY <2>3, <2>8 DEF SaveList
    <3>3. x \in [pc : {"none", "loaded", "open"}, list : SUBSET Entry] /\ x.pc = "none"
      OBVIOUS
    <3> HIDE DEF x
    <3>4. RevokesOK' /\ revoke'[r] = x
      BY <2>2, <3>1, <3>2, <3>3 DEF ListInv, RevokesOK
    <3>5. CASE ~(Alone /\ crl.entries = {})
      BY <2>4, <3>2, <3>4, <3>5
    <3>6. CASE Alone /\ crl.entries = {}
      <4>1. revoked \ atRisk \subseteq mine.list
        BY <3>2 DEF ListInv, ListsKeep
      <4>2. revoked' \ atRisk' \subseteq crl'.entries
        BY <3>1, <3>2, <3>6, <4>1
      <4>3. \A q \in Revoker : revoke'[q].pc = "none"
        BY <2>5, <3>3, <3>4, <3>6
      <4>4. Garbled \notin crl'.entries
        <5>1. Garbled \notin Entry
          BY DEF Garbled, Entry
        <5>2. rest = {} /\ crl'.entries \subseteq Entry
          BY <2>2, <3>1, <3>6
        <5> QED  BY <5>1, <5>2
      <4> QED  BY <3>4, <4>2, <4>3, <4>4 DEF ListInv, RiskKnown, ListsKeep, FileKeeps, GarbledRisk
    <3> QED  BY <3>5, <3>6
  <2>9. CASE RevokeStops(r)
    <3> DEFINE x == [pc |-> "none", list |-> {}]
    <3>1. /\ revoke' = [revoke EXCEPT ![r] = x] /\ crl' = crl /\ revoked' = revoked
          /\ atRisk' = IF mine.pc = "open" THEN revoked ELSE atRisk
      BY <2>9 DEF RevokeStops
    <3>2. x \in [pc : {"none", "loaded", "open"}, list : SUBSET Entry] /\ x.pc = "none"
      OBVIOUS
    <3> HIDE DEF x
    <3>3. RevokesOK' /\ revoke'[r] = x
      BY <3>1, <3>2 DEF ListInv, RevokesOK
    <3>4. CASE mine.pc = "open"
      BY <2>4, <3>1, <3>3, <3>4
    <3>5. CASE mine.pc # "open"
      <4>1. \A q \in Revoker : /\ revoke'[q].pc # "none" => revoke'[q] = revoke[q]
                               /\ revoke[q].pc = "open" => revoke'[q].pc = "open"
        BY <2>5, <3>2, <3>3, <3>5
      <4>2. RiskKnown'
        BY <3>1, <3>5, <4>1 DEF ListInv, RiskKnown
      <4>3. ListsKeep'
        BY <3>1, <3>5, <4>1 DEF ListInv, ListsKeep
      <4>4. FileKeeps' /\ GarbledRisk'
        BY <3>1, <3>5, <4>1 DEF ListInv, FileKeeps, GarbledRisk
      <4> QED  BY <3>3, <4>2, <4>3, <4>4 DEF ListInv
    <3> QED  BY <3>4, <3>5
  <2> QED  BY <2>6, <2>7, <2>8, <2>9
<1>3. ListInv => RevocationsAreKept
  <2>1. \A x \in Entry : x[1] = "revoked"
    BY DEF Entry
  <2> QED  BY <2>1 DEF ListInv, RevokesOK, FileKeeps, GarbledRisk, RevocationsAreKept, ListedRevocations
<1> QED  BY <1>1, <1>2, <1>3, FilesInvariant, PTL DEF Spec


-----------------------------------------------------------------------------
(* Gateway B's trust store and its keys                                    *)

\* Opening and closing a file brings no key that is older than an entry.
LEMMA KeptNotOlder ==
    ASSUME FilesOK, OpenFile \/ WriteFile, NEW s \in Suite,
           NEW entries, entries \subseteq [agency : Agency, tls : Nat, key : Nat],
           NotOlder(disk, todo, s, entries)
    PROVE  NotOlder(disk', todo', s, entries)
<1> SUFFICES ASSUME NEW x \in entries
             PROVE  /\ \A n \in disk'[Gateway(s, x.agency, "pub")] : x.key <= n
                    /\ \A i \in DOMAIN todo' : todo'[i].file = Gateway(s, x.agency, "pub") =>
                           \A n \in todo'[i].content : x.key <= n
  BY DEF NotOlder
<1> DEFINE f == Gateway(s, x.agency, "pub")
<1>1. f \in File
  <2>1. x.agency \in Agency
    OBVIOUS
  <2> QED  BY <2>1, FileKinds
<1>2. /\ \A n \in disk[f] : x.key <= n
      /\ \A i \in DOMAIN todo : todo[i].file = f => \A n \in todo[i].content : x.key <= n
  BY DEF NotOlder
<1> HIDE DEF f
<1>3. CASE OpenFile
  <2>1. disk'[f] \in {{}, disk[f]} /\ todo' = todo
    BY <1>1, <1>3, OpenEffect DEF FilesOK
  <2> QED  BY <1>2, <2>1 DEF f
<1>4. CASE WriteFile
  <2>1. /\ 1 \in DOMAIN todo
        /\ disk'[f] = IF f = todo[1].file THEN todo[1].content ELSE disk[f]
        /\ \A i \in DOMAIN todo' : i + 1 \in DOMAIN todo /\ todo'[i] = todo[i + 1]
    BY <1>1, <1>4, WriteEffect DEF FilesOK
  <2>2. \A n \in disk'[f] : x.key <= n
    BY <1>2, <2>1
  <2>3. \A i \in DOMAIN todo' : todo'[i].file = f => \A n \in todo'[i].content : x.key <= n
    BY <1>2, <2>1
  <2> QED  BY <2>2, <2>3 DEF f
<1> QED  BY <1>3, <1>4

\* Nor does a command: a key that it generates has a new serial number.
LEMMA CommandNotOlder ==
    ASSUME FilesOK, NewCommand, NEW s \in Suite,
           NEW entries, entries \subseteq [agency : Agency, tls : DOMAIN signedBy, key : DOMAIN signedBy],
           NotOlder(disk, todo, s, entries)
    PROVE  NotOlder(disk, todo', s, entries)
<1> SUFFICES ASSUME NEW x \in entries, NEW i \in DOMAIN todo',
                    todo'[i].file = Gateway(s, x.agency, "pub"), NEW n \in todo'[i].content
             PROVE  x.key <= n
  BY DEF NotOlder
<1>1. x.agency \in Agency /\ x.key \in DOMAIN signedBy
  OBVIOUS
<1>2. Gateway(s, x.agency, "pub") \in ArtifactFile
  BY <1>1, FileKinds
<1>3. x.key \in Nat /\ x.key <= Len(signedBy) /\ Len(signedBy) \in Nat
  BY <1>1 DEF FilesOK
<1>4. ASSUME NEW f \in ArtifactFile, NEW g \in ArtifactFile, NEW signer \in Nat, IssuesPair(f, g, signer)
      PROVE  x.key <= n
  <2>1. todo' = <<Write(f, {Fresh}), Write(g, {Fresh})>>
    BY <1>4 DEF IssuesPair
  <2>2. Write(f, {Fresh}).content = {Fresh} /\ Write(g, {Fresh}).content = {Fresh}
    BY DEF Write
  <2>3. todo'[i].content = {Fresh}
    <3> DEFINE w == Write(f, {Fresh})  v == Write(g, {Fresh})
    <3>1. w.content = {Fresh} /\ v.content = {Fresh} /\ todo' = <<w, v>>
      BY <2>1, <2>2
    <3> HIDE DEF w, v
    <3>2. todo'[i] = w \/ todo'[i] = v
      BY <3>1
    <3> QED  BY <3>1, <3>2
  <2> QED  BY <1>3, <2>3 DEF Fresh
<1>5. ASSUME NEW t \in Suite, NEW agencies \in Named, ExportTrustBundle(t, agencies) PROVE FALSE
  <2>1. todo' = <<Write(TrustBundle(t), {BundleEntry(t, a) : a \in agencies})>>
    BY <1>5 DEF ExportTrustBundle
  <2>2. Write(TrustBundle(t), {BundleEntry(t, a) : a \in agencies}).file = TrustBundle(t)
    BY DEF Write
  <2>3. todo'[i].file = TrustBundle(t)
    <3> DEFINE w == Write(TrustBundle(t), {BundleEntry(t, a) : a \in agencies})
    <3>1. w.file = TrustBundle(t) /\ todo' = <<w>>
      BY <2>1, <2>2
    <3> HIDE DEF w
    <3>2. todo'[i] = w
      BY <3>1
    <3> QED  BY <3>1, <3>2
  <2> QED  BY <1>2, <2>3, FileKinds
<1> QED  BY <1>4, <1>5, CommandForms, Zenon

\* A bundle that a command is to write lists the keys that are on the disk.
LEMMA ExportedNotOlder ==
    ASSUME FilesOK, NewCommand, NEW s \in Suite, NEW i \in DOMAIN todo',
           todo'[i].file = TrustBundle(s)
    PROVE  NotOlder(disk, todo', s, todo'[i].content)
<1>1. TrustBundle(s) \in BundleFile /\ TrustBundle(s) \notin ArtifactFile
  BY FileKinds
<1>2. ASSUME NEW f \in ArtifactFile, NEW g \in ArtifactFile, NEW signer \in Nat, IssuesPair(f, g, signer)
      PROVE  FALSE
  <2>1. todo' = <<Write(f, {Fresh}), Write(g, {Fresh})>>
    BY <1>2 DEF IssuesPair
  <2>2. Write(f, {Fresh}).file = f /\ Write(g, {Fresh}).file = g
    BY DEF Write
  <2>3. todo'[i].file \in ArtifactFile
    BY <2>1, <2>2
  <2> QED  BY <1>1, <2>3
<1>4. ASSUME NEW t \in Suite, NEW agencies \in Named, ExportTrustBundle(t, agencies)
      PROVE  NotOlder(disk, todo', s, todo'[i].content)
  <2> DEFINE c == {BundleEntry(t, a) : a \in agencies}
  <2>1. /\ todo' = <<Write(TrustBundle(t), c)>> /\ agencies \subseteq Agency
        /\ \A a \in agencies : Readable(Gateway(t, a, "pub"))
    BY <1>4 DEF ExportTrustBundle, Named
  <2>2. Write(TrustBundle(t), c).file = TrustBundle(t) /\ Write(TrustBundle(t), c).content = c
    BY DEF Write
  <2>3. todo'[i].content = c /\ \A l \in DOMAIN todo' : todo'[l].file = TrustBundle(t)
    <3> HIDE DEF c
    <3> DEFINE w == Write(TrustBundle(t), c)
    <3>1. w.file = TrustBundle(t) /\ w.content = c /\ todo' = <<w>>
      BY <2>1, <2>2
    <3> HIDE DEF w
    <3>2. \A l \in DOMAIN todo' : todo'[l] = w
      BY <3>1
    <3> QED  BY <3>1, <3>2
  <2>4. t = s
    BY <2>3 DEF TrustBundle
  <2>5. ASSUME NEW x \in c
        PROVE  /\ \A n \in disk[Gateway(s, x.agency, "pub")] : x.key <= n
               /\ Gateway(s, x.agency, "pub") \in ArtifactFile
    <3>1. PICK a \in agencies : x = BundleEntry(s, a)
      BY <2>4
    <3>2. x.agency = a /\ x.key = Load(Gateway(s, a, "pub"))
      BY <3>1 DEF BundleEntry
    <3>3. Gateway(s, a, "pub") \in ArtifactFile
      BY <2>1, FileKinds
    <3>4. disk[Gateway(s, a, "pub")] = {x.key} /\ x.key \in Nat
      BY <2>1, <2>4, <3>2, <3>3, Loads
    <3> QED  BY <3>2, <3>3, <3>4
  <2> HIDE DEF c
  <2>6. \A x \in c : \A l \in DOMAIN todo' : todo'[l].file # Gateway(s, x.agency, "pub")
    BY <1>1, <2>3, <2>4, <2>5
  <2> QED  BY <2>3, <2>5, <2>6 DEF NotOlder
<1> QED  BY <1>2, <1>4, CommandForms, Zenon

\* A bundle that Gateway B loaded, or that lies on the disk, lists issued
\* artifacts.
LEMMA EntriesTyped ==
    ASSUME FilesOK, NEW s \in Suite, NEW c, Holds(DOMAIN signedBy, TrustBundle(s), c) \/ c = {}
    PROVE  /\ c \subseteq [agency : Agency, tls : DOMAIN signedBy, key : DOMAIN signedBy]
           /\ c \subseteq [agency : Agency, tls : Nat, key : Nat]
<1>1. TrustBundle(s) \in BundleFile
  BY FileKinds
<1>2. c \subseteq [agency : Agency, tls : DOMAIN signedBy, key : DOMAIN signedBy]
  BY <1>1 DEF Holds
<1>3. DOMAIN signedBy \subseteq Nat
  BY DEF FilesOK
<1> QED  BY <1>2, <1>3

\* The key that Gateway B would use for an agency that its bundle lists: none, or
\* one no older than the listed one.
LEMMA UsedKey ==
    ASSUME FilesOK, KeyInv, gwB.up, NEW x \in gwB.agencies
    PROVE  /\ PublicKey(x.agency) \in Nat
           /\ PublicKey(x.agency) = 0 \/ x.key <= PublicKey(x.agency)
<1>1. /\ gwB.suite \in Suite /\ cache \in [Agency -> Nat]
      /\ Holds(DOMAIN signedBy, TrustBundle(gwB.suite), gwB.agencies)
      /\ NotOlder(disk, todo, gwB.suite, gwB.agencies)
      /\ cache[x.agency] = 0 \/ x.key <= cache[x.agency]
  BY DEF KeyInv
<1>2. x.agency \in Agency
  BY <1>1, EntriesTyped
<1> DEFINE f == Gateway(gwB.suite, x.agency, "pub")
<1>3. f \in ArtifactFile
  BY <1>1, <1>2, FileKinds
<1>4. \A n \in disk[f] : x.key <= n
  BY <1>1 DEF NotOlder
<1> HIDE DEF f
<1>5. Load(f) \in Nat /\ (Load(f) = 0 \/ x.key <= Load(f))
  BY <1>3, <1>4, Loads DEF Readable
<1> QED  BY <1>1, <1>2, <1>5 DEF PublicKey, f

\* Whatever is reissued, torn or restarted, Gateway B serves with a complete
\* bundle and never comes to use a key older than the one it lists.
LEMMA KeyInvariant == Spec => []KeyInv
<1>1. Init => KeyInv
  <2> SUFFICES ASSUME Init PROVE KeyInv
    OBVIOUS
  <2>1. \A s \in Suite : disk[TrustBundle(s)] = {}
    BY FileKinds DEF Init
  <2>2. ~gwB.up /\ ~gwA.up /\ todo = << >> /\ cache \in [Agency -> Nat]
    BY DEF Init
  <2> QED  BY <2>1, <2>2 DEF KeyInv, NotOlder
<1>2. FilesOK /\ FilesOK' /\ KeyInv /\ [Next]_vars => KeyInv'
  <2> SUFFICES ASSUME FilesOK, FilesOK', KeyInv, [Next]_vars PROVE KeyInv'
    OBVIOUS
  <2>1. \A s \in Suite : TrustBundle(s) \in File
    BY FileKinds
  <2>2. \A s \in Suite : disk[TrustBundle(s)] = {} \/ Holds(DOMAIN signedBy, TrustBundle(s), disk[TrustBundle(s)])
    BY <2>1 DEF FilesOK
  <2>3. CASE CommandStep
    <3>1. /\ disk' = disk /\ exists' = exists /\ gwA' = gwA /\ gwB' = gwB /\ cache' = cache
          /\ NewCommand
      BY <2>3 DEF CommandStep, serving
    <3>2. DOMAIN signedBy \subseteq DOMAIN signedBy'
      BY <3>1, CommandWrites
    <3>3. \A s \in Suite : NotOlder(disk, todo', s, disk[TrustBundle(s)])
      <4> TAKE s \in Suite
      <4>1. disk[TrustBundle(s)] \subseteq [agency : Agency, tls : DOMAIN signedBy, key : DOMAIN signedBy]
        BY <2>2, EntriesTyped
      <4>2. NotOlder(disk, todo, s, disk[TrustBundle(s)])
        BY DEF KeyInv
      <4> QED  BY <3>1, <4>1, <4>2, CommandNotOlder
    <3>4. \A s \in Suite : \A i \in DOMAIN todo' :
              todo'[i].file = TrustBundle(s) => NotOlder(disk, todo', s, todo'[i].content)
      BY <3>1, ExportedNotOlder
    <3>5. ASSUME gwB.up
          PROVE  /\ Holds(DOMAIN signedBy', TrustBundle(gwB.suite), gwB.agencies)
                 /\ NotOlder(disk, todo', gwB.suite, gwB.agencies)
      <4>1. /\ gwB.suite \in Suite /\ NotOlder(disk, todo, gwB.suite, gwB.agencies)
            /\ Holds(DOMAIN signedBy, TrustBundle(gwB.suite), gwB.agencies)
        BY <3>5 DEF KeyInv
      <4>2. gwB.agencies \subseteq [agency : Agency, tls : DOMAIN signedBy, key : DOMAIN signedBy]
        BY <4>1, EntriesTyped
      <4>3. NotOlder(disk, todo', gwB.suite, gwB.agencies)
        BY <3>1, <4>1, <4>2, CommandNotOlder
      <4> QED  BY <3>2, <4>1, <4>3, HoldsGrows
    <3> QED  BY <3>1, <3>3, <3>4, <3>5 DEF KeyInv
  <2>4. CASE OpenFile \/ WriteFile
    <3>1. gwA' = gwA /\ gwB' = gwB /\ cache' = cache
      BY <2>4 DEF OpenFile, WriteFile, serving
    <3>2. signedBy' = signedBy /\ exists \subseteq exists'
      BY <2>4, OpenEffect, WriteEffect
    <3>3. \A s \in Suite : \A i \in DOMAIN todo' :
              todo'[i].file = TrustBundle(s) => NotOlder(disk', todo', s, todo'[i].content)
      <4> SUFFICES ASSUME NEW s \in Suite, NEW i \in DOMAIN todo', todo'[i].file = TrustBundle(s)
                   PROVE  NotOlder(disk', todo', s, todo'[i].content)
        OBVIOUS
      <4>1. PICK l \in DOMAIN todo : todo'[i] = todo[l]
        BY <2>4, OpenEffect, WriteEffect
      <4>2. NotOlder(disk, todo, s, todo[l].content)
        BY <4>1 DEF KeyInv
      <4>3. todo[l].content \subseteq [agency : Agency, tls : Nat, key : Nat]
        <5>1. Holds(DOMAIN signedBy, TrustBundle(s), todo[l].content)
          BY <4>1 DEF FilesOK, WritesOK
        <5> QED  BY <5>1, EntriesTyped
      <4> QED  BY <2>4, <4>1, <4>2, <4>3, KeptNotOlder
    <3>4. \A s \in Suite : NotOlder(disk', todo', s, disk'[TrustBundle(s)])
      <4> TAKE s \in Suite
      <4> DEFINE f == TrustBundle(s)
      <4>1. f \in File
        BY <2>1
      <4>2. \/ disk'[f] = {}
            \/ disk'[f] = disk[f]
            \/ 1 \in DOMAIN todo /\ todo[1].file = f /\ disk'[f] = todo[1].content
        BY <2>4, <4>1, OpenEffect, WriteEffect DEF FilesOK
      <4>3. CASE disk'[f] = {}
        BY <4>3 DEF NotOlder
      <4>4. CASE disk'[f] = disk[f]
        <5>1. disk[f] \subseteq [agency : Agency, tls : Nat, key : Nat]
          BY <2>2, EntriesTyped
        <5>2. NotOlder(disk, todo, s, disk[f])
          BY DEF KeyInv
        <5> QED  BY <2>4, <4>4, <5>1, <5>2, KeptNotOlder
      <4>5. CASE 1 \in DOMAIN todo /\ todo[1].file = f /\ disk'[f] = todo[1].content
        <5>1. NotOlder(disk, todo, s, todo[1].content)
          BY <4>5 DEF KeyInv
        <5>2. Holds(DOMAIN signedBy, TrustBundle(s), todo[1].content)
          BY <4>5 DEF FilesOK, WritesOK
        <5>3. todo[1].content \subseteq [agency : Agency, tls : Nat, key : Nat]
          BY <5>2, EntriesTyped
        <5> QED  BY <2>4, <4>5, <5>1, <5>3, KeptNotOlder
      <4> QED  BY <4>2, <4>3, <4>4, <4>5
    <3>5. ASSUME gwB.up PROVE NotOlder(disk', todo', gwB.suite, gwB.agencies)
      <4>1. /\ gwB.suite \in Suite /\ NotOlder(disk, todo, gwB.suite, gwB.agencies)
            /\ Holds(DOMAIN signedBy, TrustBundle(gwB.suite), gwB.agencies)
        BY <3>5 DEF KeyInv
      <4>2. gwB.agencies \subseteq [agency : Agency, tls : Nat, key : Nat]
        BY <4>1, EntriesTyped
      <4> QED  BY <2>4, <4>1, <4>2, KeptNotOlder
    <3> QED  BY <3>1, <3>2, <3>3, <3>4, <3>5 DEF KeyInv
  <2>5. CASE Dies
    <3>1. /\ todo' = << >> /\ disk' = disk /\ exists' = exists /\ signedBy' = signedBy
          /\ gwA' = gwA /\ gwB' = gwB /\ cache' = cache
      BY <2>5 DEF Dies, pki, serving
    <3>2. \A s, c : NotOlder(disk, todo, s, c) => NotOlder(disk, << >>, s, c)
      BY DEF NotOlder
    <3> QED  BY <3>1, <3>2 DEF KeyInv
  <2>6. CASE QuietStep
    BY <2>6 DEF QuietStep, pki, command, serving, KeyInv
  <2>7. ASSUME NEW s \in Suite, StartA(s) PROVE KeyInv'
    <3>1. gwA'.key \in Nat \ {0}
      BY <2>7, FileKinds, Loads DEF StartA, Readable
    <3> QED  BY <2>7, <3>1 DEF StartA, pki, command, KeyInv
  <2>8. ASSUME NEW s \in Suite, StartB(s) PROVE KeyInv'
    <3>1. /\ disk' = disk /\ exists' = exists /\ signedBy' = signedBy /\ todo' = todo /\ gwA' = gwA
          /\ disk[TrustBundle(s)] # {}
          /\ gwB'.suite = s /\ gwB'.agencies = disk[TrustBundle(s)]
          /\ cache' = [a \in Agency |-> 0]
      BY <2>8 DEF StartB, LoadedB, pki, command
    <3>2. disk[TrustBundle(s)] \subseteq [agency : Agency, tls : Nat, key : Nat]
      BY <2>2, EntriesTyped
    <3>3. \A x \in disk[TrustBundle(s)] : cache'[x.agency] = 0
      BY <3>1, <3>2
    <3>4. cache' \in [Agency -> Nat]
      BY <3>1
    <3> QED  BY <2>2, <3>1, <3>3, <3>4 DEF KeyInv
  <2>9. CASE Exchange
    <3> DEFINE Known == \E y \in gwB.agencies : y.agency = Sender
    <3>1. /\ disk' = disk /\ exists' = exists /\ signedBy' = signedBy /\ todo' = todo
          /\ gwA' = gwA /\ gwB' = gwB /\ gwB.up
      BY <2>9 DEF Exchange, pki, command
    <3>2. \/ cache' = cache
          \/ cache' = [cache EXCEPT ![Sender] = PublicKey(Sender)] /\ Known
      <4> DEFINE failed == FailedGates(LoadedStore, Rules, SentEnvelope)
      <4>1. cache' = [cache EXCEPT ![Sender] =
                        IF failed \cap (1..4) = {} THEN PublicKey(Sender) ELSE cache[Sender]]
        BY <2>9 DEF Exchange
      <4>2. failed \cap (1..4) = {} => 2 \notin failed
        OBVIOUS
      <4>3. 2 \notin failed => KnownSender(LoadedStore, SentEnvelope)
        BY DEF FailedGates
      <4>4. KnownSender(LoadedStore, SentEnvelope) => Known
        BY DEF KnownSender, LoadedStore, SentEnvelope
      <4> HIDE DEF failed
      <4> QED  BY <4>1, <4>2, <4>3, <4>4 DEF KeyInv
    <3>3. CASE cache' = cache
      BY <3>1, <3>3 DEF KeyInv
    <3>4. CASE cache' = [cache EXCEPT ![Sender] = PublicKey(Sender)] /\ Known
      <4>1. gwB.suite \in Suite /\ Holds(DOMAIN signedBy, TrustBundle(gwB.suite), gwB.agencies)
        BY <3>1 DEF KeyInv
      <4>2. gwB.agencies \subseteq [agency : Agency, tls : Nat, key : Nat]
        BY <4>1, EntriesTyped
      <4>3. PICK y \in gwB.agencies : y.agency = Sender
        BY <3>4
      <4>4. PublicKey(Sender) \in Nat
        BY <3>1, <4>3, UsedKey
      <4>5. cache' \in [Agency -> Nat]
        BY <3>4, <4>4 DEF KeyInv
      <4>6. \A x \in gwB.agencies : cache'[x.agency] = 0 \/ x.key <= cache'[x.agency]
        <5> TAKE x \in gwB.agencies
        <5>1. x.agency \in Agency
          BY <4>2
        <5>2. CASE x.agency = Sender
          <6>1. cache'[x.agency] = PublicKey(x.agency)
            BY <3>4, <5>1, <5>2 DEF KeyInv
          <6> QED  BY <3>1, <6>1, UsedKey
        <5>3. CASE x.agency # Sender
          <6>1. cache'[x.agency] = cache[x.agency]
            BY <3>4, <5>1, <5>3 DEF KeyInv
          <6> QED  BY <3>1, <6>1 DEF KeyInv
        <5> QED  BY <5>2, <5>3
      <4> QED  BY <3>1, <4>5, <4>6 DEF KeyInv
    <3> QED  BY <3>2, <3>3, <3>4
  <2> QED  BY <2>3, <2>4, <2>5, <2>6, <2>7, <2>8, <2>9, StepKinds, Zenon
<1> QED  BY <1>1, <1>2, FilesInvariant, PTL DEF Spec

\* No interrupted bootstrap and no torn file lets Gateway B start with less than
\* a complete bundle of issued artifacts, as an export wrote it.
THEOREM ServesComplete == Spec => []ServesOnlyComplete
<1>1. FilesOK /\ KeyInv => ServesOnlyComplete
  <2> SUFFICES ASSUME FilesOK, KeyInv, gwB.up
               PROVE  /\ {x.agency : x \in gwB.agencies} \in Exports \cup {Agency}
                      /\ \A x \in gwB.agencies : {x.tls, x.key} \subseteq DOMAIN signedBy
    BY DEF ServesOnlyComplete
  <2>1. gwB.suite \in Suite /\ Holds(DOMAIN signedBy, TrustBundle(gwB.suite), gwB.agencies)
    BY DEF KeyInv
  <2>2. gwB.agencies \subseteq [agency : Agency, tls : DOMAIN signedBy, key : DOMAIN signedBy]
    BY <2>1, EntriesTyped
  <2>4. {x.agency : x \in gwB.agencies} \in Exports \cup {Agency}
    BY <2>1, FileKinds DEF Holds
  <2>5. \A x \in gwB.agencies : {x.tls, x.key} \subseteq DOMAIN signedBy
    BY <2>2
  <2> QED  BY <2>4, <2>5
<1> QED  BY <1>1, FilesInvariant, KeyInvariant, PTL

\* An accepted bundle came over the listed certificate, and the key that signed
\* it is no older than the listed one: the files that a restart, a reissue or a
\* died command leaves behind never bring an older key back.
THEOREM AcceptedNotOlder == Spec => []AcceptedKeyNotOlder
<1>1. Init => AcceptedKeyNotOlder
  BY DEF Init, AcceptedKeyNotOlder
<1>2. FilesOK /\ KeyInv /\ AcceptedKeyNotOlder /\ [Next]_vars => AcceptedKeyNotOlder'
  <2> SUFFICES ASSUME FilesOK, KeyInv, AcceptedKeyNotOlder, [Next]_vars PROVE AcceptedKeyNotOlder'
    OBVIOUS
  <2>1. CASE last' = last
    BY <2>1 DEF AcceptedKeyNotOlder
  <2>2. CASE Exchange
    <3> SUFFICES ASSUME last'.verdict = "ACCEPT"
                 PROVE  \E x \in last'.listed :
                           x.agency = Sender /\ last'.peer = x.tls /\ last'.signer >= x.key
      BY DEF AcceptedKeyNotOlder
    <3> DEFINE env == SentEnvelope  store == LoadedStore
    <3>1. /\ gwA.up /\ gwB.up
          /\ last'.verdict = Verdict(store, Rules, env)
          /\ last'.peer = env.peer /\ last'.signer = gwA.key /\ last'.listed = gwB.agencies
      BY <2>2 DEF Exchange
    <3>3. KnownSender(store, env) /\ TlsIdentityMatches(store, env) /\ SignatureValid(store, env)
      <4> HIDE DEF env, store
      <4>1. FailedGates(store, Rules, env) = {}
        BY <3>1, AcceptPassesGates
      <4> QED  BY <4>1, PassedGates
    <3>4. env.sender = Sender /\ env.signer = gwA.key
      BY DEF SentEnvelope
    <3>5. \E x \in gwB.agencies : x.agency = Sender
      BY <3>3, <3>4 DEF KnownSender, LoadedStore
    <3>6. Listed(Sender) \in gwB.agencies /\ Listed(Sender).agency = Sender
      BY <3>5 DEF Listed
    <3>7. Sender \in {x.agency : x \in gwB.agencies}
      BY <3>5
    <3>8. store.agencies[Sender].tls = Listed(Sender).tls /\ store.agencies[Sender].pub = PublicKey(Sender)
      BY <3>7 DEF LoadedStore
    <3>9. env.peer = Listed(Sender).tls /\ gwA.key = PublicKey(Sender)
      BY <3>3, <3>4, <3>8 DEF TlsIdentityMatches, SignatureValid
    <3>10. gwA.key \in Nat \ {0}
      BY <3>1 DEF KeyInv
    <3>11. Listed(Sender).key <= gwA.key
      BY <3>1, <3>6, <3>9, <3>10, UsedKey
    <3>12. Listed(Sender).key \in Nat
      BY <3>1, <3>6, EntriesTyped DEF KeyInv
    <3> QED  BY <3>1, <3>6, <3>9, <3>10, <3>11, <3>12
  <2>3. last' = last \/ Exchange
    BY StepKinds DEF CommandStep, OpenFile, WriteFile, Dies, QuietStep, StartA, StartB, serving
  <2> QED  BY <2>1, <2>2, <2>3
<1> QED  BY <1>1, <1>2, FilesInvariant, KeyInvariant, PTL DEF Spec

-----------------------------------------------------------------------------
(* The bootstrap                                                           *)

\* What a step of the bootstrap, or of anyone else, does to boot.
LEMMA BootSteps ==
    ASSUME FilesOK, BootInv, [Next]_vars
    PROVE  \/ boot' = boot /\ ~Operator /\ UNCHANGED skipped
           \/ boot = 0 /\ boot' = 0 /\ Operator
           \/ boot' = 0 /\ Dies
           \/ BootstrapStart \/ BootstrapGenerates \/ BootstrapRevokes \/ BootstrapEnds
<1>1. CASE Operator
  BY <1>1 DEF Operator
<1>2. CASE ~Operator
  BY <1>2 DEF Next, OpenFile, WriteFile, Dies, StartA, StartB, Exchange, OperatorRevokes,
              OperatorRevokeDies, OpenList, SaveList, vars
<1> QED  BY <1>1, <1>2

\* The files that command k for suite s writes are of that suite, and only the
\* last of the commands writes the bundle.
LEMMA GeneratedFiles ==
    ASSUME NEW s \in Suite, NEW k \in 1..SuiteSteps, GenerateStep(s, k), NEW l \in DOMAIN todo'
    PROVE  /\ todo'[l].file[1] = s
           /\ k # SuiteSteps => todo'[l].file \in ArtifactFile
           /\ k = SuiteSteps => todo'[l].file = TrustBundle(s)
<1>1. N \in Nat \ {0} /\ SuiteSteps = 2 * N + 2
  BY Names DEF SuiteSteps
<1>2. ASSUME NEW f \in ArtifactFile, NEW g \in ArtifactFile, f[1] = s, g[1] = s, NEW n,
             todo' = <<Write(f, {n}), Write(g, {n})>>
      PROVE  todo'[l].file[1] = s /\ todo'[l].file \in ArtifactFile
  <2> DEFINE w == Write(f, {n})  v == Write(g, {n})
  <2>1. w.file = f /\ v.file = g /\ todo' = <<w, v>>
    BY <1>2 DEF Write
  <2> HIDE DEF w, v
  <2>2. todo'[l] = w \/ todo'[l] = v
    BY <2>1
  <2> QED  BY <1>2, <2>1, <2>2
<1>3. CASE k = 1 /\ InitRoot(s)
  <2>1. /\ Root(s, "crt") \in ArtifactFile /\ Root(s, "key") \in ArtifactFile
        /\ Root(s, "crt")[1] = s /\ Root(s, "key")[1] = s
    BY FileKinds DEF Root
  <2>2. todo' = <<Write(Root(s, "crt"), {Fresh}), Write(Root(s, "key"), {Fresh})>>
    BY <1>3 DEF InitRoot
  <2>3. todo'[l].file[1] = s /\ todo'[l].file \in ArtifactFile
    BY <1>2, <2>1, <2>2
  <2> QED  BY <1>1, <1>3, <2>3
<1>4. CASE k \in 2..(N + 1) /\ IssueGatewayCert(s, Agencies[k - 1])
  <2> DEFINE a == Agencies[k - 1]
  <2>1. a \in Agency
    BY <1>4, Names
  <2>2. /\ Gateway(s, a, "crt") \in ArtifactFile /\ Gateway(s, a, "key") \in ArtifactFile
        /\ Gateway(s, a, "crt")[1] = s /\ Gateway(s, a, "key")[1] = s
    BY <2>1, FileKinds DEF Gateway
  <2>3. todo' = <<Write(Gateway(s, a, "crt"), {Fresh}), Write(Gateway(s, a, "key"), {Fresh})>>
    BY <1>4 DEF IssueGatewayCert
  <2>4. todo'[l].file[1] = s /\ todo'[l].file \in ArtifactFile
    BY <1>2, <2>2, <2>3
  <2> QED  BY <1>1, <1>4, <2>4
<1>5. CASE k \in (N + 2)..(2 * N + 1) /\ IssueSigningKey(s, Agencies[k - N - 1])
  <2> DEFINE a == Agencies[k - N - 1]
  <2>1. a \in Agency
    BY <1>5, Names
  <2>2. /\ Gateway(s, a, "pem") \in ArtifactFile /\ Gateway(s, a, "pub") \in ArtifactFile
        /\ Gateway(s, a, "pem")[1] = s /\ Gateway(s, a, "pub")[1] = s
    BY <2>1, FileKinds DEF Gateway
  <2>3. todo' = <<Write(Gateway(s, a, "pem"), {Fresh}), Write(Gateway(s, a, "pub"), {Fresh})>>
    BY <1>5 DEF IssueSigningKey
  <2>4. todo'[l].file[1] = s /\ todo'[l].file \in ArtifactFile
    BY <1>2, <2>2, <2>3
  <2> QED  BY <1>1, <1>5, <2>4
<1>6. CASE k = SuiteSteps /\ ExportTrustBundle(s, Agency)
  <2> DEFINE w == Write(TrustBundle(s), {BundleEntry(s, a) : a \in Agency})
  <2>1. w.file = TrustBundle(s) /\ todo' = <<w>>
    BY <1>6 DEF ExportTrustBundle, Write
  <2> HIDE DEF w
  <2>2. todo'[l] = w
    BY <2>1
  <2>3. TrustBundle(s)[1] = s
    BY DEF TrustBundle
  <2> QED  BY <1>6, <2>1, <2>2, <2>3
<1> QED  BY <1>3, <1>4, <1>5, <1>6 DEF GenerateStep

\* The commands for the first suite come first, and its bundle after its
\* certificates and keys.
LEMMA FirstSuiteFirst ==
    ASSUME NEW b \in 1..(RevokeStep - 1)
    PROVE  LET i == ((b - 1) \div SuiteSteps) + 1
               k == ((b - 1) % SuiteSteps) + 1
           IN  b <= SuiteSteps <=> i = 1 /\ k = b
<1> DEFINE i == ((b - 1) \div SuiteSteps) + 1
           k == ((b - 1) % SuiteSteps) + 1
<1>1. i \in DOMAIN Suites /\ k \in 1..SuiteSteps /\ b = (i - 1) * SuiteSteps + k
  BY BootPosition
<1> HIDE DEF i, k
<1>2. 1 \in DOMAIN Suites /\ (1 - 1) * SuiteSteps = 0 /\ SuiteSteps \in Nat
  BY Names
<1>3. ASSUME b <= SuiteSteps PROVE i = 1 /\ k = b
  <2>1. b \in 1..SuiteSteps /\ (1 - 1) * SuiteSteps + b = b
    BY <1>2, <1>3
  <2>2. (i - 1) * SuiteSteps + k = (1 - 1) * SuiteSteps + b
    BY <1>1, <2>1
  <2>3. \A x, y \in DOMAIN Suites : \A m, n \in 1..SuiteSteps :
            (x - 1) * SuiteSteps + m = (y - 1) * SuiteSteps + n => x = y /\ m = n
    BY BootPosition, Zenon
  <2>4. i \in DOMAIN Suites /\ 1 \in DOMAIN Suites /\ k \in 1..SuiteSteps /\ b \in 1..SuiteSteps
    BY <1>1, <1>2, <2>1
  <2>5. \A n \in 1..SuiteSteps : (i - 1) * SuiteSteps + k = (1 - 1) * SuiteSteps + n => i = 1 /\ k = n
    BY <2>3, <2>4
  <2> QED  BY <2>2, <2>4, <2>5
<1>4. ASSUME i = 1, k = b PROVE b <= SuiteSteps
  BY <1>1, <1>2, <1>4
<1> QED  BY <1>3, <1>4 DEF i, k

\* RevokeStep comes after the commands for the first suite.
LEMMA RevokeStepLate == SuiteSteps < RevokeStep
<1>1. Len(Suites) \in Nat \ {0} /\ SuiteSteps \in Nat
  BY Names
<1>2. \A m \in Nat \ {0} : \A n \in Nat : n <= m * n
  OBVIOUS
<1>3. SuiteSteps <= Len(Suites) * SuiteSteps /\ Len(Suites) * SuiteSteps \in Nat
  BY <1>1, <1>2
<1> QED  BY <1>1, <1>3 DEF RevokeStep

\* A bootstrap that finds the first suite's bundle does not come to write that
\* suite's files, and one that does not find it writes the bundle after them.
LEMMA BootInvariant == Spec => []BootInv
<1>1. Init => BootInv
  BY Names DEF Init, BootInv
<1>2. FilesOK /\ BootInv /\ [Next]_vars => BootInv'
  <2> SUFFICES ASSUME FilesOK, BootInv, [Next]_vars PROVE BootInv'
    OBVIOUS
  <2> DEFINE first == TrustBundle(Suites[1])
  <2>1. RevokeStep \in Nat \ {0} /\ SuiteSteps \in Nat \ {0} /\ SuiteSteps < RevokeStep
    BY Names, RevokeStepLate
  <2>2. CASE boot' = 0
    BY <2>1, <2>2 DEF BootInv
  <2>3. CASE boot' = boot /\ ~Operator /\ UNCHANGED skipped /\ boot # 0
    <3>1. CASE OpenFile
      <4>1. exists' = exists \cup {todo[1].file} /\ todo' = todo /\ 1 \in DOMAIN todo
        BY <3>1, OpenEffect
      <4> QED  BY <2>3, <4>1 DEF BootInv
    <3>2. CASE WriteFile
      <4>1. exists' = exists /\ \A i \in DOMAIN todo' : i + 1 \in DOMAIN todo /\ todo'[i] = todo[i + 1]
        BY <3>2, WriteEffect
      <4> QED  BY <2>3, <4>1 DEF BootInv
    <3>3. CASE exists' = exists /\ (todo' = todo \/ todo' = << >>)
      BY <2>3, <3>3 DEF BootInv
    <3>4. \/ OpenFile \/ WriteFile
          \/ exists' = exists /\ (todo' = todo \/ todo' = << >>)
      <4>1. ~BootstrapStart /\ ~BootstrapGenerates /\ ~BootstrapRevokes /\ ~BootstrapEnds
        BY <2>1, <2>3 DEF BootstrapStart, BootstrapGenerates, BootstrapRevokes, BootstrapEnds, BootInv
      <4> QED  BY <2>3, <4>1 DEF Next, Dies, StartA, StartB, Exchange, OperatorRevokes,
                                 OperatorRevokeDies, OpenList, SaveList, vars, pki, command
    <3> QED  BY <3>1, <3>2, <3>3, <3>4
  <2>4. CASE BootstrapStart
    <3>1. todo' = << >> /\ exists' = exists /\ boot' = (IF first \in exists THEN RevokeStep ELSE 1)
      BY <2>4 DEF BootstrapStart, Idle, pki, command
    <3> QED  BY <2>1, <3>1 DEF BootInv
  <2>5. CASE BootstrapGenerates
    <3> DEFINE i == ((boot - 1) \div SuiteSteps) + 1
               k == ((boot - 1) % SuiteSteps) + 1
    <3>1. /\ boot \in 1..(RevokeStep - 1) /\ boot' = boot + 1 /\ exists' = exists
          /\ GenerateStep(Suites[i], k)
      BY <2>5 DEF BootstrapGenerates
    <3>2. /\ i \in DOMAIN Suites /\ Suites[i] \in Suite /\ k \in 1..SuiteSteps
          /\ (boot <= SuiteSteps <=> i = 1 /\ k = boot)
      BY <3>1, Names, BootPosition, FirstSuiteFirst
    <3> HIDE DEF i, k
    <3>3. ASSUME NEW l \in DOMAIN todo'
          PROVE  /\ todo'[l].file[1] = Suites[i]
                 /\ k # SuiteSteps => todo'[l].file \in ArtifactFile
                 /\ k = SuiteSteps => todo'[l].file = TrustBundle(Suites[i])
      BY <3>1, <3>2, GeneratedFiles
    <3>4. first \in BundleFile /\ \A f \in FirstSuite : f \in ArtifactFile /\ f[1] = Suites[1]
      <4>1. first \in BundleFile /\ Suites[1] \in Suite
        BY Names, FileKinds
      <4>2. ASSUME NEW f \in FirstSuite PROVE f \in ArtifactFile /\ f[1] = Suites[1]
        <5>1. PICK a \in Agency, part \in {"crt", "key", "pem", "pub"} : f = Gateway(Suites[1], a, part)
          BY DEF FirstSuite
        <5>2. Gateway(Suites[1], a, part)[1] = Suites[1]
          BY DEF Gateway
        <5> QED  BY <4>1, <5>1, <5>2, FileKinds
      <4> QED  BY <4>1, <4>2
    <3>5. boot' \in 0..(RevokeStep + 1) /\ boot' # 0 /\ boot \in Nat
      BY <2>1, <3>1
    <3>6. CASE boot' <= SuiteSteps
      <4>1. boot <= SuiteSteps /\ boot # 0 /\ k # SuiteSteps
        BY <2>1, <3>1, <3>2, <3>6
      <4>2. \A l \in DOMAIN todo' : todo'[l].file # first
        BY <3>3, <3>4, <4>1, FileKinds
      <4> QED  BY <3>1, <3>5, <3>6, <4>1, <4>2 DEF BootInv
    <3>7. CASE ~(boot' <= SuiteSteps)
      <4>1. \A l \in DOMAIN todo' : todo'[l].file \notin FirstSuite
        <5>1. CASE boot <= SuiteSteps
          <6>1. k = SuiteSteps
            BY <2>1, <3>1, <3>2, <3>5, <3>7, <5>1
          <6> QED  BY <3>2, <3>3, <3>4, <6>1, FileKinds
        <5>2. CASE ~(boot <= SuiteSteps)
          <6>1. CASE i = 1
            <7>1. k \in Nat /\ k <= SuiteSteps /\ boot = k
              <8>1. boot = (i - 1) * SuiteSteps + k
                BY <3>1, BootPosition DEF i, k
              <8> QED  BY <2>1, <3>2, <6>1, <8>1
            <7> QED  BY <5>2, <7>1
          <6>2. CASE i # 1
            <7>1. Suites[i] # Suites[1]
              BY <3>2, <6>2, Names
            <7> QED  BY <3>3, <3>4, <7>1
          <6> QED  BY <6>1, <6>2
        <5> QED  BY <5>1, <5>2
      <4> QED  BY <3>5, <3>7, <4>1 DEF BootInv
    <3> QED  BY <3>6, <3>7
  <2>6. CASE BootstrapRevokes
    <3>1. boot = RevokeStep /\ boot' = RevokeStep + 1 /\ todo' = todo
      BY <2>6 DEF BootstrapRevokes, command
    <3> QED  BY <2>1, <3>1 DEF BootInv
  <2>7. CASE BootstrapEnds
    BY <2>7, <2>2 DEF BootstrapEnds
  <2> QED  BY <2>2, <2>3, <2>4, <2>5, <2>6, <2>7, BootSteps
<1> QED  BY <1>1, <1>2, FilesInvariant, PTL DEF Spec

\* Once the bundle of the first suite is there, no bootstrap, and no step of one,
\* replaces a certificate or key of that suite.
THEOREM BootstrapsKeepKeys == Spec => BootstrapKeepsKeys
<1> DEFINE Kept == boot # 0 /\ TrustBundle(Suites[1]) \in exists =>
                     \A a \in Agency, part \in {"crt", "key", "pem", "pub"} :
                         LET f == Gateway(Suites[1], a, part) IN disk'[f] = disk[f]
<1>1. FilesOK /\ BootInv /\ [Next]_vars => [Kept]_vars
  <2> SUFFICES ASSUME FilesOK, BootInv, [Next]_vars, boot # 0, TrustBundle(Suites[1]) \in exists,
                      NEW a \in Agency, NEW part \in {"crt", "key", "pem", "pub"}
               PROVE  disk'[Gateway(Suites[1], a, part)] = disk[Gateway(Suites[1], a, part)]
    OBVIOUS
  <2> DEFINE f == Gateway(Suites[1], a, part)
  <2>1. f \in File /\ f \in FirstSuite
    BY Names, FileKinds DEF FirstSuite
  <2>2. \A i \in DOMAIN todo : todo[i].file \notin FirstSuite
    BY DEF BootInv
  <2> HIDE DEF f
  <2>3. CASE OpenFile
    <3>1. todo[1].file # f /\ disk' = [disk EXCEPT ![todo[1].file] = {}]
      BY <2>1, <2>2, <2>3, OpenEffect
    <3> QED  BY <2>1, <3>1 DEF FilesOK, f
  <2>4. CASE WriteFile
    <3>1. todo[1].file # f /\ disk' = [disk EXCEPT ![todo[1].file] = todo[1].content]
      BY <2>1, <2>2, <2>4, WriteEffect
    <3> QED  BY <2>1, <3>1 DEF FilesOK, f
  <2>5. OpenFile \/ WriteFile \/ disk' = disk
    BY StepKinds DEF CommandStep, Dies, QuietStep, StartA, StartB, Exchange, pki
  <2> QED  BY <2>3, <2>4, <2>5
<1> QED  BY <1>1, FilesInvariant, BootInvariant, PTL DEF Spec, BootstrapKeepsKeys

\* What a file holds once the writes are made: what is written there, if it is.
LEMMA FinalAt ==
    ASSUME NEW serials, NEW t, WritesOK(serials, t), NEW d, NEW f \in File
    PROVE  /\ \A i \in DOMAIN t : t[i].file = f => Final(d, t)[f] = t[i].content
           /\ (\A i \in DOMAIN t : t[i].file # f) => Final(d, t)[f] = d[f]
<1>1. ASSUME NEW i \in DOMAIN t, t[i].file = f PROVE Final(d, t)[f] = t[i].content
  <2> DEFINE l == CHOOSE m \in DOMAIN t : t[m].file = f
  <2>1. l \in DOMAIN t /\ t[l].file = f
    BY <1>1
  <2>2. l = i
    BY <1>1, <2>1 DEF WritesOK
  <2>3. Final(d, t)[f] = t[l].content
    BY <1>1 DEF Final
  <2> QED  BY <2>2, <2>3
<1>2. (\A i \in DOMAIN t : t[i].file # f) => Final(d, t)[f] = d[f]
  BY DEF Final
<1> QED  BY <1>1, <1>2

\* Without a command under way the disk is final.
LEMMA FinalIdle ==
    ASSUME FilesOK, Idle PROVE Final(disk, todo) = disk
<1>1. \A f \in File : Final(disk, todo)[f] = disk[f]
  BY DEF Final, Idle
<1>2. DOMAIN Final(disk, todo) = File
  BY DEF Final
<1>3. Final(disk, todo) = [f \in File |-> disk[f]]
  BY DEF Final, Idle
<1> QED  BY <1>3 DEF FilesOK

\* Opening and closing files leads to where the command was going.
LEMMA FinalKept ==
    ASSUME FilesOK, FilesOK', OpenFile \/ WriteFile
    PROVE  Final(disk', todo') = Final(disk, todo)
<1>1. WritesOK(DOMAIN signedBy, todo) /\ WritesOK(DOMAIN signedBy', todo')
  BY DEF FilesOK
<1>2. ASSUME NEW f \in File PROVE Final(disk', todo')[f] = Final(disk, todo)[f]
  <2>1. CASE OpenFile
    <3>1. /\ todo' = todo /\ 1 \in DOMAIN todo
          /\ todo[1].file # f => disk'[f] = disk[f]
      BY <2>1, OpenEffect DEF FilesOK
    <3>2. CASE \E i \in DOMAIN todo : todo[i].file = f
      <4>1. PICK i \in DOMAIN todo : todo[i].file = f
        BY <3>2
      <4>2. Final(disk, todo)[f] = todo[i].content
        BY <1>1, <4>1, FinalAt
      <4>3. Final(disk', todo)[f] = todo[i].content
        BY <1>1, <4>1, FinalAt
      <4> QED  BY <3>1, <4>2, <4>3
    <3>3. CASE ~ \E i \in DOMAIN todo : todo[i].file = f
      <4>1. Final(disk, todo)[f] = disk[f]
        BY <1>1, <3>3, FinalAt
      <4>2. Final(disk', todo)[f] = disk'[f]
        BY <1>1, <3>3, FinalAt
      <4> QED  BY <3>1, <3>3, <4>1, <4>2
    <3> QED  BY <3>2, <3>3
  <2>2. CASE WriteFile
    <3>1. /\ 1 \in DOMAIN todo
          /\ disk'[f] = IF f = todo[1].file THEN todo[1].content ELSE disk[f]
          /\ \A i \in DOMAIN todo' : i + 1 \in DOMAIN todo /\ todo'[i] = todo[i + 1]
      BY <2>2, WriteEffect DEF FilesOK
    <3>2. Len(todo') = Len(todo) - 1 /\ DOMAIN todo = 1..Len(todo) /\ DOMAIN todo' = 1..Len(todo')
          /\ Len(todo) \in Nat
      <4>1. todo \in Seq(Pending)
        BY DEF FilesOK, WritesOK
      <4>2. todo' \in Seq(Pending) /\ Len(todo') = Len(todo) - 1
        BY <2>2, WriteEffect
      <4> QED  BY <4>1, <4>2
    <3>3. CASE \E i \in DOMAIN todo' : todo'[i].file = f
      <4>1. PICK i \in DOMAIN todo' : todo'[i].file = f
        BY <3>3
      <4>2. Final(disk', todo')[f] = todo'[i].content
        BY <1>1, <4>1, FinalAt
      <4>3. i + 1 \in DOMAIN todo /\ todo'[i] = todo[i + 1]
        BY <3>1
      <4>4. Final(disk, todo)[f] = todo[i + 1].content
        BY <1>1, <4>1, <4>3, FinalAt
      <4> QED  BY <4>2, <4>3, <4>4
    <3>4. CASE ~ \E i \in DOMAIN todo' : todo'[i].file = f
      <4>1. Final(disk', todo')[f] = disk'[f]
        BY <1>1, <3>4, FinalAt
      <4>2. CASE f = todo[1].file
        <5>1. Final(disk, todo)[f] = todo[1].content
          BY <1>1, <3>1, <4>2, FinalAt
        <5> QED  BY <3>1, <4>1, <4>2, <5>1
      <4>3. CASE f # todo[1].file
        <5>1. \A i \in DOMAIN todo : i # 1 => i - 1 \in DOMAIN todo' /\ (i - 1) + 1 = i
          BY <3>2
        <5>2. \A i \in DOMAIN todo : i # 1 => todo[i].file # f
          BY <3>1, <3>4, <5>1
        <5>3. Final(disk, todo)[f] = disk[f]
          BY <1>1, <4>3, <5>2, FinalAt
        <5> QED  BY <3>1, <4>1, <4>3, <5>3
      <4> QED  BY <4>2, <4>3
    <3> QED  BY <3>3, <3>4
  <2> QED  BY <2>1, <2>2
<1>3. Final(disk', todo') = [f \in File |-> Final(disk', todo')[f]]
  BY DEF Final
<1>4. Final(disk, todo) = [f \in File |-> Final(disk, todo)[f]]
  BY DEF Final
<1> QED  BY <1>2, <1>3, <1>4

\* What a command has achieved stays so while its files are left alone.
LEMMA DoneKept ==
    ASSUME NEW d, NEW d2, NEW sb, NEW sb2, DOMAIN sb \subseteq DOMAIN sb2,
           \A n \in DOMAIN sb : sb2[n] = sb[n], NEW s
    PROVE  /\ /\ RootDone(d, sb, s)
              /\ d2[Root(s, "crt")] = d[Root(s, "crt")] /\ d2[Root(s, "key")] = d[Root(s, "key")]
              => RootDone(d2, sb2, s)
           /\ \A a : /\ CertDone(d, sb, s, a)
                     /\ d2[Root(s, "crt")] = d[Root(s, "crt")]
                     /\ d2[Gateway(s, a, "crt")] = d[Gateway(s, a, "crt")]
                     /\ d2[Gateway(s, a, "key")] = d[Gateway(s, a, "key")]
                     => CertDone(d2, sb2, s, a)
           /\ \A a : /\ KeyDone(d, sb, s, a)
                     /\ d2[Gateway(s, a, "pem")] = d[Gateway(s, a, "pem")]
                     /\ d2[Gateway(s, a, "pub")] = d[Gateway(s, a, "pub")]
                     => KeyDone(d2, sb2, s, a)
<1>1. /\ RootDone(d, sb, s)
      /\ d2[Root(s, "crt")] = d[Root(s, "crt")] /\ d2[Root(s, "key")] = d[Root(s, "key")]
      => RootDone(d2, sb2, s)
  BY DEF RootDone
<1>2. ASSUME NEW a, CertDone(d, sb, s, a), d2[Root(s, "crt")] = d[Root(s, "crt")],
             d2[Gateway(s, a, "crt")] = d[Gateway(s, a, "crt")],
             d2[Gateway(s, a, "key")] = d[Gateway(s, a, "key")]
      PROVE  CertDone(d2, sb2, s, a)
  BY <1>2 DEF CertDone
<1>3. ASSUME NEW a, KeyDone(d, sb, s, a),
             d2[Gateway(s, a, "pem")] = d[Gateway(s, a, "pem")],
             d2[Gateway(s, a, "pub")] = d[Gateway(s, a, "pub")]
      PROVE  KeyDone(d2, sb2, s, a)
  BY <1>3 DEF KeyDone
<1> QED  BY <1>1, <1>2, <1>3, Zenon

\* And so for the bundle, while no listed file is replaced either.
LEMMA BundleKept ==
    ASSUME NEW d, NEW d2, NEW sb, NEW sb2, DOMAIN sb \subseteq DOMAIN sb2, NEW s,
           BundleDone(d, sb, s), d2[TrustBundle(s)] = d[TrustBundle(s)],
           \A a \in Agency : /\ d2[Gateway(s, a, "crt")] = d[Gateway(s, a, "crt")]
                             /\ d2[Gateway(s, a, "pub")] = d[Gateway(s, a, "pub")]
    PROVE  BundleDone(d2, sb2, s)
<1> SUFFICES ASSUME NEW a \in Agency
             PROVE  \E m, n \in DOMAIN sb2 :
                      /\ d2[Gateway(s, a, "crt")] = {m} /\ d2[Gateway(s, a, "pub")] = {n}
                      /\ [agency |-> a, tls |-> m, key |-> n] \in d2[TrustBundle(s)]
  BY DEF BundleDone
<1>1. PICK m, n \in DOMAIN sb :
          /\ d[Gateway(s, a, "crt")] = {m} /\ d[Gateway(s, a, "pub")] = {n}
          /\ [agency |-> a, tls |-> m, key |-> n] \in d[TrustBundle(s)]
  BY DEF BundleDone
<1>2. m \in DOMAIN sb2 /\ n \in DOMAIN sb2
  OBVIOUS
<1> QED  BY <1>1, <1>2

\* What was not the next command and is now past was past before.
LEMMA WasPast ==
    \A b, c \in Int : b # c /\ b + 1 > c => b > c
  OBVIOUS

\* A command for one suite leaves what is done of another suite.
LEMMA OtherSuiteKept ==
    ASSUME FilesOK, NEW t \in Suite, NEW l \in 1..SuiteSteps, GenerateStep(t, l),
           WritesOK(DOMAIN signedBy', todo'), DOMAIN signedBy \subseteq DOMAIN signedBy',
           \A n \in DOMAIN signedBy : signedBy'[n] = signedBy[n],
           NEW s \in Suite, s # t, NEW k \in Int, k \notin 1..SuiteSteps,
           SuiteDone(disk, signedBy, k, s)
    PROVE  SuiteDone(Final(disk, todo'), signedBy', k + 1, s)
<1> DEFINE d2 == Final(disk, todo')
<1>1. /\ N \in Nat \ {0} /\ SuiteSteps = 2 * N + 2 /\ DOMAIN Agencies = 1..N
      /\ \A j \in DOMAIN Agencies : Agencies[j] \in Agency
  BY Names DEF SuiteSteps
<1>2. ASSUME NEW f \in File, f[1] = s PROVE d2[f] = disk[f]
  <2>1. \A m \in DOMAIN todo' : todo'[m].file # f
    BY <1>2, GeneratedFiles
  <2> QED  BY <2>1, FinalAt
<1>3. /\ d2[Root(s, "crt")] = disk[Root(s, "crt")] /\ d2[Root(s, "key")] = disk[Root(s, "key")]
      /\ d2[TrustBundle(s)] = disk[TrustBundle(s)]
      /\ \A a \in Agency : \A part \in {"crt", "key", "pem", "pub"} :
            d2[Gateway(s, a, part)] = disk[Gateway(s, a, part)]
  <2>1. /\ Root(s, "crt") \in File /\ Root(s, "key") \in File /\ TrustBundle(s) \in File
        /\ \A a \in Agency : \A part \in {"crt", "key", "pem", "pub"} : Gateway(s, a, part) \in File
    BY FileKinds
  <2>2. /\ Root(s, "crt")[1] = s /\ Root(s, "key")[1] = s /\ TrustBundle(s)[1] = s
        /\ \A a, part : Gateway(s, a, part)[1] = s
    BY DEF Root, TrustBundle, Gateway
  <2> QED  BY <1>2, <2>1, <2>2
<1> HIDE DEF d2
<1>4. \A c \in 1..SuiteSteps : k + 1 > c => k > c
  BY <1>1, WasPast
<1>5. k + 1 > 1 => RootDone(d2, signedBy', s)
  <2>1. k + 1 > 1 => k > 1
    BY <1>1, <1>4
  <2>2. k > 1 => RootDone(disk, signedBy, s)
    BY DEF SuiteDone
  <2> QED  BY <1>3, <2>1, <2>2, DoneKept
<1>6. ASSUME NEW j \in DOMAIN Agencies, k + 1 > 1 + j PROVE CertDone(d2, signedBy', s, Agencies[j])
  <2>1. 1 + j \in 1..SuiteSteps
    BY <1>1
  <2>2. CertDone(disk, signedBy, s, Agencies[j])
    BY <1>4, <1>6, <2>1 DEF SuiteDone
  <2> QED  BY <1>1, <1>3, <2>2, DoneKept
<1>7. ASSUME NEW j \in DOMAIN Agencies, k + 1 > N + 1 + j PROVE KeyDone(d2, signedBy', s, Agencies[j])
  <2>1. N + 1 + j \in 1..SuiteSteps
    BY <1>1
  <2>2. KeyDone(disk, signedBy, s, Agencies[j])
    BY <1>4, <1>7, <2>1 DEF SuiteDone
  <2> QED  BY <1>1, <1>3, <2>2, DoneKept
<1>8. k + 1 > SuiteSteps => BundleDone(d2, signedBy', s)
  <2>1. SuiteSteps \in 1..SuiteSteps
    BY <1>1
  <2>2. k + 1 > SuiteSteps => BundleDone(disk, signedBy, s)
    BY <1>4, <2>1 DEF SuiteDone
  <2>3. \A a \in Agency : /\ d2[Gateway(s, a, "crt")] = disk[Gateway(s, a, "crt")]
                          /\ d2[Gateway(s, a, "pub")] = disk[Gateway(s, a, "pub")]
    BY <1>3
  <2>4. BundleDone(disk, signedBy, s) => BundleDone(d2, signedBy', s)
    <3>1. DOMAIN signedBy \subseteq DOMAIN signedBy' /\ d2[TrustBundle(s)] = disk[TrustBundle(s)]
      BY <1>3
    <3> HIDE DEF d2
    <3> QED  BY <2>3, <3>1, BundleKept
  <2> QED  BY <2>2, <2>4, Zenon
<1> QED  BY <1>5, <1>6, <1>7, <1>8 DEF SuiteDone, d2

\* The writes of a pair of files.
PairOf(t, f, g, c) ==
    /\ DOMAIN t = {1, 2} /\ t[1].file = f /\ t[2].file = g
    /\ t[1].content = c /\ t[2].content = c

\* A command that generates has such a pair to write.
LEMMA PairShape ==
    ASSUME NEW f, NEW g, NEW c
    PROVE  PairOf(<<Write(f, c), Write(g, c)>>, f, g, c)
<1> DEFINE w == Write(f, c)  v == Write(g, c)
<1>1. w.file = f /\ v.file = g /\ w.content = c /\ v.content = c
  BY DEF Write
<1> HIDE DEF w, v
<1>2. DOMAIN <<w, v>> = {1, 2} /\ <<w, v>>[1] = w /\ <<w, v>>[2] = v
  OBVIOUS
<1>3. PairOf(<<w, v>>, f, g, c)
  BY <1>1, <1>2 DEF PairOf
<1> QED  BY <1>3 DEF w, v

\* The two files of a pair hold the new artifact in the end, the others what they
\* held.
LEMMA PairFinal ==
    ASSUME NEW serials, NEW t, WritesOK(serials, t), NEW d, NEW f \in File, NEW g \in File, NEW c,
           PairOf(t, f, g, c)
    PROVE  /\ Final(d, t)[f] = c /\ Final(d, t)[g] = c
           /\ \A h \in File : h # f /\ h # g => Final(d, t)[h] = d[h]
<1>1. 1 \in DOMAIN t /\ 2 \in DOMAIN t
  BY DEF PairOf
<1>2. Final(d, t)[f] = c /\ Final(d, t)[g] = c
  BY <1>1, FinalAt DEF PairOf
<1>3. ASSUME NEW h \in File, h # f, h # g PROVE Final(d, t)[h] = d[h]
  <2>1. \A i \in DOMAIN t : t[i].file # h
    BY <1>3 DEF PairOf
  <2> QED  BY <2>1, FinalAt
<1> QED  BY <1>2, <1>3

\* A command for a suite achieves what it is for and leaves what the suite's
\* commands before it achieved.
LEMMA SameSuiteGrows ==
    ASSUME FilesOK, NEW s \in Suite, NEW k \in 1..SuiteSteps, GenerateStep(s, k),
           WritesOK(DOMAIN signedBy', todo'), DOMAIN signedBy \subseteq DOMAIN signedBy',
           \A n \in DOMAIN signedBy : signedBy'[n] = signedBy[n],
           SuiteDone(disk, signedBy, k, s)
    PROVE  SuiteDone(Final(disk, todo'), signedBy', k + 1, s)
<1> DEFINE d2 == Final(disk, todo')
<1>0. ASSUME NEW f \in File, NEW g \in File, NEW c, PairOf(todo', f, g, c)
      PROVE  /\ d2[f] = c /\ d2[g] = c
             /\ \A h \in File : h # f /\ h # g => d2[h] = disk[h]
  BY <1>0, PairFinal
<1>1. /\ N \in Nat \ {0} /\ SuiteSteps = 2 * N + 2 /\ DOMAIN Agencies = 1..N
      /\ \A j \in DOMAIN Agencies : Agencies[j] \in Agency
      /\ k \in Nat /\ 1 <= k /\ k <= SuiteSteps
  BY Names DEF SuiteSteps
<1>2. /\ Root(s, "crt") \in File /\ Root(s, "key") \in File /\ TrustBundle(s) \in File
      /\ \A a \in Agency : \A part \in {"crt", "key", "pem", "pub"} : Gateway(s, a, part) \in File
  BY FileKinds
<1>3. /\ Root(s, "crt") # Root(s, "key")
      /\ \A a, b, p, q : Gateway(s, a, p) = Gateway(s, b, q) => a = b /\ p = q
      /\ \A a \in Agency : \A p, q : Root(s, p) # Gateway(s, a, q)
      /\ \A a, p : p \in {"crt", "key", "pem", "pub"} => Gateway(s, a, p) # TrustBundle(s)
  <2>1. /\ Root(s, "crt") # Root(s, "key")
        /\ \A a, b, p, q : Gateway(s, a, p) = Gateway(s, b, q) => a = b /\ p = q
        /\ \A a, p : p \in {"crt", "key", "pem", "pub"} => Gateway(s, a, p) # TrustBundle(s)
    BY DEF Root, Gateway, TrustBundle
  <2>2. \A a \in Agency : \A p, q : Root(s, p) # Gateway(s, a, q)
    BY Names DEF Root, Gateway
  <2> QED  BY <2>1, <2>2
<1>4. Fresh \in Nat /\ signedBy \in Seq(Nat) /\ Fresh = Len(signedBy) + 1
  BY DEF FilesOK, Fresh
<1>5. CASE k = 1 /\ InitRoot(s)
  <2>1. /\ todo' = <<Write(Root(s, "crt"), {Fresh}), Write(Root(s, "key"), {Fresh})>>
        /\ signedBy' = Append(signedBy, Fresh)
    BY <1>5 DEF InitRoot, SelfSigned
  <2>2. d2[Root(s, "crt")] = {Fresh} /\ d2[Root(s, "key")] = {Fresh}
    <3>1. PairOf(todo', Root(s, "crt"), Root(s, "key"), {Fresh})
      BY <2>1, PairShape
    <3> QED  BY <1>2, <3>1, PairFinal
  <2>3. Fresh \in DOMAIN signedBy'
    BY <1>4, <2>1
  <2> HIDE DEF d2
  <2>4. RootDone(d2, signedBy', s)
    BY <2>2, <2>3 DEF RootDone
  <2>5. /\ \A j \in DOMAIN Agencies : ~(k + 1 > 1 + j) /\ ~(k + 1 > N + 1 + j)
        /\ ~(k + 1 > SuiteSteps)
    BY <1>1, <1>5
  <2> QED  BY <2>4, <2>5 DEF SuiteDone, d2
<1>6. CASE k \in 2..(N + 1) /\ IssueGatewayCert(s, Agencies[k - 1])
  <2> DEFINE j0 == k - 1  a0 == Agencies[j0]
  <2>1. j0 \in DOMAIN Agencies /\ a0 \in Agency /\ k = 1 + j0
    BY <1>1, <1>6
  <2>2. /\ todo' = <<Write(Gateway(s, a0, "crt"), {Fresh}), Write(Gateway(s, a0, "key"), {Fresh})>>
        /\ signedBy' = Append(signedBy, Load(Root(s, "key"))) /\ Readable(Root(s, "key"))
    BY <1>6 DEF IssueGatewayCert, SignedWith
  <2> HIDE DEF j0
  <2>3. /\ d2[Gateway(s, a0, "crt")] = {Fresh} /\ d2[Gateway(s, a0, "key")] = {Fresh}
        /\ \A h \in File : h # Gateway(s, a0, "crt") /\ h # Gateway(s, a0, "key") => d2[h] = disk[h]
    <3>1. PairOf(todo', Gateway(s, a0, "crt"), Gateway(s, a0, "key"), {Fresh})
      BY <2>2, PairShape
    <3>2. Gateway(s, a0, "crt") \in File /\ Gateway(s, a0, "key") \in File
      BY <1>2, <2>1
    <3> QED  BY <1>0, <3>1, <3>2
  <2> HIDE DEF d2
  <2>4. d2[Root(s, "crt")] = disk[Root(s, "crt")] /\ d2[Root(s, "key")] = disk[Root(s, "key")]
    BY <1>2, <1>3, <2>1, <2>3
  <2>5. RootDone(disk, signedBy, s)
    BY <1>1, <1>6 DEF SuiteDone
  <2>6. RootDone(d2, signedBy', s)
    BY <2>4, <2>5, DoneKept
  <2>7. CertDone(d2, signedBy', s, a0)
    <3>1. PICK n \in DOMAIN signedBy : disk[Root(s, "crt")] = {n} /\ disk[Root(s, "key")] = {n}
      BY <2>5 DEF RootDone
    <3>2. Load(Root(s, "key")) = n
      BY <3>1 DEF Load
    <3>3. n \in Nat
      BY <1>4
    <3>4. Fresh \in DOMAIN signedBy' /\ signedBy'[Fresh] = n
      BY <1>4, <2>2, <3>2, <3>3
    <3> QED  BY <2>3, <2>4, <3>1, <3>4 DEF CertDone
  <2>8. ASSUME NEW j \in DOMAIN Agencies, k + 1 > 1 + j PROVE CertDone(d2, signedBy', s, Agencies[j])
    <3>1. CASE j = j0
      BY <2>7, <3>1
    <3>2. CASE j # j0
      <4>1. k > 1 + j
        BY <1>1, <2>1, <2>8, <3>2
      <4>2. CertDone(disk, signedBy, s, Agencies[j])
        BY <4>1 DEF SuiteDone
      <4>3. Agencies[j] # a0 /\ Agencies[j] \in Agency
        BY <1>1, <2>1, <3>2
      <4>4. /\ d2[Gateway(s, Agencies[j], "crt")] = disk[Gateway(s, Agencies[j], "crt")]
            /\ d2[Gateway(s, Agencies[j], "key")] = disk[Gateway(s, Agencies[j], "key")]
        BY <1>2, <1>3, <2>3, <4>3
      <4> QED  BY <2>4, <4>2, <4>4, DoneKept
    <3> QED  BY <3>1, <3>2
  <2>9. /\ \A j \in DOMAIN Agencies : ~(k + 1 > N + 1 + j)
        /\ ~(k + 1 > SuiteSteps)
    BY <1>1, <1>6
  <2> QED  BY <2>6, <2>8, <2>9 DEF SuiteDone, d2
<1>7. CASE k \in (N + 2)..(2 * N + 1) /\ IssueSigningKey(s, Agencies[k - N - 1])
  <2> DEFINE j0 == k - N - 1  a0 == Agencies[j0]
  <2>1. j0 \in DOMAIN Agencies /\ a0 \in Agency /\ k = N + 1 + j0
    BY <1>1, <1>7
  <2>2. /\ todo' = <<Write(Gateway(s, a0, "pem"), {Fresh}), Write(Gateway(s, a0, "pub"), {Fresh})>>
        /\ signedBy' = Append(signedBy, 0)
    BY <1>7 DEF IssueSigningKey, SignedWith
  <2> HIDE DEF j0
  <2>3. /\ d2[Gateway(s, a0, "pem")] = {Fresh} /\ d2[Gateway(s, a0, "pub")] = {Fresh}
        /\ \A h \in File : h # Gateway(s, a0, "pem") /\ h # Gateway(s, a0, "pub") => d2[h] = disk[h]
    <3>1. PairOf(todo', Gateway(s, a0, "pem"), Gateway(s, a0, "pub"), {Fresh})
      BY <2>2, PairShape
    <3>2. Gateway(s, a0, "pem") \in File /\ Gateway(s, a0, "pub") \in File
      BY <1>2, <2>1
    <3> QED  BY <1>0, <3>1, <3>2
  <2> HIDE DEF d2
  <2>4. /\ d2[Root(s, "crt")] = disk[Root(s, "crt")] /\ d2[Root(s, "key")] = disk[Root(s, "key")]
        /\ \A a \in Agency : /\ d2[Gateway(s, a, "crt")] = disk[Gateway(s, a, "crt")]
                             /\ d2[Gateway(s, a, "key")] = disk[Gateway(s, a, "key")]
    BY <1>2, <1>3, <2>1, <2>3
  <2>5. RootDone(d2, signedBy', s)
    <3>1. RootDone(disk, signedBy, s)
      BY <1>1, <1>7 DEF SuiteDone
    <3> QED  BY <2>4, <3>1, DoneKept
  <2>6. ASSUME NEW j \in DOMAIN Agencies PROVE CertDone(d2, signedBy', s, Agencies[j])
    <3>1. k > 1 + j
      BY <1>1, <1>7
    <3>2. CertDone(disk, signedBy, s, Agencies[j])
      BY <3>1 DEF SuiteDone
    <3> QED  BY <1>1, <2>4, <3>2, DoneKept
  <2>7. KeyDone(d2, signedBy', s, a0)
    <3>1. Fresh \in DOMAIN signedBy'
      BY <1>4, <2>2
    <3> QED  BY <2>3, <3>1 DEF KeyDone
  <2>8. ASSUME NEW j \in DOMAIN Agencies, k + 1 > N + 1 + j PROVE KeyDone(d2, signedBy', s, Agencies[j])
    <3>1. CASE j = j0
      BY <2>7, <3>1
    <3>2. CASE j # j0
      <4>1. k > N + 1 + j
        BY <1>1, <2>1, <2>8, <3>2
      <4>2. KeyDone(disk, signedBy, s, Agencies[j])
        BY <4>1 DEF SuiteDone
      <4>3. Agencies[j] # a0 /\ Agencies[j] \in Agency
        BY <1>1, <2>1, <3>2
      <4>4. /\ d2[Gateway(s, Agencies[j], "pem")] = disk[Gateway(s, Agencies[j], "pem")]
            /\ d2[Gateway(s, Agencies[j], "pub")] = disk[Gateway(s, Agencies[j], "pub")]
        BY <1>2, <1>3, <2>3, <4>3
      <4> QED  BY <4>2, <4>4, DoneKept
    <3> QED  BY <3>1, <3>2
  <2>9. ~(k + 1 > SuiteSteps)
    BY <1>1, <1>7
  <2> QED  BY <2>5, <2>6, <2>8, <2>9 DEF SuiteDone, d2
<1>8. CASE k = SuiteSteps /\ ExportTrustBundle(s, Agency)
  <2> DEFINE c == {BundleEntry(s, a) : a \in Agency}  w == Write(TrustBundle(s), c)
  <2>1. todo' = <<w>> /\ w.file = TrustBundle(s) /\ w.content = c
    BY <1>8 DEF ExportTrustBundle, Write
  <2> HIDE DEF c, w
  <2>2. DOMAIN todo' = {1} /\ todo'[1] = w
    BY <2>1
  <2>3. 1 \in DOMAIN todo' /\ todo'[1].file = TrustBundle(s) /\ todo'[1].content = c
    BY <2>1, <2>2
  <2>4. d2[TrustBundle(s)] = c
    BY <1>2, <2>3, FinalAt
  <2>5. ASSUME NEW h \in File, h # TrustBundle(s) PROVE d2[h] = disk[h]
    <3>1. \A i \in DOMAIN todo' : todo'[i].file # h
      BY <2>1, <2>2, <2>5
    <3> QED  BY <3>1, FinalAt
  <2> HIDE DEF d2
  <2>6. /\ d2[Root(s, "crt")] = disk[Root(s, "crt")] /\ d2[Root(s, "key")] = disk[Root(s, "key")]
        /\ \A a \in Agency : \A part \in {"crt", "key", "pem", "pub"} :
              d2[Gateway(s, a, part)] = disk[Gateway(s, a, part)]
    <3>1. Root(s, "crt") # TrustBundle(s) /\ Root(s, "key") # TrustBundle(s)
      BY DEF Root, TrustBundle
    <3> QED  BY <1>2, <1>3, <2>5, <3>1
  <2>7. RootDone(d2, signedBy', s)
    <3>1. RootDone(disk, signedBy, s)
      BY <1>1, <1>8 DEF SuiteDone
    <3> QED  BY <2>6, <3>1, DoneKept
  <2>8. ASSUME NEW j \in DOMAIN Agencies
        PROVE  /\ CertDone(disk, signedBy, s, Agencies[j]) /\ KeyDone(disk, signedBy, s, Agencies[j])
               /\ CertDone(d2, signedBy', s, Agencies[j]) /\ KeyDone(d2, signedBy', s, Agencies[j])
    <3>1. k > 1 + j /\ k > N + 1 + j
      BY <1>1, <1>8
    <3>2. CertDone(disk, signedBy, s, Agencies[j]) /\ KeyDone(disk, signedBy, s, Agencies[j])
      BY <3>1 DEF SuiteDone
    <3>3. CertDone(d2, signedBy', s, Agencies[j])
      BY <1>1, <2>6, <3>2, DoneKept
    <3>4. KeyDone(d2, signedBy', s, Agencies[j])
      BY <1>1, <2>6, <3>2, DoneKept
    <3> QED  BY <3>2, <3>3, <3>4
  <2>9. BundleDone(d2, signedBy', s)
    <3> SUFFICES ASSUME NEW a \in Agency
                 PROVE  \E m, n \in DOMAIN signedBy' :
                          /\ d2[Gateway(s, a, "crt")] = {m} /\ d2[Gateway(s, a, "pub")] = {n}
                          /\ [agency |-> a, tls |-> m, key |-> n] \in d2[TrustBundle(s)]
      BY DEF BundleDone
    <3>1. PICK j \in DOMAIN Agencies : a = Agencies[j]
      BY DEF Agency
    <3>2. PICK m \in DOMAIN signedBy : disk[Gateway(s, a, "crt")] = {m}
      BY <2>8, <3>1 DEF CertDone
    <3>3. PICK n \in DOMAIN signedBy : disk[Gateway(s, a, "pub")] = {n}
      BY <2>8, <3>1 DEF KeyDone
    <3>4. BundleEntry(s, a) = [agency |-> a, tls |-> m, key |-> n]
      BY <3>2, <3>3 DEF BundleEntry, Load
    <3>5. [agency |-> a, tls |-> m, key |-> n] \in d2[TrustBundle(s)]
      BY <2>4, <3>4 DEF c
    <3>6. m \in DOMAIN signedBy' /\ n \in DOMAIN signedBy'
      OBVIOUS
    <3> QED  BY <2>6, <3>2, <3>3, <3>5, <3>6
  <2> QED  BY <2>7, <2>8, <2>9 DEF SuiteDone, d2
<1> QED  BY <1>5, <1>6, <1>7, <1>8 DEF GenerateStep

\* The number of the next command as each suite counts it: when the bootstrap is
\* past its last suite, it is past the commands of every suite.
LEMMA SuiteCount ==
    ASSUME NEW b \in 0..(RevokeStep + 1), NEW h \in DOMAIN Suites
    PROVE  /\ b - (h - 1) * SuiteSteps \in Int
           /\ b = 1 => b - (h - 1) * SuiteSteps <= 1
           /\ b >= RevokeStep => b - (h - 1) * SuiteSteps > SuiteSteps
<1> DEFINE L == Len(Suites)  S == SuiteSteps
<1>1. L \in Nat /\ S \in Nat /\ h \in 1..L /\ RevokeStep = L * S + 1 /\ RevokeStep \in Nat
  BY Names DEF RevokeStep
<1> HIDE DEF L, S
<1>2. \A x, y \in Nat : x <= y => x * S <= y * S
  BY <1>1
<1>3. h - 1 \in Nat /\ (h - 1) * S \in Nat /\ h * S \in Nat /\ L * S \in Nat
  BY <1>1
<1>4. h * S = (h - 1) * S + S
  BY <1>1
<1>5. h * S <= L * S
  BY <1>1, <1>2
<1>6. /\ b - (h - 1) * S \in Int
      /\ b = 1 => b - (h - 1) * S <= 1
      /\ b >= RevokeStep => b - (h - 1) * S > S
  <2>1. \A p, q, t, c, n \in Nat : q = p + c /\ q <= t =>
            /\ n - p \in Int /\ (n = 1 => n - p <= 1) /\ (n >= t + 1 => n - p > c)
    OBVIOUS
  <2>2. b \in Nat
    BY <1>1
  <2> QED  BY <1>1, <1>3, <1>4, <1>5, <2>1, <2>2
<1> QED  BY <1>6 DEF S

\* A suite that is past its commands has all of them done.
LEMMA AllDone ==
    ASSUME NEW d, NEW sb, NEW k \in Int, k > SuiteSteps, NEW s
    PROVE  SuiteDone(d, sb, k, s) <=>
              /\ RootDone(d, sb, s) /\ BundleDone(d, sb, s)
              /\ \A j \in DOMAIN Agencies : CertDone(d, sb, s, Agencies[j]) /\ KeyDone(d, sb, s, Agencies[j])
<1>1. N \in Nat \ {0} /\ SuiteSteps = 2 * N + 2 /\ DOMAIN Agencies = 1..N
  BY Names DEF SuiteSteps
<1>2. k > 1 /\ \A j \in DOMAIN Agencies : k > 1 + j /\ k > N + 1 + j
  BY <1>1
<1> QED  BY <1>2 DEF SuiteDone

\* Step by step a bootstrap that generates brings about what its commands are
\* for, whatever was there when it started.
LEMMA ProgressInvariant == Spec => []Progress
<1>1. Init => Progress
  BY DEF Init, Progress
<1>2. FilesOK /\ FilesOK' /\ BootInv /\ BootInv' /\ Progress /\ [Next]_vars => Progress'
  <2> SUFFICES ASSUME FilesOK, FilesOK', BootInv, BootInv', Progress, [Next]_vars, ~skipped', boot' # 0
               PROVE  \A h \in DOMAIN Suites :
                        SuiteDone(Final(disk', todo'), signedBy', boot' - (h - 1) * SuiteSteps, Suites[h])
    BY DEF Progress
  <2>1. RevokeStep \in Nat \ {0} /\ boot \in 0..(RevokeStep + 1) /\ boot' \in 0..(RevokeStep + 1)
    BY Names DEF BootInv
  <2>2. CASE boot' = boot /\ ~Operator /\ UNCHANGED skipped
    <3>1. \A h \in DOMAIN Suites :
              SuiteDone(Final(disk, todo), signedBy, boot - (h - 1) * SuiteSteps, Suites[h])
      BY <2>2 DEF Progress
    <3>2. CASE OpenFile \/ WriteFile
      <4>1. Final(disk', todo') = Final(disk, todo) /\ signedBy' = signedBy
        BY <3>2, FinalKept, OpenEffect, WriteEffect
      <4> QED  BY <2>2, <3>1, <4>1
    <3>3. CASE disk' = disk /\ todo' = todo /\ signedBy' = signedBy
      BY <2>2, <3>1, <3>3
    <3>4. OpenFile \/ WriteFile \/ (disk' = disk /\ todo' = todo /\ signedBy' = signedBy)
      <4>1. ~BootstrapStart /\ ~BootstrapGenerates /\ ~BootstrapRevokes /\ ~BootstrapEnds /\ ~Dies
        BY <2>1, <2>2 DEF BootstrapStart, BootstrapGenerates, BootstrapRevokes, BootstrapEnds, Dies
      <4> QED  BY <2>2, <4>1 DEF Next, StartA, StartB, Exchange, OperatorRevokes,
                                 OperatorRevokeDies, OpenList, SaveList, vars, pki, command
    <3> QED  BY <3>2, <3>3, <3>4
  <2>3. CASE BootstrapStart
    <3>1. boot' = 1
      BY <2>3 DEF BootstrapStart
    <3> TAKE h \in DOMAIN Suites
    <3> DEFINE k == boot' - (h - 1) * SuiteSteps
    <3>2. k \in Int /\ k <= 1
      BY <2>1, <3>1, SuiteCount
    <3> HIDE DEF k
    <3>3. N \in Nat \ {0} /\ SuiteSteps = 2 * N + 2 /\ DOMAIN Agencies = 1..N
      BY Names DEF SuiteSteps
    <3>4. /\ ~(k > 1) /\ ~(k > SuiteSteps)
          /\ \A j \in DOMAIN Agencies : ~(k > 1 + j) /\ ~(k > N + 1 + j)
      BY <3>2, <3>3
    <3>5. SuiteDone(Final(disk', todo'), signedBy', k, Suites[h])
      BY <3>4 DEF SuiteDone
    <3> QED  BY <3>5 DEF k
  <2>4. CASE BootstrapGenerates
    <3> DEFINE i == ((boot - 1) \div SuiteSteps) + 1
               k == ((boot - 1) % SuiteSteps) + 1
    <3>1. /\ boot \in 1..(RevokeStep - 1) /\ boot' = boot + 1 /\ disk' = disk /\ Idle /\ skipped' = skipped
          /\ GenerateStep(Suites[i], k)
      BY <2>4 DEF BootstrapGenerates
    <3>2. i \in DOMAIN Suites /\ k \in 1..SuiteSteps /\ boot = (i - 1) * SuiteSteps + k
      BY <3>1, BootPosition
    <3>3. Suites[i] \in Suite
      BY <3>2, Names
    <3>4. NewCommand
      <4>1. k \in 2..(N + 1) => Agencies[k - 1] \in Agency
        BY Names
      <4>2. k \in (N + 2)..(2 * N + 1) => Agencies[k - N - 1] \in Agency
        BY Names
      <4> HIDE DEF i, k
      <4> QED  BY <3>1, <3>3, <4>1, <4>2, Zenon DEF GenerateStep, NewCommand, Named
    <3> HIDE DEF i, k
    <3>5. /\ WritesOK(DOMAIN signedBy', todo') /\ DOMAIN signedBy \subseteq DOMAIN signedBy'
          /\ \A n \in DOMAIN signedBy : signedBy'[n] = signedBy[n]
      BY <3>4, CommandWrites
    <3> TAKE h \in DOMAIN Suites
    <3> DEFINE m == boot - (h - 1) * SuiteSteps
    <3>6. m \in Int /\ (h - 1) * SuiteSteps \in Int /\ boot \in Int
      <4>1. h - 1 \in Int /\ SuiteSteps \in Int
        BY Names
      <4>2. \A x, y \in Int : x * y \in Int
        OBVIOUS
      <4>3. (h - 1) * SuiteSteps \in Int
        BY <4>1, <4>2
      <4> QED  BY <2>1, <4>3
    <3>7. boot' - (h - 1) * SuiteSteps = m + 1
      <4>1. \A x, y \in Int : (x + 1) - y = (x - y) + 1
        OBVIOUS
      <4> QED  BY <3>1, <3>6, <4>1
    <3>8. Final(disk, todo) = disk
      BY <3>1, FinalIdle
    <3>9. SuiteDone(disk, signedBy, m, Suites[h])
      BY <2>1, <3>1, <3>8 DEF Progress
    <3>10. CASE h = i
      <4>1. m = k
        <5>1. \A x, y \in Int : (x + y) - x = y
          OBVIOUS
        <5>2. (i - 1) * SuiteSteps \in Int /\ k \in Int
          BY <3>2, <3>6, <3>10
        <5> QED  BY <3>2, <3>10, <5>1, <5>2
      <4> HIDE DEF m
      <4>2. SuiteDone(disk, signedBy, k, Suites[i])
        BY <3>9, <3>10, <4>1
      <4>3. SuiteDone(Final(disk, todo'), signedBy', k + 1, Suites[i])
        BY <3>1, <3>2, <3>3, <3>5, <4>2, SameSuiteGrows
      <4> QED  BY <3>1, <3>7, <3>10, <4>1, <4>3
    <3>11. CASE h # i
      <4>1. m \notin 1..SuiteSteps
        <5>1. ASSUME m \in 1..SuiteSteps PROVE FALSE
          <6>1. \A x, y \in Int : x = y + (x - y)
            OBVIOUS
          <6>2. boot = (h - 1) * SuiteSteps + m
            BY <3>6, <6>1
          <6>3. (i - 1) * SuiteSteps + k = (h - 1) * SuiteSteps + m
            BY <3>2, <6>2
          <6> HIDE DEF m
          <6> QED  BY <3>2, <3>11, <5>1, <6>3, BootPosition
        <5> QED  BY <5>1
      <4>2. Suites[h] # Suites[i] /\ Suites[h] \in Suite
        BY <3>2, <3>11, Names
      <4> HIDE DEF m
      <4>3. SuiteDone(Final(disk, todo'), signedBy', m + 1, Suites[h])
        BY <3>1, <3>2, <3>3, <3>5, <3>6, <3>9, <4>1, <4>2, OtherSuiteKept
      <4> QED  BY <3>1, <3>7, <4>3
    <3> QED  BY <3>10, <3>11
  <2>5. CASE BootstrapRevokes
    <3>1. /\ boot = RevokeStep /\ boot' = boot + 1 /\ disk' = disk /\ todo' = todo
          /\ signedBy' = signedBy /\ skipped' = skipped
      BY <2>5 DEF BootstrapRevokes, pki, command
    <3> TAKE h \in DOMAIN Suites
    <3> DEFINE s == Suites[h]  d == Final(disk, todo)
               k == boot - (h - 1) * SuiteSteps  k2 == boot' - (h - 1) * SuiteSteps
    <3>4. k \in Int /\ k > SuiteSteps /\ k2 \in Int /\ k2 > SuiteSteps
      <4>1. boot \in 0..(RevokeStep + 1) /\ boot >= RevokeStep
            /\ boot' \in 0..(RevokeStep + 1) /\ boot' >= RevokeStep
        BY <2>1, <3>1
      <4> QED  BY <4>1, SuiteCount
    <3>6. SuiteDone(d, signedBy, k, s)
      BY <2>1, <3>1 DEF Progress
    <3> HIDE DEF k, k2, s, d
    <3>7. SuiteDone(d, signedBy, k2, s)
      BY <3>4, <3>6, AllDone
    <3> QED  BY <3>1, <3>7 DEF d, s, k2
  <2>6. CASE BootstrapEnds
    BY <2>6 DEF BootstrapEnds
  <2> QED  BY <2>2, <2>3, <2>4, <2>5, <2>6, BootSteps
<1> QED  BY <1>1, <1>2, FilesInvariant, BootInvariant, PTL DEF Spec

\* A bootstrap that generates and comes to its end leaves, for every key type and
\* every agency, a certificate with its key, signed by the root that is there, a
\* pair of signing keys, and a bundle that lists both.
THEOREM FinishedUsable == Spec => []FinishedMeansUsable
<1>1. FilesOK /\ BootInv /\ Progress => FinishedMeansUsable
  <2> SUFFICES ASSUME FilesOK, BootInv, Progress, boot = RevokeStep + 1, Idle, ~skipped,
                      NEW s \in Suite, NEW a \in Agency
               PROVE  Usable(s, a)
    BY DEF FinishedMeansUsable
  <2>1. PICK h \in DOMAIN Suites : s = Suites[h]
    BY DEF Suite
  <2>2. PICK j \in DOMAIN Agencies : a = Agencies[j]
    BY DEF Agency
  <2> DEFINE k == boot - (h - 1) * SuiteSteps
  <2>3. k \in Int /\ k > SuiteSteps
    <3>1. boot \in 0..(RevokeStep + 1) /\ boot >= RevokeStep /\ RevokeStep \in Nat
      BY Names DEF BootInv
    <3> QED  BY <3>1, SuiteCount
  <2>4. boot # 0
    BY Names
  <2>5. SuiteDone(disk, signedBy, k, s)
    BY <2>1, <2>4, FinalIdle DEF Progress
  <2> HIDE DEF k
  <2>6. /\ RootDone(disk, signedBy, s) /\ BundleDone(disk, signedBy, s)
        /\ CertDone(disk, signedBy, s, a) /\ KeyDone(disk, signedBy, s, a)
    BY <2>2, <2>3, <2>5, AllDone
  <2>7. PICK r \in DOMAIN signedBy : disk[Root(s, "crt")] = {r}
    BY <2>6 DEF RootDone
  <2>8. PICK m \in DOMAIN signedBy : /\ disk[Gateway(s, a, "crt")] = {m} /\ disk[Gateway(s, a, "key")] = {m}
                                     /\ disk[Root(s, "crt")] = {signedBy[m]}
    BY <2>6 DEF CertDone
  <2>9. PICK n \in DOMAIN signedBy : disk[Gateway(s, a, "pem")] = {n} /\ disk[Gateway(s, a, "pub")] = {n}
    BY <2>6 DEF KeyDone
  <2>10. [agency |-> a, tls |-> m, key |-> n] \in disk[TrustBundle(s)]
    <3>1. PICK x, y \in DOMAIN signedBy :
             /\ disk[Gateway(s, a, "crt")] = {x} /\ disk[Gateway(s, a, "pub")] = {y}
             /\ [agency |-> a, tls |-> x, key |-> y] \in disk[TrustBundle(s)]
      BY <2>6 DEF BundleDone
    <3>2. x = m /\ y = n
      BY <2>8, <2>9, <3>1
    <3> QED  BY <3>1, <3>2
  <2>11. \A f : \A x : disk[f] = {x} => Load(f) = x
    BY DEF Load
  <2>12. /\ Load(Root(s, "crt")) = r /\ Load(Gateway(s, a, "crt")) = m /\ Load(Gateway(s, a, "key")) = m
         /\ Load(Gateway(s, a, "pem")) = n /\ Load(Gateway(s, a, "pub")) = n
    BY <2>7, <2>8, <2>9, <2>11
  <2>13. r # 0 /\ m # 0 /\ signedBy[m] = r
    <3>0. signedBy \in Seq(Nat)
      BY DEF FilesOK
    <3>1. DOMAIN signedBy = 1..Len(signedBy) /\ Len(signedBy) \in Nat
      BY <3>0
    <3>2. signedBy[m] = r
      BY <2>7, <2>8
    <3> QED  BY <3>1, <3>2
  <2> QED  BY <2>10, <2>12, <2>13 DEF Usable, TlsContextLoads, Readable, BundleEntry
<1> QED  BY <1>1, FilesInvariant, BootInvariant, ProgressInvariant, PTL
=============================================================================
