# Verification of the QSTIE gateways

QSTIE shares threat intelligence between agencies: Gateway A turns events of a
MISP instance into signed STIX bundles and sends them over TLS to Gateway B, which
vets them and hands them to OpenCTI. A benchmark campaign measures the exchange
under two crypto modes and two network profiles. This directory holds TLA+ models of
both gateways, of the frames and the trust artifacts between them and of the
campaign, TLC configurations that check them on small instances, and TLAPS proofs
for every instance. Paths below are relative to the repository; module names are
files of this directory.

## 1. Inventory

| Component | State | Operations | What makes it correct |
|---|---|---|---|
| Feed and listener (`gateway_a/ingestion/misp_listener.py`) | SUB socket, running flag | receive, filter, put, reconnect | backpressure instead of loss inside the gateway; one bad message does not stop it |
| Extractor, signer, PEP worker (`stix_extractor.py`, `signer_worker.py`, `pep_worker.py`) | one item in hand, bounded queues | convert, sign, authorize, put | FIFO, nothing duplicated or lost unaccounted for, only approved transactions go on |
| Transmission worker (`transmission_worker.py`, `transport/protocol.py`, `tls_client.py`) | `tx_queue`, `retry_count`, `state` | attempt, reply, back off, give up | one outcome per transaction that agrees with what Gateway B did |
| Dead-letter store (`dead_letter.py`) | deque(500), file | add | one entry per failure, evicted only for want of room |
| Connection handling (`gateway_b/transport/*.py`) | semaphore, one handler a connection | read, vet, ingest, answer, log | permits conserved, at most one import a connection, ACK only after the import |
| Vetting (`process_transaction`, `pep_inbound.py`, `verifier.py`, `cert_store.py`) | trust store, revocations, key cache | decide | authenticated before anything else, fails closed |
| Ingestor (`stix_ingestor.py`) | client or mock, thread pool | import | what is ACKed is in OpenCTI |
| Trust tooling (`qstie-trust`, `scripts/bootstrap_pki.py`) | files on a shared volume | issue, export, revoke, bootstrap | complete or absent, revocations kept and honoured |
| Frame codec and its two readers (`frame_codec.py`, both `transport/protocol.py`) | a buffer per connection | decode, read on, answer | what is decoded is what was framed, wherever TCP cuts the stream |
| Benchmark runner (`benchmark_runner/`, `repeat_runner.py`) | results, telemetry files, archive, containers, router | switch, shape, clear, inject, wait, collect, archive, report | results carry the right label and count what was acknowledged; the campaign ends |
| Analysis (`analyze_telemetry.py`) | none, works on the archive | group, merge, cut the window | every transaction once, no warm-up event |

Gateway A is one asyncio process with five tasks joined by four queues; Gateway B
is one asyncio process with a task per connection and a thread pool. They share a
TCP/TLS connection per attempt and nothing else. What is hard: a reply timeout at A
does not cancel the handler at B; answers, imports and telemetry lines may be
separated by a crash; neither side has a timeout on every await; artifacts are
written in place, read at start and replaced on disk; shutdown has to wake everyone;
the campaign reads and removes files that the gateways go on writing, through
commands whose failure nobody notices. The full list, at the line where each bites,
is `hazards` in `PROJECT.json`.

## 2. Modules

| Module | Models | Used by |
|---|---|---|
| `InboundVerdict` | Gateway B's decision: the eight gates of `process_transaction` in source order | `Inbound`, `Delivery`, `Trust` |
| `Inbound` | one decision on any envelope under any trust store and rule list, and what it must satisfy | `MCInbound`, `InboundProofs` |
| `ThreatExchange` | abstract: what the gateways together promise about a transaction | `Delivery` (refinement) |
| `Delivery` | transmission worker, dead-letter store, links, semaphore, handlers, ingestor, crash and restart of B | `MCDelivery`, `Delivery*Proofs` |
| `FeedPromise` | abstract: what Gateway A promises about the events of its feed | `GatewayAPipeline` (refinement) |
| `GatewayAPipeline` | feed, listener, three workers, queues, shutdown, crash and restart of A | `MCPipeline`, `PipelineProofs` |
| `FrameStream` | `FrameCodec`, Gateway B's reading loop, Gateway A's reading of the answer | `MCFrame`, `FrameProofs` |
| `Trust` | qstie-ca, bootstrap, their deaths, start and restart of the gateways, the verifier's cache | `MCTrust`, `TrustProofs` |
| `BenchmarkCampaign` | the runner's loop, telemetry files and archive, exit status, the analysis' choice of events | `MCCampaign`, `CampaignProofs` |
| `MC*` | instances for TLC | |
| `*Proofs` | the theorems of section 4 | |

**Delivery.** A connection is `<<t, n>>`, attempt `n` at transaction `t`. The
worker's `pc` names the await it is suspended in; `srv[c]` does the same for a
handler, with two phases for the ingestor's thread: `ingesting` and `landed` (the
sink has taken the bundle, the call has not returned). Every action is the code
between two awaits. `reply[c]` is what has reached Gateway A's buffers; `net[c]`
says whether the link works, is reset (both ends see it) or is silent (bytes vanish).
`ReplyTimeout` is enabled whenever the worker waits: time is abstracted, so an
answer may always come too late. File writes that the code guards with a logged
`except` may or may not leave a line. Envelopes have a size class, because
`drain()` of a large frame needs the peer to read and an oversize one is refused
from its header; Gateway A packs frames itself and has no size check. `imports`
counts bundles the ingestor's sink took; `stored` is what OpenCTI itself has, which
differs when the ingestor came up as a mock. The mock's test hooks in the payload
are two of the ways `IngestFails` may happen. A verdict is not a fact of the envelope:
every session presents the certificate that Gateway A's file holds at that moment
(`peer[c]`), `RestartB` loads any of `TrustStores`, and `KeyBecomesReadable` is the
verifier's retry of a key file it could not read. `judged[c]` keeps the store the
handler of `c` decided by and `heard[c]` the answer `send_envelope` returned; both are
for the properties only.

**InboundVerdict.** An envelope is a record of what the checks can tell apart.
`FailedGates` is the set of gates it does not pass and `Verdict` the NACK of the
first. The trust store keeps apart the listed key fingerprint, which the revocation
check uses, and the key in the file, which verifies signatures: nothing in the code
compares them.

**GatewayAPipeline.** Events keep their number through all stages. `w[s]` is the
worker of stage `s` and what it holds, so a blocked `put` is a worker in `put` and a
full next queue. ZeroMQ and MISP are external: a publication is buffered up to the
high-water mark or missed. A tag is its name in lower case with the places of its
capitals, so that `Lower` is `str.lower` on every spelling. `Settle` stands for the whole of `_process_transaction`,
which `Delivery` has in detail and which need not return. `Crash` may happen in any state
and takes along what queues, workers and the socket hold; `Restart` begins with empty
queues, and the feed goes on with what MISP publishes next.

**FeedPromise.** What is left of Gateway A when its inside is hidden: the events
handed to the transmission worker, in feed order, each at most once and none that the
outbound policy keeps at home, and one outcome per event. `GatewayAPipeline!Promise` maps `sent` and `fate` to it.

**FrameStream.** A connection carries `wire`, all the bytes its peer writes;
`Arrive` brings any number of them. `ServerRead` is one turn of Gateway B's loop:
`read(4096)`, append, `decode_frame_stream` on the whole buffer. `ClientRead` is the
return of one of Gateway A's three `readexactly` calls, which do without the codec,
its limit and its check of the type. Bytes, the length field and the limits are
parameters, so that TLC can take bytes of four values; packing and unpacking are
modelled by their arithmetic. `DecodeFrame`, the decoder for complete data, is the
reference the loop is held against.

**Trust.** Each certificate or key pair gets the next serial number, which stands for
its fingerprint; `signedBy` says whose key signed it. A command computes the files it
writes (`todo`); `OpenFile` creates or empties the first of them and `WriteFile` fills
it, so `Dies` can leave an empty file, or a new certificate beside an old key. The
bootstrap is a counter over the commands it runs. `revoke` is a process of its own:
load and add, open, save, each a step, by the bootstrap and by operators at any time
and without a lock. A save into a file that another revoke has written since may leave
part of the longer list behind (`Garbled`). Gateway B reads bundle, revocations,
root and certificate at start; Gateway A reads its signing key at start and the rest
at each session; the handshake needs each side's certificate to be signed by the root
the other side loaded; the verifier reads a key file when it first needs it.

**BenchmarkCampaign.** Combinations and transactions are numbered in the order of the
runner's loops, so a transaction's number tells what it was injected for. The gateways
are reduced to what writes telemetry: attempts that reach B, B's line per attempt, A's
line at the ACK, giving up. Each file access of the runner is a step of its own, and
the gateways move between them. Every external command may fail, up to `MaxFailures`,
and then has no effect, which the code does not see. `docker compose up` recreates
the gateways only when their environment changed. The initial archive and report are
those of an earlier campaign. The analysis is an operator on the archive.

## 3. Runs

Passing runs, with the number of distinct states:

| Run | Bounds | Checks |
|---|---|---|
| `delivery_pair` (559,260) | 2 transactions, 2 attempts, 2 permits, queue and dead-letter deque of 1, no faults | `TypeOK`, `OneOutcome`, `DeadLetterWindow`, `PermitsConserved` |
| `delivery_faults` (287,878) | 1 transaction of 4 kinds, 2 attempts, 1 permit, 2 faults, 2 certificates of A, 3 trust stores | `AckedWasImported`, `ImportsWithinAttempts`, `OnlyVouchedForImported`, `RefusalHolds`, `AnswerHeardDecides`, `TelemetryTellsOfImports`, `SettledIsFinal`, `ImplementsThreatExchange`, `EveryTransactionSettles`, `EveryHandlerEnds` |
| `inbound_verdict` (161,448) | all envelopes over two agencies, 12 trust stores, 7 rule lists | `AcceptedIsVouchedFor`, `PolicyFailsClosed`, `StrangersLearnNothing` |
| `pipeline` (735,371) | 3 events of 3 kinds, the second also of 6 odd ones, tags in three spellings; queues of 1 (2 before the sender), 1 socket error, 1 crash | `PipelineTypeOK`, `EveryEventAccountedFor`, `StrictStaysHome`, `ImplementsFeedPromise`, `EveryEventSettles` |
| `frame` (134,540) | 4 byte values, 2 length bytes, payloads up to 2 bytes, reads of 3, every header with lengths on both sides of the limit and up to 5 bytes after it | `FrameTypeOK`, `CutsDoNotMatter`, `BufferBounded`, `AnswerUnderstood`, `ReaderEnds` |
| `trust_safety` (2,159,354) | 2 suites, RAW and NIA, exports of both or of NIA alone, 3 commands, bootstraps or revokes of RAW's certificates by an operator, 2 deaths, any number of starts and exchanges | `ServesOnlyComplete`, `AcceptedKeyNotOlder`, `RevocationsAreKept`, `FinishedMeansUsable`, `BootstrapKeepsKeys` |
| `campaign` (1,565,238) | 2 crypto modes, 1 profile (the router may start with the other's rules), 2 events each, 1 of them warm-up, 2 attempts, 1 failed command | `CampaignTypeOK`, `LabelsTrue`, `CryptosNotMixed`, `ArchiveCovers`, `AnalysedOnce`, `WarmUpExcluded`, `SuccessMeansComplete`, `CampaignEnds` |

Why the bounds are enough to be interesting: with two transactions and two permits
late handlers of the first run beside those of the second and hold them up; with
two attempts and two faults an attempt may lose its ACK, Gateway B restart with another
trust store or A's certificate be reissued, and the second attempt be refused; or the
only permit be held for ever; a dead-letter deque of one is full after the first failure; three events and queues of
one fill the pipeline up to the feed, and a crash finds an event in every stage. A
maximal frame of five bytes is cut at every place, is longer than a read, and leaves
room for trailing bytes in the same read and in a later one; lengths that read
differently in the two byte orders are among the wires. Three operations and two
deaths let a bootstrap die with a file open, die again in the repetition and then
come to its end, or a key be reissued, exported and used, or an operator revoke beside
the bootstrap's revoke and the list be repaired by a third. Two combinations let the
first one's late lines reach the second; two events with one discarded put the
number of rows on both sides of the limits, and a retried one logs twice. Two profiles
beside the two modes are beyond TLC; that the labels are right for any list of profiles
is `LabelsAreTrue` of section 4. The proofs
of section 4 remove the bounds for all safety properties of the passing runs.

Every run switches TLC's deadlock check off: the instances are finite workloads that
end when all transactions, events or operations are used up.

Runs that show a disagreement between the code and what the repository says of it:

| Run | Property | What happens |
|---|---|---|
| `delivery_sink` | `AckedIsInOpenCTI` | OpenCTI is not reachable when Gateway B starts: the ingestor silently becomes a mock and ACKs bundles nobody stores |
| `pipeline_shutdown` | `ShutdownCompletes` | `stop()` clears flags; workers waiting in `queue.get()` are not woken and `gather` never returns |
| `pipeline_red` | `UnconfiguredMarkingDenied` | `tlp:red` is unknown to the extractor, defaults to AMBER and is sent |
| `frame_trailing` | `ExtraBytesMalformed` | extra bytes that come after the read that completed the frame are never looked at, and the transaction is processed |
| `trust_revoked` | `RevokedIsRejected` | the list has the key `revoked`, Gateway B reads `revoked_certificates`. The bootstrap itself revokes RAW's certificate, so honouring the list would stop the deployed system |

The passing properties are stated so as to hold, and some of their conditions mark
places where the code does less than its comments say:

* `CutsDoNotMatter` has a case of its own for bytes after a frame, and says exactly when
  they are noticed: when the read that completes the frame returns some of them. The
  comment at `gateway_b/transport/protocol.py:63` calls every such frame malformed; that
  is `ExtraBytesMalformed`, which is violated.
* `RefusalHolds` is about the attempt that was refused. An earlier attempt whose ACK was
  lost may have been imported: its certificate or Gateway B's trust store was another
  one (`gateway_b/main.py:41`, `gateway_a/crypto/tls_client.py`), so a transaction
  that is dead-lettered with `IDENTITY_MISMATCH` can be in OpenCTI.
* `EveryEventSettles` excepts a transmission worker that never returns from one
  transaction: `drain()` (`gateway_a/transport/protocol.py:40`) has no timeout, and
  everything behind that transaction waits.
* `FinishedMeansUsable` excludes a skipped generation: `bootstrap_pki.py:52` looks at
  the existence of one file, so a bootstrap that died with the first suite's bundle
  open, or before the second suite, is taken for a finished one ever after.
* `RevocationsAreKept` excludes what was revoked before a death with the list open,
  which empties it, and before or during an overlap of two revokes: each saves the list
  it loaded, without the other's entry (`ca/revocation.py:23`), and the shorter one may
  leave a tail of the longer behind that no longer parses. A revoke that runs on its own
  afterwards puts back what it lists.
* `CryptosNotMixed` says nothing of the two profiles of one crypto mode: between them
  the gateways are not restarted, and transactions of the stable run that finish late
  are counted for the adverse one (`benchmark_runner/runner.py:172`).
* `LabelsTrue` assumes that no command failed: `_default_exec`
  (`benchmark_runner/network.py:20`) drops exit statuses, and `toggle_profile` reports
  a profile as applied whatever `tc` said.
* `ArchiveCovers` speaks of combinations with a result: the lines of one with too few
  rows are cleared without a copy (`benchmark_runner/runner.py:117`), and so are lines
  written between copy and clearing.
* `WarmUpExcluded` asks for a complete archive: with events missing, the analysis
  takes the last `Window` events, or all (`analyze_telemetry.py:133`), warm-up
  included; and rows whose times are not positive are dropped from the window afterwards
  (`analyze_telemetry.py:150`). `results/phase7/PHASE_7_REPORT.md:40` promises "exactly
  1,000 valid events per iteration" without either condition.

**Fairness.** `Delivery`: weak fairness of the worker and of what the event loop does
for each handler (`LoopStep`), because the event loops run every ready task and timers
fire. Nothing is assumed of the producer, of faults, of a restart of B or of the
ingestor's thread, whose call of OpenCTI has no timeout. The exceptions in the liveness
properties are real, and they must last for ever: reads have no timeout, so silent peers
can hold all permits, and so can handlers whose import never returns; a `drain()` into
such a server never returns either. `GatewayAPipeline`: weak fairness of the listener,
of the three workers and of the transmission worker's `get`, none of `Settle`, of MISP,
of errors, of the signal, of a crash or of a restart; `EveryEventSettles` counts being
missed, or lost in a crash, as an outcome. `FrameStream`: TCP delivers what was written,
and the event loop runs a reader that has something to read; the peer need not close.
`BenchmarkCampaign`: weak fairness of the runner alone, whose commands are assumed to
return (`subprocess.run` has no timeout) and whose sleeps end; nothing of the gateways.

## 4. Proofs

Every invariant, every action property and both refinements that the passing runs
check are theorems, for every value of the constants. The proofs rest on the named
assumptions of the modules, which say of the constants what the code makes true of
them and which TLC evaluates in every run:

| Assumption | Says |
|---|---|
| `DeliveryAssumption` | the limits are positive numbers; there is a trust store to start with; the ingestor comes up in one of its two modes |
| `PipelineAssumption`, `FeedAssumption` | queues have room for one item; an event's tags are names in some spelling |
| `FrameAssumption`, `AckAssumption` | base, length field and read size are positive; the ACK fits into a frame and is nobody else's |
| `RuleListAssumption` | a rule list is a list of rules with four text fields |
| `TrustAssumption` | suites and agencies are lists without repetition; the two gateways are among the agencies; an export names at least one agency; operators revoke certificates of agencies |
| `CampaignAssumption` | there are iterations, crypto modes, profiles and events; a profile is stable or adverse |

One theorem has a hypothesis of its own: `StrictNeverSent` assumes a policy table that
shows `tlp:amber+strict` to nobody, as the one in `gateway_a/main.py` does.

**DeliveryProofs.** `TypeCorrect`, `DeliveryInvariant`; `AckedImported`,
`ImportsBounded`, `ImportedVouchedFor`, `RefusalsTrue`, `OutcomesUnique`,
`TelemetryTrue`, `AnswersDecide`; `SettledStaysSettled`. `AckedWasImported` is not
inductive: it speaks of an outcome at A that rests on an answer on the wire, which
rests on a handler's phase. `DeliveryInv` says each link of that chain. `HandlerOK`: a
handler's phase tells how many imports it made, an ACK on the wire means its import is
made, a vetting NACK means that what the handler had in hand is not importable by the
trust store it judged it by, and that the handler has ended, and no handler exists for
an attempt not yet made. `RefusalsTrue` compares two attempts: the same certificate and
the same store give the same verdict (`SameEvidence`), so an attempt that was imported
had other evidence than the one refused. `WorkerOK`: the worker's transaction is unsettled, routable and not queued,
and the queue holds distinct untried transactions, so a step of the worker never
touches a settled one. `OutcomeOK`: each outcome rests on such an answer, and an answer the
worker heard is the last attempt's.
`DeadLetterOK`: the deque holds failed transactions, each once. Each part is preserved
by its own lemma, with a frame lemma for the actions that leave it alone.
`VerdictMeaning` and `GatesPassed` turn "ACCEPT" into the conjunction of the gates.

**DeliveryRefinementProofs.** `DeliveryRefines`: every step of `Delivery` maps to a
step of `ThreatExchange` or to a stutter, given `DeliveryInv`.

**DeliveryCountingProofs.** `PermitsAddUp` and `ServiceBounded` from `PermitInv`, which
counts the handlers that hold a permit as a finite set; `DeadLetterWindowHolds` from
`WindowInv`, which ties the deque's length to the number of failed transactions, and
`NewestInv`, which keeps the transaction given up last at its end.

**PipelineProofs.** `PipelineTypeCorrect` needs `HandsOK` (a task holds an event exactly
while it works on it or waits to put it). `FlowInvariant` lays socket, hands and queues
out in one line of ten places: everything at an earlier place is younger than
everything at a later one, each queue is sorted, and the events on the line are exactly
those published that have no fate yet. From it come `AllAccountedFor`, the refinement
`PipelineRefines` and `StrictNeverSent`.

**FrameProofs.** `FrameTypeCorrect`, `BufferStaysBounded`, `CutsNeverMatter`,
`AnswersUnderstood`, and `FrameRoundTrip`: `decode_frame` undoes `encode_frame`, for any
base and any length field. `FrameInv` says that a reader that goes on holds no whole
frame and no bad header, so that a frame's fate is decided by the first read that
completes it; `NothingBehind` ties what that read leaves over to the frame's size.

**InboundProofs.** `AcceptedVouchedFor`, `PolicyClosed`, `StrangersToldNothing`: what a
verdict says of envelope, trust store and rules; the first decisive rule is found as
the least index of a matching one.

**TrustProofs.** `FilesOK` (files are empty or whole, and pending writes belong
together) is the base. `ListInv` gives `RevocationsKept`: what a revoke under way has
loaded covers what was saved and is not at risk, and so does the file unless it is open
or was garbled, which only an overlap brings about. `KeyInv` (no key that is or will
be on disk, or is cached, is older than the one an entry lists) gives `ServesComplete` and
`AcceptedNotOlder`; `BootInv` (which files a bootstrap may still touch once the
first suite's bundle exists) `BootstrapsKeepKeys`; and `Progress` (what the commands
given so far will have achieved once pending writes are made) `FinishedUsable`.

**CampaignProofs.** `TypesHold` and `CampaignTypesOK`; `InForce`: as long as no command
failed, what is in force is what the runner asked for, from the step on at which it
asked, hence `LabelsAreTrue`; `MixInv` (all that is queued, logged since the clearing or
read is of the mode the gateways run) gives `ModesNotMixed`. `CoverInv` relates the
three readings of the growing files: `SeriesGrows` shows that rows behind the warm-up
stay behind it when either file grows, although a new line of B's may put a row in the
middle of the merged table. With `ResultsInOrder` (a later combination never writes to
an earlier one's archive) this gives `ArchiveCoversReport` and `SuccessIsComplete`.
`AnalysisCountsOnce` and `WarmUpIsExcluded` are facts about the analysis of any
archive of the right type: `MergeRows` describes `pd.merge` by where the rows of each
line end, and `GroupedOnce` shows that `Grouped` has the value it chooses.

Induction over data is done by way of the least counterexample: a set of natural
numbers that is not empty has a least element (`LeastNumber`, from the library's
well-foundedness of `<`), and `UpTo` turns that into induction up to a bound.
Recursive functions are shown to exist that way (`Accumulate`, `FlattenStep`, the
packing of a length) before anything is said of their values.

Only model-checked: the liveness properties `EveryTransactionSettles`,
`EveryHandlerEnds`, `EveryEventSettles`, `ReaderEnds` and `CampaignEnds`, since fairness
and ENABLED are beyond the prover. The five properties of the violated runs are false
of the code, so there is nothing to prove.

## 5. Not modelled

* Cryptography: signatures and fingerprints are values that match or do not; of the
  X.509 primitives only who signed what. Certificate expiry: no code but the TLS
  library looks at it.
* STIX conversion beyond success or failure; MISP, ZeroMQ, OpenCTI, TCP and TLS are
  external and modelled by how the code uses them.
* A gateway's start reads its files in one step; a command that writes in between
  would be seen half by it. `BootstrapEnds` stands for the tests and the evidence
  files at the end of the bootstrap, which change nothing of the PKI.
* Overlaps of qstie-ca commands other than `revoke`: no command that issues or exports
  runs beside another or beside the bootstrap in `Trust`, though nothing in `cli.py`
  prevents it. Two `issue-signing-key` at once could put an older key back after an
  export, or pair the halves of different keys, so `AcceptedKeyNotOlder` and
  `FinishedMeansUsable` are claims about one such command at a time. Bootstraps do not
  overlap each other (there is one container for them). Fingerprints revoked by hand
  are those of certificates on disk.
* In `Delivery` the stores B may load and the certificates A may present are any of two
  given sets; `Trust` shows how they come about. The signing key is one for the life of
  the process, as Gateway A loads it once.
* A crash of Gateway A in `Delivery`: the worker keeps nothing on disk that it reads
  again, so after a crash its transactions are those that `GatewayAPipeline` counts as
  lost. `Delivery` covers what the handlers at B, which outlive it, still do: they see
  a reset or silent link.
* The metrics endpoint, containers, metadata capture, and what the shaped network
  does beyond losing, delaying and resetting.
* The statistics, tables and charts of `metrics.py`, `report.py` and
  `analyze_telemetry.py`; the publisher script that `_inject_events` pipes into the
  container. `run_benchmark.py` drives the same loop as `repeat_runner.py` and checks
  only that there is some result, so `SuccessMeansComplete` is not claimed for it.
* Archives under names of other campaigns: the analysis takes every `telemetry_a_*` file
  it finds (`analyze_telemetry.py:93`), so files of more iterations or of other modes
  than the campaign's enter its tables.

## 6. Plan

Done: all modules of section 2, their runs, and theorems for every safety property,
action property and refinement that a passing run checks. Next:

1. state as theorems the safety facts inside the liveness arguments: which awaits can
   be pending when nothing of the worker or a handler is enabled (`Wedged`), and that
   the attempts of a transaction only grow;
2. compose `Trust` with `Delivery`: that a verdict of `Delivery` under a bundle that
   `Trust` can serve is one that `Trust` accepts;
3. action properties of the campaign: an archive that is made is not written again;
4. commands that issue or export beside each other, each with its own pending writes,
   and what then remains of `AcceptedKeyNotOlder` and `FinishedMeansUsable`.
