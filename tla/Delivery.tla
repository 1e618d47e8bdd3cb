------------------------------ MODULE Delivery ------------------------------
(***************************************************************************)
(* Delivery of policy-approved transactions from Gateway A to Gateway B.   *)
(*                                                                         *)
(* Gateway A: one TransmissionWorker takes transactions from tx_queue and  *)
(* makes up to MaxAttempts attempts at each, one TLS connection an attempt,*)
(* with a timeout on the reply, a backoff between attempts, and a          *)
(* dead-letter store for the transactions it gives up.                     *)
(*                                                                         *)
(* Gateway B: every accepted connection has a handler of its own that      *)
(* waits for one of MaxConcurrent semaphore permits, reads one frame,      *)
(* decides (InboundVerdict), has the ingestor import the bundle, answers   *)
(* and logs.  Handlers are not cancelled when the peer goes away, so a handler *)
(* may still import a bundle whose attempt Gateway A timed out long ago.   *)
(*                                                                         *)
(* A connection is the pair <<t, n>>: attempt n at transaction t.          *)
(***************************************************************************)
EXTENDS InboundVerdict, FiniteSets

CONSTANTS Tx,             \* transactions
          EnvChoices,     \* the envelopes a transaction may carry
          TrustStores,    \* what TrustStore.load may read when Gateway B starts
          Certificates,   \* what Gateway A's certificate file may hold at a session
          Rules,          \* Gateway B's inbound rules
          Recipients,     \* keys of Gateway A's routing table
          MaxAttempts,    \* config.max_attempts
          MaxConcurrent,  \* config.max_concurrent_connections
          TxQueueMax,     \* config.tx_queue_maxsize
          DeadLetterMax,  \* maxlen of the dead-letter deque
          SinkModes,      \* how the ingestor may come up: "opencti", "mock"
          MaxFaults       \* bound on environment faults (links and crashes)

ASSUME DeliveryAssumption ==
    /\ MaxAttempts \in Nat \ {0}
    /\ MaxConcurrent \in Nat \ {0}
    /\ TxQueueMax \in Nat \ {0}
    /\ DeadLetterMax \in Nat \ {0}
    /\ TrustStores # {}
    /\ SinkModes \subseteq {"opencti", "mock"} /\ SinkModes # {}
    /\ MaxFaults \in Nat

Conn == Tx \X (1..MaxAttempts)

\* The reasons a NACK of Gateway B may carry.
NackReply == VettingNack \cup {"INGEST_FAILED"}

\* Reasons a transaction is dead-lettered for (a NACK reason r is stored as
\* NACK_r in the code and as r here).
Reason == NackReply \cup {"UNKNOWN_RECIPIENT_ROUTING", "MAX_RETRIES_EXCEEDED"}

VARIABLES
    env,         \* [Tx -> envelope]: what the transaction carries (its peer is
                 \* the session's, below)
    txState,     \* [Tx -> TransactionState], "NEW" before it is approved
    retryCount,  \* [Tx -> Nat]: transaction.retry_count
    queue,       \* tx_queue
    pc,          \* where the transmission worker is suspended
    cur,         \* the transaction it works on (meaningful when pc # "get")
    deadLetter,  \* DeadLetterStore.store: the last DeadLetterMax entries
    dlReason,    \* [Tx -> reason given to DeadLetterStore.add, or "none"]
    dlLines,     \* [Tx -> Nat]: its lines in the dead-letter file
    telA,        \* [Tx -> Nat]: its lines in Gateway A's telemetry file
    heard,       \* [Conn -> the answer send_envelope returned to the worker, or "none"]
    bUp,         \* Gateway B's process is running
    store,       \* the trust store it loaded, with the keys its verifier reads
    sink,        \* what its ingestor hands bundles to (is_mock), chosen at start
    stored,      \* connections whose bundle OpenCTI itself stored
    permits,     \* TLSServer.semaphore._value
    srv,         \* [Conn -> phase of Gateway B's handler]
    peer,        \* [Conn -> the certificate Gateway A presented, or "none"]
    judged,      \* [Conn -> the trust store its envelope was checked against]
    arrived,     \* [Conn -> how much of the frame has reached Gateway B]
    reply,       \* [Conn -> the answer Gateway B put on the wire, or "none"]
    cliOpen,     \* [Conn -> Gateway A's end is open]
    net,         \* [Conn -> "up", "reset" (both ends fail), "silent" (bytes vanish)]
    imports,     \* [Conn -> Nat]: bundles the ingestor's sink took from this handler
    telB,        \* [Conn -> Nat]: lines this handler logged in Gateway B's telemetry
    faults       \* number of faults so far

aVars == <<txState, retryCount, queue, pc, cur, deadLetter, dlReason, dlLines, telA, heard>>
sinkVars == <<sink, stored>>
procVars == <<bUp, sinkVars, store>>
bVars == <<procVars, permits, srv, judged, reply, imports, telB>>
linkVars == <<peer, arrived, cliOpen, net>>
vars == <<env, aVars, bVars, linkVars, faults>>

\* What Gateway B's handler of connection c has in hand, the verdict it reaches
\* on it now, and what it reached its verdict on.
Received(c) == [env[c[1]] EXCEPT !.peer = peer[c]]
VerdictOn(c) == Verdict(store, Rules, Received(c))
Evidence(c) == <<judged[c], peer[c]>>

SrvPhase == {"none", "waiting", "reading", "ingesting", "landed", "acking",
             "logging", "closed"}
InService == {"reading", "ingesting", "landed", "acking", "logging"}
WorkerPc == {"get", "attempt", "opening", "write", "drain", "await", "backoff"}

\* Envelopes carry a size class: a "small" frame fits the socket and stream
\* buffers, a "large" one needs the peer to read before drain() returns, an
\* "oversize" one exceeds FrameCodec's max_frame_size.
Init ==
    /\ env \in [Tx -> EnvChoices]
    /\ txState = [t \in Tx |-> "NEW"]
    /\ retryCount = [t \in Tx |-> 0]
    /\ queue = << >>
    /\ pc = "get"
    /\ cur \in Tx
    /\ deadLetter = << >>
    /\ dlReason = [t \in Tx |-> "none"]
    /\ dlLines = [t \in Tx |-> 0]
    /\ telA = [t \in Tx |-> 0]
    /\ heard = [c \in Conn |-> "none"]
    /\ bUp = TRUE
    /\ store \in TrustStores
    /\ sink \in SinkModes
    /\ stored = {}
    /\ permits = MaxConcurrent
    /\ srv = [c \in Conn |-> "none"]
    /\ peer = [c \in Conn |-> "none"]
    /\ judged = [c \in Conn |-> store]
    /\ arrived = [c \in Conn |-> "none"]
    /\ reply = [c \in Conn |-> "none"]
    /\ cliOpen = [c \in Conn |-> FALSE]
    /\ net = [c \in Conn |-> "up"]
    /\ imports = [c \in Conn |-> 0]
    /\ telB = [c \in Conn |-> 0]
    /\ faults = 0

-----------------------------------------------------------------------------
(* Gateway A                                                               *)

\* The PEP worker's put of an approved transaction (GatewayAPipeline.tla has
\* the stages before it).
Enqueue(t) ==
    /\ txState[t] = "NEW"
    /\ Len(queue) < TxQueueMax
    /\ txState' = [txState EXCEPT ![t] = "POLICY_APPROVED"]
    /\ queue' = Append(queue, t)
    /\ UNCHANGED <<env, retryCount, pc, cur, deadLetter, dlReason, dlLines, telA, heard,
                   bVars, linkVars, faults>>

\* Mutated form: a full store turns the new entry away.
DeadLetterAddWhileRoom(t, reason) ==
    /\ deadLetter' = IF Len(deadLetter) < DeadLetterMax
                     THEN Append(deadLetter, [tx |-> t, reason |-> reason])
                     ELSE deadLetter
    /\ dlReason' = [dlReason EXCEPT ![t] = reason]
    /\ \E w \in {0, 1} : dlLines' = [dlLines EXCEPT ![t] = @ + w]

\* DeadLetterStore.add: the deque drops its oldest entry when full; the line
\* in the file is written or, on an error that is only logged, not.
DeadLetterAdd(t, reason) ==
    /\ deadLetter' = IF Len(deadLetter) < DeadLetterMax
                     THEN Append(deadLetter, [tx |-> t, reason |-> reason])
                     ELSE Append(Tail(deadLetter), [tx |-> t, reason |-> reason])
    /\ dlReason' = [dlReason EXCEPT ![t] = reason]
    /\ \E w \in {0, 1} : dlLines' = [dlLines EXCEPT ![t] = @ + w]

\* Mutated form: the transaction is dead-lettered but its state is not changed.
GiveUpKeepsState(t, reason) ==
    /\ DeadLetterAdd(t, reason)
    /\ pc' = "get"
    /\ UNCHANGED txState

\* The worker gives transaction t up and returns to tx_queue.get().
GiveUp(t, reason) ==
    /\ txState' = [txState EXCEPT ![t] = "FAILED"]
    /\ DeadLetterAdd(t, reason)
    /\ pc' = "get"

\* tx_queue.get() returns; an unroutable recipient is dead-lettered at once.
DequeueRoutable ==
    /\ pc = "get" /\ queue # << >>
    /\ env[Head(queue)].recipient \in Recipients
    /\ cur' = Head(queue)
    /\ queue' = Tail(queue)
    /\ pc' = "attempt"
    /\ UNCHANGED <<env, txState, retryCount, deadLetter, dlReason, dlLines, telA, heard,
                   bVars, linkVars, faults>>

DequeueUnroutable ==
    /\ pc = "get" /\ queue # << >>
    /\ env[Head(queue)].recipient \notin Recipients
    /\ cur' = Head(queue)
    /\ queue' = Tail(queue)
    /\ GiveUp(Head(queue), "UNKNOWN_RECIPIENT_ROUTING")
    /\ UNCHANGED <<env, retryCount, telA, heard, bVars, linkVars, faults>>

\* Top of the retry loop, up to the await of open_session.
BeginAttempt ==
    /\ pc = "attempt"
    /\ retryCount[cur] < MaxAttempts
    /\ retryCount' = [retryCount EXCEPT ![cur] = @ + 1]
    /\ txState' = [txState EXCEPT ![cur] = "SENDING"]
    /\ pc' = "opening"
    /\ UNCHANGED <<env, queue, cur, deadLetter, dlReason, dlLines, telA, heard,
                   bVars, linkVars, faults>>

CurConn == <<cur, retryCount[cur]>>

\* start_server runs handle_client for the connection.
HandlerStarts(c) == srv' = [srv EXCEPT ![c] = "waiting"]

\* open_session returns: TCP and TLS are up and Gateway B has a handler task.
\* Every session builds its own TLS context from the certificate file, which may
\* have been reissued since the last attempt.
OpenSession ==
    /\ pc = "opening" /\ bUp
    /\ HandlerStarts(CurConn)
    /\ \E fp \in Certificates : peer' = [peer EXCEPT ![CurConn] = fp]
    /\ cliOpen' = [cliOpen EXCEPT ![CurConn] = TRUE]
    /\ pc' = "write"
    /\ UNCHANGED <<env, txState, retryCount, queue, cur, deadLetter, dlReason,
                   dlLines, telA, heard, procVars, permits, judged, reply, imports,
                   telB, arrived, net, faults>>

\* Mutated form: the transport's reason is dead-lettered.
RetryOrGiveUpRawReason ==
    \/ /\ retryCount[cur] < MaxAttempts
       /\ pc' = "backoff"
       /\ UNCHANGED <<txState, deadLetter, dlReason, dlLines>>
    \/ /\ retryCount[cur] >= MaxAttempts
       /\ GiveUp(cur, "TIMEOUT")

\* What the worker does after an attempt that may be repeated: back off while
\* retry_count < max_attempts, else give the transaction up.
RetryOrGiveUp ==
    \/ /\ retryCount[cur] < MaxAttempts
       /\ pc' = "backoff"
       /\ UNCHANGED <<txState, deadLetter, dlReason, dlLines>>
    \/ /\ retryCount[cur] >= MaxAttempts
       /\ GiveUp(cur, "MAX_RETRIES_EXCEEDED")

\* open_session raises (refused, handshake failure, handshake timeout).
OpenFails ==
    /\ pc = "opening"
    /\ RetryOrGiveUp
    /\ UNCHANGED <<env, retryCount, queue, cur, telA, heard, bVars, linkVars, faults>>

\* writer.write(frame) and the start of drain().  What is written reaches
\* Gateway B's buffers only over a link that still carries bytes; drain()
\* returns at once only for a frame the buffers hold entirely.
WriteFrame ==
    LET small == env[cur].size = "small" IN
    /\ pc = "write"
    /\ arrived' = [arrived EXCEPT ![CurConn] =
                     IF net[CurConn] # "up" THEN "none"
                     ELSE IF small THEN "all" ELSE "head"]
    /\ pc' = IF small THEN "await" ELSE "drain"
    /\ UNCHANGED <<env, txState, retryCount, queue, cur, deadLetter, dlReason,
                   dlLines, telA, heard, bVars, peer, cliOpen, net, faults>>

\* drain() returns: Gateway B is reading this connection and takes the rest, or
\* it has closed it and the rest fitted the buffers before the close was seen.
\* There is no timeout on drain().
DrainDone ==
    /\ pc = "drain" /\ net[CurConn] = "up"
    /\ \/ /\ srv[CurConn] = "reading" /\ env[cur].size = "large"
          /\ arrived' = [arrived EXCEPT ![CurConn] = "all"]
       \/ srv[CurConn] = "closed" /\ UNCHANGED arrived
    /\ pc' = "await"
    /\ UNCHANGED <<env, txState, retryCount, queue, cur, deadLetter, dlReason,
                   dlLines, telA, heard, bVars, peer, cliOpen, net, faults>>

CloseSession == cliOpen' = [cliOpen EXCEPT ![CurConn] = FALSE]

\* send_envelope has decoded the answer and returns it.
Hear == heard' = [heard EXCEPT ![CurConn] = reply[CurConn]]

\* log_telemetry: the line is written or, on an error that is only logged, lost.
LogTelemetryA(t) == \E w \in {0, 1} : telA' = [telA EXCEPT ![t] = @ + w]

\* send_envelope returns (True, "ACK").
ReceiveAck ==
    /\ pc = "await" /\ reply[CurConn] = "ACK"
    /\ Hear /\ CloseSession
    /\ txState' = [txState EXCEPT ![cur] = "ACKED"]
    /\ LogTelemetryA(cur)
    /\ pc' = "get"
    /\ UNCHANGED <<env, retryCount, queue, cur, deadLetter, dlReason, dlLines,
                   bVars, peer, arrived, net, faults>>

\* Mutated forms: the return after the dead-lettering is missing; a failed import
\* is taken for a transport failure and retried.
ReceiveNackGoesOn ==
    /\ pc = "await" /\ reply[CurConn] \in NackReply
    /\ Hear /\ CloseSession
    /\ txState' = [txState EXCEPT ![cur] = "FAILED"]
    /\ DeadLetterAdd(cur, reply[CurConn])
    /\ pc' = "attempt"
    /\ UNCHANGED <<env, retryCount, queue, cur, telA, bVars, peer, arrived, net, faults>>
ReceiveNackRetriesIngest ==
    /\ pc = "await" /\ reply[CurConn] \in NackReply
    /\ Hear /\ CloseSession
    /\ \/ reply[CurConn] = "INGEST_FAILED" /\ RetryOrGiveUp
       \/ reply[CurConn] # "INGEST_FAILED" /\ GiveUp(cur, reply[CurConn])
    /\ UNCHANGED <<env, retryCount, queue, cur, telA, bVars, peer, arrived, net, faults>>

\* send_envelope returns (False, reason) for a NACK: never retried.
ReceiveNack ==
    /\ pc = "await" /\ reply[CurConn] \in NackReply
    /\ Hear /\ CloseSession
    /\ GiveUp(cur, reply[CurConn])
    /\ UNCHANGED <<env, retryCount, queue, cur, telA, bVars, peer, arrived, net, faults>>

\* Mutated form: the reads of the reply have no wait_for.
ReplyTimeoutMissing == FALSE

\* A wait_for on the reply expires, whatever is under way at Gateway B.
ReplyTimeout ==
    /\ pc = "await"
    /\ CloseSession
    /\ RetryOrGiveUp
    /\ UNCHANGED <<env, retryCount, queue, cur, telA, heard, bVars, peer, arrived, net,
                   faults>>

\* send_envelope's reads or drain() raise: the link was reset, Gateway B closed
\* the connection without an answer, or it closed it while A was still writing;
\* over a silent link the kernel gives unacknowledged bytes up in the end.
TransportError ==
    /\ \/ pc \in {"write", "drain", "await"} /\ net[CurConn] = "reset"
       \/ /\ pc = "await" /\ net[CurConn] = "up"
          /\ srv[CurConn] = "closed" /\ reply[CurConn] = "none"
       \/ pc = "drain" /\ (srv[CurConn] = "closed" \/ net[CurConn] = "silent")
    /\ CloseSession
    /\ RetryOrGiveUp
    /\ UNCHANGED <<env, retryCount, queue, cur, telA, heard, bVars, peer, arrived, net,
                   faults>>

\* asyncio.sleep(delay) ends and the loop continues.
BackoffElapsed ==
    /\ pc = "backoff"
    /\ pc' = "attempt"
    /\ UNCHANGED <<env, txState, retryCount, queue, cur, deadLetter, dlReason,
                   dlLines, telA, heard, bVars, linkVars, faults>>

WorkerStep ==
    \/ DequeueRoutable \/ DequeueUnroutable \/ BeginAttempt
    \/ OpenSession \/ OpenFails \/ WriteFrame \/ DrainDone
    \/ ReceiveAck \/ ReceiveNack \/ ReplyTimeout \/ TransportError
    \/ BackoffElapsed

-----------------------------------------------------------------------------
(* Gateway B                                                               *)

\* async with self.semaphore: a handler gets a permit.
AcquirePermit(c) ==
    /\ bUp /\ srv[c] = "waiting" /\ permits > 0
    /\ permits' = permits - 1
    /\ srv' = [srv EXCEPT ![c] = "reading"]
    /\ UNCHANGED <<env, aVars, procVars, judged, reply, imports, telB, linkVars, faults>>

\* The handler's finally block and the end of the async with.
HandlerEnds(c) ==
    /\ srv' = [srv EXCEPT ![c] = "closed"]
    /\ permits' = permits + 1

\* A write to the peer followed by drain(): it raises on a reset link, may raise
\* once the peer's close has been seen, and otherwise succeeds; what is written
\* to a peer that closed, or over a silent link, arrives nowhere.
WriteMayFail(c) == net[c] = "reset" \/ ~cliOpen[c]
WriteMaySucceed(c) == net[c] # "reset"
Send(c, answer) ==
    reply' = [reply EXCEPT ![c] = IF net[c] = "up" /\ cliOpen[c] THEN answer ELSE @]

\* Mutated form: the handler returns outside the async with.
NackAndKeepPermit(c, answer) ==
    /\ \/ WriteMaySucceed(c) /\ Send(c, answer)
       \/ WriteMayFail(c) /\ UNCHANGED reply
    /\ srv' = [srv EXCEPT ![c] = "closed"]
    /\ UNCHANGED permits

\* send_nack and the handler's return; when it raises nothing is sent.
NackAndEnd(c, answer) ==
    /\ \/ WriteMaySucceed(c) /\ Send(c, answer)
       \/ WriteMayFail(c) /\ UNCHANGED reply
    /\ HandlerEnds(c)

\* read() returns the whole frame, also when the peer has closed meanwhile: on
\* a reset link it raises instead.  The checks follow without an await.
FrameRead(c) == bUp /\ srv[c] = "reading" /\ arrived[c] = "all" /\ net[c] # "reset"
Judge(c) == judged' = [judged EXCEPT ![c] = store]

RejectFrame(c) ==
    /\ FrameRead(c)
    /\ VerdictOn(c) # "ACCEPT"
    /\ Judge(c)
    /\ NackAndEnd(c, VerdictOn(c))
    /\ UNCHANGED <<env, aVars, procVars, imports, telB, linkVars, faults>>

\* Mutated form: the ACK is sent before the ingestor is called.
AcceptFrameAcksFirst(c) ==
    /\ FrameRead(c)
    /\ VerdictOn(c) = "ACCEPT"
    /\ Judge(c)
    /\ srv' = [srv EXCEPT ![c] = "acking"]
    /\ UNCHANGED <<env, aVars, procVars, permits, reply, imports, telB, linkVars, faults>>

AcceptFrame(c) ==
    /\ FrameRead(c)
    /\ VerdictOn(c) = "ACCEPT"
    /\ Judge(c)
    /\ srv' = [srv EXCEPT ![c] = "ingesting"]
    /\ UNCHANGED <<env, aVars, procVars, permits, reply, imports, telB, linkVars, faults>>

\* decode_frame_stream raises OversizedFrameError as soon as the header is in.
RejectOversize(c) ==
    /\ bUp /\ srv[c] = "reading" /\ net[c] # "reset"
    /\ arrived[c] = "head" /\ env[c[1]].size = "oversize"
    /\ NackAndEnd(c, "MALFORMED")
    /\ UNCHANGED <<env, aVars, procVars, judged, imports, telB, linkVars, faults>>

\* read() returns b"" (the peer closed before a whole frame) or raises (reset).
\* Over a silent link neither happens: the read has no timeout.
ReadEnds(c) ==
    /\ bUp /\ srv[c] = "reading"
    /\ \/ net[c] = "reset"
       \/ net[c] = "up" /\ ~cliOpen[c] /\ arrived[c] # "all"
    /\ HandlerEnds(c)
    /\ UNCHANGED <<env, aVars, procVars, judged, reply, imports, telB, linkVars, faults>>

\* Mutated form: the import is tried again although it went through.
IngestLandsAgain(c) ==
    /\ bUp /\ srv[c] \in {"ingesting", "landed"}
    /\ srv' = [srv EXCEPT ![c] = "landed"]
    /\ imports' = [imports EXCEPT ![c] = @ + 1]
    /\ UNCHANGED <<env, aVars, procVars, permits, judged, reply, telB, linkVars, faults>>

\* The sink has taken the bundle, OpenCTI if there is a client, else the mock that
\* stores nothing; the executor thread has not returned yet.
IngestLands(c) ==
    /\ bUp /\ srv[c] = "ingesting"
    /\ srv' = [srv EXCEPT ![c] = "landed"]
    /\ imports' = [imports EXCEPT ![c] = @ + 1]
    /\ stored' = IF sink = "opencti" THEN stored \cup {c} ELSE stored
    /\ UNCHANGED <<env, aVars, bUp, sink, store, permits, judged, reply, telB, linkVars,
                   faults>>

\* ingest_bundle returns True.
IngestReturns(c) ==
    /\ bUp /\ srv[c] = "landed"
    /\ srv' = [srv EXCEPT ![c] = "acking"]
    /\ UNCHANGED <<env, aVars, procVars, permits, judged, reply, imports, telB, linkVars,
                   faults>>

\* Mutated form: the failure is answered like the other exceptions.
IngestFailsMalformed(c) ==
    /\ bUp /\ srv[c] \in {"ingesting", "landed"}
    /\ NackAndEnd(c, "MALFORMED")
    /\ UNCHANGED <<env, aVars, procVars, judged, imports, telB, linkVars, faults>>

\* ingest_bundle returns False: import_bundle raised, before or after OpenCTI
\* stored the bundle.
IngestFails(c) ==
    /\ bUp /\ srv[c] \in {"ingesting", "landed"}
    /\ NackAndEnd(c, "INGEST_FAILED")
    /\ UNCHANGED <<env, aVars, procVars, judged, imports, telB, linkVars, faults>>

\* send_ack.  When it raises, the NACK of the outer except raises too.
SendAck(c) ==
    /\ bUp /\ srv[c] = "acking"
    /\ \/ /\ WriteMaySucceed(c)
          /\ Send(c, "ACK")
          /\ srv' = [srv EXCEPT ![c] = "logging"]
          /\ UNCHANGED permits
       \/ /\ WriteMayFail(c)
          /\ HandlerEnds(c)
          /\ UNCHANGED reply
    /\ UNCHANGED <<env, aVars, procVars, judged, imports, telB, linkVars, faults>>

\* log_telemetry_b, whose write may fail and is then only logged; a reset seen
\* by send_ack's drain() skips it.
LogTelemetry(c) ==
    /\ bUp /\ srv[c] = "logging"
    /\ \E w \in {0, 1} : telB' = [telB EXCEPT ![c] = @ + w]
    /\ HandlerEnds(c)
    /\ UNCHANGED <<env, aVars, procVars, judged, reply, imports, linkVars, faults>>

\* What the event loop does for a handler, and what the ingestor's thread does:
\* nothing bounds the time that OpenCTI takes.
LoopStep(c) ==
    \/ AcquirePermit(c) \/ RejectFrame(c) \/ AcceptFrame(c) \/ RejectOversize(c)
    \/ ReadEnds(c) \/ SendAck(c) \/ LogTelemetry(c)
IngestStep(c) == IngestLands(c) \/ IngestReturns(c) \/ IngestFails(c)
HandlerStep(c) == LoopStep(c) \/ IngestStep(c)

-----------------------------------------------------------------------------
(* The environment                                                         *)

LinkInUse(c) == net[c] = "up" /\ (cliOpen[c] \/ srv[c] \notin {"none", "closed"})

\* The link fails: both ends see it, or the bytes vanish without a trace.
LinkFails(c) ==
    /\ LinkInUse(c) /\ faults < MaxFaults
    /\ \E how \in {"reset", "silent"} : net' = [net EXCEPT ![c] = how]
    /\ faults' = faults + 1
    /\ UNCHANGED <<env, aVars, bVars, peer, arrived, cliOpen>>

\* Gateway B's process dies: its handlers and its semaphore are gone, the
\* kernel resets its connections; what OpenCTI stored and what is in the
\* telemetry file stays.
CrashB ==
    /\ bUp /\ faults < MaxFaults
    /\ bUp' = FALSE
    /\ srv' = [c \in Conn |-> IF srv[c] = "none" THEN "none" ELSE "closed"]
    /\ net' = [c \in Conn |-> IF LinkInUse(c) THEN "reset" ELSE net[c]]
    /\ permits' = MaxConcurrent
    /\ faults' = faults + 1
    /\ UNCHANGED <<env, aVars, sinkVars, store, judged, reply, imports, telB, peer,
                   arrived, cliOpen>>

\* Gateway B starts again: TrustStore.load reads bundle and revocations anew, the
\* verifier's cache of keys is empty, and the ingestor tries its client once; if
\* that raises it is a mock from then on.
RestartB ==
    /\ ~bUp
    /\ bUp' = TRUE
    /\ store' \in TrustStores
    /\ sink' \in SinkModes
    /\ UNCHANGED <<env, aVars, stored, permits, srv, judged, reply, imports, telB,
                   linkVars, faults>>

\* MLDSAVerifier caches a key once it has read it.  A key file that could not be
\* read is tried again, so a listed agency may come to be verifiable.
KeyBecomesReadable ==
    /\ bUp
    /\ \E ts \in TrustStores, a \in DOMAIN store.agencies :
          /\ store.agencies[a].pub = "unreadable"
          /\ ts = [store EXCEPT !.agencies[a].pub = ts.agencies[a].pub]
          /\ store' = ts
    /\ UNCHANGED <<env, aVars, bUp, sinkVars, permits, srv, judged, reply, imports,
                   telB, linkVars, faults>>

-----------------------------------------------------------------------------
Next ==
    \/ \E t \in Tx : Enqueue(t)
    \/ WorkerStep
    \/ \E c \in Conn : HandlerStep(c) \/ LinkFails(c)
    \/ CrashB \/ RestartB \/ KeyBecomesReadable

Spec == Init /\ [][Next]_vars

\* The two event loops run every task that is ready and their timers fire.
\* Nothing is assumed of the producer, of the faults, of a restart of B or of the
\* ingestor's thread: import_bundle runs without a timeout.
Fairness ==
    /\ WF_vars(WorkerStep)
    /\ \A c \in Conn : WF_vars(LoopStep(c))

FairSpec == Spec /\ Fairness

-----------------------------------------------------------------------------
(* Properties                                                              *)

Terminal == {"ACKED", "FAILED"}
TxState == {"NEW", "POLICY_APPROVED", "SENDING"} \cup Terminal
Entry == [tx : Tx, reason : Reason]

\* Type invariant of the variables above.
TypeOK ==
    /\ env \in [Tx -> EnvChoices]
    /\ txState \in [Tx -> TxState]
    /\ retryCount \in [Tx -> 0..MaxAttempts]
    /\ queue \in Seq(Tx)
    /\ pc \in WorkerPc
    /\ cur \in Tx
    /\ deadLetter \in Seq(Entry)
    /\ dlReason \in [Tx -> Reason \cup {"none"}]
    /\ dlLines \in [Tx -> Nat]
    /\ telA \in [Tx -> Nat]
    /\ heard \in [Conn -> NackReply \cup {"none", "ACK"}]
    /\ bUp \in BOOLEAN
    /\ store \in TrustStores
    /\ sink \in SinkModes
    /\ stored \subseteq Conn
    /\ permits \in Int
    /\ srv \in [Conn -> SrvPhase]
    /\ peer \in [Conn -> Certificates \cup {"none"}]
    /\ judged \in [Conn -> TrustStores]
    /\ arrived \in [Conn -> {"none", "head", "all"}]
    /\ reply \in [Conn -> NackReply \cup {"none", "ACK"}]
    /\ cliOpen \in [Conn -> BOOLEAN]
    /\ net \in [Conn -> {"up", "reset", "silent"}]
    /\ imports \in [Conn -> Nat]
    /\ telB \in [Conn -> Nat]
    /\ faults \in 0..MaxFaults

\* A transaction Gateway A counts as ACKED was imported by the ingestor in one
\* of its attempts, whatever was lost, reset or restarted in between.
AckedWasImported ==
    \A t \in Tx : txState[t] = "ACKED" =>
        \E n \in 1..retryCount[t] : imports[<<t, n>>] >= 1

\* A transaction Gateway A counts as ACKED is in OpenCTI: whenever OpenCTI cannot
\* take bundles, when Gateway B starts included, the sender is not told ACK.
AckedIsInOpenCTI ==
    \A t \in Tx : txState[t] = "ACKED" =>
        \E n \in 1..retryCount[t] : <<t, n>> \in stored

\* Retries may import a bundle more than once, but never more often than
\* Gateway A made attempts: a handler imports at most one bundle, and only for
\* an attempt that was made.
ImportsWithinAttempts ==
    \A c \in Conn :
        /\ imports[c] <= 1
        /\ imports[c] = 1 => c[2] <= retryCount[c[1]]

\* The ingestor only ever receives bundles whose sender is the TLS peer, has neither
\* its certificate nor its listed signing key revoked, signed the bundle, and is
\* allowed by the inbound rules, in a frame within the codec's limit and addressed
\* to a routable recipient: by the trust store in force when that frame came in
\* and the certificate of that very session, whatever other attempts met.
OnlyVouchedForImported ==
    \A c \in Conn : imports[c] > 0 =>
        LET e == Received(c)
            ts == judged[c] IN
        /\ e.sender \in DOMAIN ts.agencies
        /\ e.peer = ts.agencies[e.sender].tls
        /\ e.signer = ts.agencies[e.sender].pub
        /\ {e.peer, ts.agencies[e.sender].key} \cap ts.revoked = {}
        /\ PepAllows(Rules, e)
        /\ env[c[1]].size # "oversize" /\ env[c[1]].recipient \in Recipients

\* A transaction has one outcome: it is ACKED and was never dead-lettered, or
\* FAILED and dead-lettered once, with at most one line in the file; telemetry
\* of Gateway A tells of ACKED transactions only, and once.
OneOutcome ==
    \A t \in Tx :
        /\ txState[t] = "FAILED" <=> dlReason[t] # "none"
        /\ dlLines[t] <= (IF txState[t] = "FAILED" THEN 1 ELSE 0)
        /\ telA[t] <= (IF txState[t] = "ACKED" THEN 1 ELSE 0)
        /\ \A i, j \in DOMAIN deadLetter :
              deadLetter[i].tx = deadLetter[j].tx => i = j

\* The in-memory dead-letter store loses an entry only for want of room: it
\* holds every failed transaction while there are no more than DeadLetterMax,
\* DeadLetterMax of them from then on, each with the reason it was given up for,
\* and the one given up last is never the one that is missing.
DeadLetterWindow ==
    LET failed == Cardinality({t \in Tx : txState[t] = "FAILED"}) IN
    /\ Len(deadLetter) = (IF failed < DeadLetterMax THEN failed ELSE DeadLetterMax)
    /\ \A i \in DOMAIN deadLetter : deadLetter[i].reason = dlReason[deadLetter[i].tx]
    /\ pc = "get" /\ txState[cur] = "FAILED" => deadLetter[Len(deadLetter)].tx = cur

\* A refusal is true of the attempt it answers: when a transaction is dead-lettered
\* for a NACK that Gateway B's checks gave, the refused attempt imported nothing
\* and never will, and an import by an earlier one, before or after, was decided on
\* other evidence: another certificate of Gateway A, reissued between the attempts,
\* or another trust store, loaded at a restart.  Without a route nothing is imported.
\* (INGEST_FAILED and MAX_RETRIES_EXCEEDED leave open whether it was.)
RefusalHolds ==
    \A t \in Tx :
        LET last == <<t, retryCount[t]>> IN
        /\ dlReason[t] \in VettingNack =>
              /\ imports[last] = 0
              /\ \A n \in 1..MaxAttempts : imports[<<t, n>>] > 0 =>
                    n < retryCount[t] /\ Evidence(<<t, n>>) # Evidence(last)
        /\ dlReason[t] = "UNKNOWN_RECIPIENT_ROUTING" =>
              \A n \in 1..MaxAttempts : imports[<<t, n>>] = 0

\* An answer that reached the worker ends the transaction, and ends it as the
\* answer says: no attempt follows an ACK or a NACK of any kind, and
\* MAX_RETRIES_EXCEEDED is given after the last attempt only, when none of them was
\* answered in time.
AnswerHeardDecides ==
    \A t \in Tx :
        /\ \A n \in 1..MaxAttempts : heard[<<t, n>>] # "none" =>
              /\ n = retryCount[t]
              /\ \/ heard[<<t, n>>] = "ACK" /\ txState[t] = "ACKED"
                 \/ heard[<<t, n>>] = dlReason[t]
        /\ dlReason[t] = "MAX_RETRIES_EXCEEDED" =>
              /\ retryCount[t] = MaxAttempts
              /\ \A n \in 1..MaxAttempts : heard[<<t, n>>] = "none"

\* Every handler that holds a permit gives it back on each of its exits: the
\* free permits and the handlers in service always add up to the limit.
PermitsConserved ==
    permits + Cardinality({c \in Conn : srv[c] \in InService}) = MaxConcurrent

\* A line of Gateway B's telemetry tells of an import, and of one only; a line
\* of Gateway A's telemetry tells of a transaction that was imported.
TelemetryTellsOfImports ==
    /\ \A c \in Conn : telB[c] <= imports[c]
    /\ \A t \in Tx : telA[t] > 0 => \E n \in 1..MaxAttempts : imports[<<t, n>>] >= 1

-----------------------------------------------------------------------------
(* The inductive invariant from which the safety properties follow          *)

\* The handler of c lets a bundle through to the ingestor exactly for these
\* contents, on the evidence it judged them by.
Importable(c) == /\ Verdict(judged[c], Rules, Received(c)) = "ACCEPT"
                 /\ env[c[1]].size # "oversize"

\* What a handler has done so far is told by its phase; its answers are true.
HandlerOK(c) ==
    /\ c[2] > retryCount[c[1]] => srv[c] = "none"
    /\ srv[c] # "none" => env[c[1]].recipient \in Recipients
    /\ arrived[c] = "all" => env[c[1]].size # "oversize"
    /\ srv[c] \in {"none", "waiting", "reading", "ingesting"} => imports[c] = 0
    /\ srv[c] \in {"landed", "acking", "logging"} => imports[c] = 1
    /\ imports[c] \in {0, 1}
    /\ srv[c] \in {"ingesting", "landed", "acking", "logging"} => Importable(c)
    /\ imports[c] = 1 => Importable(c)
    /\ reply[c] = "ACK" => imports[c] = 1
    /\ reply[c] \in VettingNack => ~Importable(c)
    /\ srv[c] \notin {"logging", "closed"} => reply[c] = "none"
    /\ reply[c] \in VettingNack => srv[c] = "closed"
    /\ srv[c] # "closed" => telB[c] = 0
    /\ telB[c] <= imports[c]

\* The worker holds one unsettled, routable transaction that is not queued.
WorkerOK ==
    /\ pc # "get" => /\ txState[cur] \in {"POLICY_APPROVED", "SENDING"}
                     /\ env[cur].recipient \in Recipients
                     /\ \A i \in DOMAIN queue : queue[i] # cur
    /\ pc \in {"opening", "write", "drain", "await"} => retryCount[cur] >= 1
    /\ pc \in {"attempt", "backoff"} => retryCount[cur] < MaxAttempts
    /\ pc = "opening" => srv[CurConn] = "none"
    /\ \A i \in DOMAIN queue : /\ txState[queue[i]] = "POLICY_APPROVED"
                               /\ retryCount[queue[i]] = 0
    /\ \A i, j \in DOMAIN queue : queue[i] = queue[j] => i = j

\* How a transaction ended agrees with what Gateway B did with it.
OutcomeOK(t) ==
    /\ txState[t] = "NEW" => retryCount[t] = 0
    /\ txState[t] = "ACKED" => \E n \in 1..retryCount[t] : imports[<<t, n>>] = 1
    /\ txState[t] = "FAILED" <=> dlReason[t] # "none"
    /\ dlReason[t] \in VettingNack =>
          retryCount[t] \in 1..MaxAttempts /\ reply[<<t, retryCount[t]>>] \in VettingNack
    /\ dlReason[t] = "UNKNOWN_RECIPIENT_ROUTING" => env[t].recipient \notin Recipients
    /\ dlReason[t] = "MAX_RETRIES_EXCEEDED" => retryCount[t] = MaxAttempts
    /\ \A n \in 1..MaxAttempts : heard[<<t, n>>] # "none" =>
          /\ n = retryCount[t]
          /\ \/ heard[<<t, n>>] = "ACK" /\ txState[t] = "ACKED"
             \/ heard[<<t, n>>] = dlReason[t]
    /\ dlLines[t] <= (IF txState[t] = "FAILED" THEN 1 ELSE 0)
    /\ telA[t] <= (IF txState[t] = "ACKED" THEN 1 ELSE 0)

\* The dead-letter deque holds failed transactions, each of them once.
DeadLetterOK ==
    /\ \A i \in DOMAIN deadLetter : txState[deadLetter[i].tx] = "FAILED"
    /\ \A i, j \in DOMAIN deadLetter : deadLetter[i].tx = deadLetter[j].tx => i = j

\* The strengthening of the safety properties that every step preserves: it ties
\* each answer on the wire and each handler phase to what the ingestor took, and
\* each outcome at Gateway A to the answer it rests on.
DeliveryInv ==
    /\ \A c \in Conn : HandlerOK(c)
    /\ WorkerOK
    /\ \A t \in Tx : OutcomeOK(t)
    /\ DeadLetterOK

\* A settled transaction stays settled: no late reply, timer or handler changes
\* its state, its attempt count or its dead-letter reason, or opens another
\* connection for it ("NACK never retries", and neither does an ACK); and a
\* connection is answered once: no later step of its handler, of another one or of
\* a restarted Gateway B replaces an answer that is on the wire.
SettledIsFinal ==
    [][/\ \A t \in Tx : txState[t] \in Terminal =>
             /\ txState'[t] = txState[t]
             /\ retryCount'[t] = retryCount[t]
             /\ dlReason'[t] = dlReason[t]
             /\ \A n \in 1..MaxAttempts : cliOpen'[<<t, n>>] => cliOpen[<<t, n>>]
       /\ \A c \in Conn : reply[c] # "none" => reply'[c] = reply[c]]_vars

\* A handler whose read can neither return nor fail: the link went silent
\* before the frame was complete.
Stuck(c) ==
    /\ srv[c] = "reading" /\ net[c] = "silent" /\ arrived[c] # "all"
    /\ ~(arrived[c] = "head" /\ env[c[1]].size = "oversize")

\* A handler that waits for the ingestor's thread.
Held(c) == srv[c] \in {"ingesting", "landed"}

\* Gateway B serves nobody new: every permit is held by a handler that is stuck
\* or waits for OpenCTI.
Wedged == Cardinality({c \in Conn : Stuck(c) \/ Held(c)}) >= MaxConcurrent

\* Every approved transaction is settled in the end, even if Gateway B crashes
\* and stays down: the only thing that can hold the worker up for ever is a
\* drain() into a Gateway B whose permits are held for ever, by handlers that are
\* stuck in a read or wait for OpenCTI.
EveryTransactionSettles ==
    \A t \in Tx : (txState[t] = "POLICY_APPROVED") ~> (txState[t] \in Terminal \/ []Wedged)

\* Every handler Gateway B starts ends in the end, unless its own link went
\* silent, OpenCTI never answers it, or handlers to which one of these happened
\* keep all permits for ever.
EveryHandlerEnds ==
    \A c \in Conn :
        (srv[c] = "waiting") ~> (srv[c] = "closed" \/ []Stuck(c) \/ []Held(c) \/ []Wedged)

-----------------------------------------------------------------------------
(* Delivery implements ThreatExchange                                      *)

StatusOf(t) ==
    CASE txState[t] = "NEW"   -> "none"
      [] txState[t] = "ACKED" -> "acked"
      [] txState[t] = "FAILED" ->
            IF dlReason[t] \in VettingNack THEN "refused"
            ELSE IF dlReason[t] = "UNKNOWN_RECIPIENT_ROUTING" THEN "unroutable"
            ELSE "unresolved"
      [] OTHER -> "pending"

Exchange == INSTANCE ThreatExchange WITH
    MaxDeliveries <- MaxAttempts,
    status <- [t \in Tx |-> StatusOf(t)],
    tries <- retryCount,
    delivered <- {c \in Conn : imports[c] > 0}

\* The detailed system keeps the promise of ThreatExchange: acknowledged means
\* that the last attempt delivered, refused that it did not and will not, a
\* transaction without a route is never delivered, no attempt is made for a settled
\* one, and an attempt delivers once at most.
ImplementsThreatExchange == Exchange!Spec
=============================================================================
