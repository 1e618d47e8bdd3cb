----------------------- MODULE DeliveryCountingProofs -----------------------
(***************************************************************************)
(* Proofs of the counting properties of Delivery: Gateway B's semaphore    *)
(* and the window of Gateway A's dead-letter deque.  Both count a set that *)
(* only ever grows by one element a step, so that no set of transactions   *)
(* has to be finite.                                                       *)
(***************************************************************************)
EXTENDS DeliveryProofs, FiniteSetTheorems

USE DeliveryAssumption

-----------------------------------------------------------------------------
(* The semaphore                                                           *)

\* The connections whose handler holds a permit.
Holding == {c \in Conn : srv[c] \in InService}

\* The semaphore's value and its holders add up, and it is never overdrawn.
PermitInv ==
    /\ IsFiniteSet(Holding)
    /\ permits + Cardinality(Holding) = MaxConcurrent
    /\ permits >= 0

\* A step that changes no handler's hold on a permit.
LEMMA PermitsUntouched ==
    ASSUME PermitInv, permits' = permits,
           \A c \in Conn : srv'[c] \in InService <=> srv[c] \in InService
    PROVE  PermitInv'
<1>1. Holding' = Holding
  BY DEF Holding
<1> QED
  BY <1>1 DEF PermitInv

\* A handler in service that ends gives its permit back.
LEMMA PermitReturned ==
    ASSUME TypeOK, PermitInv, NEW c \in Conn, srv[c] \in InService, HandlerEnds(c)
    PROVE  PermitInv'
<1>1. c \in Holding /\ Holding' = Holding \ {c}
  BY DEF Holding, HandlerEnds, InService, TypeOK
<1>2. IsFiniteSet(Holding') /\ Cardinality(Holding') = Cardinality(Holding) - 1
  BY <1>1, FS_RemoveElement DEF PermitInv
<1>3. Cardinality(Holding) \in Nat
  BY FS_CardinalityType DEF PermitInv
<1> QED
  BY <1>2, <1>3 DEF PermitInv, HandlerEnds, TypeOK

\* Every step keeps the count of permits.
LEMMA PermitStep ==
    ASSUME TypeOK, TypeOK', DeliveryInv, PermitInv, [Next]_vars
    PROVE  PermitInv'
<1>1. ASSUME UNCHANGED <<permits, srv>> PROVE PermitInv'
  BY <1>1, PermitsUntouched
<1>2. ASSUME NEW t \in Tx, Enqueue(t) PROVE PermitInv'
  BY <1>1, <1>2 DEF Enqueue, bVars
<1>3. CASE OpenSession
  <2>1. CurConn \in Conn /\ srv[CurConn] = "none"
    BY <1>3 DEF OpenSession, DeliveryInv, WorkerOK, CurConn, Conn, TypeOK
  <2>2. srv' = [srv EXCEPT ![CurConn] = "waiting"] /\ permits' = permits
    BY <1>3 DEF OpenSession, HandlerStarts
  <2>3. ASSUME NEW c \in Conn PROVE srv'[c] \in InService <=> srv[c] \in InService
    <3>1. srv'[c] = IF c = CurConn THEN "waiting" ELSE srv[c]
      BY <2>1, <2>2 DEF TypeOK
    <3>2. "none" \notin InService /\ "waiting" \notin InService
      BY DEF InService
    <3> QED
      BY <2>1, <3>1, <3>2
  <2> QED
    BY <2>2, <2>3, PermitsUntouched
<1>4. CASE WorkerStep /\ ~OpenSession
  BY <1>1, <1>4 DEF WorkerStep, DequeueRoutable, DequeueUnroutable, BeginAttempt,
     OpenFails, WriteFrame, DrainDone, ReceiveAck, ReceiveNack, ReplyTimeout,
     TransportError, BackoffElapsed, bVars
<1>5. ASSUME NEW c \in Conn, AcquirePermit(c) PROVE PermitInv'
  <2>0. /\ srv[c] = "waiting" /\ srv' = [srv EXCEPT ![c] = "reading"]
        /\ permits \in Int /\ permits > 0 /\ permits' = permits - 1
    BY <1>5 DEF AcquirePermit, TypeOK
  <2>1. c \notin Holding /\ Holding' = Holding \cup {c}
    <3>1. srv[c] \notin InService /\ srv'[c] \in InService
          /\ \A d \in Conn : d # c => srv'[d] = srv[d]
      BY <2>0 DEF InService, TypeOK
    <3> QED
      BY <3>1 DEF Holding
  <2>2. IsFiniteSet(Holding') /\ Cardinality(Holding') = Cardinality(Holding) + 1
    BY <2>1, FS_AddElement DEF PermitInv
  <2>3. Cardinality(Holding) \in Nat
    BY FS_CardinalityType DEF PermitInv
  <2> QED
    BY <2>0, <2>2, <2>3 DEF PermitInv
<1>6. ASSUME NEW c \in Conn,
             RejectFrame(c) \/ RejectOversize(c) \/ ReadEnds(c) \/ IngestFails(c) \/ LogTelemetry(c)
      PROVE PermitInv'
  <2>1. srv[c] \in InService /\ HandlerEnds(c)
    BY <1>6 DEF RejectFrame, FrameRead, RejectOversize, ReadEnds, IngestFails,
                LogTelemetry, NackAndEnd, InService
  <2> QED
    BY <2>1, PermitReturned
<1>7. ASSUME NEW c \in Conn, AcceptFrame(c) \/ IngestLands(c) \/ IngestReturns(c)
      PROVE  PermitInv'
  <2>1. permits' = permits
    BY <1>7 DEF AcceptFrame, IngestLands, IngestReturns
  <2>2. srv[c] \in InService /\ srv'[c] \in InService
        /\ \A d \in Conn : d # c => srv'[d] = srv[d]
    <3>1. srv[c] \in InService
      BY <1>7 DEF AcceptFrame, FrameRead, IngestLands, IngestReturns, InService
    <3>2. PICK phase \in InService : srv' = [srv EXCEPT ![c] = phase]
      BY <1>7 DEF AcceptFrame, IngestLands, IngestReturns, InService
    <3> QED
      BY <3>1, <3>2 DEF TypeOK
  <2> QED
    BY <2>1, <2>2, PermitsUntouched
<1>8. ASSUME NEW c \in Conn, SendAck(c) PROVE PermitInv'
  <2>1. CASE HandlerEnds(c)
    BY <1>8, <2>1, PermitReturned DEF SendAck, InService
  <2>2. CASE permits' = permits /\ srv' = [srv EXCEPT ![c] = "logging"]
    <3>1. srv[c] \in InService /\ srv'[c] \in InService
          /\ \A d \in Conn : d # c => srv'[d] = srv[d]
      BY <1>8, <2>2 DEF SendAck, InService, TypeOK
    <3> QED
      BY <2>2, <3>1, PermitsUntouched
  <2> QED
    BY <1>8, <2>1, <2>2 DEF SendAck
<1>9. ASSUME NEW c \in Conn, LinkFails(c) PROVE PermitInv'
  BY <1>1, <1>9 DEF LinkFails, bVars
<1>10. CASE CrashB
  <2>1. Holding' = {}
    BY <1>10 DEF CrashB, Holding, InService
  <2>2. IsFiniteSet(Holding') /\ Cardinality(Holding') = 0
    BY <2>1, FS_EmptySet
  <2> QED
    BY <1>10, <2>2 DEF PermitInv, CrashB
<1>11. CASE RestartB \/ KeyBecomesReadable
  BY <1>1, <1>11 DEF RestartB, KeyBecomesReadable
<1>12. CASE UNCHANGED vars
  BY <1>1, <1>12 DEF vars, bVars
<1> QED
  BY <1>2, <1>3, <1>4, <1>5, <1>6, <1>7, <1>8, <1>9, <1>10, <1>11, <1>12
     DEF Next, HandlerStep, LoopStep, IngestStep

\* PermitInv is inductive on top of DeliveryInv.
LEMMA PermitInvariant == Spec => []PermitInv
<1>1. Init => PermitInv
  <2> SUFFICES ASSUME Init PROVE PermitInv
    OBVIOUS
  <2>1. Holding = {}
    BY DEF Init, Holding, InService
  <2> QED
    BY <2>1, FS_EmptySet DEF Init, PermitInv
<1>2. TypeOK /\ TypeOK' /\ DeliveryInv /\ PermitInv /\ [Next]_vars => PermitInv'
  BY PermitStep
<1> QED
  BY <1>1, <1>2, TypeCorrect, DeliveryInvariant, PTL DEF Spec

\* Every exit of TLSServer's handler, the exceptions and the crash included,
\* gives its permit back: free permits and handlers in service add up.
THEOREM PermitsAddUp == Spec => []PermitsConserved
<1>1. PermitInv => PermitsConserved
  BY DEF PermitInv, PermitsConserved, Holding
<1> QED
  BY <1>1, PermitInvariant, PTL

\* Gateway B never serves more connections than max_concurrent_connections.
THEOREM ServiceBounded ==
    Spec => [](Cardinality({c \in Conn : srv[c] \in InService}) <= MaxConcurrent)
<1>1. TypeOK /\ PermitInv
        => Cardinality({c \in Conn : srv[c] \in InService}) <= MaxConcurrent
  <2> SUFFICES ASSUME TypeOK, PermitInv PROVE Cardinality(Holding) <= MaxConcurrent
    BY DEF Holding
  <2>1. Cardinality(Holding) \in Nat
    BY FS_CardinalityType DEF PermitInv
  <2> QED
    BY <2>1 DEF PermitInv, TypeOK
<1> QED
  BY <1>1, TypeCorrect, PermitInvariant, PTL

-----------------------------------------------------------------------------
(* The dead-letter window                                                  *)

FailedTx == {t \in Tx : txState[t] = "FAILED"}

\* The deque holds as many entries as transactions failed, up to its maxlen,
\* and each entry repeats the reason the transaction was given up for.
WindowInv ==
    /\ IsFiniteSet(FailedTx)
    /\ Len(deadLetter) = (IF Cardinality(FailedTx) < DeadLetterMax
                          THEN Cardinality(FailedTx) ELSE DeadLetterMax)
    /\ \A i \in DOMAIN deadLetter : deadLetter[i].reason = dlReason[deadLetter[i].tx]

\* Lengths after an append and after the head is dropped.
LEMMA AppendTailLen ==
    ASSUME NEW S, NEW q \in Seq(S), NEW x \in S
    PROVE  /\ Len(Append(q, x)) = Len(q) + 1 /\ Len(q) \in Nat
           /\ q # << >> => Len(Tail(q)) = Len(q) - 1
  OBVIOUS

\* A step that fails no transaction leaves the window alone.
LEMMA WindowUntouched ==
    ASSUME TypeOK, WindowInv, UNCHANGED <<deadLetter, dlReason>>,
           \A t \in Tx : txState'[t] = "FAILED" <=> txState[t] = "FAILED"
    PROVE  WindowInv'
<1>1. FailedTx' = FailedTx
  BY DEF FailedTx
<1> QED
  BY <1>1 DEF WindowInv

\* Giving up a transaction that has not failed yet: the deque grows by its entry,
\* or, when it is full, loses the oldest one for it.
LEMMA WindowGiveUp ==
    ASSUME TypeOK, DeadLetterOK, WindowInv, NEW t \in Tx, NEW r \in Reason,
           GiveUp(t, r), txState[t] # "FAILED"
    PROVE  WindowInv'
<1> DEFINE x == [tx |-> t, reason |-> r]
<1>1. x \in Entry /\ x.tx = t /\ x.reason = r /\ deadLetter \in Seq(Entry)
  BY DEF Entry, TypeOK
<1>2. t \notin FailedTx /\ FailedTx' = FailedTx \cup {t}
  BY GiveUpEffect DEF FailedTx
<1>3. IsFiniteSet(FailedTx') /\ Cardinality(FailedTx') = Cardinality(FailedTx) + 1
  BY <1>2, FS_AddElement DEF WindowInv
<1>4. Cardinality(FailedTx) \in Nat
  BY FS_CardinalityType DEF WindowInv
<1>5. ASSUME NEW i \in DOMAIN deadLetter
      PROVE  deadLetter[i].reason = dlReason'[deadLetter[i].tx]
  <2>1. deadLetter[i] \in Entry
    BY <1>1
  <2>2. deadLetter[i].tx \in Tx /\ deadLetter[i].tx # t
    BY <2>1 DEF Entry, DeadLetterOK
  <2>3. dlReason'[deadLetter[i].tx] = dlReason[deadLetter[i].tx]
    BY <2>2, GiveUpEffect
  <2> QED
    BY <2>3 DEF WindowInv
<1>6. dlReason'[t] = r
  BY GiveUpEffect
<1>7. CASE Len(deadLetter) < DeadLetterMax
  <2>1. deadLetter' = Append(deadLetter, x)
    BY <1>7 DEF GiveUp, DeadLetterAdd
  <2>2. Len(deadLetter') = Len(deadLetter) + 1
    BY <2>1, <1>1, AppendTailLen
  <2>3. \A i \in DOMAIN deadLetter' : deadLetter'[i].reason = dlReason'[deadLetter'[i].tx]
    BY <2>1, <1>1, <1>5, <1>6, AppendElements
  <2> QED
    BY <2>2, <2>3, <1>3, <1>4, <1>7 DEF WindowInv
<1>8. CASE ~(Len(deadLetter) < DeadLetterMax)
  <2>1. deadLetter # << >>
    BY <1>1, <1>8, LenEmpty
  <2>2. deadLetter' = Append(Tail(deadLetter), x)
    BY <1>8 DEF GiveUp, DeadLetterAdd
  <2>3. /\ Tail(deadLetter) \in Seq(Entry)
        /\ \A i \in DOMAIN Tail(deadLetter) :
              i + 1 \in DOMAIN deadLetter /\ Tail(deadLetter)[i] = deadLetter[i + 1]
    BY <1>1, <2>1, TailElements
  <2>4. Len(deadLetter') = Len(deadLetter)
    BY <1>1, <2>1, <2>2, <2>3, AppendTailLen
  <2>5. \A i \in DOMAIN deadLetter' : deadLetter'[i].reason = dlReason'[deadLetter'[i].tx]
    BY <2>2, <2>3, <1>1, <1>5, <1>6, AppendElements
  <2> QED
    BY <2>4, <2>5, <1>3, <1>4, <1>8 DEF WindowInv
<1> QED
  BY <1>7, <1>8

\* Every step keeps the window.
LEMMA WindowStep ==
    ASSUME TypeOK, TypeOK', DeliveryInv, WindowInv, [Next]_vars
    PROVE  WindowInv'
<1>w. WorkerOK /\ DeadLetterOK
  BY DEF DeliveryInv
<1>c. cur \in Tx /\ (pc # "get" => txState[cur] # "FAILED")
  BY <1>w DEF WorkerOK, TypeOK
<1>1. ASSUME NEW t \in Tx, Enqueue(t) PROVE WindowInv'
  <2>1. \A u \in Tx : txState'[u] = "FAILED" <=> txState[u] = "FAILED"
    BY <1>1 DEF Enqueue, TypeOK
  <2> QED
    BY <1>1, <2>1, WindowUntouched DEF Enqueue
<1>2. CASE DequeueRoutable \/ OpenSession \/ WriteFrame \/ DrainDone \/ BackoffElapsed
  BY <1>2, WindowUntouched
     DEF DequeueRoutable, OpenSession, WriteFrame, DrainDone, BackoffElapsed
<1>3. CASE DequeueUnroutable
  <2>1. queue \in Seq(Tx) /\ queue # << >>
    BY <1>3 DEF DequeueUnroutable, TypeOK
  <2>2. Head(queue) \in Tx /\ txState[Head(queue)] # "FAILED"
    BY <2>1, <1>w, TailElements DEF WorkerOK
  <2>3. GiveUp(Head(queue), "UNKNOWN_RECIPIENT_ROUTING")
    BY <1>3 DEF DequeueUnroutable
  <2>4. "UNKNOWN_RECIPIENT_ROUTING" \in Reason
    BY DEF Reason
  <2> QED
    BY <2>2, <2>3, <2>4, <1>w, WindowGiveUp
<1>4. CASE BeginAttempt \/ ReceiveAck
  <2>1. UNCHANGED <<deadLetter, dlReason>> /\ pc # "get"
    BY <1>4 DEF BeginAttempt, ReceiveAck
  <2>2. \A u \in Tx : txState'[u] = "FAILED" <=> txState[u] = "FAILED"
    <3>1. \/ txState' = [txState EXCEPT ![cur] = "SENDING"]
          \/ txState' = [txState EXCEPT ![cur] = "ACKED"]
      BY <1>4 DEF BeginAttempt, ReceiveAck
    <3>2. txState[cur] # "FAILED" /\ txState \in [Tx -> TxState]
      BY <1>c, <2>1 DEF TypeOK
    <3> QED
      BY <3>1, <3>2, <1>c
  <2> QED
    BY <2>1, <2>2, WindowUntouched
<1>5. CASE ReceiveNack
  <2>1. GiveUp(cur, reply[CurConn]) /\ reply[CurConn] \in Reason /\ pc # "get"
    BY <1>5 DEF ReceiveNack, Reason
  <2> QED
    BY <2>1, <1>c, <1>w, WindowGiveUp
<1>6. CASE OpenFails \/ ReplyTimeout \/ TransportError
  <2>1. RetryOrGiveUp /\ pc # "get"
    BY <1>6 DEF OpenFails, ReplyTimeout, TransportError
  <2>2. CASE UNCHANGED <<txState, deadLetter, dlReason>>
    BY <2>2, WindowUntouched
  <2>3. CASE GiveUp(cur, "MAX_RETRIES_EXCEEDED")
    <3>1. "MAX_RETRIES_EXCEEDED" \in Reason
      BY DEF Reason
    <3> QED
      BY <2>1, <2>3, <3>1, <1>c, <1>w, WindowGiveUp
  <2> QED
    BY <2>1, <2>2, <2>3 DEF RetryOrGiveUp
<1>7. CASE RemoteStep
  BY <1>7, RemoteFrame, WindowUntouched DEF aVars
<1>8. CASE UNCHANGED vars
  BY <1>8, WindowUntouched DEF vars, aVars
<1> QED
  BY <1>1, <1>2, <1>3, <1>4, <1>5, <1>6, <1>7, <1>8
     DEF Next, WorkerStep, RemoteStep

\* While the worker is back at tx_queue.get(), the transaction it gave up last is
\* the last entry of the deque.
NewestInv ==
    pc = "get" /\ txState[cur] = "FAILED" => deadLetter[Len(deadLetter)].tx = cur

\* What was appended is the last element.
LEMMA AppendLast ==
    ASSUME NEW S, NEW q \in Seq(S), NEW x \in S
    PROVE  Append(q, x)[Len(Append(q, x))] = x
  OBVIOUS

\* Giving up a transaction makes it the newest entry.
LEMMA NewestGiveUp ==
    ASSUME TypeOK, NEW t \in Tx, NEW r \in Reason, GiveUp(t, r), cur' = t
    PROVE  NewestInv'
<1> DEFINE x == [tx |-> t, reason |-> r]
<1>1. x \in Entry /\ x.tx = t /\ deadLetter \in Seq(Entry)
  BY DEF Entry, TypeOK
<1>2. CASE Len(deadLetter) < DeadLetterMax
  <2>1. deadLetter' = Append(deadLetter, x)
    BY <1>2 DEF GiveUp, DeadLetterAdd
  <2> QED
    BY <2>1, <1>1, AppendLast DEF NewestInv
<1>3. CASE ~(Len(deadLetter) < DeadLetterMax)
  <2>1. deadLetter' = Append(Tail(deadLetter), x)
    BY <1>3 DEF GiveUp, DeadLetterAdd
  <2>2. deadLetter # << >>
    BY <1>1, <1>3, LenEmpty
  <2>3. Tail(deadLetter) \in Seq(Entry)
    BY <1>1, <2>2, TailElements
  <2> QED
    BY <2>1, <2>3, <1>1, AppendLast DEF NewestInv
<1> QED
  BY <1>2, <1>3

\* Every step keeps the newest entry at the end.
LEMMA NewestStep ==
    ASSUME TypeOK, DeliveryInv, NewestInv, [Next]_vars
    PROVE  NewestInv'
<1>c. cur \in Tx /\ txState \in [Tx -> TxState]
  BY Zenon DEF TypeOK
<1>1. ASSUME UNCHANGED <<pc, cur, deadLetter>>,
             txState'[cur] = "FAILED" => txState[cur] = "FAILED"
      PROVE  NewestInv'
  BY <1>1 DEF NewestInv
<1>2. ASSUME NEW t \in Tx, Enqueue(t) PROVE NewestInv'
  <2>1. txState'[cur] = "FAILED" => txState[cur] = "FAILED"
    BY <1>2, <1>c DEF Enqueue
  <2> QED
    BY <1>1, <1>2, <2>1 DEF Enqueue
<1>3. CASE \/ DequeueRoutable \/ BeginAttempt \/ OpenSession \/ WriteFrame \/ DrainDone
           \/ BackoffElapsed
  <2>1. pc' # "get"
    BY <1>3 DEF DequeueRoutable, BeginAttempt, OpenSession, WriteFrame, DrainDone,
                BackoffElapsed
  <2> QED
    BY <2>1 DEF NewestInv
<1>4. CASE DequeueUnroutable
  <2>1. queue \in Seq(Tx) /\ queue # << >>
    BY <1>4 DEF DequeueUnroutable, TypeOK
  <2>2. Head(queue) \in Tx /\ "UNKNOWN_RECIPIENT_ROUTING" \in Reason
    BY <2>1, TailElements DEF Reason
  <2> QED
    BY <1>4, <2>2, NewestGiveUp DEF DequeueUnroutable
<1>5. CASE ReceiveAck
  <2>1. cur' = cur /\ txState'[cur] = "ACKED"
    BY <1>5, <1>c DEF ReceiveAck
  <2> QED
    BY <2>1 DEF NewestInv
<1>6. CASE ReceiveNack
  <2>1. GiveUp(cur, reply[CurConn]) /\ reply[CurConn] \in Reason /\ cur' = cur
    BY <1>6 DEF ReceiveNack, Reason
  <2> QED
    BY <2>1, <1>c, NewestGiveUp
<1>7. CASE OpenFails \/ ReplyTimeout \/ TransportError
  <2>1. RetryOrGiveUp /\ cur' = cur
    BY <1>7 DEF OpenFails, ReplyTimeout, TransportError
  <2>2. CASE pc' = "backoff"
    BY <2>2 DEF NewestInv
  <2>3. CASE GiveUp(cur, "MAX_RETRIES_EXCEEDED")
    <3>1. "MAX_RETRIES_EXCEEDED" \in Reason
      BY DEF Reason
    <3> QED
      BY <2>1, <2>3, <3>1, <1>c, NewestGiveUp
  <2> QED
    BY <2>1, <2>2, <2>3 DEF RetryOrGiveUp
<1>8. CASE RemoteStep
  BY <1>1, <1>8, RemoteFrame DEF aVars
<1>9. CASE UNCHANGED vars
  BY <1>1, <1>9 DEF vars, aVars
<1> QED
  BY <1>2, <1>3, <1>4, <1>5, <1>6, <1>7, <1>8, <1>9
     DEF Next, WorkerStep, RemoteStep

\* DeadLetterStore keeps DeadLetterMax failures, the last one among them, and loses
\* one only for want of room; every entry carries the reason given to add().
THEOREM DeadLetterWindowHolds == Spec => []DeadLetterWindow
<1>1. Init => WindowInv
  <2> SUFFICES ASSUME Init PROVE WindowInv
    OBVIOUS
  <2>1. FailedTx = {}
    BY DEF Init, FailedTx
  <2>2. IsFiniteSet(FailedTx) /\ Cardinality(FailedTx) = 0
    BY <2>1, FS_EmptySet
  <2>3. deadLetter = << >> /\ Len(deadLetter) = 0
    BY LenEmpty DEF Init
  <2> QED
    BY <2>2, <2>3 DEF WindowInv
<1>2. TypeOK /\ TypeOK' /\ DeliveryInv /\ WindowInv /\ [Next]_vars => WindowInv'
  BY WindowStep
<1>3. Init => NewestInv
  BY DEF Init, NewestInv
<1>4. TypeOK /\ DeliveryInv /\ NewestInv /\ [Next]_vars => NewestInv'
  BY NewestStep
<1>5. WindowInv /\ NewestInv => DeadLetterWindow
  BY DEF WindowInv, NewestInv, DeadLetterWindow, FailedTx
<1> QED
  BY <1>1, <1>2, <1>3, <1>4, <1>5, TypeCorrect, DeliveryInvariant, PTL DEF Spec
=============================================================================
