---------------------- MODULE DeliveryRefinementProofs ----------------------
(***************************************************************************)
(* Proof that the two gateways keep the promise of ThreatExchange, for     *)
(* every set of transactions and envelopes, every trust store and rule     *)
(* list, and every bound: every step of Delivery is one step of the        *)
(* abstract exchange or leaves what the agencies see alone.                *)
(***************************************************************************)
EXTENDS DeliveryProofs

\* What the agencies see: the refinement mapping of Exchange.
SeenStatus == [t \in Tx |-> StatusOf(t)]
SeenDelivered == {c \in Conn : imports[c] > 0}

\* The status of a transaction, read off its state and its dead-letter reason.
LEMMA StatusMeaning ==
    ASSUME TypeOK, NEW t \in Tx
    PROVE  /\ StatusOf(t) = "none" <=> txState[t] = "NEW"
           /\ StatusOf(t) = "pending" <=> txState[t] \in {"POLICY_APPROVED", "SENDING"}
           /\ StatusOf(t) = "refused" => dlReason[t] \in VettingNack
<1>1. txState[t] \in {"NEW", "POLICY_APPROVED", "SENDING", "ACKED", "FAILED"}
  BY DEF TypeOK, TxState, Terminal
<1> QED
  BY <1>1 DEF StatusOf

\* When only transaction t changes its state or its reason, the status seen from
\* outside changes for t alone.
LEMMA StatusOneChanges ==
    ASSUME NEW t \in Tx,
           \A u \in Tx : u # t => txState'[u] = txState[u] /\ dlReason'[u] = dlReason[u]
    PROVE  SeenStatus' = [SeenStatus EXCEPT ![t] = StatusOf(t)']
<1>1. \A u \in Tx : u # t => StatusOf(u)' = StatusOf(u)
  BY DEF StatusOf
<1> QED
  BY <1>1, Zenon DEF SeenStatus

\* A step that changes no state, count, reason or import is invisible from outside.
LEMMA NothingSeen ==
    ASSUME UNCHANGED <<txState, retryCount, dlReason, imports>>
    PROVE  UNCHANGED Exchange!exchangeVars
<1>1. \A t \in Tx : StatusOf(t)' = StatusOf(t)
  BY DEF StatusOf
<1> QED
  BY <1>1 DEF Exchange!exchangeVars

\* Settling, as seen from outside.
LEMMA SettleSeen ==
    ASSUME NEW t \in Tx, NEW how \in {"acked", "refused", "unroutable", "unresolved"},
           SeenStatus[t] = "pending", SeenStatus' = [SeenStatus EXCEPT ![t] = how],
           UNCHANGED <<retryCount, imports>>,
           how = "acked"      => <<t, retryCount[t]>> \in SeenDelivered,
           how = "refused"    => retryCount[t] > 0 /\ <<t, retryCount[t]>> \notin SeenDelivered,
           how = "unroutable" => retryCount[t] = 0,
           how = "unresolved" => retryCount[t] > 0
    PROVE  Exchange!Next
<1>1. UNCHANGED SeenDelivered
  BY DEF SeenDelivered
<1>2. Exchange!Settle(t, how)
  BY <1>1 DEF Exchange!Settle, SeenStatus, SeenDelivered
<1> QED
  BY <1>2 DEF Exchange!Next

\* Giving a transaction up, as seen from outside, is settling it: refused for a
\* NACK that Gateway B's checks gave to the last attempt, unroutable before the
\* first attempt, unresolved for any other reason.
LEMMA GiveUpSeen ==
    ASSUME TypeOK, NEW t \in Tx, NEW r \in Reason, GiveUp(t, r),
           txState[t] \in {"POLICY_APPROVED", "SENDING"},
           UNCHANGED <<retryCount, imports>>,
           r \in VettingNack => retryCount[t] > 0 /\ imports[<<t, retryCount[t]>>] = 0,
           r = "UNKNOWN_RECIPIENT_ROUTING" => retryCount[t] = 0,
           r \notin VettingNack \cup {"UNKNOWN_RECIPIENT_ROUTING"} => retryCount[t] > 0
    PROVE  Exchange!Next
<1>1. /\ \A u \in Tx : u # t => txState'[u] = txState[u] /\ dlReason'[u] = dlReason[u]
      /\ txState'[t] = "FAILED" /\ dlReason'[t] = r
  BY GiveUpEffect
<1>2. SeenStatus' = [SeenStatus EXCEPT ![t] = StatusOf(t)']
  BY <1>1, StatusOneChanges
<1>3. SeenStatus[t] = "pending"
  BY StatusMeaning DEF SeenStatus
<1>4. "UNKNOWN_RECIPIENT_ROUTING" \notin VettingNack
  BY DEF VettingNack
<1>5. CASE r \in VettingNack
  <2>1. StatusOf(t)' = "refused"
    BY <1>1, <1>5 DEF StatusOf
  <2>2. <<t, retryCount[t]>> \notin SeenDelivered
    BY <1>5 DEF SeenDelivered
  <2> QED
    BY <1>2, <1>3, <1>5, <2>1, <2>2, SettleSeen
<1>6. CASE r = "UNKNOWN_RECIPIENT_ROUTING"
  <2>1. StatusOf(t)' = "unroutable"
    BY <1>1, <1>4, <1>6 DEF StatusOf
  <2> QED
    BY <1>2, <1>3, <1>6, <2>1, SettleSeen
<1>7. CASE r \notin VettingNack \cup {"UNKNOWN_RECIPIENT_ROUTING"}
  <2>1. StatusOf(t)' = "unresolved"
    BY <1>1, <1>7 DEF StatusOf
  <2> QED
    BY <1>2, <1>3, <1>7, <2>1, SettleSeen
<1> QED
  BY <1>5, <1>6, <1>7

\* While a bundle can still be imported, its attempt was made and is not the one a
\* refusal answered.
LEMMA ImportingIsOpen ==
    ASSUME TypeOK, DeliveryInv, NEW c \in Conn, srv[c] = "ingesting"
    PROVE  /\ c[2] <= retryCount[c[1]]
           /\ StatusOf(c[1]) = "refused" => c[2] < retryCount[c[1]]
<1>1. c[1] \in Tx /\ c[2] \in 1..MaxAttempts /\ c = <<c[1], c[2]>>
  BY ConnParts
<1>2. HandlerOK(c) /\ OutcomeOK(c[1])
  BY <1>1 DEF DeliveryInv
<1>3. retryCount[c[1]] \in 0..MaxAttempts
  <2>1. retryCount \in [Tx -> 0..MaxAttempts]
    BY Zenon DEF TypeOK
  <2> QED
    BY <1>1, <2>1
<1>4. c[2] <= retryCount[c[1]]
  BY <1>1, <1>2, <1>3 DEF HandlerOK
<1>5. ASSUME StatusOf(c[1]) = "refused" PROVE c[2] # retryCount[c[1]]
  <2>1. dlReason[c[1]] \in VettingNack
    BY <1>1, <1>5, StatusMeaning
  <2>2. reply[<<c[1], retryCount[c[1]]>>] \in VettingNack
    BY <1>2, <2>1, OutcomeParts DEF RefusalOK
  <2>3. reply[c] \notin VettingNack
    BY <1>2 DEF HandlerOK
  <2> QED
    BY <1>1, <2>2, <2>3
<1> QED
  BY <1>1, <1>3, <1>4, <1>5

\* What the worker does after an attempt that may be repeated: nothing that is
\* seen, or it gives the transaction up unresolved.
LEMMA RetryOrGiveUpSeen ==
    ASSUME TypeOK, txState[cur] \in {"POLICY_APPROVED", "SENDING"},
           UNCHANGED <<retryCount, imports>>, RetryOrGiveUp
    PROVE  Exchange!Next \/ UNCHANGED Exchange!exchangeVars
<1>1. CASE UNCHANGED <<txState, dlReason>>
  BY <1>1, NothingSeen
<1>2. CASE retryCount[cur] >= MaxAttempts /\ GiveUp(cur, "MAX_RETRIES_EXCEEDED")
  <2>1. /\ "MAX_RETRIES_EXCEEDED" \in Reason
        /\ "MAX_RETRIES_EXCEEDED" \notin VettingNack \cup {"UNKNOWN_RECIPIENT_ROUTING"}
    BY DEF Reason, VettingNack
  <2>2. cur \in Tx /\ retryCount \in [Tx -> 0..MaxAttempts]
    BY Zenon DEF TypeOK
  <2>3. retryCount[cur] > 0
    BY <1>2, <2>2, DeliveryAssumption
  <2> QED
    BY <1>2, <2>1, <2>2, <2>3, GiveUpSeen
<1> QED
  BY <1>1, <1>2 DEF RetryOrGiveUp

\* Every step of Gateway A's worker is a step of the exchange or not seen.
LEMMA WorkerStepSeen ==
    ASSUME TypeOK, TypeOK', DeliveryInv, WorkerStep
    PROVE  Exchange!Next \/ UNCHANGED Exchange!exchangeVars
<1> DEFINE Goal == Exchange!Next \/ UNCHANGED Exchange!exchangeVars
<1>w. WorkerOK
  BY DEF DeliveryInv
<1>b. pc # "get" => txState[cur] \in {"POLICY_APPROVED", "SENDING"}
  BY <1>w DEF WorkerOK
<1>c. cur \in Tx
  BY DEF TypeOK
<1>r. retryCount \in [Tx -> 0..MaxAttempts]
  BY Zenon DEF TypeOK
<1>d. pc = "await" => /\ CurConn \in Conn /\ HandlerOK(CurConn)
                      /\ retryCount[cur] \in 1..MaxAttempts
  <2>1. pc = "await" => retryCount[cur] \in 1..MaxAttempts
    BY <1>w, <1>c, <1>r DEF WorkerOK
  <2> QED
    BY <2>1, <1>c DEF CurConn, Conn, DeliveryInv
<1>1. CASE DequeueRoutable
  BY <1>1, NothingSeen DEF DequeueRoutable, bVars
<1>2. CASE DequeueUnroutable
  <2>1. queue \in Seq(Tx) /\ queue # << >>
    BY <1>2 DEF DequeueUnroutable, TypeOK
  <2>2. Head(queue) = queue[1] /\ 1 \in DOMAIN queue /\ Head(queue) \in Tx
    BY <2>1, TailElements
  <2>3. txState[Head(queue)] = "POLICY_APPROVED" /\ retryCount[Head(queue)] = 0
    BY <2>2, <1>w DEF WorkerOK
  <2>4. /\ GiveUp(Head(queue), "UNKNOWN_RECIPIENT_ROUTING")
        /\ UNCHANGED <<retryCount, imports>>
    BY <1>2 DEF DequeueUnroutable, bVars
  <2>5. "UNKNOWN_RECIPIENT_ROUTING" \in Reason \ VettingNack
    BY DEF Reason, VettingNack
  <2> QED
    BY <2>2, <2>3, <2>4, <2>5, GiveUpSeen
<1>3. CASE BeginAttempt
  <2>1. /\ \A u \in Tx : u # cur => txState'[u] = txState[u] /\ dlReason'[u] = dlReason[u]
        /\ txState'[cur] = "SENDING" /\ UNCHANGED <<cur, dlReason>>
    BY <1>3, <1>c DEF BeginAttempt, TypeOK
  <2>2. SeenStatus' = [SeenStatus EXCEPT ![cur] = StatusOf(cur)']
    BY <2>1, <1>c, StatusOneChanges
  <2>3. StatusOf(cur) = "pending" /\ StatusOf(cur)' = "pending"
    <3>1. StatusOf(cur) = "pending"
      BY <1>3, <1>b, <1>c, StatusMeaning DEF BeginAttempt
    <3> QED
      BY <2>1, <3>1 DEF StatusOf
  <2>4. SeenStatus' = SeenStatus
    BY <2>2, <2>3, <1>c DEF SeenStatus
  <2>5. /\ retryCount' = [retryCount EXCEPT ![cur] = @ + 1]
        /\ retryCount[cur] < MaxAttempts /\ imports' = imports
    BY <1>3 DEF BeginAttempt, bVars
  <2>6. SeenStatus[cur] = "pending"
    BY <2>3, <1>c DEF SeenStatus
  <2>7. Exchange!Try(cur)
    BY <2>4, <2>5, <2>6 DEF Exchange!Try, SeenStatus
  <2> QED
    BY <2>7, <1>c DEF Exchange!Next
<1>4. CASE OpenSession
  BY <1>4, NothingSeen DEF OpenSession
<1>5. CASE OpenFails
  BY <1>5, <1>b, RetryOrGiveUpSeen DEF OpenFails, bVars
<1>6. CASE WriteFrame
  BY <1>6, NothingSeen DEF WriteFrame, bVars
<1>7. CASE DrainDone
  BY <1>7, NothingSeen DEF DrainDone, bVars
<1>8. CASE ReceiveAck
  <2>1. /\ \A u \in Tx : u # cur => txState'[u] = txState[u] /\ dlReason'[u] = dlReason[u]
        /\ txState'[cur] = "ACKED" /\ UNCHANGED <<cur, retryCount, imports>>
    BY <1>8, <1>c DEF ReceiveAck, bVars, TypeOK
  <2>2. SeenStatus' = [SeenStatus EXCEPT ![cur] = StatusOf(cur)']
    BY <2>1, <1>c, StatusOneChanges
  <2>3. StatusOf(cur) = "pending"
    BY <1>8, <1>b, <1>c, StatusMeaning DEF ReceiveAck
  <2>4. StatusOf(cur)' = "acked"
    BY <2>1 DEF StatusOf
  <2>5. CurConn \in Conn /\ imports[CurConn] = 1
    BY <1>8, <1>d DEF ReceiveAck, HandlerOK
  <2>6. <<cur, retryCount[cur]>> \in SeenDelivered /\ SeenStatus[cur] = "pending"
    BY <2>3, <2>5, <1>c DEF CurConn, SeenDelivered, SeenStatus
  <2> QED
    BY <2>1, <2>2, <2>4, <2>6, <1>c, SettleSeen
<1>9. CASE ReceiveNack
  <2>1. GiveUp(cur, reply[CurConn]) /\ UNCHANGED <<retryCount, imports>>
    BY <1>9 DEF ReceiveNack, bVars
  <2>2. reply[CurConn] \in Reason \ {"UNKNOWN_RECIPIENT_ROUTING"}
    BY <1>9 DEF ReceiveNack, Reason, NackReply, VettingNack
  <2>3. reply[CurConn] \in VettingNack => imports[<<cur, retryCount[cur]>>] = 0
    <3>1. HandlerOK(CurConn)
      BY <1>9, <1>d DEF ReceiveNack
    <3> QED
      BY <3>1 DEF HandlerOK, CurConn
  <2>4. txState[cur] \in {"POLICY_APPROVED", "SENDING"} /\ retryCount[cur] > 0
    BY <1>9, <1>b, <1>d DEF ReceiveNack
  <2> QED
    BY <2>1, <2>2, <2>3, <2>4, <1>c, GiveUpSeen
<1>10. CASE ReplyTimeout
  BY <1>10, <1>b, RetryOrGiveUpSeen DEF ReplyTimeout, bVars
<1>11. CASE TransportError
  <2>1. pc # "get"
    BY <1>11 DEF TransportError
  <2> QED
    BY <1>11, <2>1, <1>b, RetryOrGiveUpSeen DEF TransportError, bVars
<1>12. CASE BackoffElapsed
  BY <1>12, NothingSeen DEF BackoffElapsed, bVars
<1> QED
  BY <1>1, <1>2, <1>3, <1>4, <1>5, <1>6, <1>7, <1>8, <1>9, <1>10, <1>11, <1>12
     DEF WorkerStep

\* Every step of Gateway B and of the environment is a delivery or not seen.
LEMMA RemoteStepSeen ==
    ASSUME TypeOK, TypeOK', DeliveryInv, RemoteStep
    PROVE  Exchange!Next \/ UNCHANGED Exchange!exchangeVars
<1>a. UNCHANGED <<txState, retryCount, dlReason>>
  BY RemoteFrame DEF aVars
<1>1. ASSUME NEW c \in Conn, IngestLands(c) PROVE Exchange!Next
  <2>1. c[1] \in Tx /\ c[2] \in 1..MaxAttempts /\ c = <<c[1], c[2]>>
    BY DEF Conn
  <2>2. imports[c] = 0
    BY <1>1 DEF IngestLands, DeliveryInv, HandlerOK
  <2>3. \A d \in Conn : imports'[d] = IF d = c THEN 1 ELSE imports[d]
    BY <1>1, <2>2 DEF IngestLands, TypeOK
  <2>4. c \notin SeenDelivered /\ SeenDelivered' = SeenDelivered \cup {c}
    BY <2>2, <2>3 DEF SeenDelivered
  <2>5. /\ c[2] <= retryCount[c[1]]
        /\ StatusOf(c[1]) = "refused" => c[2] < retryCount[c[1]]
    BY <1>1, ImportingIsOpen DEF IngestLands
  <2>6. SeenStatus' = SeenStatus
    BY <1>a DEF SeenStatus, StatusOf
  <2>7. Exchange!Deliver(c[1], c[2])
    BY <1>a, <2>1, <2>4, <2>5, <2>6 DEF Exchange!Deliver, SeenStatus, SeenDelivered
  <2> QED
    BY <2>1, <2>7 DEF Exchange!Next
<1>2. ASSUME NEW c \in Conn, HandlerStep(c), ~IngestLands(c) PROVE UNCHANGED imports
  BY <1>2 DEF HandlerStep, LoopStep, IngestStep, AcquirePermit, RejectFrame, AcceptFrame, RejectOversize,
              ReadEnds, IngestReturns, IngestFails, SendAck, LogTelemetry
<1>3. ASSUME NEW c \in Conn, LinkFails(c) PROVE UNCHANGED imports
  BY <1>3 DEF LinkFails, bVars
<1>4. CASE CrashB \/ RestartB \/ KeyBecomesReadable
  BY <1>a, <1>4, NothingSeen DEF CrashB, RestartB, KeyBecomesReadable
<1> QED
  BY <1>a, <1>1, <1>2, <1>3, <1>4, NothingSeen DEF RemoteStep

\* Delivery implements ThreatExchange: acknowledged means that the last attempt
\* delivered, refused that the last attempt did not and never will, whatever trust
\* stores Gateway B is restarted with and whatever certificates Gateway A presents;
\* unroutable means never delivered; an attempt delivers at most once, none is made
\* for a settled transaction, and it is settled once.  TransmissionWorker and GatewayProtocol together
\* take no step that the agencies could see and the promise does not allow.
THEOREM DeliveryRefines == Spec => ImplementsThreatExchange
<1>1. Init => Exchange!Init
  <2> SUFFICES ASSUME Init PROVE Exchange!Init
    OBVIOUS
  <2>1. \A t \in Tx : StatusOf(t) = "none"
    BY DEF Init, StatusOf
  <2>2. {c \in Conn : imports[c] > 0} = {}
    BY DEF Init
  <2>3. retryCount = [t \in Tx |-> 0]
    BY DEF Init
  <2> QED
    BY <2>1, <2>2, <2>3 DEF Exchange!Init
<1>2. TypeOK /\ TypeOK' /\ DeliveryInv /\ [Next]_vars
        => [Exchange!Next]_(Exchange!exchangeVars)
  <2> SUFFICES ASSUME TypeOK, TypeOK', DeliveryInv, [Next]_vars
               PROVE  Exchange!Next \/ UNCHANGED Exchange!exchangeVars
    OBVIOUS
  <2>1. ASSUME NEW t \in Tx, Enqueue(t) PROVE Exchange!Next
    <3>1. /\ \A u \in Tx : u # t => txState'[u] = txState[u] /\ dlReason'[u] = dlReason[u]
          /\ txState'[t] = "POLICY_APPROVED" /\ UNCHANGED <<retryCount, imports>>
      BY <2>1 DEF Enqueue, bVars, TypeOK
    <3>2. SeenStatus' = [SeenStatus EXCEPT ![t] = StatusOf(t)']
      BY <3>1, StatusOneChanges
    <3>3. StatusOf(t) = "none"
      BY <2>1, StatusMeaning DEF Enqueue
    <3>4. StatusOf(t)' = "pending"
      BY <3>1 DEF StatusOf
    <3>5. Exchange!Submit(t)
      BY <3>1, <3>2, <3>3, <3>4 DEF Exchange!Submit, SeenStatus
    <3> QED
      BY <3>5 DEF Exchange!Next
  <2>2. CASE WorkerStep
    BY <2>2, WorkerStepSeen
  <2>3. CASE RemoteStep
    BY <2>3, RemoteStepSeen
  <2>4. CASE UNCHANGED vars
    BY <2>4, NothingSeen DEF vars, aVars, bVars
  <2> QED
    BY <2>1, <2>2, <2>3, <2>4 DEF Next, RemoteStep
<1> QED
  BY <1>1, <1>2, TypeCorrect, DeliveryInvariant, PTL
     DEF Spec, ImplementsThreatExchange, Exchange!Spec
=============================================================================
