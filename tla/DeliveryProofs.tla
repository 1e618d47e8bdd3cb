--------------------------- MODULE DeliveryProofs ---------------------------
(***************************************************************************)
(* Proofs about Delivery, for every set of transactions and envelopes,     *)
(* every trust store and rule list, and every bound.                       *)
(***************************************************************************)
EXTENDS Delivery, TLAPS

-----------------------------------------------------------------------------
(* Facts about Gateway B's decision                                        *)

\* The decision is one of the vetting NACKs or "ACCEPT", and it is "ACCEPT"
\* exactly when every gate passes.
LEMMA VerdictMeaning ==
    ASSUME NEW ts, NEW rules, NEW e
    PROVE  /\ Verdict(ts, rules, e) \in VettingNack \cup {"ACCEPT"}
           /\ Verdict(ts, rules, e) = "ACCEPT" <=> FailedGates(ts, rules, e) = {}
<1> DEFINE F == FailedGates(ts, rules, e)
           First(i) == i \in F /\ \A j \in F : i <= j
<1>1. F \subseteq 1..8
  BY DEF FailedGates
<1>2. CASE F = {}
  BY <1>2 DEF Verdict
<1>3. CASE F # {}
  <2>1. \E i \in F : First(i)
    <3> HIDE DEF F
    <3>1. \/ 1 \in F \/ 2 \in F \/ 3 \in F \/ 4 \in F
          \/ 5 \in F \/ 6 \in F \/ 7 \in F \/ 8 \in F
      <4>1. PICK x : x \in F
        BY <1>3
      <4>2. x \in 1..8
        BY <4>1, <1>1
      <4>3. x = 1 \/ x = 2 \/ x = 3 \/ x = 4 \/ x = 5 \/ x = 6 \/ x = 7 \/ x = 8
        BY <4>2
      <4> QED
        BY <4>1, <4>3
    <3>2. \A i \in F : i \in 1..8
      BY <1>1
    <3>3. CASE 1 \in F  BY <3>2, <3>3
    <3>4. CASE 1 \notin F /\ 2 \in F  BY <3>2, <3>4
    <3>5. CASE {1, 2} \cap F = {} /\ 3 \in F  BY <3>2, <3>5
    <3>6. CASE {1, 2, 3} \cap F = {} /\ 4 \in F  BY <3>2, <3>6
    <3>7. CASE {1, 2, 3, 4} \cap F = {} /\ 5 \in F  BY <3>2, <3>7
    <3>8. CASE {1, 2, 3, 4, 5} \cap F = {} /\ 6 \in F  BY <3>2, <3>8
    <3>9. CASE {1, 2, 3, 4, 5, 6} \cap F = {} /\ 7 \in F  BY <3>2, <3>9
    <3>10. CASE {1, 2, 3, 4, 5, 6, 7} \cap F = {} /\ 8 \in F  BY <3>2, <3>10
    <3> QED
      BY <3>1, <3>3, <3>4, <3>5, <3>6, <3>7, <3>8, <3>9, <3>10
  <2> DEFINE k == CHOOSE i \in F : \A j \in F : i <= j
  <2>2. k \in 1..8
    <3> HIDE DEF F
    <3> QED
      BY <1>1, <2>1
  <2>3. Verdict(ts, rules, e) = GateNack[k]
    BY <1>3 DEF Verdict
  <2>4. \A i \in 1..8 : GateNack[i] \in VettingNack
    BY DEF GateNack, VettingNack
  <2>5. "ACCEPT" \notin VettingNack
    BY DEF VettingNack
  <2> QED
    BY <1>3, <2>2, <2>3, <2>4, <2>5
<1> QED
  BY <1>2, <1>3

\* An envelope that fails no gate passes each of those that vouch for it.
LEMMA GatesPassed ==
    ASSUME NEW ts, NEW rules, NEW e, FailedGates(ts, rules, e) = {}
    PROVE  /\ KnownSender(ts, e) /\ TlsIdentityMatches(ts, e)
           /\ NotRevoked(ts, e) /\ SignatureValid(ts, e) /\ PepAllows(rules, e)
<1>1. 2 \in 1..8 /\ 3 \in 1..8 /\ 4 \in 1..8 /\ 5 \in 1..8 /\ 6 \in 1..8
  OBVIOUS
<1>2. ASSUME ~KnownSender(ts, e) PROVE 2 \in FailedGates(ts, rules, e)
  BY <1>1, <1>2, Zenon DEF FailedGates
<1>3. ASSUME ~PepAllows(rules, e) PROVE 6 \in FailedGates(ts, rules, e)
  BY <1>1, <1>3, Zenon DEF FailedGates
<1>4. ASSUME KnownSender(ts, e), ~TlsIdentityMatches(ts, e)
      PROVE  3 \in FailedGates(ts, rules, e)
  BY <1>1, <1>4, Zenon DEF FailedGates
<1>5. ASSUME KnownSender(ts, e), ~NotRevoked(ts, e)
      PROVE  4 \in FailedGates(ts, rules, e)
  BY <1>1, <1>5, Zenon DEF FailedGates
<1>6. ASSUME KnownSender(ts, e), ~SignatureValid(ts, e)
      PROVE  5 \in FailedGates(ts, rules, e)
  BY <1>1, <1>6, Zenon DEF FailedGates
<1> QED
  BY <1>2, <1>3, <1>4, <1>5, <1>6, Zenon

\* The same for Gateway B's own trust store and rules.
COROLLARY VerdictOnRange ==
    ASSUME NEW c
    PROVE  VerdictOn(c) \in VettingNack \cup {"ACCEPT"}
BY VerdictMeaning DEF VerdictOn

-----------------------------------------------------------------------------
(* Type correctness                                                        *)

USE DeliveryAssumption

\* The empty sequence has length 0.
LEMMA LenEmpty == Len(<< >>) = 0
  OBVIOUS

\* DeadLetterStore.add and the change to FAILED keep the types, for a reason
\* the worker may give.
LEMMA GiveUpType ==
    ASSUME TypeOK, NEW t \in Tx, NEW r \in Reason, GiveUp(t, r)
    PROVE  /\ txState' \in [Tx -> TxState]
           /\ deadLetter' \in Seq(Entry)
           /\ dlReason' \in [Tx -> Reason \cup {"none"}]
           /\ dlLines' \in [Tx -> Nat]
           /\ pc' \in WorkerPc
<1> DEFINE x == [tx |-> t, reason |-> r]
<1>1. x \in Entry /\ deadLetter \in Seq(Entry)
  BY DEF Entry, TypeOK
<1>2. Append(deadLetter, x) \in Seq(Entry)
  BY <1>1
<1>3. deadLetter' \in Seq(Entry)
  <2>1. CASE Len(deadLetter) < DeadLetterMax
    BY <1>2, <2>1 DEF GiveUp, DeadLetterAdd
  <2>2. CASE ~(Len(deadLetter) < DeadLetterMax)
    <3>1. Len(deadLetter) \in Nat
      BY <1>1
    <3>2. deadLetter # << >>
      BY <1>1, <2>2, <3>1, LenEmpty
    <3>3. Tail(deadLetter) \in Seq(Entry)
      BY <1>1, <3>2
    <3>4. Append(Tail(deadLetter), x) \in Seq(Entry)
      BY <1>1, <3>3
    <3> QED
      BY <2>2, <3>4 DEF GiveUp, DeadLetterAdd
  <2> QED
    BY <2>1, <2>2
<1>4. dlLines' \in [Tx -> Nat]
  <2>1. PICK w \in {0, 1} : dlLines' = [dlLines EXCEPT ![t] = @ + w]
    BY DEF GiveUp, DeadLetterAdd
  <2>2. dlLines \in [Tx -> Nat] /\ dlLines[t] + w \in Nat
    BY DEF TypeOK
  <2> QED
    BY <2>1, <2>2
<1>5. dlReason' \in [Tx -> Reason \cup {"none"}]
  BY DEF GiveUp, DeadLetterAdd, TypeOK
<1>6. txState' \in [Tx -> TxState] /\ pc' \in WorkerPc
  BY DEF GiveUp, TypeOK, TxState, Terminal, WorkerPc
<1> QED
  BY <1>3, <1>4, <1>5, <1>6

\* So does the choice between another attempt and giving up.
LEMMA RetryOrGiveUpType ==
    ASSUME TypeOK, RetryOrGiveUp
    PROVE  /\ txState' \in [Tx -> TxState]
           /\ deadLetter' \in Seq(Entry)
           /\ dlReason' \in [Tx -> Reason \cup {"none"}]
           /\ dlLines' \in [Tx -> Nat]
           /\ pc' \in WorkerPc
<1>1. CASE GiveUp(cur, "MAX_RETRIES_EXCEEDED")
  BY <1>1, GiveUpType DEF TypeOK, Reason
<1>2. CASE /\ pc' = "backoff"
           /\ UNCHANGED <<txState, deadLetter, dlReason, dlLines>>
  BY <1>2 DEF TypeOK, WorkerPc
<1> QED
  BY <1>1, <1>2 DEF RetryOrGiveUp

\* An answer Gateway B sends is one Gateway A knows.
LEMMA NackAndEndType ==
    ASSUME TypeOK, NEW c \in Conn, NEW r \in NackReply, NackAndEnd(c, r)
    PROVE  /\ reply' \in [Conn -> NackReply \cup {"none", "ACK"}]
           /\ srv' \in [Conn -> SrvPhase]
           /\ permits' \in Int
<1>1. reply' \in [Conn -> NackReply \cup {"none", "ACK"}]
  <2>1. CASE Send(c, r)
    BY <2>1 DEF Send, TypeOK
  <2>2. CASE UNCHANGED reply
    BY <2>2 DEF TypeOK
  <2> QED
    BY <2>1, <2>2 DEF NackAndEnd
<1>2. srv' \in [Conn -> SrvPhase]
  BY DEF NackAndEnd, HandlerEnds, TypeOK, SrvPhase
<1>3. permits' \in Int
  BY DEF NackAndEnd, HandlerEnds, TypeOK
<1> QED
  BY <1>1, <1>2, <1>3

\* Every step of Delivery keeps the variables in their types.
LEMMA TypeStep == TypeOK /\ [Next]_vars => TypeOK'
<1> SUFFICES ASSUME TypeOK, [Next]_vars PROVE TypeOK'
  OBVIOUS
<1> USE DEF TypeOK, aVars, bVars, procVars, sinkVars, linkVars, WorkerPc, SrvPhase, TxState, Terminal
<1> USE DEF Entry, Reason, NackReply
<1>1. ASSUME NEW t \in Tx, Enqueue(t) PROVE TypeOK'
  <2>1. queue \in Seq(Tx) /\ txState \in [Tx -> TxState]
    OBVIOUS
  <2>2. queue' = Append(queue, t) /\ txState' = [txState EXCEPT ![t] = "POLICY_APPROVED"]
    BY <1>1 DEF Enqueue
  <2>3. queue' \in Seq(Tx) /\ txState' \in [Tx -> TxState]
    <3> HIDE DEF TypeOK
    <3> QED
      BY <2>1, <2>2
  <2>4. UNCHANGED <<env, retryCount, pc, cur, deadLetter, dlReason, dlLines, telA, heard,
                    bVars, linkVars, faults>>
    BY <1>1 DEF Enqueue
  <2> QED
    BY <2>3, <2>4
<1>2. CASE DequeueRoutable
  <2>1. Head(queue) \in Tx /\ Tail(queue) \in Seq(Tx)
    BY <1>2 DEF DequeueRoutable
  <2> QED
    BY <1>2, <2>1 DEF DequeueRoutable
<1>3. CASE DequeueUnroutable
  <2>1. Head(queue) \in Tx /\ Tail(queue) \in Seq(Tx)
    BY <1>3 DEF DequeueUnroutable
  <2>2. GiveUp(Head(queue), "UNKNOWN_RECIPIENT_ROUTING")
    BY <1>3 DEF DequeueUnroutable
  <2> QED
    BY <1>3, <2>1, <2>2, GiveUpType DEF DequeueUnroutable
<1>4. CASE BeginAttempt
  <2>1. retryCount' \in [Tx -> 0..MaxAttempts] /\ txState' \in [Tx -> TxState]
    BY <1>4 DEF BeginAttempt
  <2> QED
    BY <1>4, <2>1 DEF BeginAttempt
<1>5. CASE OpenSession
  <2>1. PICK fp \in Certificates : peer' = [peer EXCEPT ![CurConn] = fp]
    BY <1>5 DEF OpenSession
  <2>2. peer \in [Conn -> Certificates \cup {"none"}]
    OBVIOUS
  <2>3. peer' \in [Conn -> Certificates \cup {"none"}]
    <3> HIDE DEF TypeOK
    <3> QED
      BY <2>1, <2>2
  <2> QED
    BY <1>5, <2>3 DEF OpenSession, HandlerStarts, CurConn
<1>6. CASE OpenFails
  BY <1>6, RetryOrGiveUpType DEF OpenFails
<1>7. CASE WriteFrame
  BY <1>7 DEF WriteFrame, CurConn
<1>8. CASE DrainDone
  <2>1. arrived' = arrived \/ arrived' = [arrived EXCEPT ![CurConn] = "all"]
    BY <1>8, Zenon DEF DrainDone
  <2>2. /\ pc' = "await"
        /\ UNCHANGED <<env, txState, retryCount, queue, cur, deadLetter, dlReason,
                       dlLines, telA, heard, bVars, peer, cliOpen, net, faults>>
    BY <1>8, Zenon DEF DrainDone
  <2>3. arrived' \in [Conn -> {"none", "head", "all"}]
    <3>1. arrived \in [Conn -> {"none", "head", "all"}]
      BY Zenon
    <3> HIDE DEF TypeOK
    <3> QED
      BY <2>1, <3>1
  <2> QED
    BY <2>2, <2>3
<1>9. CASE ReceiveAck
  <2>1. PICK w \in {0, 1} : telA' = [telA EXCEPT ![cur] = @ + w]
    BY <1>9 DEF ReceiveAck, LogTelemetryA
  <2>2. telA' \in [Tx -> Nat]
    BY <2>1
  <2> QED
    BY <1>9, <2>2 DEF ReceiveAck, LogTelemetryA, CloseSession, Hear
<1>10. CASE ReceiveNack
  BY <1>10, GiveUpType DEF ReceiveNack, CloseSession, Hear
<1>11. CASE ReplyTimeout
  BY <1>11, RetryOrGiveUpType DEF ReplyTimeout, CloseSession
<1>12. CASE TransportError
  BY <1>12, RetryOrGiveUpType DEF TransportError, CloseSession
<1>13. CASE BackoffElapsed
  BY <1>13 DEF BackoffElapsed
<1>14. ASSUME NEW c \in Conn, AcquirePermit(c) PROVE TypeOK'
  BY <1>14 DEF AcquirePermit
<1>15. ASSUME NEW c \in Conn, RejectFrame(c) PROVE TypeOK'
  BY <1>15, VerdictOnRange, NackAndEndType DEF RejectFrame, Judge
<1>16. ASSUME NEW c \in Conn, AcceptFrame(c) PROVE TypeOK'
  BY <1>16 DEF AcceptFrame, Judge
<1>17. ASSUME NEW c \in Conn, RejectOversize(c) PROVE TypeOK'
  BY <1>17, NackAndEndType DEF RejectOversize, VettingNack
<1>18. ASSUME NEW c \in Conn, ReadEnds(c) PROVE TypeOK'
  BY <1>18 DEF ReadEnds, HandlerEnds
<1>19. ASSUME NEW c \in Conn, IngestLands(c) PROVE TypeOK'
  BY <1>19 DEF IngestLands
<1>20. ASSUME NEW c \in Conn, IngestReturns(c) PROVE TypeOK'
  BY <1>20 DEF IngestReturns
<1>21. ASSUME NEW c \in Conn, IngestFails(c) PROVE TypeOK'
  BY <1>21, NackAndEndType DEF IngestFails
<1>22. ASSUME NEW c \in Conn, SendAck(c) PROVE TypeOK'
  <2>1. reply' \in [Conn -> NackReply \cup {"none", "ACK"}]
    <3>1. CASE Send(c, "ACK")
      BY <3>1 DEF Send
    <3>2. CASE UNCHANGED reply
      BY <3>2
    <3> QED
      BY <1>22, <3>1, <3>2 DEF SendAck
  <2>2. srv' \in [Conn -> SrvPhase]
    <3>1. \/ srv' = [srv EXCEPT ![c] = "logging"]
          \/ srv' = [srv EXCEPT ![c] = "closed"]
      BY <1>22 DEF SendAck, HandlerEnds
    <3>2. srv \in [Conn -> SrvPhase]
      OBVIOUS
    <3> HIDE DEF TypeOK
    <3> QED
      BY <3>1, <3>2
  <2>3. permits' \in Int
    BY <1>22 DEF SendAck, HandlerEnds
  <2> QED
    BY <1>22, <2>1, <2>2, <2>3 DEF SendAck
<1>23. ASSUME NEW c \in Conn, LogTelemetry(c) PROVE TypeOK'
  <2>1. srv \in [Conn -> SrvPhase] /\ telB \in [Conn -> Nat] /\ permits \in Int
    OBVIOUS
  <2>2. /\ srv' = [srv EXCEPT ![c] = "closed"] /\ permits' = permits + 1
        /\ \E n \in {0, 1} : telB' = [telB EXCEPT ![c] = @ + n]
    BY <1>23 DEF LogTelemetry, HandlerEnds
  <2>3. srv' \in [Conn -> SrvPhase] /\ telB' \in [Conn -> Nat] /\ permits' \in Int
    <3> HIDE DEF TypeOK
    <3> QED
      BY <2>1, <2>2
  <2>4. UNCHANGED <<env, aVars, procVars, judged, reply, imports, linkVars, faults>>
    BY <1>23 DEF LogTelemetry
  <2> QED
    BY <2>3, <2>4
<1>24. ASSUME NEW c \in Conn, LinkFails(c) PROVE TypeOK'
  BY <1>24 DEF LinkFails
<1>25. CASE CrashB
  <2>1. srv' \in [Conn -> SrvPhase]
    BY <1>25 DEF CrashB
  <2>2. net' \in [Conn -> {"up", "reset", "silent"}]
    BY <1>25 DEF CrashB
  <2>3. faults' \in 0..MaxFaults
    BY <1>25 DEF CrashB
  <2>4. bUp' \in BOOLEAN
    BY <1>25 DEF CrashB
  <2>6. permits' \in Int
    BY <1>25 DEF CrashB
  <2>5. UNCHANGED <<env, txState, retryCount, queue, pc, cur, deadLetter, dlReason,
                    dlLines, telA, heard, sink, stored, store, judged, reply, imports,
                    telB, peer, arrived, cliOpen>>
    BY <1>25 DEF CrashB
  <2> QED
    BY <2>1, <2>2, <2>3, <2>4, <2>5, <2>6
<1>26. CASE RestartB
  BY <1>26 DEF RestartB
<1>27. CASE UNCHANGED vars
  BY <1>27 DEF vars
<1>28. CASE KeyBecomesReadable
  <2>1. store' \in TrustStores
    <3> HIDE DEF TypeOK
    <3> QED
      BY <1>28, Zenon DEF KeyBecomesReadable
  <2>2. UNCHANGED <<env, aVars, bUp, sinkVars, permits, srv, judged, reply, imports,
                    telB, linkVars, faults>>
    BY <1>28, Zenon DEF KeyBecomesReadable
  <2> QED
    BY <2>1, <2>2
<1> QED
  BY <1>1, <1>2, <1>3, <1>4, <1>5, <1>6, <1>7, <1>8, <1>9, <1>10, <1>11, <1>12, <1>13, <1>14, <1>15, <1>16, <1>17, <1>18, <1>19, <1>20, <1>21, <1>22, <1>23, <1>24, <1>25, <1>26, <1>27, <1>28
     DEF Next, WorkerStep, HandlerStep, LoopStep, IngestStep

\* The variables of Delivery always have their types.
THEOREM TypeCorrect == Spec => []TypeOK
<1>1. Init => TypeOK
  BY DEF Init, TypeOK, WorkerPc, SrvPhase, TxState, Terminal
<1> QED
  BY <1>1, TypeStep, PTL DEF Spec

-----------------------------------------------------------------------------
(* The inductive invariant: handlers                                       *)

\* A connection is a transaction and an attempt.
LEMMA ConnParts ==
    ASSUME NEW c \in Conn
    PROVE  c[1] \in Tx /\ c[2] \in 1..MaxAttempts /\ c = <<c[1], c[2]>>
BY DEF Conn

\* A step that leaves a connection alone, and makes at most more attempts,
\* keeps what is known of its handler.
LEMMA HandlerSame ==
    ASSUME NEW c \in Conn, TypeOK, TypeOK', HandlerOK(c), env' = env,
           retryCount'[c[1]] >= retryCount[c[1]],
           srv'[c] = srv[c], arrived'[c] = arrived[c], reply'[c] = reply[c],
           imports'[c] = imports[c], telB'[c] = telB[c],
           peer'[c] = peer[c], judged'[c] = judged[c]
    PROVE  HandlerOK(c)'
<1>1. c[1] \in Tx /\ c[2] \in 1..MaxAttempts
  BY ConnParts
<1>2. retryCount[c[1]] \in 0..MaxAttempts /\ retryCount'[c[1]] \in 0..MaxAttempts
  <2>1. retryCount \in [Tx -> 0..MaxAttempts] /\ retryCount' \in [Tx -> 0..MaxAttempts]
    BY Zenon DEF TypeOK
  <2> QED
    BY <1>1, <2>1
<1>3. Importable(c)' <=> Importable(c)
  BY DEF Importable, Received
<1> QED
  BY <1>1, <1>2, <1>3 DEF HandlerOK

\* Every step keeps what is known of every handler.
LEMMA HandlersStep ==
    ASSUME TypeOK, TypeOK', DeliveryInv, [Next]_vars
    PROVE  \A c \in Conn : HandlerOK(c)'
<1> SUFFICES ASSUME NEW c \in Conn PROVE HandlerOK(c)'
  BY Zenon
<1> USE DEF aVars, bVars, procVars, linkVars
<1>c. c[1] \in Tx /\ c[2] \in 1..MaxAttempts /\ HandlerOK(c)
  BY ConnParts DEF DeliveryInv
<1>r. retryCount[c[1]] \in 0..MaxAttempts /\ imports[c] \in Nat /\ telB[c] \in Nat
  BY <1>c DEF TypeOK
<1>i. env' = env /\ peer'[c] = peer[c] /\ judged'[c] = judged[c] =>
         (Importable(c)' <=> Importable(c))
  BY DEF Importable, Received
<1>1. CASE \E t \in Tx : Enqueue(t)
  BY <1>1, <1>c, <1>r, HandlerSame DEF Enqueue
<1>2. CASE DequeueRoutable
  BY <1>2, <1>c, <1>r, HandlerSame DEF DequeueRoutable
<1>3. CASE DequeueUnroutable
  BY <1>3, <1>c, <1>r, HandlerSame DEF DequeueUnroutable
<1>4. CASE OpenFails
  BY <1>4, <1>c, <1>r, HandlerSame DEF OpenFails
<1>5. CASE ReceiveAck
  BY <1>5, <1>c, <1>r, HandlerSame DEF ReceiveAck
<1>6. CASE ReceiveNack
  BY <1>6, <1>c, <1>r, HandlerSame DEF ReceiveNack
<1>7. CASE ReplyTimeout
  BY <1>7, <1>c, <1>r, HandlerSame DEF ReplyTimeout
<1>8. CASE TransportError
  BY <1>8, <1>c, <1>r, HandlerSame DEF TransportError
<1>9. CASE BackoffElapsed
  BY <1>9, <1>c, <1>r, HandlerSame DEF BackoffElapsed
<1>10. CASE BeginAttempt
  <2>1. retryCount'[c[1]] >= retryCount[c[1]]
    BY <1>10, <1>c, <1>r DEF BeginAttempt, TypeOK
  <2> QED
    BY <1>10, <2>1, <1>c, HandlerSame DEF BeginAttempt
<1>11. CASE OpenSession
  <2>1. CASE c # CurConn
    <3>1. /\ srv'[c] = srv[c] /\ arrived'[c] = arrived[c] /\ reply'[c] = reply[c]
          /\ imports'[c] = imports[c] /\ telB'[c] = telB[c]
          /\ peer'[c] = peer[c] /\ judged'[c] = judged[c]
      BY <1>11, <2>1 DEF OpenSession, HandlerStarts, TypeOK
    <3>2. env' = env /\ retryCount' = retryCount
      BY <1>11 DEF OpenSession, HandlerStarts
    <3> QED
      BY <3>1, <3>2, <1>c, <1>r, HandlerSame
  <2>2. CASE c = CurConn
    <3>1. c[1] = cur /\ c[2] = retryCount[cur] /\ srv[c] = "none"
      BY <1>11, <2>2 DEF OpenSession, HandlerStarts, CurConn, DeliveryInv, WorkerOK
    <3>2. env[cur].recipient \in Recipients
      BY <1>11 DEF OpenSession, HandlerStarts, DeliveryInv, WorkerOK
    <3>3. srv'[c] = "waiting"
      BY <1>11, <2>2 DEF OpenSession, HandlerStarts, TypeOK
    <3>4. UNCHANGED <<env, retryCount, arrived, reply, imports, telB>>
      BY <1>11 DEF OpenSession, HandlerStarts
    <3>5. "none" \notin VettingNack
      BY DEF VettingNack
    <3> QED
      BY <3>1, <3>2, <3>3, <3>4, <3>5, <1>c, <1>r DEF HandlerOK
  <2> QED
    BY <2>1, <2>2
<1>12. CASE WriteFrame
  <2>1. CASE c # CurConn
    <3>1. /\ srv'[c] = srv[c] /\ arrived'[c] = arrived[c] /\ reply'[c] = reply[c]
          /\ imports'[c] = imports[c] /\ telB'[c] = telB[c]
          /\ peer'[c] = peer[c] /\ judged'[c] = judged[c]
      BY <1>12, <2>1 DEF WriteFrame, TypeOK
    <3>2. env' = env /\ retryCount' = retryCount
      BY <1>12 DEF WriteFrame
    <3> QED
      BY <3>1, <3>2, <1>c, <1>r, HandlerSame
  <2>2. CASE c = CurConn
    <3>1. c[1] = cur
      BY <2>2 DEF CurConn
    <3>2. arrived'[c] = "all" => env[c[1]].size = "small"
      BY <1>12, <2>2, <3>1 DEF WriteFrame, TypeOK
    <3>3. UNCHANGED <<env, retryCount, peer, judged, srv, reply, imports, telB>>
      BY <1>12 DEF WriteFrame
    <3> QED
      BY <3>2, <3>3, <1>c, <1>r, <1>i DEF HandlerOK
  <2> QED
    BY <2>1, <2>2
<1>13. CASE DrainDone
  <2>1. CASE arrived'[c] = arrived[c]
    BY <1>13, <2>1, <1>c, <1>r, HandlerSame DEF DrainDone
  <2>2. CASE arrived'[c] # arrived[c]
    <3>1. c = CurConn /\ env[cur].size = "large"
      BY <1>13, <2>2 DEF DrainDone, TypeOK
    <3>2. c[1] = cur
      BY <3>1 DEF CurConn
    <3>3. UNCHANGED <<env, retryCount, peer, judged, srv, reply, imports, telB>>
      BY <1>13 DEF DrainDone
    <3> QED
      BY <3>1, <3>2, <3>3, <1>c, <1>r, <1>i DEF HandlerOK
  <2> QED
    BY <2>1, <2>2
<1>14. ASSUME NEW d \in Conn, AcquirePermit(d) PROVE HandlerOK(c)'
  <2>1. CASE c # d
    <3>1. /\ srv'[c] = srv[c] /\ arrived'[c] = arrived[c] /\ reply'[c] = reply[c]
          /\ imports'[c] = imports[c] /\ telB'[c] = telB[c]
          /\ peer'[c] = peer[c] /\ judged'[c] = judged[c]
      BY <1>14, <2>1 DEF AcquirePermit, TypeOK
    <3>2. env' = env /\ retryCount' = retryCount
      BY <1>14 DEF AcquirePermit
    <3> QED
      BY <3>1, <3>2, <1>c, <1>r, HandlerSame
  <2>2. CASE c = d
    <3>1. srv[c] = "waiting" /\ srv'[c] = "reading"
      BY <1>14, <2>2 DEF AcquirePermit, TypeOK
    <3>2. UNCHANGED <<env, retryCount, peer, judged, arrived, reply, imports, telB>>
      BY <1>14, <2>2 DEF AcquirePermit, TypeOK
    <3> QED
      BY <3>1, <3>2, <1>c, <1>r, <1>i DEF HandlerOK
  <2> QED
    BY <2>1, <2>2
<1>15. ASSUME NEW d \in Conn, RejectFrame(d) PROVE HandlerOK(c)'
  <2>1. CASE c # d
    <3>1. /\ srv'[c] = srv[c] /\ arrived'[c] = arrived[c] /\ reply'[c] = reply[c]
          /\ imports'[c] = imports[c] /\ telB'[c] = telB[c]
          /\ peer'[c] = peer[c] /\ judged'[c] = judged[c]
      BY <1>15, <2>1 DEF RejectFrame, Judge, FrameRead, NackAndEnd, HandlerEnds, Send, TypeOK
    <3>2. env' = env /\ retryCount' = retryCount
      BY <1>15 DEF RejectFrame, NackAndEnd, HandlerEnds, Send
    <3> QED
      BY <3>1, <3>2, <1>c, <1>r, HandlerSame
  <2>2. CASE c = d
    <3>1. srv[c] = "reading" /\ srv'[c] = "closed" /\ VerdictOn(c) # "ACCEPT"
      BY <1>15, <2>2 DEF RejectFrame, Judge, FrameRead, NackAndEnd, HandlerEnds, Send, TypeOK
    <3>2. UNCHANGED <<env, retryCount, peer, arrived, imports, telB>>
      BY <1>15, <2>2 DEF RejectFrame, Judge, FrameRead, NackAndEnd, HandlerEnds, Send, TypeOK
    <3>3. reply'[c] \in {reply[c], VerdictOn(c)}
      BY <1>15, <2>2 DEF RejectFrame, Judge, FrameRead, NackAndEnd, HandlerEnds, Send, TypeOK
    <3>4. VerdictOn(c) \in VettingNack \cup {"ACCEPT"}
      BY <1>15, <2>2, VerdictOnRange DEF RejectFrame, Judge, FrameRead, NackAndEnd, HandlerEnds, Send, TypeOK
    <3>5. judged'[c] = store
      BY <1>15, <2>2 DEF RejectFrame, Judge, TypeOK
    <3>6. ~Importable(c)'
      BY <3>1, <3>2, <3>5 DEF Importable, VerdictOn, Received
    <3> QED
      BY <3>1, <3>2, <3>3, <3>4, <3>6, <1>c, <1>r DEF HandlerOK, VettingNack
  <2> QED
    BY <2>1, <2>2
<1>16. ASSUME NEW d \in Conn, AcceptFrame(d) PROVE HandlerOK(c)'
  <2>1. CASE c # d
    <3>1. /\ srv'[c] = srv[c] /\ arrived'[c] = arrived[c] /\ reply'[c] = reply[c]
          /\ imports'[c] = imports[c] /\ telB'[c] = telB[c]
          /\ peer'[c] = peer[c] /\ judged'[c] = judged[c]
      BY <1>16, <2>1 DEF AcceptFrame, Judge, FrameRead, TypeOK
    <3>2. env' = env /\ retryCount' = retryCount
      BY <1>16 DEF AcceptFrame
    <3> QED
      BY <3>1, <3>2, <1>c, <1>r, HandlerSame
  <2>2. CASE c = d
    <3>1. srv[c] = "reading" /\ srv'[c] = "ingesting" /\ arrived[c] = "all"
      BY <1>16, <2>2 DEF AcceptFrame, Judge, FrameRead, TypeOK
    <3>2. VerdictOn(c) = "ACCEPT"
      BY <1>16, <2>2 DEF AcceptFrame, Judge, FrameRead, TypeOK
    <3>3. UNCHANGED <<env, retryCount, peer, arrived, reply, imports, telB>>
      BY <1>16, <2>2 DEF AcceptFrame, Judge, FrameRead, TypeOK
    <3>4. judged'[c] = store
      BY <1>16, <2>2 DEF AcceptFrame, Judge, TypeOK
    <3>5. Importable(c)'
      BY <3>1, <3>2, <3>3, <3>4, <1>c DEF HandlerOK, Importable, VerdictOn, Received
    <3>6. "none" \notin VettingNack
      BY DEF VettingNack
    <3> QED
      BY <3>1, <3>3, <3>5, <3>6, <1>c, <1>r DEF HandlerOK
  <2> QED
    BY <2>1, <2>2
<1>17. ASSUME NEW d \in Conn, RejectOversize(d) PROVE HandlerOK(c)'
  <2>1. CASE c # d
    <3>1. /\ srv'[c] = srv[c] /\ arrived'[c] = arrived[c] /\ reply'[c] = reply[c]
          /\ imports'[c] = imports[c] /\ telB'[c] = telB[c]
          /\ peer'[c] = peer[c] /\ judged'[c] = judged[c]
      BY <1>17, <2>1 DEF RejectOversize, NackAndEnd, HandlerEnds, Send, TypeOK
    <3>2. env' = env /\ retryCount' = retryCount
      BY <1>17 DEF RejectOversize, NackAndEnd, HandlerEnds, Send
    <3> QED
      BY <3>1, <3>2, <1>c, <1>r, HandlerSame
  <2>2. CASE c = d
    <3>1. srv[c] = "reading" /\ srv'[c] = "closed" /\ env[c[1]].size = "oversize"
      BY <1>17, <2>2 DEF RejectOversize, NackAndEnd, HandlerEnds, Send, TypeOK
    <3>2. UNCHANGED <<env, retryCount, peer, judged, arrived, imports, telB>>
      BY <1>17, <2>2 DEF RejectOversize, NackAndEnd, HandlerEnds, Send, TypeOK
    <3>3. reply'[c] \in {reply[c], "MALFORMED"}
      BY <1>17, <2>2 DEF RejectOversize, NackAndEnd, HandlerEnds, Send, TypeOK
    <3> QED
      BY <3>1, <3>2, <3>3, <1>c, <1>r, <1>i DEF HandlerOK, Importable
  <2> QED
    BY <2>1, <2>2
<1>18. ASSUME NEW d \in Conn, ReadEnds(d) PROVE HandlerOK(c)'
  <2>1. CASE c # d
    <3>1. /\ srv'[c] = srv[c] /\ arrived'[c] = arrived[c] /\ reply'[c] = reply[c]
          /\ imports'[c] = imports[c] /\ telB'[c] = telB[c]
          /\ peer'[c] = peer[c] /\ judged'[c] = judged[c]
      BY <1>18, <2>1 DEF ReadEnds, HandlerEnds, TypeOK
    <3>2. env' = env /\ retryCount' = retryCount
      BY <1>18 DEF ReadEnds, HandlerEnds
    <3> QED
      BY <3>1, <3>2, <1>c, <1>r, HandlerSame
  <2>2. CASE c = d
    <3>1. srv[c] = "reading" /\ srv'[c] = "closed"
      BY <1>18, <2>2 DEF ReadEnds, HandlerEnds, TypeOK
    <3>2. UNCHANGED <<env, retryCount, peer, judged, arrived, reply, imports, telB>>
      BY <1>18, <2>2 DEF ReadEnds, HandlerEnds, TypeOK
    <3> QED
      BY <3>1, <3>2, <1>c, <1>r, <1>i DEF HandlerOK
  <2> QED
    BY <2>1, <2>2
<1>19. ASSUME NEW d \in Conn, IngestLands(d) PROVE HandlerOK(c)'
  <2>1. CASE c # d
    <3>1. /\ srv'[c] = srv[c] /\ arrived'[c] = arrived[c] /\ reply'[c] = reply[c]
          /\ imports'[c] = imports[c] /\ telB'[c] = telB[c]
          /\ peer'[c] = peer[c] /\ judged'[c] = judged[c]
      BY <1>19, <2>1 DEF IngestLands, TypeOK
    <3>2. env' = env /\ retryCount' = retryCount
      BY <1>19 DEF IngestLands
    <3> QED
      BY <3>1, <3>2, <1>c, <1>r, HandlerSame
  <2>2. CASE c = d
    <3>1. srv[c] = "ingesting" /\ srv'[c] = "landed" /\ imports'[c] = imports[c] + 1
      BY <1>19, <2>2 DEF IngestLands, TypeOK
    <3>2. UNCHANGED <<env, retryCount, peer, judged, arrived, reply, telB>>
      BY <1>19, <2>2 DEF IngestLands, TypeOK
    <3> QED
      BY <3>1, <3>2, <1>c, <1>r, <1>i DEF HandlerOK
  <2> QED
    BY <2>1, <2>2
<1>20. ASSUME NEW d \in Conn, IngestReturns(d) PROVE HandlerOK(c)'
  <2>1. CASE c # d
    <3>1. /\ srv'[c] = srv[c] /\ arrived'[c] = arrived[c] /\ reply'[c] = reply[c]
          /\ imports'[c] = imports[c] /\ telB'[c] = telB[c]
          /\ peer'[c] = peer[c] /\ judged'[c] = judged[c]
      BY <1>20, <2>1 DEF IngestReturns, TypeOK
    <3>2. env' = env /\ retryCount' = retryCount
      BY <1>20 DEF IngestReturns
    <3> QED
      BY <3>1, <3>2, <1>c, <1>r, HandlerSame
  <2>2. CASE c = d
    <3>1. srv[c] = "landed" /\ srv'[c] = "acking"
      BY <1>20, <2>2 DEF IngestReturns, TypeOK
    <3>2. UNCHANGED <<env, retryCount, peer, judged, arrived, reply, imports, telB>>
      BY <1>20, <2>2 DEF IngestReturns, TypeOK
    <3> QED
      BY <3>1, <3>2, <1>c, <1>r, <1>i DEF HandlerOK
  <2> QED
    BY <2>1, <2>2
<1>21. ASSUME NEW d \in Conn, IngestFails(d) PROVE HandlerOK(c)'
  <2>1. CASE c # d
    <3>1. /\ srv'[c] = srv[c] /\ arrived'[c] = arrived[c] /\ reply'[c] = reply[c]
          /\ imports'[c] = imports[c] /\ telB'[c] = telB[c]
          /\ peer'[c] = peer[c] /\ judged'[c] = judged[c]
      BY <1>21, <2>1 DEF IngestFails, NackAndEnd, HandlerEnds, Send, TypeOK
    <3>2. env' = env /\ retryCount' = retryCount
      BY <1>21 DEF IngestFails, NackAndEnd, HandlerEnds, Send
    <3> QED
      BY <3>1, <3>2, <1>c, <1>r, HandlerSame
  <2>2. CASE c = d
    <3>1. srv[c] \in {"ingesting", "landed"} /\ srv'[c] = "closed"
      BY <1>21, <2>2 DEF IngestFails, NackAndEnd, HandlerEnds, Send, TypeOK
    <3>2. UNCHANGED <<env, retryCount, peer, judged, arrived, imports, telB>>
      BY <1>21, <2>2 DEF IngestFails, NackAndEnd, HandlerEnds, Send, TypeOK
    <3>3. reply'[c] \in {reply[c], "INGEST_FAILED"}
      BY <1>21, <2>2 DEF IngestFails, NackAndEnd, HandlerEnds, Send, TypeOK
    <3> QED
      BY <3>1, <3>2, <3>3, <1>c, <1>r, <1>i DEF HandlerOK, VettingNack
  <2> QED
    BY <2>1, <2>2
<1>22. ASSUME NEW d \in Conn, SendAck(d) PROVE HandlerOK(c)'
  <2>1. CASE c # d
    <3>1. /\ srv'[c] = srv[c] /\ arrived'[c] = arrived[c] /\ reply'[c] = reply[c]
          /\ imports'[c] = imports[c] /\ telB'[c] = telB[c]
          /\ peer'[c] = peer[c] /\ judged'[c] = judged[c]
      BY <1>22, <2>1 DEF SendAck, HandlerEnds, Send, TypeOK
    <3>2. env' = env /\ retryCount' = retryCount
      BY <1>22 DEF SendAck, HandlerEnds, Send
    <3> QED
      BY <3>1, <3>2, <1>c, <1>r, HandlerSame
  <2>2. CASE c = d
    <3>1. srv[c] = "acking" /\ srv'[c] \in {"logging", "closed"}
      BY <1>22, <2>2 DEF SendAck, HandlerEnds, Send, TypeOK
    <3>2. UNCHANGED <<env, retryCount, peer, judged, arrived, imports, telB>>
      BY <1>22, <2>2 DEF SendAck, HandlerEnds, Send, TypeOK
    <3>3. reply'[c] \in {reply[c], "ACK"}
      BY <1>22, <2>2 DEF SendAck, HandlerEnds, Send, TypeOK
    <3> QED
      BY <3>1, <3>2, <3>3, <1>c, <1>r, <1>i DEF HandlerOK, VettingNack
  <2> QED
    BY <2>1, <2>2
<1>23. ASSUME NEW d \in Conn, LogTelemetry(d) PROVE HandlerOK(c)'
  <2>1. CASE c # d
    <3>1. /\ srv'[c] = srv[c] /\ arrived'[c] = arrived[c] /\ reply'[c] = reply[c]
          /\ imports'[c] = imports[c] /\ telB'[c] = telB[c]
          /\ peer'[c] = peer[c] /\ judged'[c] = judged[c]
      BY <1>23, <2>1 DEF LogTelemetry, HandlerEnds, TypeOK
    <3>2. env' = env /\ retryCount' = retryCount
      BY <1>23 DEF LogTelemetry, HandlerEnds
    <3> QED
      BY <3>1, <3>2, <1>c, <1>r, HandlerSame
  <2>2. CASE c = d
    <3>1. srv[c] = "logging" /\ srv'[c] = "closed"
      BY <1>23, <2>2 DEF LogTelemetry, HandlerEnds, TypeOK
    <3>2. UNCHANGED <<env, retryCount, peer, judged, arrived, reply, imports>>
      BY <1>23, <2>2 DEF LogTelemetry, HandlerEnds, TypeOK
    <3>3. telB'[c] \in {telB[c], telB[c] + 1}
      BY <1>23, <2>2 DEF LogTelemetry, HandlerEnds, TypeOK
    <3> QED
      BY <3>1, <3>2, <3>3, <1>c, <1>r, <1>i DEF HandlerOK
  <2> QED
    BY <2>1, <2>2
<1>24. ASSUME NEW d \in Conn, LinkFails(d) PROVE HandlerOK(c)'
  BY <1>24, <1>c, <1>r, HandlerSame DEF LinkFails
<1>25. CASE CrashB
  <2>1. srv'[c] = IF srv[c] = "none" THEN "none" ELSE "closed"
    BY <1>25 DEF CrashB
  <2>2. UNCHANGED <<env, retryCount, peer, judged, arrived, reply, imports, telB>>
    BY <1>25 DEF CrashB
  <2> QED
    BY <2>1, <2>2, <1>c, <1>r, <1>i DEF HandlerOK
<1>26. CASE RestartB
  BY <1>26, <1>c, <1>r, HandlerSame DEF RestartB
<1>27. CASE UNCHANGED vars
  BY <1>27, <1>c, <1>r, HandlerSame DEF vars
<1>28. CASE KeyBecomesReadable
  BY <1>28, <1>c, <1>r, HandlerSame DEF KeyBecomesReadable
<1> QED
  BY <1>1, <1>2, <1>3, <1>4, <1>5, <1>6, <1>7, <1>8, <1>9, <1>10, <1>11, <1>12, <1>13, <1>14, <1>15, <1>16, <1>17, <1>18, <1>19, <1>20, <1>21, <1>22, <1>23, <1>24, <1>25, <1>26, <1>27, <1>28
     DEF Next, WorkerStep, HandlerStep, LoopStep, IngestStep

-----------------------------------------------------------------------------
(* The inductive invariant: what Gateway B and the network leave alone     *)

\* Steps of Gateway B and of the environment.
RemoteStep == \/ \E d \in Conn : HandlerStep(d) \/ LinkFails(d)
              \/ CrashB \/ RestartB \/ KeyBecomesReadable

\* A handler that ends with a NACK leaves the other handlers' answers alone.
LEMMA NackFrame ==
    ASSUME TypeOK, NEW d \in Conn, NEW answer, NackAndEnd(d, answer), reply[d] = "none"
    PROVE  /\ \A c \in Conn : srv[c] = "none" /\ c # d => srv'[c] = "none"
           /\ \A c \in Conn : reply[c] # "none" => reply'[c] = reply[c]
<1>1. reply \in [Conn -> NackReply \cup {"none", "ACK"}] /\ srv \in [Conn -> SrvPhase]
  BY Zenon DEF TypeOK
<1>2. srv' = [srv EXCEPT ![d] = "closed"]
  BY DEF NackAndEnd, HandlerEnds
<1>3. \E x : reply' = [reply EXCEPT ![d] = x]
  <2>1. CASE UNCHANGED reply
    BY <1>1, <2>1
  <2>2. CASE Send(d, answer)
    BY <2>2 DEF Send
  <2> QED
    BY <2>1, <2>2 DEF NackAndEnd
<1> QED
  BY <1>1, <1>2, <1>3

\* A remote step touches nothing of Gateway A, starts no handler, and keeps
\* every import that was made and every answer that was sent.
LEMMA RemoteFrame ==
    ASSUME TypeOK, DeliveryInv, RemoteStep
    PROVE  /\ UNCHANGED <<env, aVars>>
           /\ \A c \in Conn : srv[c] = "none" => srv'[c] = "none"
           /\ \A c \in Conn : imports[c] = 1 => imports'[c] = 1
           /\ \A c \in Conn : reply[c] # "none" => reply'[c] = reply[c]
<1> DEFINE Frame == /\ UNCHANGED <<env, aVars>>
                    /\ \A c \in Conn : srv[c] = "none" => srv'[c] = "none"
                    /\ \A c \in Conn : imports[c] = 1 => imports'[c] = 1
                    /\ \A c \in Conn : reply[c] # "none" => reply'[c] = reply[c]
<1>a. \A c \in Conn : srv[c] \notin {"logging", "closed"} => reply[c] = "none"
  BY DEF DeliveryInv, HandlerOK
<1> USE DEF TypeOK
<1>1. ASSUME NEW d \in Conn, AcquirePermit(d) PROVE Frame
  BY <1>1 DEF AcquirePermit
<1>2. ASSUME NEW d \in Conn, RejectFrame(d) PROVE Frame
  <2>1. srv[d] \in {"reading", "ingesting", "landed"} /\ UNCHANGED <<env, aVars, imports>>
    BY <1>2, Zenon DEF RejectFrame, FrameRead
  <2>2. reply[d] = "none" /\ srv[d] # "none"
    BY <1>a, <2>1
  <2>3. NackAndEnd(d, VerdictOn(d))
    BY <1>2 DEF RejectFrame
  <2> HIDE DEF TypeOK
  <2> QED
    BY <2>1, <2>2, <2>3, NackFrame
<1>3. ASSUME NEW d \in Conn, AcceptFrame(d) PROVE Frame
  BY <1>3 DEF AcceptFrame, FrameRead
<1>4. ASSUME NEW d \in Conn, RejectOversize(d) PROVE Frame
  <2>1. srv[d] \in {"reading", "ingesting", "landed"} /\ UNCHANGED <<env, aVars, imports>>
    BY <1>4, Zenon DEF RejectOversize
  <2>2. reply[d] = "none" /\ srv[d] # "none"
    BY <1>a, <2>1
  <2>3. NackAndEnd(d, "MALFORMED")
    BY <1>4 DEF RejectOversize
  <2> HIDE DEF TypeOK
  <2> QED
    BY <2>1, <2>2, <2>3, NackFrame
<1>5. ASSUME NEW d \in Conn, ReadEnds(d) PROVE Frame
  BY <1>5 DEF ReadEnds, HandlerEnds
<1>6. ASSUME NEW d \in Conn, IngestLands(d) PROVE Frame
  <2>1. imports[d] = 0
    BY <1>6 DEF IngestLands, DeliveryInv, HandlerOK
  <2> QED
    BY <1>6, <2>1 DEF IngestLands
<1>7. ASSUME NEW d \in Conn, IngestReturns(d) PROVE Frame
  BY <1>7 DEF IngestReturns
<1>8. ASSUME NEW d \in Conn, IngestFails(d) PROVE Frame
  <2>1. srv[d] \in {"reading", "ingesting", "landed"} /\ UNCHANGED <<env, aVars, imports>>
    BY <1>8, Zenon DEF IngestFails
  <2>2. reply[d] = "none" /\ srv[d] # "none"
    BY <1>a, <2>1
  <2>3. NackAndEnd(d, "INGEST_FAILED")
    BY <1>8 DEF IngestFails
  <2> HIDE DEF TypeOK
  <2> QED
    BY <2>1, <2>2, <2>3, NackFrame
<1>9. ASSUME NEW d \in Conn, SendAck(d) PROVE Frame
  BY <1>9, <1>a DEF SendAck, HandlerEnds, Send
<1>10. ASSUME NEW d \in Conn, LogTelemetry(d) PROVE Frame
  BY <1>10 DEF LogTelemetry, HandlerEnds
<1>11. ASSUME NEW d \in Conn, LinkFails(d) PROVE Frame
  BY <1>11 DEF LinkFails, bVars
<1>12. CASE CrashB
  BY <1>12 DEF CrashB
<1>13. CASE RestartB
  BY <1>13 DEF RestartB
<1>14. CASE KeyBecomesReadable
  BY <1>14 DEF KeyBecomesReadable
<1> QED
  BY <1>1, <1>2, <1>3, <1>4, <1>5, <1>6, <1>7, <1>8, <1>9, <1>10, <1>11, <1>12, <1>13, <1>14
     DEF RemoteStep, HandlerStep, LoopStep, IngestStep

-----------------------------------------------------------------------------
(* The inductive invariant: the worker                                     *)

\* What a sequence holds after its head is taken, and after an append.
LEMMA TailElements ==
    ASSUME NEW S, NEW q \in Seq(S), q # << >>
    PROVE  /\ Tail(q) \in Seq(S) /\ Head(q) \in S /\ Head(q) = q[1] /\ 1 \in DOMAIN q
           /\ \A i \in DOMAIN Tail(q) : i + 1 \in DOMAIN q /\ Tail(q)[i] = q[i + 1]
           /\ \A i \in DOMAIN Tail(q) : i \in Nat /\ i >= 1
  OBVIOUS

\* Appending keeps the elements and adds the new one last.
LEMMA AppendElements ==
    ASSUME NEW S, NEW q \in Seq(S), NEW x \in S
    PROVE  /\ Append(q, x) \in Seq(S)
           /\ \A i \in DOMAIN Append(q, x) :
                 \/ i \in DOMAIN q /\ Append(q, x)[i] = q[i]
                 \/ i = Len(q) + 1 /\ Append(q, x)[i] = x
  OBVIOUS

\* The worker's part of the invariant when only the state of the transaction it
\* gives up changes and the worker returns to the queue.
LEMMA WorkerGivesUp ==
    ASSUME TypeOK, WorkerOK, NEW st, pc # "get", pc' = "get",
           txState' = [txState EXCEPT ![cur] = st],
           UNCHANGED <<env, retryCount, queue>>
    PROVE  WorkerOK'
<1>1. \A i \in DOMAIN queue : queue[i] # cur /\ txState[queue[i]] = "POLICY_APPROVED"
                              /\ retryCount[queue[i]] = 0 /\ queue[i] \in Tx
  BY DEF WorkerOK, TypeOK
<1>2. \A i \in DOMAIN queue : txState'[queue[i]] = "POLICY_APPROVED"
  BY <1>1 DEF TypeOK
<1> QED
  BY <1>1, <1>2 DEF WorkerOK

\* Every step keeps the worker's part of the invariant.
LEMMA WorkerStepOK ==
    ASSUME TypeOK, TypeOK', DeliveryInv, [Next]_vars
    PROVE  WorkerOK'
<1>w. WorkerOK /\ \A t \in Tx : OutcomeOK(t)
  BY DEF DeliveryInv
<1>c. pc \in {"opening", "write", "drain", "await"} => CurConn \in Conn
  BY <1>w DEF WorkerOK, CurConn, Conn, TypeOK
<1>1. ASSUME NEW t \in Tx, Enqueue(t) PROVE WorkerOK'
  <2>1. retryCount[t] = 0 /\ txState[t] = "NEW"
    BY <1>1, <1>w DEF Enqueue, OutcomeOK
  <2>2. pc # "get" => t # cur
    BY <2>1, <1>w DEF WorkerOK
  <2>3. \A i \in DOMAIN queue : queue[i] # t
    BY <2>1, <1>w DEF WorkerOK
  <2>4. \A i \in DOMAIN queue' : \/ i \in DOMAIN queue /\ queue'[i] = queue[i]
                                 \/ i = Len(queue) + 1 /\ queue'[i] = t
    <3>1. queue \in Seq(Tx) /\ queue' = Append(queue, t)
      BY <1>1 DEF Enqueue, TypeOK
    <3> QED
      BY <3>1, AppendElements
  <2>5. \A u \in Tx : txState'[u] = IF u = t THEN "POLICY_APPROVED" ELSE txState[u]
    BY <1>1 DEF Enqueue, TypeOK
  <2>6. UNCHANGED <<env, retryCount, pc, cur, srv>>
    BY <1>1 DEF Enqueue, bVars
  <2>7. cur \in Tx /\ \A i \in DOMAIN queue : queue[i] \in Tx
    <3>1. cur \in Tx /\ queue \in Seq(Tx)
      BY DEF TypeOK
    <3> QED
      BY <3>1
  <2> QED
    BY <1>w, <2>1, <2>2, <2>3, <2>4, <2>5, <2>6, <2>7 DEF WorkerOK, CurConn
<1>2. CASE DequeueRoutable
  <2>1. queue \in Seq(Tx) /\ queue # << >>
    BY <1>2 DEF DequeueRoutable, TypeOK
  <2>2. cur' = queue[1] /\ 1 \in DOMAIN queue /\ queue' = Tail(queue)
    BY <1>2, <2>1, TailElements DEF DequeueRoutable
  <2>3. \A i \in DOMAIN queue' : i + 1 \in DOMAIN queue /\ queue'[i] = queue[i + 1]
                                 /\ i \in Nat /\ i >= 1
    BY <2>1, <2>2, TailElements
  <2>4. env[cur'].recipient \in Recipients /\ pc' = "attempt"
    BY <1>2, <2>1, TailElements DEF DequeueRoutable
  <2>5. UNCHANGED <<env, txState, retryCount>>
    BY <1>2 DEF DequeueRoutable
  <2>6. \A i, j \in DOMAIN queue' : queue'[i] = queue'[j] => i = j
    BY <2>3, <1>w DEF WorkerOK
  <2>7. \A i \in DOMAIN queue' : queue'[i] # cur'
    BY <2>2, <2>3, <1>w DEF WorkerOK
  <2> QED
    BY <1>w, <2>2, <2>3, <2>4, <2>5, <2>6, <2>7, DeliveryAssumption DEF WorkerOK
<1>3. CASE DequeueUnroutable
  <2>1. queue \in Seq(Tx) /\ queue # << >>
    BY <1>3 DEF DequeueUnroutable, TypeOK
  <2>2. 1 \in DOMAIN queue /\ queue' = Tail(queue) /\ pc' = "get"
    BY <1>3, <2>1, TailElements DEF DequeueUnroutable, GiveUp
  <2>3. \A i \in DOMAIN queue' : i + 1 \in DOMAIN queue /\ queue'[i] = queue[i + 1]
                                 /\ i \in Nat /\ i >= 1
    BY <2>1, <2>2, TailElements
  <2>4. txState' = [txState EXCEPT ![queue[1]] = "FAILED"] /\ retryCount' = retryCount
    BY <1>3, <2>1, TailElements DEF DequeueUnroutable, GiveUp
  <2>5. \A i, j \in DOMAIN queue' : queue'[i] = queue'[j] => i = j
    BY <2>3, <1>w DEF WorkerOK
  <2>6. \A i \in DOMAIN queue' : queue'[i] # queue[1] /\ queue'[i] \in Tx
    BY <2>1, <2>2, <2>3, <1>w DEF WorkerOK
  <2>t. txState \in [Tx -> TxState]
    BY Zenon DEF TypeOK
  <2>7. \A i \in DOMAIN queue' : txState'[queue'[i]] = txState[queue'[i]]
    BY <2>4, <2>6, <2>t
  <2> QED
    BY <1>w, <2>2, <2>3, <2>4, <2>5, <2>7 DEF WorkerOK
<1>4. CASE BeginAttempt
  <2>1. /\ \A u \in Tx : u # cur => txState'[u] = txState[u] /\ retryCount'[u] = retryCount[u]
        /\ txState'[cur] = "SENDING" /\ retryCount'[cur] = retryCount[cur] + 1
        /\ retryCount[cur] \in Nat /\ retryCount[cur] < MaxAttempts
    BY <1>4 DEF BeginAttempt, TypeOK
  <2>2. UNCHANGED <<env, queue, cur, srv>> /\ pc = "attempt" /\ pc' = "opening"
    BY <1>4 DEF BeginAttempt, bVars
  <2>3. <<cur, retryCount[cur] + 1>> \in Conn
    BY <2>1, DeliveryAssumption DEF Conn, TypeOK
  <2>4. srv[<<cur, retryCount[cur] + 1>>] = "none"
    BY <2>1, <2>3 DEF DeliveryInv, HandlerOK
  <2>5. CurConn' = <<cur, retryCount[cur] + 1>>
    BY <2>1, <2>2 DEF CurConn
  <2>6. \A i \in DOMAIN queue : queue[i] # cur /\ queue[i] \in Tx
    BY <2>2, <1>w DEF WorkerOK, TypeOK
  <2> QED
    BY <1>w, <2>1, <2>2, <2>4, <2>5, <2>6 DEF WorkerOK
<1>5. CASE OpenSession \/ WriteFrame \/ DrainDone
  <2>1. UNCHANGED <<env, txState, retryCount, queue, cur>> /\ pc # "get"
    BY <1>5 DEF OpenSession, WriteFrame, DrainDone
  <2>2. pc \in {"opening", "write", "drain"} /\ pc' \in {"write", "drain", "await"}
    BY <1>5 DEF OpenSession, WriteFrame, DrainDone
  <2> QED
    BY <1>w, <2>1, <2>2 DEF WorkerOK
<1>6. CASE ReceiveAck \/ ReceiveNack
  BY <1>6, <1>w, WorkerGivesUp DEF ReceiveAck, ReceiveNack, GiveUp
<1>7. ASSUME RetryOrGiveUp, pc # "get", UNCHANGED <<env, retryCount, queue, cur>>
      PROVE  WorkerOK'
  <2>1. CASE GiveUp(cur, "MAX_RETRIES_EXCEEDED")
    BY <1>7, <2>1, <1>w, WorkerGivesUp DEF GiveUp
  <2>2. CASE pc' = "backoff" /\ UNCHANGED txState /\ retryCount[cur] < MaxAttempts
    BY <1>7, <2>2, <1>w DEF WorkerOK
  <2> QED
    BY <1>7, <2>1, <2>2 DEF RetryOrGiveUp
<1>8. CASE OpenFails \/ ReplyTimeout \/ TransportError
  <2>1. RetryOrGiveUp /\ pc # "get" /\ UNCHANGED <<env, retryCount, queue, cur>>
    BY <1>8 DEF OpenFails, ReplyTimeout, TransportError
  <2> QED
    BY <1>7, <2>1
<1>9. CASE BackoffElapsed
  BY <1>9, <1>w DEF BackoffElapsed, WorkerOK
<1>10. CASE RemoteStep
  <2>1. UNCHANGED <<env, txState, retryCount, queue, pc, cur>>
    BY <1>10, RemoteFrame DEF aVars
  <2>2. pc = "opening" => srv'[CurConn] = "none"
    BY <1>10, <1>c, <1>w, RemoteFrame DEF WorkerOK
  <2> QED
    BY <1>w, <2>1, <2>2 DEF WorkerOK, CurConn
<1>11. CASE UNCHANGED vars
  BY <1>11, <1>w DEF vars, aVars, bVars, WorkerOK, CurConn
<1> QED
  BY <1>1, <1>2, <1>3, <1>4, <1>5, <1>6, <1>8, <1>9, <1>10, <1>11
     DEF Next, WorkerStep, RemoteStep

-----------------------------------------------------------------------------
(* The inductive invariant: outcomes                                       *)

\* The answers the worker has heard of a transaction are the last attempt's, and
\* the transaction ended as they say.
HeardOK(t) ==
    \A n \in 1..MaxAttempts : heard[<<t, n>>] # "none" =>
        /\ n = retryCount[t]
        /\ \/ heard[<<t, n>>] = "ACK" /\ txState[t] = "ACKED"
           \/ heard[<<t, n>>] = dlReason[t]

\* A refusal was on the wire of the last attempt.
RefusalOK(t) ==
    dlReason[t] \in VettingNack =>
        retryCount[t] \in 1..MaxAttempts /\ reply[<<t, retryCount[t]>>] \in VettingNack

\* The rest of what is known of an outcome.
CountsOK(t) ==
    /\ txState[t] = "NEW" => retryCount[t] = 0
    /\ txState[t] = "ACKED" => \E n \in 1..retryCount[t] : imports[<<t, n>>] = 1
    /\ txState[t] = "FAILED" <=> dlReason[t] # "none"
    /\ dlReason[t] = "UNKNOWN_RECIPIENT_ROUTING" => env[t].recipient \notin Recipients
    /\ dlReason[t] = "MAX_RETRIES_EXCEEDED" => retryCount[t] = MaxAttempts
    /\ dlLines[t] <= (IF txState[t] = "FAILED" THEN 1 ELSE 0)
    /\ telA[t] <= (IF txState[t] = "ACKED" THEN 1 ELSE 0)

\* OutcomeOK is these three together.
LEMMA OutcomeParts ==
    ASSUME NEW t
    PROVE  /\ OutcomeOK(t) <=> CountsOK(t) /\ RefusalOK(t) /\ HeardOK(t)
           /\ OutcomeOK(t)' <=> CountsOK(t)' /\ RefusalOK(t)' /\ HeardOK(t)'
<1>1. OutcomeOK(t) <=> CountsOK(t) /\ RefusalOK(t) /\ HeardOK(t)
  BY Zenon DEF OutcomeOK, CountsOK, RefusalOK, HeardOK
<1>2. OutcomeOK(t)' <=> CountsOK(t)' /\ RefusalOK(t)' /\ HeardOK(t)'
  BY Zenon DEF OutcomeOK, CountsOK, RefusalOK, HeardOK
<1> QED  BY <1>1, <1>2

\* No answer has been heard of a transaction that is not settled.
LEMMA UnsettledUnheard ==
    ASSUME NEW t \in Tx, TypeOK, OutcomeOK(t), txState[t] \notin Terminal
    PROVE  \A n \in 1..MaxAttempts : heard[<<t, n>>] = "none"
BY DEF OutcomeOK, Terminal

\* A step that leaves a transaction alone and keeps the imports made and the
\* answers sent keeps what is known of its outcome.
LEMMA OutcomeSame ==
    ASSUME NEW t \in Tx, TypeOK, OutcomeOK(t), env' = env,
           txState'[t] = txState[t], retryCount'[t] = retryCount[t],
           dlReason'[t] = dlReason[t], dlLines'[t] = dlLines[t], telA'[t] = telA[t],
           \A n \in 1..MaxAttempts : heard'[<<t, n>>] = heard[<<t, n>>],
           \A c \in Conn : imports[c] = 1 => imports'[c] = 1,
           \A c \in Conn : reply[c] # "none" => reply'[c] = reply[c]
    PROVE  OutcomeOK(t)'
<1>0. CountsOK(t) /\ RefusalOK(t) /\ HeardOK(t)
  BY OutcomeParts
<1>1. retryCount[t] \in 0..MaxAttempts
  BY DEF TypeOK
<1>2. \A n \in 1..retryCount[t] : <<t, n>> \in Conn
  BY <1>1 DEF Conn
<1>4. txState'[t] = "ACKED" => \E n \in 1..retryCount'[t] : imports'[<<t, n>>] = 1
  BY <1>0, <1>2 DEF CountsOK
<1>5. CountsOK(t)'
  BY <1>0, <1>4 DEF CountsOK
<1>6. RefusalOK(t)'
  <2>1. retryCount[t] \in 1..MaxAttempts => <<t, retryCount[t]>> \in Conn
    BY DEF Conn
  <2>2. "none" \notin VettingNack
    BY DEF VettingNack
  <2>3. env[t]' = env[t] /\ retryCount[t]' = retryCount[t] /\ dlReason[t]' = dlReason[t]
    OBVIOUS
  <2>4. ASSUME dlReason[t] \in VettingNack
        PROVE  reply'[<<t, retryCount[t]>>] \in VettingNack
    BY <1>0, <2>1, <2>2, <2>4 DEF RefusalOK
  <2> QED  BY <1>0, <2>3, <2>4 DEF RefusalOK
<1>7. HeardOK(t)'
  BY <1>0, Zenon DEF HeardOK
<1> QED
  BY <1>5, <1>6, <1>7, OutcomeParts

\* Giving a transaction up leaves the others alone and records a reason.
LEMMA GiveUpEffect ==
    ASSUME TypeOK, NEW t \in Tx, NEW r \in Reason, GiveUp(t, r)
    PROVE  /\ txState'[t] = "FAILED" /\ dlReason'[t] = r
           /\ dlLines'[t] \in {dlLines[t], dlLines[t] + 1}
           /\ \A u \in Tx : u # t => /\ txState'[u] = txState[u]
                                     /\ dlReason'[u] = dlReason[u]
                                     /\ dlLines'[u] = dlLines[u]
<1>1. PICK w \in {0, 1} : dlLines' = [dlLines EXCEPT ![t] = @ + w]
  BY DEF GiveUp, DeadLetterAdd
<1>2. dlLines \in [Tx -> Nat]
  BY DEF TypeOK
<1>3. /\ dlLines'[t] \in {dlLines[t], dlLines[t] + 1}
      /\ \A u \in Tx : u # t => dlLines'[u] = dlLines[u]
  BY <1>1, <1>2
<1>4. /\ txState'[t] = "FAILED" /\ dlReason'[t] = r
      /\ \A u \in Tx : u # t => txState'[u] = txState[u] /\ dlReason'[u] = dlReason[u]
  BY DEF GiveUp, DeadLetterAdd, TypeOK
<1> QED
  BY <1>3, <1>4

\* Giving an unsettled transaction up is right when the reason is, and when what
\* was heard of it, if anything, is that reason.
LEMMA OutcomeGiveUp ==
    ASSUME TypeOK, TypeOK', NEW t \in Tx, NEW r \in Reason, GiveUp(t, r),
           \A u \in Tx : OutcomeOK(u),
           txState[t] \notin Terminal,
           r \in VettingNack =>
               retryCount[t] \in 1..MaxAttempts /\ reply[<<t, retryCount[t]>>] \in VettingNack,
           r = "UNKNOWN_RECIPIENT_ROUTING" => env[t].recipient \notin Recipients,
           r = "MAX_RETRIES_EXCEEDED" => retryCount[t] = MaxAttempts,
           \A u \in Tx, n \in 1..MaxAttempts :
               \/ heard'[<<u, n>>] = heard[<<u, n>>]
               \/ u = t /\ n = retryCount[t] /\ heard'[<<u, n>>] = r,
           UNCHANGED <<env, retryCount, telA, imports, reply>>
    PROVE  \A u \in Tx : OutcomeOK(u)'
<1> TAKE u \in Tx
<1>1. CASE u # t
  <2>1. txState'[u] = txState[u] /\ dlReason'[u] = dlReason[u] /\ dlLines'[u] = dlLines[u]
    BY <1>1, GiveUpEffect
  <2>2. \A n \in 1..MaxAttempts : heard'[<<u, n>>] = heard[<<u, n>>]
    BY <1>1
  <2> QED
    BY <2>1, <2>2, OutcomeSame
<1>2. CASE u = t
  <2>0. CountsOK(t) /\ RefusalOK(t) /\ HeardOK(t)
    BY OutcomeParts
  <2>1. /\ txState'[t] = "FAILED" /\ dlReason'[t] = r
        /\ dlLines'[t] \in {dlLines[t], dlLines[t] + 1}
    BY GiveUpEffect
  <2>2. dlLines[t] \in Nat /\ telA[t] \in Nat /\ dlLines'[t] \in Nat
    BY DEF TypeOK
  <2>3. dlLines[t] <= 0 /\ telA[t] <= 0
    BY <2>0 DEF CountsOK, Terminal
  <2>4. r # "none"
    BY DEF Reason, NackReply, VettingNack
  <2>6. dlLines'[t] <= 1
    BY <2>1, <2>2, <2>3
  <2>7. CountsOK(t)'
    BY <2>1, <2>3, <2>4, <2>6 DEF CountsOK
  <2>8. RefusalOK(t)'
    BY <2>1 DEF RefusalOK
  <2>9. HeardOK(t)'
    <3>1. \A n \in 1..MaxAttempts : heard[<<t, n>>] = "none"
      BY UnsettledUnheard
    <3> QED  BY <2>1, <3>1, Zenon DEF HeardOK
  <2> QED
    BY <1>2, <2>7, <2>8, <2>9, OutcomeParts
<1> QED
  BY <1>1, <1>2

\* Every step keeps what is known of every outcome.
LEMMA OutcomesStep ==
    ASSUME TypeOK, TypeOK', DeliveryInv, [Next]_vars
    PROVE  \A u \in Tx : OutcomeOK(u)'
<1>w. WorkerOK /\ (\A t \in Tx : OutcomeOK(t)) /\ (\A c \in Conn : HandlerOK(c))
  BY DEF DeliveryInv
<1>c. pc \in {"opening", "write", "drain", "await"} =>
         /\ CurConn \in Conn /\ CurConn[1] = cur
         /\ retryCount[cur] \in 1..MaxAttempts
  BY <1>w DEF WorkerOK, CurConn, Conn, TypeOK
<1>1. ASSUME NEW t \in Tx, Enqueue(t) PROVE \A u \in Tx : OutcomeOK(u)'
  <2> TAKE u \in Tx
  <2>1. UNCHANGED <<env, retryCount, dlReason, dlLines, telA, imports>>
    BY <1>1 DEF Enqueue, bVars
  <2>4. UNCHANGED <<heard, reply>>
    BY <1>1 DEF Enqueue, bVars
  <2>2. CASE u # t
    <3>1. txState'[u] = txState[u]
      BY <1>1, <2>2 DEF Enqueue, TypeOK
    <3> QED
      BY <2>1, <2>4, <3>1, <1>w, OutcomeSame
  <2>3. CASE u = t
    <3>1. txState[t] = "NEW" /\ txState'[t] = "POLICY_APPROVED"
      BY <1>1 DEF Enqueue, TypeOK
    <3>2. CountsOK(t) /\ RefusalOK(t) /\ HeardOK(t)
      BY <1>w, OutcomeParts
    <3>3. CountsOK(t)'
      BY <2>1, <3>1, <3>2 DEF CountsOK
    <3>4. RefusalOK(t)' /\ HeardOK(t)'
      BY <2>1, <2>4, <3>1, <3>2 DEF RefusalOK, HeardOK
    <3> QED
      BY <2>3, <3>3, <3>4, OutcomeParts
  <2> QED
    BY <2>2, <2>3
<1>2. CASE DequeueRoutable \/ OpenSession \/ WriteFrame \/ DrainDone \/ BackoffElapsed
  <2>1. UNCHANGED <<env, txState, retryCount, dlReason, dlLines, telA, imports, heard, reply>>
    BY <1>2 DEF DequeueRoutable, OpenSession, WriteFrame, DrainDone, BackoffElapsed, bVars
  <2> QED
    BY <2>1, <1>w, OutcomeSame
<1>3. CASE DequeueUnroutable
  <2>1. queue \in Seq(Tx) /\ queue # << >>
    BY <1>3 DEF DequeueUnroutable, TypeOK
  <2> DEFINE t == Head(queue)
  <2>2. t \in Tx /\ txState[t] = "POLICY_APPROVED"
    BY <2>1, <1>w, TailElements DEF WorkerOK
  <2>3. /\ GiveUp(t, "UNKNOWN_RECIPIENT_ROUTING") /\ env[t].recipient \notin Recipients
        /\ UNCHANGED <<env, retryCount, telA, imports, heard, reply>>
    BY <1>3 DEF DequeueUnroutable, bVars
  <2>4. /\ "UNKNOWN_RECIPIENT_ROUTING" \in Reason
        /\ "UNKNOWN_RECIPIENT_ROUTING" \notin VettingNack
        /\ txState[t] \notin Terminal
    BY <2>2 DEF Reason, VettingNack, Terminal
  <2> HIDE DEF t
  <2> QED
    BY <2>2, <2>3, <2>4, <1>w, OutcomeGiveUp
<1>4. CASE BeginAttempt
  <2> TAKE u \in Tx
  <2>1. UNCHANGED <<env, dlReason, dlLines, telA, imports>> /\ pc = "attempt"
    BY <1>4 DEF BeginAttempt, bVars
  <2>4. UNCHANGED <<heard, reply>>
    BY <1>4 DEF BeginAttempt, bVars
  <2>2. CASE u # cur
    <3>1. txState'[u] = txState[u] /\ retryCount'[u] = retryCount[u]
      BY <1>4, <2>2 DEF BeginAttempt, TypeOK
    <3> QED
      BY <2>1, <2>4, <3>1, <1>w, OutcomeSame
  <2>3. CASE u = cur
    <3>1. txState[cur] \in {"POLICY_APPROVED", "SENDING"} /\ txState'[cur] = "SENDING"
      BY <1>4, <1>w DEF BeginAttempt, TypeOK, WorkerOK
    <3>2. \A n \in 1..MaxAttempts : heard[<<cur, n>>] = "none"
      BY <2>3, <3>1, <1>w, UnsettledUnheard DEF Terminal
    <3>3. dlReason[cur] = "none"
      BY <3>1, <1>w, <2>3 DEF OutcomeOK
    <3>4. cur' = cur
      BY <1>4 DEF BeginAttempt
    <3>5. dlLines[u] <= 0 /\ telA[u] <= 0
      BY <2>3, <3>1, <1>w DEF OutcomeOK
    <3>6. "none" \notin VettingNack
      BY DEF VettingNack
    <3> QED
      BY <2>1, <2>3, <2>4, <3>1, <3>2, <3>3, <3>4, <3>5, <3>6 DEF OutcomeOK
  <2> QED
    BY <2>2, <2>3
<1>5. CASE ReceiveAck
  <2> TAKE u \in Tx
  <2>1. UNCHANGED <<env, retryCount, dlReason, dlLines, imports, reply>> /\ pc = "await"
    BY <1>5 DEF ReceiveAck, bVars
  <2>h. \A v \in Tx, n \in 1..MaxAttempts :
            heard'[<<v, n>>] = IF v = cur /\ n = retryCount[cur] THEN "ACK"
                               ELSE heard[<<v, n>>]
    <3>1. heard' = [heard EXCEPT ![CurConn] = "ACK"]
      BY <1>5 DEF ReceiveAck, Hear
    <3>2. heard \in [Conn -> NackReply \cup {"none", "ACK"}]
      BY Zenon DEF TypeOK
    <3>3. \A v \in Tx, n \in 1..MaxAttempts : <<v, n>> \in Conn
      BY DEF Conn
    <3> QED  BY <3>1, <3>2, <3>3 DEF CurConn
  <2>2. PICK w \in {0, 1} : telA' = [telA EXCEPT ![cur] = @ + w]
    BY <1>5 DEF ReceiveAck, LogTelemetryA
  <2>3. CASE u # cur
    <3>1. txState'[u] = txState[u] /\ telA'[u] = telA[u]
      BY <1>5, <2>2, <2>3 DEF ReceiveAck, TypeOK
    <3> QED
      BY <2>1, <2>h, <2>3, <3>1, <1>w, OutcomeSame
  <2>4. CASE u = cur
    <3>1. imports[CurConn] = 1
      BY <1>5, <2>1, <1>c, <1>w DEF ReceiveAck, HandlerOK
    <3>2. \E n \in 1..retryCount[u] : imports[<<u, n>>] = 1
      BY <2>1, <2>4, <3>1, <1>c DEF CurConn
    <3>3. txState[u] \in {"POLICY_APPROVED", "SENDING"} /\ txState'[u] = "ACKED"
      BY <1>5, <2>4, <1>w DEF ReceiveAck, TypeOK, WorkerOK
    <3>0. telA \in [Tx -> Nat]
      BY Zenon DEF TypeOK
    <3>4. telA[u] \in Nat /\ telA[u] <= 0 /\ dlLines[u] <= 0 /\ dlReason[u] = "none"
      BY <3>0, <3>3, <1>w DEF OutcomeOK
    <3>5. telA'[u] <= 1
      BY <2>2, <2>4, <3>0, <3>4
    <3>6. "none" \notin VettingNack
      BY DEF VettingNack
    <3>7. \A n \in 1..MaxAttempts : heard[<<u, n>>] = "none"
      BY <3>3, <1>w, UnsettledUnheard DEF Terminal
    <3>8. HeardOK(u)'
      <4>1. \A n \in 1..MaxAttempts :
                heard'[<<u, n>>] # "none" => n = retryCount'[u] /\ heard'[<<u, n>>] = "ACK"
        BY <2>1, <2>h, <2>4, <3>7
      <4> QED
        BY <3>3, <4>1 DEF HeardOK
    <3>9. CountsOK(u)' /\ RefusalOK(u)'
      BY <2>1, <3>2, <3>3, <3>4, <3>5, <3>6 DEF CountsOK, RefusalOK
    <3> QED
      BY <3>8, <3>9, OutcomeParts
  <2> QED
    BY <2>3, <2>4
<1>6. CASE ReceiveNack
  <2> DEFINE r == reply[CurConn]
  <2>1. /\ pc = "await" /\ r \in NackReply /\ GiveUp(cur, r)
        /\ UNCHANGED <<env, retryCount, telA, imports, reply>>
    BY <1>6 DEF ReceiveNack, bVars
  <2>h. \A v \in Tx, n \in 1..MaxAttempts :
            \/ heard'[<<v, n>>] = heard[<<v, n>>]
            \/ v = cur /\ n = retryCount[cur] /\ heard'[<<v, n>>] = r
    <3>1. heard' = [heard EXCEPT ![CurConn] = r]
      BY <1>6 DEF ReceiveNack, Hear
    <3>2. heard \in [Conn -> NackReply \cup {"none", "ACK"}]
      BY Zenon DEF TypeOK
    <3>3. \A v \in Tx, n \in 1..MaxAttempts : <<v, n>> \in Conn
      BY DEF Conn
    <3> HIDE DEF r
    <3> QED  BY <3>1, <3>2, <3>3 DEF CurConn
  <2>2. /\ r \in Reason /\ r # "UNKNOWN_RECIPIENT_ROUTING" /\ r # "MAX_RETRIES_EXCEEDED"
    BY <2>1 DEF Reason, NackReply, VettingNack
  <2>3. r \in VettingNack =>
            retryCount[cur] \in 1..MaxAttempts /\ reply[<<cur, retryCount[cur]>>] \in VettingNack
    BY <2>1, <1>c DEF CurConn
  <2>4. cur \in Tx /\ txState[cur] \notin Terminal
    BY <2>1, <1>w DEF WorkerOK, TypeOK, Terminal
  <2> HIDE DEF r
  <2> QED
    BY <2>1, <2>h, <2>2, <2>3, <2>4, <1>w, OutcomeGiveUp
<1>7. CASE OpenFails \/ ReplyTimeout \/ TransportError
  <2>1. /\ RetryOrGiveUp /\ pc # "get"
        /\ UNCHANGED <<env, retryCount, telA, imports, heard, reply>>
    BY <1>7 DEF OpenFails, ReplyTimeout, TransportError, bVars
  <2>2. CASE UNCHANGED <<txState, deadLetter, dlReason, dlLines>>
    BY <2>1, <2>2, <1>w, OutcomeSame
  <2>3. CASE retryCount[cur] >= MaxAttempts /\ GiveUp(cur, "MAX_RETRIES_EXCEEDED")
    <3>0. retryCount \in [Tx -> 0..MaxAttempts] /\ cur \in Tx
      BY Zenon DEF TypeOK
    <3>1. retryCount[cur] = MaxAttempts /\ cur \in Tx
      BY <2>3, <3>0
    <3>2. txState[cur] \notin Terminal
      BY <2>1, <1>w DEF WorkerOK, Terminal
    <3>3. "MAX_RETRIES_EXCEEDED" \in Reason /\ "MAX_RETRIES_EXCEEDED" \notin VettingNack
      BY DEF Reason, VettingNack
    <3> QED
      BY <2>1, <2>3, <3>1, <3>2, <3>3, <1>w, OutcomeGiveUp
  <2> QED
    BY <2>1, <2>2, <2>3 DEF RetryOrGiveUp
<1>8. CASE RemoteStep
  <2>1. /\ UNCHANGED <<env, txState, retryCount, dlReason, dlLines, telA, heard>>
        /\ \A c \in Conn : imports[c] = 1 => imports'[c] = 1
        /\ \A c \in Conn : reply[c] # "none" => reply'[c] = reply[c]
    BY <1>8, RemoteFrame DEF aVars
  <2> QED
    BY <2>1, <1>w, OutcomeSame
<1>9. CASE UNCHANGED vars
  BY <1>9, <1>w, OutcomeSame DEF vars, aVars, bVars
<1> QED
  BY <1>1, <1>2, <1>3, <1>4, <1>5, <1>6, <1>7, <1>8, <1>9
     DEF Next, WorkerStep, RemoteStep

-----------------------------------------------------------------------------
(* The inductive invariant: the dead-letter deque                          *)

\* Giving up a transaction that is not failed yet keeps the deque sound, also
\* when the deque is full and loses its oldest entry.
LEMMA DeadLetterGiveUp ==
    ASSUME TypeOK, DeadLetterOK, NEW t \in Tx, NEW r \in Reason, GiveUp(t, r),
           txState[t] # "FAILED"
    PROVE  DeadLetterOK'
<1> DEFINE x == [tx |-> t, reason |-> r]
<1>1. x \in Entry /\ x.tx = t /\ deadLetter \in Seq(Entry)
  BY DEF Entry, TypeOK
<1>2. \A i \in DOMAIN deadLetter : deadLetter[i].tx \in Tx
  <2>1. \A i \in DOMAIN deadLetter : deadLetter[i] \in Entry
    BY <1>1
  <2> QED
    BY <2>1 DEF Entry
<1>3. \A i \in DOMAIN deadLetter : deadLetter[i].tx # t
  BY DEF DeadLetterOK
<1>4. txState'[t] = "FAILED" /\ \A u \in Tx : txState[u] = "FAILED" => txState'[u] = "FAILED"
  BY GiveUpEffect
<1>5. ASSUME NEW q \in Seq(Entry), deadLetter' = Append(q, x),
             NEW k \in Nat, \A i \in DOMAIN q : i + k \in DOMAIN deadLetter
                                             /\ q[i] = deadLetter[i + k] /\ i \in Nat
      PROVE  DeadLetterOK'
  <2>1. \A i \in DOMAIN deadLetter' : \/ i \in DOMAIN q /\ deadLetter'[i] = q[i]
                                      \/ i = Len(q) + 1 /\ deadLetter'[i] = x
    BY <1>1, <1>5, AppendElements
  <2>2. ASSUME NEW i \in DOMAIN deadLetter'
        PROVE  txState'[deadLetter'[i].tx] = "FAILED"
    <3>1. CASE i \in DOMAIN q /\ deadLetter'[i] = q[i]
      <4>1. i + k \in DOMAIN deadLetter /\ deadLetter'[i] = deadLetter[i + k]
        BY <3>1, <1>5
      <4>2. txState[deadLetter[i + k].tx] = "FAILED" /\ deadLetter[i + k].tx \in Tx
        BY <4>1, <1>2 DEF DeadLetterOK
      <4> QED
        BY <4>1, <4>2, <1>4
    <3>2. CASE deadLetter'[i] = x
      BY <3>2, <1>1, <1>4
    <3> QED
      BY <2>1, <3>1, <3>2
  <2>3. \A i, j \in DOMAIN deadLetter' :
            deadLetter'[i].tx = deadLetter'[j].tx => i = j
    BY <2>1, <1>1, <1>3, <1>5 DEF DeadLetterOK
  <2> QED
    BY <2>2, <2>3 DEF DeadLetterOK
<1>6. CASE Len(deadLetter) < DeadLetterMax
  <2>1. deadLetter' = Append(deadLetter, x)
    BY <1>6 DEF GiveUp, DeadLetterAdd
  <2>2. \A i \in DOMAIN deadLetter : i \in Nat /\ i + 0 = i
    BY <1>1
  <2> QED
    BY <2>1, <2>2, <1>1, <1>5
<1>7. CASE ~(Len(deadLetter) < DeadLetterMax)
  <2>1. deadLetter # << >>
    BY <1>1, <1>7, LenEmpty
  <2>2. deadLetter' = Append(Tail(deadLetter), x)
    BY <1>7 DEF GiveUp, DeadLetterAdd
  <2>3. /\ Tail(deadLetter) \in Seq(Entry)
        /\ \A i \in DOMAIN Tail(deadLetter) :
              /\ i + 1 \in DOMAIN deadLetter
              /\ Tail(deadLetter)[i] = deadLetter[i + 1] /\ i \in Nat
    BY <1>1, <2>1, TailElements
  <2> QED
    BY <2>2, <2>3, <1>5
<1> QED
  BY <1>6, <1>7

\* Every step keeps the deque sound.
LEMMA DeadLetterStep ==
    ASSUME TypeOK, TypeOK', DeliveryInv, [Next]_vars
    PROVE  DeadLetterOK'
<1>w. WorkerOK /\ DeadLetterOK /\ \A t \in Tx : OutcomeOK(t)
  BY DEF DeliveryInv
<1>0. ASSUME deadLetter' = deadLetter,
             \A u \in Tx : txState[u] = "FAILED" => txState'[u] = "FAILED"
      PROVE  DeadLetterOK'
  <2>0. deadLetter \in Seq(Entry)
    BY Zenon DEF TypeOK
  <2>1. \A i \in DOMAIN deadLetter : deadLetter[i] \in Entry
    BY <2>0
  <2>2. \A i \in DOMAIN deadLetter : deadLetter[i].tx \in Tx
    BY <2>1 DEF Entry
  <2> QED
    BY <1>0, <1>w, <2>2 DEF DeadLetterOK
<1>1. ASSUME NEW t \in Tx, Enqueue(t) PROVE DeadLetterOK'
  <2>1. deadLetter' = deadLetter
    BY <1>1 DEF Enqueue
  <2>2. \A u \in Tx : txState[u] = "FAILED" => txState'[u] = "FAILED"
    BY <1>1 DEF Enqueue, TypeOK
  <2> QED
    BY <2>1, <2>2, <1>0
<1>2. CASE DequeueRoutable \/ OpenSession \/ WriteFrame \/ DrainDone \/ BackoffElapsed
  <2>1. UNCHANGED <<txState, deadLetter>>
    BY <1>2 DEF DequeueRoutable, OpenSession, WriteFrame, DrainDone, BackoffElapsed
  <2> QED
    BY <2>1, <1>0
<1>3. CASE DequeueUnroutable
  <2>1. queue \in Seq(Tx) /\ queue # << >>
    BY <1>3 DEF DequeueUnroutable, TypeOK
  <2>2. Head(queue) \in Tx /\ txState[Head(queue)] # "FAILED"
    BY <2>1, <1>w, TailElements DEF WorkerOK
  <2>3. GiveUp(Head(queue), "UNKNOWN_RECIPIENT_ROUTING")
    BY <1>3 DEF DequeueUnroutable
  <2>4. "UNKNOWN_RECIPIENT_ROUTING" \in Reason
    BY DEF Reason
  <2> QED
    BY <2>2, <2>3, <2>4, <1>w, DeadLetterGiveUp
<1>4. CASE BeginAttempt \/ ReceiveAck
  <2>1. deadLetter' = deadLetter /\ pc # "get"
    BY <1>4 DEF BeginAttempt, ReceiveAck
  <2>2. txState[cur] # "FAILED"
    BY <2>1, <1>w DEF WorkerOK
  <2>3. \A u \in Tx : u # cur => txState'[u] = txState[u]
    BY <1>4 DEF BeginAttempt, ReceiveAck, TypeOK
  <2> QED
    BY <2>1, <2>2, <2>3, <1>0
<1>5. CASE ReceiveNack
  <2>1. GiveUp(cur, reply[CurConn]) /\ reply[CurConn] \in Reason /\ pc # "get"
    BY <1>5 DEF ReceiveNack, Reason
  <2>2. cur \in Tx /\ txState[cur] # "FAILED"
    BY <2>1, <1>w DEF WorkerOK, TypeOK
  <2> QED
    BY <2>1, <2>2, <1>w, DeadLetterGiveUp
<1>6. CASE OpenFails \/ ReplyTimeout \/ TransportError
  <2>1. RetryOrGiveUp /\ pc # "get"
    BY <1>6 DEF OpenFails, ReplyTimeout, TransportError
  <2>2. cur \in Tx /\ txState[cur] # "FAILED"
    BY <2>1, <1>w DEF WorkerOK, TypeOK
  <2>3. CASE UNCHANGED <<txState, deadLetter, dlReason, dlLines>>
    BY <2>3, <1>0
  <2>4. CASE GiveUp(cur, "MAX_RETRIES_EXCEEDED")
    <3>1. "MAX_RETRIES_EXCEEDED" \in Reason
      BY DEF Reason
    <3> QED
      BY <2>2, <2>4, <3>1, <1>w, DeadLetterGiveUp
  <2> QED
    BY <2>1, <2>3, <2>4 DEF RetryOrGiveUp
<1>7. CASE RemoteStep
  <2>1. UNCHANGED <<txState, deadLetter>>
    BY <1>7, RemoteFrame DEF aVars
  <2> QED
    BY <2>1, <1>0
<1>8. CASE UNCHANGED vars
  BY <1>8, <1>0 DEF vars, aVars
<1> QED
  BY <1>1, <1>2, <1>3, <1>4, <1>5, <1>6, <1>7, <1>8
     DEF Next, WorkerStep, RemoteStep

-----------------------------------------------------------------------------
(* Safety                                                                  *)

\* DeliveryInv is inductive.
THEOREM DeliveryInvariant == Spec => []DeliveryInv
<1>1. Init => DeliveryInv
  <2> SUFFICES ASSUME Init PROVE DeliveryInv
    OBVIOUS
  <2>1. ASSUME NEW c \in Conn PROVE HandlerOK(c)
    <3>1. "none" \notin VettingNack /\ c[1] \in Tx /\ c[2] \in 1..MaxAttempts
      BY ConnParts DEF VettingNack
    <3> QED
      BY <3>1 DEF Init, HandlerOK
  <2>2. WorkerOK
    BY DEF Init, WorkerOK
  <2>3. ASSUME NEW t \in Tx PROVE OutcomeOK(t)
    <3>1. "none" \notin VettingNack
      BY DEF VettingNack
    <3>2. \A n \in 1..MaxAttempts : heard[<<t, n>>] = "none"
      BY DEF Init, Conn
    <3>3. /\ txState[t] = "NEW" /\ retryCount[t] = 0 /\ dlReason[t] = "none"
          /\ dlLines[t] = 0 /\ telA[t] = 0
      BY DEF Init
    <3> QED
      BY <3>1, <3>2, <3>3 DEF OutcomeOK
  <2>4. DeadLetterOK
    BY DEF Init, DeadLetterOK
  <2> QED
    BY <2>1, <2>2, <2>3, <2>4 DEF DeliveryInv
<1>2. TypeOK /\ TypeOK' /\ DeliveryInv /\ [Next]_vars => DeliveryInv'
  <2> SUFFICES ASSUME TypeOK, TypeOK', DeliveryInv, [Next]_vars PROVE DeliveryInv'
    OBVIOUS
  <2>1. \A c \in Conn : HandlerOK(c)'
    BY HandlersStep
  <2>2. WorkerOK'
    BY WorkerStepOK
  <2>3. \A t \in Tx : OutcomeOK(t)'
    BY OutcomesStep
  <2>4. DeadLetterOK'
    BY DeadLetterStep
  <2>5. Conn' = Conn
    BY DEF Conn
  <2> QED
    BY <2>1, <2>2, <2>3, <2>4, <2>5 DEF DeliveryInv
<1> QED
  BY <1>1, <1>2, TypeCorrect, PTL DEF Spec

\* A transaction Gateway A counts as ACKED was imported: proved from the part of
\* the invariant that an ACK is only ever on the wire after the import.
THEOREM AckedImported == Spec => []AckedWasImported
<1>1. TypeOK /\ DeliveryInv => AckedWasImported
  <2> SUFFICES ASSUME DeliveryInv, NEW t \in Tx, txState[t] = "ACKED"
               PROVE  \E n \in 1..retryCount[t] : imports[<<t, n>>] >= 1
    BY DEF AckedWasImported
  <2>1. OutcomeOK(t)
    BY DEF DeliveryInv
  <2>2. PICK n \in 1..retryCount[t] : imports[<<t, n>>] = 1
    BY <2>1, OutcomeParts DEF CountsOK
  <2> QED
    BY <2>2
<1> QED
  BY <1>1, TypeCorrect, DeliveryInvariant, PTL

\* No bundle is imported more often than attempts were made.
THEOREM ImportsBounded == Spec => []ImportsWithinAttempts
<1>1. TypeOK /\ DeliveryInv => ImportsWithinAttempts
  <2> SUFFICES ASSUME TypeOK, DeliveryInv, NEW c \in Conn
               PROVE  imports[c] <= 1 /\ (imports[c] = 1 => c[2] <= retryCount[c[1]])
    BY DEF ImportsWithinAttempts
  <2>1. HandlerOK(c)
    BY DEF DeliveryInv
  <2>2. c[2] \in 1..MaxAttempts /\ retryCount[c[1]] \in 0..MaxAttempts
    BY ConnParts DEF TypeOK
  <2> QED
    BY <2>1, <2>2 DEF HandlerOK
<1> QED
  BY <1>1, TypeCorrect, DeliveryInvariant, PTL

\* The ingestor only receives bundles that every gate of Gateway B let through.
THEOREM ImportedVouchedFor == Spec => []OnlyVouchedForImported
<1>1. TypeOK /\ DeliveryInv => OnlyVouchedForImported
  <2> SUFFICES ASSUME TypeOK, DeliveryInv, NEW c \in Conn, imports[c] > 0
               PROVE  LET e == Received(c)
                          ts == judged[c] IN
                      /\ e.sender \in DOMAIN ts.agencies
                      /\ e.peer = ts.agencies[e.sender].tls
                      /\ e.signer = ts.agencies[e.sender].pub
                      /\ {e.peer, ts.agencies[e.sender].key} \cap ts.revoked = {}
                      /\ PepAllows(Rules, e)
                      /\ env[c[1]].size # "oversize" /\ env[c[1]].recipient \in Recipients
    BY Zenon DEF OnlyVouchedForImported
  <2> DEFINE e == Received(c)
             ts == judged[c]
  <2>1. HandlerOK(c) /\ imports[c] = 1
    BY DEF DeliveryInv, HandlerOK
  <2>2. /\ Verdict(ts, Rules, e) = "ACCEPT"
        /\ env[c[1]].size # "oversize" /\ env[c[1]].recipient \in Recipients
    BY <2>1 DEF HandlerOK, Importable
  <2> HIDE DEF e, ts
  <2>3. FailedGates(ts, Rules, e) = {}
    BY <2>2, VerdictMeaning
  <2>5. KnownSender(ts, e) /\ PepAllows(Rules, e)
    BY <2>3, GatesPassed
  <2>6. TlsIdentityMatches(ts, e) /\ NotRevoked(ts, e) /\ SignatureValid(ts, e)
    BY <2>3, GatesPassed
  <2>7. {e.peer, ts.agencies[e.sender].key} \cap ts.revoked = {}
    BY <2>6 DEF NotRevoked
  <2>8. /\ e.sender \in DOMAIN ts.agencies
        /\ e.peer = ts.agencies[e.sender].tls
        /\ e.signer = ts.agencies[e.sender].pub
    BY <2>5, <2>6 DEF KnownSender, TlsIdentityMatches, SignatureValid
  <2> QED
    BY <2>2, <2>5, <2>7, <2>8 DEF e, ts
<1> QED
  BY <1>1, TypeCorrect, DeliveryInvariant, PTL

\* The evidence a handler judges by decides: on the same trust store and the same
\* certificate two handlers of one transaction let it through or both do not.
LEMMA SameEvidence ==
    ASSUME NEW c \in Conn, NEW d \in Conn, c[1] = d[1], Evidence(c) = Evidence(d)
    PROVE  Importable(c) <=> Importable(d)
<1>1. judged[c] = judged[d] /\ peer[c] = peer[d]
  BY DEF Evidence
<1>2. Received(c) = Received(d)
  BY <1>1 DEF Received
<1> QED  BY <1>1, <1>2 DEF Importable

\* A refusal is true of the attempt it answers, and an import of the same
\* transaction was decided on another trust store or another certificate; without
\* a route there is no import at all.
THEOREM RefusalsTrue == Spec => []RefusalHolds
<1>1. TypeOK /\ DeliveryInv => RefusalHolds
  <2> SUFFICES ASSUME TypeOK, DeliveryInv, NEW t \in Tx
               PROVE  LET last == <<t, retryCount[t]>> IN
                      /\ dlReason[t] \in VettingNack =>
                            /\ imports[last] = 0
                            /\ \A n \in 1..MaxAttempts : imports[<<t, n>>] > 0 =>
                                  n < retryCount[t] /\ Evidence(<<t, n>>) # Evidence(last)
                      /\ dlReason[t] = "UNKNOWN_RECIPIENT_ROUTING" =>
                            \A n \in 1..MaxAttempts : imports[<<t, n>>] = 0
    BY Zenon DEF RefusalHolds
  <2> DEFINE last == <<t, retryCount[t]>>
  <2>1. OutcomeOK(t) /\ retryCount[t] \in 0..MaxAttempts
    BY DEF DeliveryInv, TypeOK
  <2>2. \A n \in 1..MaxAttempts : <<t, n>> \in Conn /\ HandlerOK(<<t, n>>)
    BY DEF DeliveryInv, Conn
  <2>3. ASSUME dlReason[t] \in VettingNack
        PROVE  /\ imports[last] = 0
               /\ \A n \in 1..MaxAttempts : imports[<<t, n>>] > 0 =>
                     n < retryCount[t] /\ Evidence(<<t, n>>) # Evidence(last)
    <3>1. retryCount[t] \in 1..MaxAttempts /\ reply[last] \in VettingNack
      BY <2>1, <2>3 DEF OutcomeOK
    <3>2. last \in Conn /\ HandlerOK(last)
      BY <2>2, <3>1
    <3>3. ~Importable(last) /\ imports[last] = 0
      BY <3>1, <3>2 DEF HandlerOK
    <3>4. ASSUME NEW n \in 1..MaxAttempts, imports[<<t, n>>] > 0
          PROVE  n < retryCount[t] /\ Evidence(<<t, n>>) # Evidence(last)
      <4>1. <<t, n>> \in Conn /\ HandlerOK(<<t, n>>)
        BY <2>2
      <4>2. imports[<<t, n>>] = 1 /\ Importable(<<t, n>>)
        BY <3>4, <4>1 DEF HandlerOK
      <4>3. ~(n > retryCount[t])
        BY <4>1, <4>2 DEF HandlerOK
      <4>4. n # retryCount[t]
        BY <3>3, <3>4
      <4>5. Evidence(<<t, n>>) # Evidence(last)
        <5>1. last[1] = t /\ <<t, n>>[1] = t
          OBVIOUS
        <5> HIDE DEF last
        <5> QED  BY <3>2, <3>3, <4>1, <4>2, <5>1, SameEvidence
      <4>6. n < retryCount[t]
        BY <4>3, <4>4, <3>1
      <4> QED  BY <4>5, <4>6
    <3> QED  BY <3>3, <3>4
  <2>4. ASSUME dlReason[t] = "UNKNOWN_RECIPIENT_ROUTING", NEW n \in 1..MaxAttempts
        PROVE  imports[<<t, n>>] = 0
    <3>1. env[t].recipient \notin Recipients /\ HandlerOK(<<t, n>>)
      BY <2>1, <2>2, <2>4 DEF OutcomeOK
    <3> QED  BY <3>1 DEF HandlerOK
  <2> QED  BY <2>3, <2>4
<1> QED
  BY <1>1, TypeCorrect, DeliveryInvariant, PTL

\* Every transaction has one outcome and is dead-lettered at most once.
THEOREM OutcomesUnique == Spec => []OneOutcome
<1>1. DeliveryInv => OneOutcome
  BY DEF DeliveryInv, OutcomeOK, DeadLetterOK, OneOutcome
<1> QED
  BY <1>1, DeliveryInvariant, PTL

\* A telemetry line of either gateway tells of a bundle the ingestor took.
THEOREM TelemetryTrue == Spec => []TelemetryTellsOfImports
<1>1. TypeOK /\ DeliveryInv => TelemetryTellsOfImports
  <2> SUFFICES ASSUME TypeOK, DeliveryInv PROVE TelemetryTellsOfImports
    OBVIOUS
  <2>1. \A c \in Conn : telB[c] <= imports[c]
    BY DEF DeliveryInv, HandlerOK
  <2>2. ASSUME NEW t \in Tx, telA[t] > 0
        PROVE  \E n \in 1..MaxAttempts : imports[<<t, n>>] >= 1
    <3>1. OutcomeOK(t) /\ telA[t] \in Nat /\ retryCount[t] \in 0..MaxAttempts
      BY DEF DeliveryInv, TypeOK
    <3>2. txState[t] = "ACKED"
      BY <3>1, <2>2 DEF OutcomeOK
    <3>3. PICK n \in 1..retryCount[t] : imports[<<t, n>>] = 1
      BY <3>1, <3>2 DEF OutcomeOK
    <3>4. n \in 1..MaxAttempts
      BY <3>1
    <3> QED
      BY <3>3, <3>4
  <2> QED
    BY <2>1, <2>2 DEF TelemetryTellsOfImports
<1> QED
  BY <1>1, TypeCorrect, DeliveryInvariant, PTL

\* What send_envelope returned is how the transaction ended, and nothing was tried
\* after it; the attempts were used up only if none of them was answered in time.
THEOREM AnswersDecide == Spec => []AnswerHeardDecides
<1>1. TypeOK /\ DeliveryInv => AnswerHeardDecides
  <2> SUFFICES ASSUME TypeOK, DeliveryInv, NEW t \in Tx
               PROVE  /\ HeardOK(t)
                      /\ dlReason[t] = "MAX_RETRIES_EXCEEDED" =>
                            /\ retryCount[t] = MaxAttempts
                            /\ \A n \in 1..MaxAttempts : heard[<<t, n>>] = "none"
    BY Zenon DEF AnswerHeardDecides, HeardOK
  <2>1. CountsOK(t) /\ HeardOK(t)
    BY OutcomeParts DEF DeliveryInv
  <2>2. ASSUME dlReason[t] = "MAX_RETRIES_EXCEEDED", NEW n \in 1..MaxAttempts
        PROVE  heard[<<t, n>>] = "none"
    <3>1. heard[<<t, n>>] \in NackReply \cup {"none", "ACK"}
      BY DEF TypeOK, Conn
    <3>2. "MAX_RETRIES_EXCEEDED" \notin NackReply /\ "ACK" # "MAX_RETRIES_EXCEEDED"
      BY DEF NackReply, VettingNack
    <3>3. txState[t] = "FAILED" /\ "FAILED" # "ACKED" /\ dlReason[t] # "none"
      BY <2>1, <2>2 DEF CountsOK
    <3> QED  BY <2>1, <2>2, <3>1, <3>2, <3>3 DEF HeardOK
  <2> QED  BY <2>1, <2>2 DEF CountsOK
<1> QED
  BY <1>1, TypeCorrect, DeliveryInvariant, PTL

-----------------------------------------------------------------------------
(* Settled transactions                                                    *)

\* A step of the worker on its current transaction leaves every settled one
\* alone, since the current one is not settled.
LEMMA WorkerLeavesSettled ==
    ASSUME TypeOK, WorkerOK, NEW t \in Tx, txState[t] \in Terminal,
           WorkerStep \/ \E u \in Tx : Enqueue(u)
    PROVE  /\ txState'[t] = txState[t]
           /\ retryCount'[t] = retryCount[t]
           /\ dlReason'[t] = dlReason[t]
           /\ \A n \in 1..MaxAttempts : cliOpen'[<<t, n>>] => cliOpen[<<t, n>>]
<1> DEFINE Same == /\ txState'[t] = txState[t]
                   /\ retryCount'[t] = retryCount[t]
                   /\ dlReason'[t] = dlReason[t]
                   /\ \A n \in 1..MaxAttempts : cliOpen'[<<t, n>>] => cliOpen[<<t, n>>]
<1> USE DEF Terminal, linkVars
<1>a. /\ txState \in [Tx -> TxState] /\ dlReason \in [Tx -> Reason \cup {"none"}]
      /\ retryCount \in [Tx -> 0..MaxAttempts] /\ cliOpen \in [Conn -> BOOLEAN]
      /\ queue \in Seq(Tx) /\ cur \in Tx
  BY DEF TypeOK
<1>b. pc # "get" => cur # t
  BY DEF WorkerOK
<1>c. queue # << >> => Head(queue) # t
  BY <1>a DEF WorkerOK
<1>d. ASSUME NEW u \in Tx, u # t, NEW r, GiveUp(u, r)
      PROVE  txState'[t] = txState[t] /\ dlReason'[t] = dlReason[t]
  BY <1>a, <1>d DEF GiveUp, DeadLetterAdd
<1>e. ASSUME RetryOrGiveUp, cur # t
      PROVE  txState'[t] = txState[t] /\ dlReason'[t] = dlReason[t]
  BY <1>a, <1>d, <1>e DEF RetryOrGiveUp
<1>f. ASSUME CloseSession
      PROVE  \A n \in 1..MaxAttempts : cliOpen'[<<t, n>>] => cliOpen[<<t, n>>]
  BY <1>a, <1>f DEF CloseSession, Conn
<1>1. CASE \E u \in Tx : Enqueue(u)
  BY <1>1, <1>a DEF Enqueue
<1>2. CASE DequeueRoutable \/ WriteFrame \/ DrainDone \/ BackoffElapsed
  BY <1>2 DEF DequeueRoutable, WriteFrame, DrainDone, BackoffElapsed
<1>3. CASE DequeueUnroutable
  <2>1. Head(queue) \in Tx /\ Head(queue) # t
    BY <1>3, <1>a, <1>c DEF DequeueUnroutable
  <2> QED
    BY <1>3, <2>1, <1>d DEF DequeueUnroutable
<1>4. CASE BeginAttempt
  BY <1>4, <1>a, <1>b DEF BeginAttempt
<1>5. CASE OpenSession
  BY <1>5, <1>a, <1>b DEF OpenSession, CurConn, Conn
<1>6. CASE OpenFails
  BY <1>6, <1>b, <1>e DEF OpenFails
<1>7. CASE ReceiveAck
  BY <1>7, <1>a, <1>b, <1>f DEF ReceiveAck
<1>8. CASE ReceiveNack
  BY <1>8, <1>a, <1>b, <1>d, <1>f DEF ReceiveNack
<1>9. CASE ReplyTimeout \/ TransportError
  <2>1. pc # "get" /\ CloseSession /\ RetryOrGiveUp /\ UNCHANGED retryCount
    BY <1>9 DEF ReplyTimeout, TransportError
  <2> QED
    BY <2>1, <1>b, <1>e, <1>f
<1> QED
  BY <1>1, <1>2, <1>3, <1>4, <1>5, <1>6, <1>7, <1>8, <1>9 DEF WorkerStep

\* A settled transaction stays settled and is never sent again: no late reply,
\* timer, handler, crash or restart reopens it; and no connection is answered twice.
THEOREM SettledStaysSettled == Spec => SettledIsFinal
<1> DEFINE Settled == \A t \in Tx : txState[t] \in Terminal =>
                         /\ txState'[t] = txState[t]
                         /\ retryCount'[t] = retryCount[t]
                         /\ dlReason'[t] = dlReason[t]
                         /\ \A n \in 1..MaxAttempts : cliOpen'[<<t, n>>] => cliOpen[<<t, n>>]
           AnsweredOnce == \A c \in Conn : reply[c] # "none" => reply'[c] = reply[c]
<1>1. ASSUME TypeOK, DeliveryInv, [Next]_vars, NEW t \in Tx, txState[t] \in Terminal
      PROVE  /\ txState'[t] = txState[t]
             /\ retryCount'[t] = retryCount[t]
             /\ dlReason'[t] = dlReason[t]
             /\ \A n \in 1..MaxAttempts : cliOpen'[<<t, n>>] => cliOpen[<<t, n>>]
  <2>1. CASE WorkerStep \/ \E u \in Tx : Enqueue(u)
    BY <1>1, <2>1, WorkerLeavesSettled DEF DeliveryInv
  <2>2. ASSUME NEW c \in Conn, HandlerStep(c)
        PROVE  UNCHANGED <<txState, retryCount, dlReason, cliOpen>>
    BY <2>2 DEF HandlerStep, LoopStep, IngestStep, AcquirePermit, RejectFrame, AcceptFrame,
                RejectOversize, ReadEnds, IngestLands, IngestReturns, IngestFails, SendAck,
                LogTelemetry, aVars, linkVars
  <2>3. ASSUME \/ CrashB \/ RestartB \/ KeyBecomesReadable
               \/ (\E c \in Conn : LinkFails(c)) \/ UNCHANGED vars
        PROVE  UNCHANGED <<txState, retryCount, dlReason, cliOpen>>
    BY <2>3 DEF CrashB, RestartB, KeyBecomesReadable, LinkFails, vars, aVars, linkVars
  <2> QED
    BY <1>1, <2>1, <2>2, <2>3 DEF Next
<1>2. ASSUME TypeOK, DeliveryInv, [Next]_vars
      PROVE  AnsweredOnce
  <2>1. CASE WorkerStep \/ \E u \in Tx : Enqueue(u)
    <3>1. reply' = reply
      BY <2>1 DEF WorkerStep, Enqueue, DequeueRoutable, DequeueUnroutable, BeginAttempt,
                  OpenSession, OpenFails, WriteFrame, DrainDone, ReceiveAck, ReceiveNack,
                  ReplyTimeout, TransportError, BackoffElapsed, bVars
    <3> QED  BY <3>1
  <2>2. CASE RemoteStep
    BY <1>2, <2>2, RemoteFrame
  <2>3. CASE UNCHANGED vars
    BY <2>3 DEF vars, bVars
  <2> QED
    BY <1>2, <2>1, <2>2, <2>3 DEF Next, RemoteStep
<1>3. TypeOK /\ DeliveryInv /\ [Next]_vars => [Settled /\ AnsweredOnce]_vars
  BY <1>1, <1>2
<1> QED
  BY <1>3, TypeCorrect, DeliveryInvariant, PTL DEF Spec, SettledIsFinal
=============================================================================
