--------------------------- MODULE PipelineProofs ---------------------------
(***************************************************************************)
(* Proofs about GatewayAPipeline, for feeds of any length, any contents,   *)
(* tags filter and policy table, and any size of the queues.               *)
(***************************************************************************)
EXTENDS GatewayAPipeline, FiniteSetTheorems, WellFoundedInduction, TLAPS

USE PipelineAssumption

-----------------------------------------------------------------------------
(* Type correctness                                                        *)

\* A task holds an event exactly while it works on it or waits to put it.
HandsOK ==
    /\ listener.pc = "put" <=> listener.ev # 0
    /\ \A s \in Stage : w[s].pc \in {"work", "put"} <=> w[s].ev # 0

\* What a sequence of events is after its head is taken, and after an append.
LEMMA EventSeqs ==
    ASSUME NEW s \in Seq(Event)
    PROVE  /\ Len(s) \in Nat /\ DOMAIN s = 1..Len(s)
           /\ \A k \in DOMAIN s : s[k] \in Event
           /\ s # << >> => /\ Head(s) \in Event /\ Tail(s) \in Seq(Event)
                           /\ Len(Tail(s)) = Len(s) - 1
           /\ \A x \in Event : /\ Append(s, x) \in Seq(Event)
                               /\ Len(Append(s, x)) = Len(s) + 1
  OBVIOUS

\* A worker that goes round its loop holds nothing.
LEMMA NextRoundType ==
    NextRound \in Holder /\ NextRound.ev = 0 /\ NextRound.pc \in {"get", "done"}
  BY DEF NextRound, Idle, Holder

\* Taking the oldest item leaves a queue within its bound.
LEMMA QueueShortens ==
    ASSUME PipelineTypeOK, NEW s \in Stage, q[s] # << >>, q' = [q EXCEPT ![s] = Tail(@)]
    PROVE  /\ q' \in [Stage -> Seq(Event)] /\ \A r \in Stage : Len(q'[r]) <= QueueMax[r]
           /\ Head(q[s]) \in Event
<1>1. q[s] \in Seq(Event) /\ q \in [Stage -> Seq(Event)]
  BY DEF PipelineTypeOK
<1>2. Head(q[s]) \in Event /\ Tail(q[s]) \in Seq(Event) /\ Len(Tail(q[s])) = Len(q[s]) - 1
      /\ Len(q[s]) \in Nat
  BY <1>1, EventSeqs
<1>3. q' \in [Stage -> Seq(Event)]
  BY <1>1, <1>2
<1>4. ASSUME NEW r \in Stage PROVE Len(q'[r]) <= QueueMax[r]
  <2>1. CASE r = s
    <3>1. q'[r] = Tail(q[s]) /\ Len(q[s]) <= QueueMax[s] /\ QueueMax[s] \in Nat
      BY <1>1, <2>1 DEF PipelineTypeOK
    <3> QED
      BY <1>2, <2>1, <3>1
  <2>2. CASE r # s
    BY <1>1, <2>2 DEF PipelineTypeOK
  <2> QED
    BY <2>1, <2>2
<1> QED
  BY <1>2, <1>3, <1>4

\* A put that waited for room leaves the queue within its bound.
LEMMA QueueGrows ==
    ASSUME PipelineTypeOK, NEW s \in Stage, NEW x \in Event, Len(q[s]) < QueueMax[s],
           q' = [q EXCEPT ![s] = Append(@, x)]
    PROVE  q' \in [Stage -> Seq(Event)] /\ \A r \in Stage : Len(q'[r]) <= QueueMax[r]
<1>1. q[s] \in Seq(Event) /\ q \in [Stage -> Seq(Event)]
  BY DEF PipelineTypeOK
<1>2. Append(q[s], x) \in Seq(Event) /\ Len(Append(q[s], x)) = Len(q[s]) + 1
      /\ Len(q[s]) \in Nat
  BY <1>1, EventSeqs
<1>3. q' \in [Stage -> Seq(Event)]
  BY <1>1, <1>2
<1>4. ASSUME NEW r \in Stage PROVE Len(q'[r]) <= QueueMax[r]
  <2>1. CASE r = s
    <3>1. q'[r] = Append(q[s], x) /\ QueueMax[s] \in Nat
      BY <1>1, <2>1
    <3> QED
      BY <1>2, <2>1, <3>1
  <2>2. CASE r # s
    BY <1>1, <2>2 DEF PipelineTypeOK
  <2> QED
    BY <2>1, <2>2
<1> QED
  BY <1>3, <1>4

\* The types of the workers' hands after one of them changes.
LEMMA HandChanges ==
    ASSUME PipelineTypeOK, HandsOK, NEW s \in Stage, NEW h \in Holder,
           h.pc \in {"work", "put"} <=> h.ev # 0, w' = [w EXCEPT ![s] = h]
    PROVE  /\ w' \in [Stage -> Holder]
           /\ \A r \in Stage : w'[r].pc \in {"work", "put"} <=> w'[r].ev # 0
           /\ w'[s] = h
  BY DEF PipelineTypeOK, HandsOK

\* in_queue.get: the worker holds the oldest item.
LEMMA TakeType ==
    ASSUME PipelineTypeOK, HandsOK, NEW s \in Stage, NEW pc \in {"work", "put"}, Take(s, pc)
    PROVE  /\ q' \in [Stage -> Seq(Event)] /\ \A r \in Stage : Len(q'[r]) <= QueueMax[r]
           /\ w' \in [Stage -> Holder] /\ Head(q[s]) \in Event
           /\ \A r \in Stage : w'[r].pc \in {"work", "put"} <=> w'[r].ev # 0
           /\ w'[s] = [pc |-> pc, ev |-> Head(q[s])]
<1> DEFINE h == [pc |-> pc, ev |-> Head(q[s])]
<1>1. q[s] # << >> /\ q' = [q EXCEPT ![s] = Tail(@)] /\ w' = [w EXCEPT ![s] = h]
  BY DEF Take
<1>2. Head(q[s]) \in Event
  BY <1>1, QueueShortens
<1>3. h \in Holder /\ (h.pc \in {"work", "put"} <=> h.ev # 0)
  BY <1>2 DEF Holder, Event
<1> QED
  BY <1>1, <1>3, QueueShortens, HandChanges

\* The same when the item goes no further.
LEMMA TakeAndDropType ==
    ASSUME PipelineTypeOK, HandsOK, NEW s \in Stage, NEW how \in Fate, TakeAndDrop(s, how)
    PROVE  /\ q' \in [Stage -> Seq(Event)] /\ \A r \in Stage : Len(q'[r]) <= QueueMax[r]
           /\ w' \in [Stage -> Holder] /\ Head(q[s]) \in Event
           /\ \A r \in Stage : w'[r].pc \in {"work", "put"} <=> w'[r].ev # 0
           /\ fate' \in [Event -> Fate \cup {"none"}]
<1>1. q[s] # << >> /\ q' = [q EXCEPT ![s] = Tail(@)] /\ w' = [w EXCEPT ![s] = NextRound]
  BY DEF TakeAndDrop
<1>2. fate' \in [Event -> Fate \cup {"none"}]
  BY DEF TakeAndDrop, PipelineTypeOK
<1> QED
  BY <1>1, <1>2, QueueShortens, HandChanges, NextRoundType

\* Closing the socket gives every event it held a fate.
LEMMA CloseSocketType ==
    ASSUME NEW f \in [Event -> Fate \cup {"none"}], CloseSocket(f)
    PROVE  sub' = << >> /\ fate' \in [Event -> Fate \cup {"none"}]
<1>1. "missed" \in Fate
  BY DEF Fate
<1> QED
  BY <1>1 DEF CloseSocket

\* Every step keeps the types, the bounds of the queues and the hands.
LEMMA PipelineTypeStep ==
    ASSUME PipelineTypeOK, HandsOK, [Next]_vars
    PROVE  PipelineTypeOK' /\ HandsOK'
<1> DEFINE ListenerT == [pc : {"recv", "put", "sleep", "done", "down"}, ev : 0..NumEvents]
           Goal == PipelineTypeOK' /\ HandsOK'
<1> USE DEF TransactionState
<1>l. \A v \in {"recv", "sleep", "done", "down"} : [pc |-> v, ev |-> 0] \in ListenerT
  OBVIOUS
<1>f. {"missed", "dropped", "rejected", "unsigned", "denied", "failed", "acked", "lost"}
        \subseteq Fate
  BY DEF Fate
<1>n. NextRound \in Holder /\ NextRound.ev = 0 /\ NextRound.pc \in {"get", "done"}
  BY NextRoundType
<1>s. sub # << >> => Head(sub) \in Event /\ Tail(sub) \in Seq(Event) /\ Len(Tail(sub)) <= SubHwm
  <2>1. sub \in Seq(Event) /\ Len(sub) <= SubHwm
    BY DEF PipelineTypeOK
  <2> QED
    BY <2>1, EventSeqs
<1>e. << >> \in Seq(Event) /\ Len(<< >>) = 0
  OBVIOUS
<1>1. CASE Publish
  <2>1. published + 1 \in Event /\ published' \in 0..NumEvents
    BY <1>1 DEF Publish, PipelineTypeOK, Event
  <2>2. sub' \in Seq(Event) /\ Len(sub') <= SubHwm
    <3>1. sub \in Seq(Event) /\ Len(sub) <= SubHwm
      BY DEF PipelineTypeOK
    <3>2. CASE Len(sub) < SubHwm /\ sub' = Append(sub, published + 1)
      BY <2>1, <3>1, <3>2, EventSeqs
    <3> QED
      BY <1>1, <3>1, <3>2 DEF Publish
  <2>3. fate' \in [Event -> Fate \cup {"none"}]
    BY <1>1, <1>f DEF Publish, PipelineTypeOK
  <2> QED
    BY <1>1, <2>1, <2>2, <2>3 DEF Publish, PipelineTypeOK, HandsOK
<1>2. CASE Accept
  <2>1. Head(sub) \in Event /\ Tail(sub) \in Seq(Event) /\ Len(Tail(sub)) <= SubHwm
    BY <1>2, <1>s DEF Accept
  <2>2. [pc |-> "put", ev |-> Head(sub)] \in ListenerT /\ Head(sub) # 0
    BY <2>1 DEF Event
  <2> QED
    BY <1>2, <2>1, <2>2 DEF Accept, PipelineTypeOK, HandsOK
<1>3. CASE Ignore
  <2>1. Tail(sub) \in Seq(Event) /\ Len(Tail(sub)) <= SubHwm
    BY <1>3, <1>s DEF Ignore
  <2>2. fate' \in [Event -> Fate \cup {"none"}]
    BY <1>3, <1>f DEF Ignore, PipelineTypeOK
  <2> QED
    BY <1>3, <2>1, <2>2 DEF Ignore, PipelineTypeOK, HandsOK
<1>4. CASE Choke
  <2>1. [fate EXCEPT ![Head(sub)] = "dropped"] \in [Event -> Fate \cup {"none"}]
    BY <1>f DEF PipelineTypeOK
  <2>2. sub' = << >> /\ fate' \in [Event -> Fate \cup {"none"}]
    BY <1>4, <2>1, CloseSocketType DEF Choke
  <2> QED
    BY <1>4, <2>2, <1>l, <1>e DEF Choke, PipelineTypeOK, HandsOK
<1>5. CASE SocketError
  <2>1. sub' = << >> /\ fate' \in [Event -> Fate \cup {"none"}]
    BY <1>5, CloseSocketType DEF SocketError, PipelineTypeOK
  <2>2. breaks' \in 0..MaxBreaks
    BY <1>5 DEF SocketError, PipelineTypeOK
  <2> QED
    BY <1>5, <2>1, <2>2, <1>l, <1>e DEF SocketError, PipelineTypeOK, HandsOK
<1>6. CASE Reconnect
  <2>1. listener' \in ListenerT /\ listener'.ev = 0 /\ listener'.pc # "put"
    BY <1>6 DEF Reconnect
  <2> QED
    BY <1>6, <2>1 DEF Reconnect, PipelineTypeOK, HandsOK
<1>7. CASE Ingest
  <2>1. listener' \in ListenerT /\ listener'.ev = 0 /\ listener'.pc # "put"
    BY <1>7 DEF Ingest
  <2>2. listener.ev \in Event /\ "extract" \in Stage
    BY <1>7 DEF Ingest, PipelineTypeOK, HandsOK, Event, Stage
  <2>3. q' \in [Stage -> Seq(Event)] /\ \A r \in Stage : Len(q'[r]) <= QueueMax[r]
    BY <1>7, <2>2, QueueGrows DEF Ingest
  <2> QED
    BY <1>7, <2>1, <2>3 DEF Ingest, PipelineTypeOK, HandsOK
<1>8. CASE StartConversion
  <2>1. "extract" \in Stage
    BY DEF Stage
  <2> QED
    BY <1>8, <2>1, TakeType DEF StartConversion, PipelineTypeOK, HandsOK
<1>9. CASE Extracted
  <2>1. "extract" \in Stage
    BY DEF Stage
  <2>2. w["extract"] \in Holder /\ w["extract"].pc = "work"
    BY <1>9, <2>1 DEF Extracted, PipelineTypeOK
  <2>3. [w["extract"] EXCEPT !.pc = "put"] \in Holder
        /\ [w["extract"] EXCEPT !.pc = "put"].pc = "put"
        /\ [w["extract"] EXCEPT !.pc = "put"].ev # 0
    BY <2>1, <2>2 DEF Holder, HandsOK
  <2>4. w' = [w EXCEPT !["extract"] = [w["extract"] EXCEPT !.pc = "put"]]
    BY <1>9 DEF Extracted
  <2>5. w' \in [Stage -> Holder]
        /\ \A r \in Stage : w'[r].pc \in {"work", "put"} <=> w'[r].ev # 0
    BY <2>1, <2>3, <2>4, HandChanges
  <2>6. state' \in [Event -> TransactionState]
    BY <1>9 DEF Extracted, PipelineTypeOK
  <2> QED
    BY <1>9, <2>5, <2>6 DEF Extracted, PipelineTypeOK, HandsOK
<1>10. CASE ConversionFails
  <2>1. "extract" \in Stage
    BY DEF Stage
  <2>2. w' \in [Stage -> Holder]
        /\ \A r \in Stage : w'[r].pc \in {"work", "put"} <=> w'[r].ev # 0
    BY <1>10, <2>1, <1>n, HandChanges DEF ConversionFails
  <2>3. fate' \in [Event -> Fate \cup {"none"}]
    BY <1>10, <1>f DEF ConversionFails, PipelineTypeOK
  <2> QED
    BY <1>10, <2>2, <2>3 DEF ConversionFails, PipelineTypeOK, HandsOK
<1>11. CASE Sign
  <2>1. "sign" \in Stage
    BY DEF Stage
  <2>2. state' \in [Event -> TransactionState]
    BY <1>11 DEF Sign, PipelineTypeOK
  <2> QED
    BY <1>11, <2>1, <2>2, TakeType DEF Sign, PipelineTypeOK, HandsOK
<1>12. CASE SignFails
  <2>1. "sign" \in Stage /\ "unsigned" \in Fate
    BY DEF Stage, Fate
  <2> QED
    BY <1>12, <2>1, TakeAndDropType DEF SignFails, PipelineTypeOK, HandsOK
<1>13. CASE Approve
  <2>1. "pep" \in Stage
    BY DEF Stage
  <2>2. state' \in [Event -> TransactionState]
    BY <1>13 DEF Approve, PipelineTypeOK
  <2> QED
    BY <1>13, <2>1, <2>2, TakeType DEF Approve, PipelineTypeOK, HandsOK
<1>14. CASE Reject
  <2>1. "pep" \in Stage /\ "denied" \in Fate
    BY DEF Stage, Fate
  <2>2. state' \in [Event -> TransactionState]
    BY <1>14 DEF Reject, PipelineTypeOK
  <2> QED
    BY <1>14, <2>1, <2>2, TakeAndDropType DEF Reject, PipelineTypeOK, HandsOK
<1>15. CASE StartSending
  <2>1. "send" \in Stage
    BY DEF Stage
  <2>2. w'["send"].ev = Head(q["send"]) /\ Head(q["send"]) \in Event
    <3>1. Take("send", "work")
      BY <1>15 DEF StartSending
    <3>2. w'["send"] = [pc |-> "work", ev |-> Head(q["send"])] /\ Head(q["send"]) \in Event
      BY <2>1, <3>1, TakeType
    <3> QED
      BY <3>2
  <2>3. state' \in [Event -> TransactionState]
    BY <1>15 DEF StartSending, PipelineTypeOK
  <2>4. sent' \in Seq(Event)
    <3>1. sent \in Seq(Event)
      BY DEF PipelineTypeOK
    <3> QED
      BY <1>15, <2>2, <3>1, EventSeqs DEF StartSending
  <2> QED
    BY <1>15, <2>1, <2>3, <2>4, TakeType DEF StartSending, PipelineTypeOK, HandsOK
<1>16. CASE Settle
  <2>1. "send" \in Stage
    BY DEF Stage
  <2>2. w' \in [Stage -> Holder]
        /\ \A r \in Stage : w'[r].pc \in {"work", "put"} <=> w'[r].ev # 0
    BY <1>16, <2>1, <1>n, HandChanges DEF Settle
  <2>3. fate' \in [Event -> Fate \cup {"none"}] /\ state' \in [Event -> TransactionState]
    <3>1. PICK how \in {"acked", "failed"} :
             /\ fate' = [fate EXCEPT ![w["send"].ev] = how]
             /\ state' = [state EXCEPT ![w["send"].ev] =
                            IF how = "acked" THEN "ACKED" ELSE "FAILED"]
      BY <1>16 DEF Settle
    <3> QED
      BY <3>1, <1>f DEF PipelineTypeOK
  <2> QED
    BY <1>16, <2>2, <2>3 DEF Settle, PipelineTypeOK, HandsOK
<1>17. ASSUME NEW s \in Stage, Put(s) PROVE Goal
  <2>1. s \in DOMAIN After /\ After[s] \in Stage
    BY <1>17 DEF Put, After, Stage
  <2>2. w[s].ev \in Event
    BY <1>17 DEF Put, PipelineTypeOK, HandsOK, Holder, Event
  <2>3. q' \in [Stage -> Seq(Event)] /\ \A r \in Stage : Len(q'[r]) <= QueueMax[r]
    BY <1>17, <2>1, <2>2, QueueGrows DEF Put
  <2>4. w' \in [Stage -> Holder]
        /\ \A r \in Stage : w'[r].pc \in {"work", "put"} <=> w'[r].ev # 0
    BY <1>17, <1>n, HandChanges DEF Put
  <2> QED
    BY <1>17, <2>3, <2>4 DEF Put, PipelineTypeOK, HandsOK
<1>18. CASE Shutdown
  <2>1. sub' = << >> /\ fate' \in [Event -> Fate \cup {"none"}]
    BY <1>18, CloseSocketType DEF Shutdown, PipelineTypeOK
  <2>2. listener' \in ListenerT /\ (listener'.pc = "put" <=> listener'.ev # 0)
    BY <1>18 DEF Shutdown, PipelineTypeOK, HandsOK
  <2> QED
    BY <1>18, <2>1, <2>2, <1>e DEF Shutdown, PipelineTypeOK, HandsOK
<1>19. CASE Crash
  <2>1. fate' \in [Event -> Fate \cup {"none"}]
    BY <1>19, <1>f DEF Crash, PipelineTypeOK
  <2>2. [pc |-> "done", ev |-> 0] \in Holder
    BY DEF Holder
  <2>3. w' \in [Stage -> Holder] /\ \A s \in Stage : w'[s] = [pc |-> "done", ev |-> 0]
    BY <1>19, <2>2 DEF Crash
  <2>4. q' \in [Stage -> Seq(Event)] /\ \A s \in Stage : q'[s] = << >>
    BY <1>19, <1>e DEF Crash
  <2>5. \A s \in Stage : Len(q'[s]) <= QueueMax[s]
    BY <2>4, <1>e
  <2>6. crashes' \in 0..MaxCrashes
    BY <1>19 DEF Crash, PipelineTypeOK
  <2> QED
    BY <1>19, <2>1, <2>3, <2>4, <2>5, <2>6, <1>l, <1>e DEF Crash, PipelineTypeOK, HandsOK
<1>20. CASE Restart
  <2>1. Idle \in Holder /\ Idle.ev = 0 /\ Idle.pc = "get"
    BY DEF Idle, Holder
  <2>2. w' \in [Stage -> Holder] /\ \A s \in Stage : w'[s] = Idle
    BY <1>20, <2>1 DEF Restart
  <2> QED
    BY <1>20, <2>1, <2>2, <1>l DEF Restart, PipelineTypeOK, HandsOK
<1>21. CASE UNCHANGED vars
  BY <1>21 DEF vars, PipelineTypeOK, HandsOK
<1> QED
  BY <1>1, <1>2, <1>3, <1>4, <1>5, <1>6, <1>7, <1>8, <1>9, <1>10, <1>11, <1>12, <1>13,
     <1>14, <1>15, <1>16, <1>17, <1>18, <1>19, <1>20, <1>21
     DEF Next, ListenerStep, Work, SignerStep

\* Both are inductive together.
LEMMA TypesAndHands == Spec => [](PipelineTypeOK /\ HandsOK)
<1>1. Init => PipelineTypeOK /\ HandsOK
  <2> SUFFICES ASSUME Init PROVE PipelineTypeOK /\ HandsOK
    OBVIOUS
  <2>1. << >> \in Seq(Event) /\ Len(<< >>) = 0
    OBVIOUS
  <2>2. Idle \in Holder /\ Idle.ev = 0 /\ Idle.pc = "get"
    BY DEF Idle, Holder
  <2>3. /\ q \in [Stage -> Seq(Event)] /\ \A s \in Stage : Len(q[s]) <= QueueMax[s]
        /\ w \in [Stage -> Holder] /\ \A s \in Stage : w[s] = Idle
    BY <2>1, <2>2 DEF Init
  <2>4. /\ listener = [pc |-> "recv", ev |-> 0] /\ stopping \in BOOLEAN /\ event \in Feeds
        /\ sub \in Seq(Event) /\ Len(sub) = 0 /\ sent \in Seq(Event)
    BY <2>1 DEF Init
  <2>9. published \in 0..NumEvents /\ breaks \in 0..MaxBreaks /\ crashes \in 0..MaxCrashes
    BY DEF Init
  <2>5. fate \in [Event -> Fate \cup {"none"}] /\ state \in [Event -> TransactionState]
    BY DEF Init, TransactionState
  <2>6. listener \in [pc : {"recv", "put", "sleep", "done", "down"}, ev : 0..NumEvents]
    BY <2>4
  <2>7. PipelineTypeOK
    BY <2>3, <2>4, <2>5, <2>6, <2>9 DEF PipelineTypeOK
  <2>8. HandsOK
    BY <2>2, <2>3, <2>4 DEF HandsOK
  <2> QED
    BY <2>7, <2>8
<1>2. PipelineTypeOK /\ HandsOK /\ [Next]_vars => PipelineTypeOK' /\ HandsOK'
  BY PipelineTypeStep
<1> QED
  BY <1>1, <1>2, PTL DEF Spec

\* The types of the pipeline's variables, and no queue beyond its maxsize.
THEOREM PipelineTypeCorrect == Spec => []PipelineTypeOK
  BY TypesAndHands, PTL

-----------------------------------------------------------------------------
(* The inductive invariant: the line of events                             *)

Elems(s) == {s[k] : k \in DOMAIN s}
Hand(h) == {h.ev} \ {0}
Sorted(s) == \A a, b \in DOMAIN s : a < b => s[a] < s[b]

\* Where events are, from the socket's buffer to those already handed over.
Line == <<Elems(sub), Hand(listener),
          Elems(q["extract"]), Hand(w["extract"]), Elems(q["sign"]), Hand(w["sign"]),
          Elems(q["pep"]), Hand(w["pep"]), Elems(q["send"]), Elems(sent)>>
Place == 1..10

\* What is further down the line came earlier in the feed.
InOrder(L) == \A a, b \in Place : a < b => \A i \in L[a], j \in L[b] : j < i

\* The events that still have a way to go, the one being transmitted included.
Live == {i \in Event : (\E a \in 1..9 : i \in Line[a]) \/ i \in Hand(w["send"])}

Sharable == {i \in Event : Authorize(TlpMarkingOf(event[i]), Recipient)}

QueuesSorted == Sorted(sub) /\ \A s \in Stage : Sorted(q[s])

\* An event has a fate exactly when it was published and is not live any more;
\* the line holds published events only.
Accounted ==
    /\ \A i \in Event : fate[i] # "none" <=> i <= published /\ i \notin Live
    /\ \A a \in Place : \A i \in Line[a] : i <= published

\* A process that is down holds nothing.
DownIsEmpty ==
    listener.pc = "down" => (\A a \in 1..9 : Line[a] = {}) /\ Hand(w["send"]) = {}

\* The PEP's decision holds downstream of it; what is being transmitted was
\* handed over.
PolicyHeld ==
    /\ Line[8] \cup Line[9] \cup Line[10] \subseteq Sharable
    /\ Hand(w["send"]) \subseteq Line[10]

\* The five tasks keep the order of the feed, and account for every event.
FlowInv == /\ QueuesSorted /\ InOrder(Line) /\ Accounted
           /\ DownIsEmpty /\ PolicyHeld

-----------------------------------------------------------------------------
(* Facts about the line                                                    *)

\* Taking the head of a sorted sequence removes its smallest element.
LEMMA TailElems ==
    ASSUME NEW s \in Seq(Event), Sorted(s), s # << >>
    PROVE  /\ Head(s) \in Elems(s) /\ Head(s) \in Event
           /\ \A j \in Elems(s) : j # Head(s) => Head(s) < j
           /\ Elems(Tail(s)) = Elems(s) \ {Head(s)} /\ Sorted(Tail(s))
<1>1. /\ Head(s) = s[1] /\ 1 \in DOMAIN s /\ DOMAIN s = 1..Len(s) /\ Len(s) \in Nat
      /\ \A k \in DOMAIN s : s[k] \in Event
  OBVIOUS
<1>2. /\ DOMAIN Tail(s) = 1..(Len(s) - 1)
      /\ \A k \in DOMAIN Tail(s) : k + 1 \in DOMAIN s /\ Tail(s)[k] = s[k + 1]
  OBVIOUS
<1>3. \A k \in DOMAIN s : k # 1 => s[1] < s[k]
  BY <1>1 DEF Sorted
<1>4. \A k \in DOMAIN s : k # 1 => k - 1 \in DOMAIN Tail(s) /\ Tail(s)[k - 1] = s[k]
  BY <1>1, <1>2
<1>5. \A k \in DOMAIN s : s[k] \in Int
  BY <1>1 DEF Event
<1>6. Elems(Tail(s)) \subseteq Elems(s) \ {Head(s)}
  <2> SUFFICES ASSUME NEW k \in DOMAIN Tail(s)
               PROVE  Tail(s)[k] \in Elems(s) /\ Tail(s)[k] # Head(s)
    BY DEF Elems
  <2>1. k + 1 \in DOMAIN s /\ Tail(s)[k] = s[k + 1] /\ k + 1 # 1
    BY <1>2
  <2> QED
    BY <2>1, <1>1, <1>3, <1>5 DEF Elems
<1>7. Elems(s) \ {Head(s)} \subseteq Elems(Tail(s))
  <2> SUFFICES ASSUME NEW k \in DOMAIN s, s[k] # Head(s) PROVE s[k] \in Elems(Tail(s))
    BY DEF Elems
  <2>1. k - 1 \in DOMAIN Tail(s) /\ Tail(s)[k - 1] = s[k]
    BY <1>1, <1>4
  <2> QED
    BY <2>1 DEF Elems
<1>8. Sorted(Tail(s))
  BY <1>1, <1>2 DEF Sorted
<1>9. \A j \in Elems(s) : j # Head(s) => Head(s) < j
  BY <1>1, <1>3 DEF Elems
<1> QED
  BY <1>1, <1>6, <1>7, <1>8, <1>9 DEF Elems

\* Appending a greater element keeps a sequence sorted.
LEMMA AppendElems ==
    ASSUME NEW s \in Seq(Event), Sorted(s), NEW x \in Event, \A j \in Elems(s) : j < x
    PROVE  Elems(Append(s, x)) = Elems(s) \cup {x} /\ Sorted(Append(s, x))
<1>1. /\ DOMAIN s = 1..Len(s) /\ Len(s) \in Nat
      /\ DOMAIN Append(s, x) = 1..(Len(s) + 1) /\ Append(s, x)[Len(s) + 1] = x
      /\ \A k \in DOMAIN s : Append(s, x)[k] = s[k]
  OBVIOUS
<1>2. \A k \in DOMAIN Append(s, x) : k \in DOMAIN s \/ k = Len(s) + 1
  BY <1>1
<1>3. \A k \in DOMAIN s : s[k] < x
  BY DEF Elems
<1>4. Sorted(Append(s, x))
  BY <1>1, <1>2, <1>3 DEF Sorted
<1>5. Elems(Append(s, x)) \subseteq Elems(s) \cup {x}
  BY <1>1, <1>2 DEF Elems
<1>6. Elems(s) \cup {x} \subseteq Elems(Append(s, x))
  <2>1. Len(s) + 1 \in DOMAIN Append(s, x) /\ DOMAIN s \subseteq DOMAIN Append(s, x)
    BY <1>1
  <2> QED
    BY <1>1, <2>1 DEF Elems
<1> QED
  BY <1>4, <1>5, <1>6

\* The empty sequence has no elements and is sorted.
LEMMA EmptyElems == Elems(<< >>) = {} /\ Sorted(<< >>)
  BY DEF Elems, Sorted

\* The places by number.
LEMMA Places10 == \A a \in Place : \/ a = 1 \/ a = 2 \/ a = 3 \/ a = 4 \/ a = 5
                                    \/ a = 6 \/ a = 7 \/ a = 8 \/ a = 9 \/ a = 10
  BY DEF Place

\* What is at each place, now ...
LEMMA LineNow ==
    /\ Line[1] = Elems(sub) /\ Line[2] = Hand(listener)
    /\ Line[3] = Elems(q["extract"]) /\ Line[4] = Hand(w["extract"])
    /\ Line[5] = Elems(q["sign"]) /\ Line[6] = Hand(w["sign"])
    /\ Line[7] = Elems(q["pep"]) /\ Line[8] = Hand(w["pep"])
    /\ Line[9] = Elems(q["send"]) /\ Line[10] = Elems(sent)
  BY DEF Line

\* ... and after a step.
LEMMA LineThen ==
    /\ Line'[1] = Elems(sub') /\ Line'[2] = Hand(listener')
    /\ Line'[3] = Elems(q'["extract"]) /\ Line'[4] = Hand(w'["extract"])
    /\ Line'[5] = Elems(q'["sign"]) /\ Line'[6] = Hand(w'["sign"])
    /\ Line'[7] = Elems(q'["pep"]) /\ Line'[8] = Hand(w'["pep"])
    /\ Line'[9] = Elems(q'["send"]) /\ Line'[10] = Elems(sent')
  BY DEF Line, Elems, Hand

\* The line holds events.
LEMMA LineType ==
    ASSUME PipelineTypeOK
    PROVE  (\A a \in Place : Line[a] \subseteq Event) /\ Hand(w["send"]) \subseteq Event
<1>1. \A s \in Seq(Event) : Elems(s) \subseteq Event
  BY EventSeqs DEF Elems
<1>2. \A s \in Stage : Hand(w[s]) \subseteq Event
  BY DEF PipelineTypeOK, Holder, Hand, Event
<1>3. Hand(listener) \subseteq Event
  BY DEF PipelineTypeOK, Hand, Event
<1>4. sub \in Seq(Event) /\ sent \in Seq(Event) /\ \A s \in Stage : q[s] \in Seq(Event)
  BY DEF PipelineTypeOK
<1>5. "extract" \in Stage /\ "sign" \in Stage /\ "pep" \in Stage /\ "send" \in Stage
  BY DEF Stage
<1>6. \A a \in Place : Line[a] \subseteq Event
  <2>1. /\ Elems(sub) \subseteq Event /\ Elems(sent) \subseteq Event
        /\ \A s \in Stage : Elems(q[s]) \subseteq Event
    BY <1>1, <1>4, Zenon
  <2> QED
    BY <1>2, <1>3, <1>5, <2>1, LineNow, Places10
<1> QED
  BY <1>2, <1>5, <1>6

\* The order of the line survives when an event moves on to the next place ...
LEMMA AdvanceInOrder ==
    ASSUME NEW L, NEW M, \A b \in Place : L[b] \subseteq Event, InOrder(L),
           NEW a \in 1..9, NEW i \in L[a], \A j \in L[a] : j # i => i < j,
           M[a] = L[a] \ {i}, M[a + 1] = L[a + 1] \cup {i},
           \A b \in Place : b # a /\ b # a + 1 => M[b] = L[b]
    PROVE  InOrder(M)
<1>1. \A b \in Place : \A j \in L[b] : j \in Int
  BY DEF Event
<1>2. a \in Place /\ a + 1 \in Place /\ i \in Int
  BY <1>1 DEF Place
<1> SUFFICES ASSUME NEW b \in Place, NEW c \in Place, b < c, NEW x \in M[b], NEW y \in M[c]
             PROVE  y < x
  BY DEF InOrder
<1>3. b \in Int /\ c \in Int
  BY DEF Place
<1>4. x \in L[b] \/ (b = a + 1 /\ x = i)
  BY <1>2
<1>5. y \in L[c] \/ (c = a + 1 /\ y = i)
  BY <1>2
<1>6. CASE x \in L[b] /\ y \in L[c]
  BY <1>6 DEF InOrder
<1>7. CASE b = a + 1 /\ x = i
  <2>1. c # a /\ c # a + 1 /\ a < c
    BY <1>3, <1>7
  <2> QED
    BY <1>2, <1>7, <2>1 DEF InOrder
<1>8. CASE c = a + 1 /\ y = i /\ x \in L[b]
  <2>1. CASE b = a
    BY <1>8, <2>1
  <2>2. CASE b # a
    <3>1. b < a
      BY <1>3, <1>8, <2>2
    <3> QED
      BY <1>2, <1>8, <3>1 DEF InOrder
  <2> QED
    BY <2>1, <2>2
<1> QED
  BY <1>4, <1>5, <1>6, <1>7, <1>8

\* ... when events leave it ...
LEMMA LeaveInOrder ==
    ASSUME NEW L, NEW M, InOrder(L), \A b \in Place : M[b] \subseteq L[b]
    PROVE  InOrder(M)
  BY DEF InOrder

\* ... and when one later than all enters.
LEMMA EnterInOrder ==
    ASSUME NEW L, NEW M, InOrder(L), NEW i, \A b \in Place : \A j \in L[b] : j < i,
           M[1] = L[1] \cup {i}, \A b \in Place : b # 1 => M[b] = L[b]
    PROVE  InOrder(M)
<1>1. 1 \in Place /\ \A b \in Place : b \in Int /\ b >= 1
  BY DEF Place
<1> QED
  BY <1>1 DEF InOrder

\* No event is at two places.
LEMMA OnePlace ==
    ASSUME PipelineTypeOK, InOrder(Line), NEW a \in Place, NEW b \in Place, a # b,
           NEW i \in Line[a]
    PROVE  i \notin Line[b]
<1>1. a \in Int /\ b \in Int /\ i \in Int
  BY LineType DEF Place, Event
<1>2. a < b \/ b < a
  BY <1>1
<1> QED
  BY <1>1, <1>2 DEF InOrder

\* A live event was published and has no fate; it is at one of the first nine
\* places or was handed over.
LEMMA LiveMeaning ==
    ASSUME PipelineTypeOK, FlowInv, NEW i \in Live
    PROVE  i \in Event /\ i <= published /\ fate[i] = "none"
<1>1. i \in Event /\ \E a \in Place : i \in Line[a]
  <2>1. 10 \in Place /\ \A a \in 1..9 : a \in Place
    BY DEF Place
  <2> QED
    BY <2>1 DEF Live, FlowInv, PolicyHeld
<1> QED
  BY <1>1 DEF FlowInv, Accounted

\* A step that gives a fate to the events that leave the line, and to no other,
\* keeps the account.
LEMMA LeavingAccounted ==
    ASSUME PipelineTypeOK, FlowInv, published' = published, NEW S \in SUBSET Live,
           Live' = Live \ S, \A i \in S : fate'[i] # "none",
           \A i \in Event \ S : fate'[i] = fate[i],
           \A a \in Place : \A i \in Line'[a] : \E b \in Place : i \in Line[b]
    PROVE  Accounted'
<1>1. ASSUME NEW i \in Event
      PROVE  fate'[i] # "none" <=> i <= published' /\ i \notin Live'
  <2>1. CASE i \in S
    BY <2>1, LiveMeaning
  <2>2. CASE i \notin S
    BY <2>2 DEF FlowInv, Accounted
  <2> QED
    BY <2>1, <2>2
<1>2. ASSUME NEW a \in Place, NEW i \in Line'[a] PROVE i <= published'
  BY <1>2 DEF FlowInv, Accounted
<1>3. Event' = Event /\ Place' = Place
  BY DEF Event, Place
<1> QED
  BY <1>1, <1>2, <1>3 DEF Accounted

\* An event that moves on to the next place.
Advances(a, i) ==
    /\ i \in Line[a] /\ \A j \in Line[a] : j # i => i < j
    /\ Line'[a] = Line[a] \ {i} /\ Line'[a + 1] = Line[a + 1] \cup {i}
    /\ \A b \in Place : b # a /\ b # a + 1 => Line'[b] = Line[b]

\* An event that leaves the line from place a.
Leaves(a, i) ==
    /\ i \in Line[a]
    /\ Line'[a] = Line[a] \ {i}
    /\ \A b \in Place : b # a => Line'[b] = Line[b]

\* Moving on keeps the order and the account: what moves to the last place is
\* in the transmission worker's hands.
LEMMA AdvanceKeeps ==
    ASSUME PipelineTypeOK, FlowInv, NEW a \in 1..9, NEW i, Advances(a, i),
           UNCHANGED <<published, fate>>,
           a # 9 => Hand(w'["send"]) = Hand(w["send"]),
           a = 9 => Hand(w["send"]) = {} /\ Hand(w'["send"]) = {i}
    PROVE  InOrder(Line)' /\ Accounted'
<1>0. a \in Place /\ a + 1 \in Place /\ (\A b \in 1..9 : b \in Place) /\ 10 \in Place
      /\ Place' = Place /\ Event' = Event
  BY DEF Place, Event
<1>1. InOrder(Line)'
  <2>1. \A b \in Place : Line[b] \subseteq Event
    BY LineType
  <2>2. InOrder(Line')
    BY <2>1, AdvanceInOrder DEF Advances, FlowInv
  <2> QED
    BY <2>2, <1>0 DEF InOrder
<1>2. Live' = Live
  <2>1. ASSUME NEW x \in Event
        PROVE  ((\E b \in 1..9 : x \in Line'[b]) \/ x \in Hand(w'["send"]))
                 <=> ((\E b \in 1..9 : x \in Line[b]) \/ x \in Hand(w["send"]))
    <3>1. CASE x # i
      <4>1. \A b \in 1..9 : x \in Line'[b] <=> x \in Line[b]
        BY <3>1, <1>0 DEF Advances
      <4>2. x \in Hand(w'["send"]) <=> x \in Hand(w["send"])
        BY <3>1
      <4> QED
        BY <4>1, <4>2
    <3>2. CASE x = i
      <4>1. \E b \in 1..9 : x \in Line[b]
        BY <3>2 DEF Advances
      <4>2. CASE a # 9
        <5>1. a + 1 \in 1..9
          BY <4>2
        <5> QED
          BY <3>2, <4>1, <5>1 DEF Advances
      <4>3. CASE a = 9
        BY <3>2, <4>1, <4>3
      <4> QED
        BY <4>2, <4>3
    <3> QED
      BY <3>1, <3>2
  <2>2. Live' = {x \in Event : (\E b \in 1..9 : x \in Line'[b]) \/ x \in Hand(w'["send"])}
    BY <1>0 DEF Live, Hand
  <2> QED
    BY <2>1, <2>2 DEF Live
<1>3. \A b \in Place : \A x \in Line'[b] : \E c \in Place : x \in Line[c]
  BY <1>0 DEF Advances
<1>4. Accounted'
  <2>1. {} \in SUBSET Live /\ Live' = Live \ {} /\ (\A x \in {} : fate'[x] # "none")
        /\ \A x \in Event \ {} : fate'[x] = fate[x]
    BY <1>2
  <2> QED
    BY <2>1, <1>3, LeavingAccounted
<1> QED
  BY <1>1, <1>4

\* Leaving the line with a fate keeps the order and the account.
LEMMA LeaveKeeps ==
    ASSUME PipelineTypeOK, FlowInv, NEW a \in 1..9, NEW i, Leaves(a, i),
           published' = published, NEW how \in Fate, fate' = [fate EXCEPT ![i] = how],
           Hand(w'["send"]) = Hand(w["send"])
    PROVE  InOrder(Line)' /\ Accounted'
<1>0. a \in Place /\ (\A b \in 1..9 : b \in Place) /\ 10 \in Place /\ a # 10
      /\ Place' = Place /\ Event' = Event
  BY DEF Place, Event
<1>i. i \in Event /\ i \in Live
  BY <1>0, LineType DEF Leaves, Live
<1>1. InOrder(Line)'
  <2>1. InOrder(Line')
    BY LeaveInOrder DEF Leaves, FlowInv
  <2> QED
    BY <2>1, <1>0 DEF InOrder
<1>2. \A b \in Place : b # a => i \notin Line[b]
  BY <1>0, OnePlace DEF Leaves, FlowInv
<1>3. i \notin Hand(w["send"])
  BY <1>0, <1>2 DEF FlowInv, PolicyHeld
<1>4. Live' = Live \ {i}
  <2>1. ASSUME NEW x \in Event
        PROVE  ((\E b \in 1..9 : x \in Line'[b]) \/ x \in Hand(w'["send"]))
                 <=> x # i /\ ((\E b \in 1..9 : x \in Line[b]) \/ x \in Hand(w["send"]))
    <3>1. CASE x # i
      <4>1. \A b \in 1..9 : x \in Line'[b] <=> x \in Line[b]
        BY <3>1, <1>0 DEF Leaves
      <4> QED
        BY <3>1, <4>1
    <3>2. CASE x = i
      <4>1. \A b \in 1..9 : i \notin Line'[b]
        BY <1>0, <1>2 DEF Leaves
      <4> QED
        BY <3>2, <4>1, <1>3
    <3> QED
      BY <3>1, <3>2
  <2>2. Live' = {x \in Event : (\E b \in 1..9 : x \in Line'[b]) \/ x \in Hand(w'["send"])}
    BY <1>0 DEF Live, Hand
  <2> QED
    BY <2>1, <2>2 DEF Live
<1>5. \A b \in Place : \A x \in Line'[b] : \E c \in Place : x \in Line[c]
  BY <1>0 DEF Leaves
<1>6. fate'[i] # "none" /\ \A x \in Event \ {i} : fate'[x] = fate[x]
  BY <1>i DEF PipelineTypeOK, Fate
<1>7. Accounted'
  <2>1. {i} \in SUBSET Live /\ \A x \in {i} : fate'[x] # "none"
    BY <1>i, <1>6
  <2> QED
    BY <2>1, <1>4, <1>5, <1>6, LeavingAccounted
<1> QED
  BY <1>1, <1>7

\* A step that moves nothing and decides nothing.
LEMMA StillKeeps ==
    ASSUME PipelineTypeOK, FlowInv, UNCHANGED <<published, fate>>,
           \A b \in Place : Line'[b] = Line[b], Hand(w'["send"]) = Hand(w["send"])
    PROVE  InOrder(Line)' /\ Accounted'
<1>0. (\A b \in 1..9 : b \in Place) /\ Place' = Place /\ Event' = Event
  BY DEF Place, Event
<1>1. InOrder(Line)'
  <2>1. InOrder(Line')
    BY LeaveInOrder DEF FlowInv
  <2> QED
    BY <2>1, <1>0 DEF InOrder
<1>2. Live' = Live
  <2>1. Live' = {x \in Event : (\E b \in 1..9 : x \in Line'[b]) \/ x \in Hand(w'["send"])}
    BY <1>0 DEF Live, Hand
  <2> QED
    BY <1>0, <2>1 DEF Live
<1>3. Accounted'
  BY <1>0, <1>2 DEF FlowInv, Accounted
<1> QED
  BY <1>1, <1>3

-----------------------------------------------------------------------------
(* The workers move events along the line                                  *)

\* The place of the queue that a stage reads; its worker's hands come next.
QPlace == [extract |-> 3, sign |-> 5, pep |-> 7, send |-> 9]

\* What a stage's queue and hands are in the line.
LEMMA StagePlaces ==
    ASSUME NEW s \in Stage
    PROVE  /\ QPlace[s] \in 1..9 /\ QPlace[s] \in Place
           /\ Line[QPlace[s]] = Elems(q[s]) /\ Line'[QPlace[s]] = Elems(q'[s])
           /\ s # "send" => /\ QPlace[s] + 1 \in 1..9 /\ QPlace[s] + 1 \in Place
                            /\ Line[QPlace[s] + 1] = Hand(w[s])
                            /\ Line'[QPlace[s] + 1] = Hand(w'[s])
           /\ s \in DOMAIN After => /\ s # "send" /\ After[s] \in Stage /\ After[s] # s
                                    /\ QPlace[After[s]] = QPlace[s] + 2
<1>1. s = "extract" \/ s = "sign" \/ s = "pep" \/ s = "send"
  BY DEF Stage
<1>2. "extract" \in Stage /\ "sign" \in Stage /\ "pep" \in Stage /\ "send" \in Stage
  BY DEF Stage
<1>3. CASE s = "extract"
  BY <1>2, <1>3, LineNow, LineThen DEF QPlace, Place, After
<1>4. CASE s = "sign"
  BY <1>2, <1>4, LineNow, LineThen DEF QPlace, Place, After
<1>5. CASE s = "pep"
  BY <1>2, <1>5, LineNow, LineThen DEF QPlace, Place, After
<1>6. CASE s = "send"
  BY <1>2, <1>6, LineNow, LineThen DEF QPlace, Place, After
<1> QED
  BY <1>1, <1>3, <1>4, <1>5, <1>6

\* A step of one stage that leaves the other queues and hands alone.
LEMMA StageFrame ==
    ASSUME NEW s \in Stage, UNCHANGED <<sub, listener>>, s # "send" => sent' = sent,
           \A r \in Stage : r # s => q'[r] = q[r] /\ w'[r] = w[r]
    PROVE  /\ \A b \in Place : b # QPlace[s] /\ b # QPlace[s] + 1 => Line'[b] = Line[b]
           /\ s # "send" => Hand(w'["send"]) = Hand(w["send"])
<1>1. s = "extract" \/ s = "sign" \/ s = "pep" \/ s = "send"
  BY DEF Stage
<1>2. "extract" \in Stage /\ "sign" \in Stage /\ "pep" \in Stage /\ "send" \in Stage
  BY DEF Stage
<1>3. CASE s = "extract"
  BY <1>2, <1>3, LineNow, LineThen, Places10 DEF QPlace
<1>4. CASE s = "sign"
  BY <1>2, <1>4, LineNow, LineThen, Places10 DEF QPlace
<1>5. CASE s = "pep"
  BY <1>2, <1>5, LineNow, LineThen, Places10 DEF QPlace
<1>6. CASE s = "send"
  BY <1>2, <1>6, LineNow, LineThen, Places10 DEF QPlace
<1> QED
  BY <1>1, <1>3, <1>4, <1>5, <1>6

\* The oldest item of a queue, taken by the stage's worker.
LEMMA TakeMoves ==
    ASSUME PipelineTypeOK, FlowInv, NEW s \in Stage, q[s] # << >>, NEW h,
           q' = [q EXCEPT ![s] = Tail(@)], w' = [w EXCEPT ![s] = h]
    PROVE  /\ Head(q[s]) \in Event /\ Head(q[s]) \in Line[QPlace[s]]
           /\ \A j \in Line[QPlace[s]] : j # Head(q[s]) => Head(q[s]) < j
           /\ Line'[QPlace[s]] = Line[QPlace[s]] \ {Head(q[s])}
           /\ \A r \in Stage : r # s => q'[r] = q[r] /\ w'[r] = w[r]
           /\ w'[s] = h /\ \A r \in Stage : Sorted(q'[r])
<1>1. q \in [Stage -> Seq(Event)] /\ q[s] \in Seq(Event) /\ w \in [Stage -> Holder]
  BY DEF PipelineTypeOK
<1>2. Sorted(q[s]) /\ \A r \in Stage : Sorted(q[r])
  BY DEF FlowInv, QueuesSorted
<1>3. q'[s] = Tail(q[s]) /\ \A r \in Stage : r # s => q'[r] = q[r] /\ w'[r] = w[r]
  BY <1>1
<1>4. w'[s] = h
  BY <1>1
<1>5. /\ Head(q[s]) \in Elems(q[s]) /\ Head(q[s]) \in Event
      /\ \A j \in Elems(q[s]) : j # Head(q[s]) => Head(q[s]) < j
      /\ Elems(Tail(q[s])) = Elems(q[s]) \ {Head(q[s])} /\ Sorted(Tail(q[s]))
  BY <1>1, <1>2, TailElems
<1>6. Line[QPlace[s]] = Elems(q[s]) /\ Line'[QPlace[s]] = Elems(q'[s])
  BY StagePlaces
<1>7. \A r \in Stage : Sorted(q'[r])
  BY <1>2, <1>3, <1>5
<1> QED
  BY <1>3, <1>4, <1>5, <1>6, <1>7

\* Nothing is down while an event is on its way.
LEMMA NotDown ==
    ASSUME FlowInv, (\E a \in 1..9 : Line[a] # {}) \/ Hand(w["send"]) # {}
    PROVE  listener.pc # "down"
  BY DEF FlowInv, DownIsEmpty

\* Which events the outbound policy lets pass depends on the events alone.
LEMMA SharableSame ==
    ASSUME event' = event
    PROVE  Sharable' = Sharable
  BY DEF Sharable, Authorize, TlpMarkingOf

\* get() of the extractor, the signer and the PEP worker.
LEMMA TakeFlow ==
    ASSUME PipelineTypeOK, HandsOK, FlowInv, NEW s \in Stage, s # "send",
           NEW pc, Take(s, pc),
           s = "pep" => Head(q["pep"]) \in Sharable,
           UNCHANGED <<event, published, sub, listener, sent, fate>>
    PROVE  FlowInv'
<1> DEFINE i == Head(q[s])
           a == QPlace[s]
           h == [pc |-> pc, ev |-> i]
<1>1. w[s].pc = "get" /\ q[s] # << >> /\ q' = [q EXCEPT ![s] = Tail(@)] /\ w' = [w EXCEPT ![s] = h]
  BY DEF Take
<1>2. /\ i \in Event /\ i \in Line[a] /\ \A j \in Line[a] : j # i => i < j
      /\ Line'[a] = Line[a] \ {i} /\ w'[s] = h /\ \A r \in Stage : Sorted(q'[r])
      /\ \A r \in Stage : r # s => q'[r] = q[r] /\ w'[r] = w[r]
  BY <1>1, TakeMoves
<1>3. /\ a \in 1..9 /\ a + 1 \in 1..9 /\ a \in Place /\ a + 1 \in Place
      /\ Line[a + 1] = Hand(w[s]) /\ Line'[a + 1] = Hand(w'[s])
  BY StagePlaces
<1>4. Hand(w[s]) = {} /\ Hand(w'[s]) = {i}
  BY <1>1, <1>2 DEF HandsOK, Hand, Event
<1>5. /\ \A b \in Place : b # a /\ b # a + 1 => Line'[b] = Line[b]
      /\ Hand(w'["send"]) = Hand(w["send"])
  BY <1>2, StageFrame
<1>6. Advances(a, i)
  BY <1>2, <1>3, <1>4, <1>5 DEF Advances
<1>7. InOrder(Line)' /\ Accounted'
  <2>1. a # 9
    BY <1>3
  <2> QED
    BY <1>3, <1>5, <1>6, <2>1, AdvanceKeeps
<1>8. QueuesSorted'
  BY <1>2 DEF FlowInv, QueuesSorted
<1>9. DownIsEmpty'
  BY <1>2, <1>3, NotDown DEF DownIsEmpty
<1>10. PolicyHeld'
  <2>1. Sharable' = Sharable
    BY SharableSame
  <2>2. \A b \in {8, 9, 10} : Line'[b] \subseteq Sharable
    <3>1. 8 \in Place /\ 9 \in Place /\ 10 \in Place /\ \A b \in {8, 9, 10} : Line[b] \subseteq Sharable
      BY DEF Place, FlowInv, PolicyHeld
    <3>2. a = 3 \/ a = 5 \/ (a = 7 /\ s = "pep")
      BY DEF Stage, QPlace
    <3> QED
      BY <1>3, <1>4, <1>5, <3>1, <3>2
  <2>3. Line'[10] = Line[10]
    <3>1. 10 \in Place /\ a # 10 /\ a + 1 # 10
      BY <1>3 DEF Place
    <3> QED
      BY <1>5, <3>1
  <2>4. Hand(w["send"])' = Hand(w'["send"]) /\ Hand(w["send"]) \subseteq Line[10]
    BY DEF Hand, FlowInv, PolicyHeld
  <2> QED
    BY <2>1, <2>2, <2>3, <2>4, <1>5 DEF PolicyHeld
<1> QED
  BY <1>7, <1>8, <1>9, <1>10 DEF FlowInv

\* The policy part for a step that adds nothing unshared behind the PEP.
LEMMA PolicyKeeps ==
    ASSUME FlowInv, event' = event,
           Line'[8] \subseteq Sharable, Line'[9] \subseteq Sharable, Line'[10] \subseteq Sharable,
           Hand(w'["send"]) \subseteq Line'[10]
    PROVE  PolicyHeld'
<1>1. Sharable' = Sharable
  BY SharableSame
<1>2. Hand(w["send"])' = Hand(w'["send"])
  BY DEF Hand
<1> QED
  BY <1>1, <1>2 DEF PolicyHeld

\* What the policy part says of the places.
LEMMA PolicyParts ==
    ASSUME FlowInv
    PROVE  /\ 8 \in Place /\ 9 \in Place /\ 10 \in Place
           /\ Line[8] \subseteq Sharable /\ Line[9] \subseteq Sharable
           /\ Line[10] \subseteq Sharable /\ Hand(w["send"]) \subseteq Line[10]
  BY DEF Place, FlowInv, PolicyHeld

\* The signer fails, or the PEP worker refuses: the item leaves the line.
LEMMA TakeAndDropFlow ==
    ASSUME PipelineTypeOK, HandsOK, FlowInv, NEW s \in Stage, s # "send",
           NEW how \in Fate, TakeAndDrop(s, how),
           UNCHANGED <<event, published, sub, listener, sent>>
    PROVE  FlowInv'
<1> DEFINE i == Head(q[s])
           a == QPlace[s]
<1>1. /\ w[s].pc = "get" /\ q[s] # << >> /\ q' = [q EXCEPT ![s] = Tail(@)]
      /\ w' = [w EXCEPT ![s] = NextRound] /\ fate' = [fate EXCEPT ![i] = how]
  BY DEF TakeAndDrop
<1>2. /\ i \in Event /\ i \in Line[a]
      /\ Line'[a] = Line[a] \ {i} /\ w'[s] = NextRound /\ \A r \in Stage : Sorted(q'[r])
      /\ \A r \in Stage : r # s => q'[r] = q[r] /\ w'[r] = w[r]
  BY <1>1, TakeMoves
<1>3. /\ a \in 1..9 /\ a + 1 \in 1..9 /\ a \in Place /\ a + 1 \in Place
      /\ Line[a + 1] = Hand(w[s]) /\ Line'[a + 1] = Hand(w'[s])
  BY StagePlaces
<1>4. Hand(w[s]) = {} /\ Hand(w'[s]) = {}
  BY <1>1, <1>2, NextRoundType DEF HandsOK, Hand
<1>5. /\ \A b \in Place : b # a => Line'[b] = Line[b]
      /\ Hand(w'["send"]) = Hand(w["send"])
  BY <1>2, <1>3, <1>4, StageFrame
<1>6. Leaves(a, i)
  BY <1>2, <1>5 DEF Leaves
<1>7. InOrder(Line)' /\ Accounted'
  BY <1>1, <1>3, <1>5, <1>6, LeaveKeeps
<1>8. QueuesSorted'
  BY <1>2 DEF FlowInv, QueuesSorted
<1>9. DownIsEmpty'
  BY <1>2, <1>3, NotDown DEF DownIsEmpty
<1>10. PolicyHeld'
  <2>1. \A b \in Place : Line'[b] \subseteq Line[b]
    BY <1>2, <1>5
  <2>2. Line'[10] = Line[10]
    BY <1>3, <1>5, PolicyParts
  <2> QED
    BY <2>1, <2>2, <1>5, PolicyParts, PolicyKeeps
<1> QED
  BY <1>7, <1>8, <1>9, <1>10 DEF FlowInv

\* A put leaves the other queues and hands alone.
LEMMA PutFrame ==
    ASSUME NEW s \in Stage, s # "send", UNCHANGED <<sub, listener, sent>>,
           \A r \in Stage : (r # After[s] => q'[r] = q[r]) /\ (r # s => w'[r] = w[r])
    PROVE  \A b \in Place : b # QPlace[s] + 1 /\ b # QPlace[s] + 2 => Line'[b] = Line[b]
<1>1. s = "extract" \/ s = "sign" \/ s = "pep"
  BY DEF Stage
<1>2. "extract" \in Stage /\ "sign" \in Stage /\ "pep" \in Stage /\ "send" \in Stage
  BY DEF Stage
<1>3. CASE s = "extract"
  BY <1>2, <1>3, LineNow, LineThen, Places10 DEF QPlace, After
<1>4. CASE s = "sign"
  BY <1>2, <1>4, LineNow, LineThen, Places10 DEF QPlace, After
<1>5. CASE s = "pep"
  BY <1>2, <1>5, LineNow, LineThen, Places10 DEF QPlace, After
<1> QED
  BY <1>1, <1>3, <1>4, <1>5

\* put() of the extractor, the signer and the PEP worker.
LEMMA PutFlow ==
    ASSUME PipelineTypeOK, HandsOK, FlowInv, NEW s \in Stage, Put(s)
    PROVE  FlowInv'
<1> DEFINE i == w[s].ev
           r == After[s]
           a == QPlace[s] + 1
<1>1. /\ s \in DOMAIN After /\ w[s].pc = "put"
      /\ q' = [q EXCEPT ![r] = Append(@, i)] /\ w' = [w EXCEPT ![s] = NextRound]
      /\ UNCHANGED <<event, published, sub, listener, sent, fate>>
  BY DEF Put
<1>2. s # "send" /\ r \in Stage /\ r # s /\ QPlace[r] = a + 1 /\ a \in 1..9 /\ a \in Place
      /\ Line[a] = Hand(w[s]) /\ Line'[a] = Hand(w'[s])
  <2>1. s # "send" /\ r \in Stage /\ r # s /\ QPlace[r] = QPlace[s] + 2
    BY <1>1, StagePlaces, Zenon
  <2>2. /\ QPlace[s] \in 1..9 /\ a \in 1..9 /\ a \in Place
        /\ Line[a] = Hand(w[s]) /\ Line'[a] = Hand(w'[s])
    BY <2>1, StagePlaces, Zenon
  <2> QED
    BY <2>1, <2>2
<1>3. Line[a + 1] = Elems(q[r]) /\ Line'[a + 1] = Elems(q'[r]) /\ a + 1 \in Place /\ a + 1 \in 1..9
  BY <1>2, StagePlaces
<1>4. q \in [Stage -> Seq(Event)] /\ w \in [Stage -> Holder] /\ q[r] \in Seq(Event)
  BY <1>2 DEF PipelineTypeOK
<1>5. /\ q'[r] = Append(q[r], i) /\ w'[s] = NextRound
      /\ \A t \in Stage : (t # r => q'[t] = q[t]) /\ (t # s => w'[t] = w[t])
  BY <1>1, <1>2, <1>4
<1>6. i \in Event /\ Hand(w[s]) = {i} /\ Hand(w'[s]) = {}
  <2>1. i # 0 /\ i \in 0..NumEvents
    BY <1>1, <1>4 DEF HandsOK, Holder
  <2> QED
    BY <2>1, <1>5, NextRoundType DEF Hand, Event
<1>7. \A j \in Elems(q[r]) : j < i
  <2>1. InOrder(Line) /\ i \in Line[a] /\ Elems(q[r]) = Line[a + 1] /\ a < a + 1
    BY <1>2, <1>3, <1>6 DEF FlowInv
  <2> HIDE DEF a, i, r
  <2> QED
    BY <1>2, <1>3, <2>1 DEF InOrder
<1>8. Elems(q'[r]) = Elems(q[r]) \cup {i} /\ Sorted(q'[r])
  <2>1. Sorted(q[r])
    BY <1>2, Zenon DEF FlowInv, QueuesSorted
  <2> HIDE DEF r, i
  <2> QED
    BY <1>4, <1>5, <1>6, <1>7, <2>1, AppendElems
<1>9. \A b \in Place : b # a /\ b # a + 1 => Line'[b] = Line[b]
  <2>1. \A b \in Place : b # QPlace[s] + 1 /\ b # QPlace[s] + 2 => Line'[b] = Line[b]
    BY <1>1, <1>2, <1>5, PutFrame
  <2>2. a + 1 = QPlace[s] + 2
    BY StagePlaces
  <2> QED
    BY <2>1, <2>2
<1>10. Hand(w'["send"]) = Hand(w["send"])
  <2>1. "send" \in Stage
    BY DEF Stage
  <2> QED
    BY <1>2, <1>5, <2>1
<1>11. Advances(a, i)
  BY <1>2, <1>3, <1>6, <1>8, <1>9 DEF Advances
<1>12. InOrder(Line)' /\ Accounted'
  <2>1. a # 9
    BY <1>2, <1>3
  <2> QED
    BY <1>1, <1>2, <1>10, <1>11, <2>1, AdvanceKeeps
<1>13. QueuesSorted'
  BY <1>1, <1>5, <1>8 DEF FlowInv, QueuesSorted
<1>14. DownIsEmpty'
  BY <1>1, <1>2, <1>6, NotDown DEF DownIsEmpty
<1>15. PolicyHeld'
  <2>1. a = 4 \/ a = 6 \/ a = 8
    BY <1>2 DEF Stage, QPlace
  <2>2. Line'[8] \subseteq Line[8] \cup (IF a = 8 THEN {i} ELSE {})
        /\ Line'[9] \subseteq Line[9] \cup (IF a = 8 THEN {i} ELSE {}) /\ Line'[10] = Line[10]
    BY <1>9, <2>1, <1>11, PolicyParts DEF Advances
  <2>3. a = 8 => i \in Line[8]
    BY <1>11 DEF Advances
  <2> QED
    BY <1>1, <1>10, <2>2, <2>3, PolicyParts, PolicyKeeps
<1> QED
  BY <1>12, <1>13, <1>14, <1>15 DEF FlowInv

\* The transmission worker takes a transaction: it is handed over.
LEMMA StartSendingFlow ==
    ASSUME PipelineTypeOK, HandsOK, FlowInv, StartSending
    PROVE  FlowInv'
<1> DEFINE i == Head(q["send"])
           h == [pc |-> "work", ev |-> i]
<1>0. "send" \in Stage /\ QPlace["send"] = 9 /\ 9 \in Place /\ 10 \in Place /\ 9 \in 1..9
  BY DEF Stage, QPlace, Place
<1>1. /\ w["send"].pc = "get" /\ q["send"] # << >> /\ q' = [q EXCEPT !["send"] = Tail(@)]
      /\ w' = [w EXCEPT !["send"] = h] /\ sent' = Append(sent, w'["send"].ev)
      /\ UNCHANGED <<event, published, sub, listener, fate>>
  BY DEF StartSending, Take
<1>2. /\ i \in Event /\ i \in Line[9] /\ \A j \in Line[9] : j # i => i < j
      /\ Line'[9] = Line[9] \ {i} /\ w'["send"] = h /\ \A r \in Stage : Sorted(q'[r])
      /\ \A r \in Stage : r # "send" => q'[r] = q[r] /\ w'[r] = w[r]
  BY <1>0, <1>1, TakeMoves
<1>3. \A b \in Place : b # 9 /\ b # 10 => Line'[b] = Line[b]
  BY <1>0, <1>1, <1>2, StageFrame
<1>4. Hand(w["send"]) = {} /\ Hand(w'["send"]) = {i}
  <2>1. w["send"].ev = 0 /\ i # 0
    BY <1>0, <1>1, <1>2 DEF HandsOK, Event
  <2>2. w'["send"].ev = i
    BY <1>2
  <2> QED
    BY <2>1, <2>2 DEF Hand
<1>5. Line'[10] = Line[10] \cup {i}
  <2>1. sent \in Seq(Event) /\ sent' = Append(sent, i)
    BY <1>1, <1>2 DEF PipelineTypeOK
  <2>2. Elems(Append(sent, i)) = Elems(sent) \cup {i}
    <3>1. /\ DOMAIN sent = 1..Len(sent) /\ Len(sent) \in Nat
          /\ DOMAIN Append(sent, i) = 1..(Len(sent) + 1) /\ Append(sent, i)[Len(sent) + 1] = i
          /\ \A k \in DOMAIN sent : Append(sent, i)[k] = sent[k]
      BY <2>1, <1>2
    <3>2. \A k \in DOMAIN Append(sent, i) : k \in DOMAIN sent \/ k = Len(sent) + 1
      BY <3>1
    <3>3. Len(sent) + 1 \in DOMAIN Append(sent, i) /\ DOMAIN sent \subseteq DOMAIN Append(sent, i)
      BY <3>1
    <3>4. Elems(Append(sent, i)) \subseteq Elems(sent) \cup {i}
      BY <3>1, <3>2 DEF Elems
    <3>5. Elems(sent) \cup {i} \subseteq Elems(Append(sent, i))
      BY <3>1, <3>3 DEF Elems
    <3> QED
      BY <3>4, <3>5
  <2> QED
    BY <2>1, <2>2, LineNow, LineThen
<1>6. Advances(9, i)
  BY <1>2, <1>3, <1>5 DEF Advances
<1>7. InOrder(Line)' /\ Accounted'
  BY <1>0, <1>1, <1>4, <1>6, AdvanceKeeps
<1>8. QueuesSorted'
  BY <1>1, <1>2 DEF FlowInv, QueuesSorted
<1>9. DownIsEmpty'
  BY <1>0, <1>1, <1>2, NotDown DEF DownIsEmpty
<1>10. PolicyHeld'
  <2>1. Line'[8] \subseteq Sharable
    BY <1>3, PolicyParts
  <2>2. Line'[9] \subseteq Sharable /\ Line'[10] \subseteq Sharable
    BY <1>2, <1>5, PolicyParts
  <2>3. Hand(w'["send"]) \subseteq Line'[10] /\ event' = event
    BY <1>1, <1>4, <1>5
  <2> QED
    BY <2>1, <2>2, <2>3, PolicyKeeps
<1> QED
  BY <1>7, <1>8, <1>9, <1>10 DEF FlowInv

\* The transmission worker settles the transaction it holds.
LEMMA SettleFlow ==
    ASSUME PipelineTypeOK, HandsOK, FlowInv, Settle
    PROVE  FlowInv'
<1> DEFINE i == w["send"].ev
<1>0. "send" \in Stage /\ (\A b \in 1..9 : b \in Place) /\ 10 \in Place /\ Place' = Place /\ Event' = Event
  BY DEF Stage, Place, Event
<1>1. /\ w["send"].pc = "work" /\ w' = [w EXCEPT !["send"] = NextRound]
      /\ UNCHANGED <<event, published, sub, listener, q, sent>>
  BY DEF Settle
<1>2. PICK how \in {"acked", "failed"} : fate' = [fate EXCEPT ![i] = how]
  BY DEF Settle
<1>3. w'["send"] = NextRound /\ \A r \in Stage : r # "send" => w'[r] = w[r]
  BY <1>0, <1>1 DEF PipelineTypeOK
<1>4. i \in Event /\ Hand(w["send"]) = {i} /\ Hand(w'["send"]) = {}
  <2>1. i # 0 /\ i \in 0..NumEvents
    BY <1>0, <1>1 DEF HandsOK, PipelineTypeOK, Holder
  <2> QED
    BY <2>1, <1>3, NextRoundType DEF Hand, Event
<1>5. \A b \in Place : Line'[b] = Line[b]
  <2>1. "extract" \in Stage /\ "sign" \in Stage /\ "pep" \in Stage
    BY DEF Stage
  <2> QED
    BY <1>1, <1>3, <2>1, LineNow, LineThen, Places10
<1>6. InOrder(Line)'
  <2>1. InOrder(Line')
    BY <1>5, LeaveInOrder DEF FlowInv
  <2> QED
    BY <2>1, <1>0 DEF InOrder
<1>7. i \in Line[10] /\ \A b \in 1..9 : i \notin Line[b]
  <2>1. i \in Line[10]
    BY <1>4, PolicyParts
  <2> QED
    BY <1>0, <2>1, OnePlace DEF FlowInv
<1>8. Live' = Live \ {i} /\ i \in Live
  <2>1. Live' = {x \in Event : (\E b \in 1..9 : x \in Line'[b]) \/ x \in Hand(w'["send"])}
    BY <1>0 DEF Live, Hand
  <2> QED
    BY <1>0, <1>4, <1>5, <1>7, <2>1 DEF Live
<1>9. Accounted'
  <2>1. \A x \in {i} : fate'[x] # "none"
    BY <1>2, <1>4 DEF PipelineTypeOK
  <2>2. \A x \in Event \ {i} : fate'[x] = fate[x]
    BY <1>2, <1>4 DEF PipelineTypeOK
  <2>3. {i} \in SUBSET Live
    BY <1>8
  <2>4. \A b \in Place : \A x \in Line'[b] : \E c \in Place : x \in Line[c]
    BY <1>5
  <2> QED
    BY <1>1, <1>8, <2>1, <2>2, <2>3, <2>4, LeavingAccounted
<1>10. QueuesSorted'
  BY <1>1 DEF FlowInv, QueuesSorted
<1>11. DownIsEmpty'
  BY <1>1, <1>4, NotDown DEF DownIsEmpty
<1>12. PolicyHeld'
  BY <1>1, <1>4, <1>5, PolicyParts, PolicyKeeps
<1> QED
  BY <1>6, <1>9, <1>10, <1>11, <1>12 DEF FlowInv

\* The extractor's thread comes back with a bundle, which it goes on holding ...
LEMMA ExtractedFlow ==
    ASSUME PipelineTypeOK, HandsOK, FlowInv, Extracted
    PROVE  FlowInv'
<1>0. "extract" \in Stage /\ "sign" \in Stage /\ "pep" \in Stage /\ "send" \in Stage
  BY DEF Stage
<1>1. /\ w' = [w EXCEPT !["extract"].pc = "put"]
      /\ UNCHANGED <<event, published, sub, listener, q, sent, fate>>
  BY DEF Extracted
<1>2. \A r \in Stage : Hand(w'[r]) = Hand(w[r])
  BY <1>0, <1>1 DEF PipelineTypeOK, Holder, Hand
<1>3. \A b \in Place : Line'[b] = Line[b]
  BY <1>0, <1>1, <1>2, LineNow, LineThen, Places10
<1>4. InOrder(Line)' /\ Accounted'
  BY <1>0, <1>1, <1>2, <1>3, StillKeeps
<1>5. QueuesSorted'
  BY <1>1 DEF FlowInv, QueuesSorted
<1>6. DownIsEmpty'
  <2>1. Hand(w["send"])' = Hand(w'["send"]) /\ \A b \in 1..9 : b \in Place
    BY DEF Hand, Place
  <2> QED
    BY <1>0, <1>1, <1>2, <1>3, <2>1 DEF FlowInv, DownIsEmpty
<1>7. PolicyHeld'
  BY <1>0, <1>1, <1>2, <1>3, PolicyParts, PolicyKeeps
<1> QED
  BY <1>4, <1>5, <1>6, <1>7 DEF FlowInv

\* ... or with nothing: the event is rejected.
LEMMA ConversionFailsFlow ==
    ASSUME PipelineTypeOK, HandsOK, FlowInv, ConversionFails
    PROVE  FlowInv'
<1> DEFINE i == w["extract"].ev
<1>0. /\ "extract" \in Stage /\ "sign" \in Stage /\ "pep" \in Stage /\ "send" \in Stage
      /\ 4 \in 1..9 /\ 4 \in Place /\ "rejected" \in Fate
  BY DEF Stage, Place, Fate
<1>1. /\ w["extract"].pc = "work" /\ w' = [w EXCEPT !["extract"] = NextRound]
      /\ fate' = [fate EXCEPT ![i] = "rejected"]
      /\ UNCHANGED <<event, published, sub, listener, q, sent>>
  BY DEF ConversionFails
<1>2. w'["extract"] = NextRound /\ \A r \in Stage : r # "extract" => w'[r] = w[r]
  BY <1>0, <1>1 DEF PipelineTypeOK
<1>3. Hand(w["extract"]) = {i} /\ Hand(w'["extract"]) = {}
  BY <1>0, <1>1, <1>2, NextRoundType DEF HandsOK, Hand
<1>4. \A b \in Place : b # 4 => Line'[b] = Line[b]
  BY <1>0, <1>1, <1>2, LineNow, LineThen, Places10
<1>5. Leaves(4, i)
  BY <1>3, <1>4, LineNow, LineThen DEF Leaves
<1>6. InOrder(Line)' /\ Accounted'
  BY <1>0, <1>1, <1>2, <1>5, LeaveKeeps
<1>7. QueuesSorted'
  BY <1>1 DEF FlowInv, QueuesSorted
<1>8. DownIsEmpty'
  BY <1>0, <1>1, <1>5, NotDown DEF DownIsEmpty, Leaves
<1>9. PolicyHeld'
  BY <1>0, <1>1, <1>2, <1>4, PolicyParts, PolicyKeeps
<1> QED
  BY <1>6, <1>7, <1>8, <1>9 DEF FlowInv

-----------------------------------------------------------------------------
(* The listener and the process                                            *)

\* A step of the listener, the socket or MISP that leaves the workers alone.
LEMMA UpstreamFrame ==
    ASSUME UNCHANGED <<q, w, sent>>
    PROVE  /\ \A b \in Place : b # 1 /\ b # 2 => Line'[b] = Line[b]
           /\ Hand(w'["send"]) = Hand(w["send"])
  BY LineNow, LineThen, Places10

\* MISP publishes: the event enters the line last, or is missed.
LEMMA PublishFlow ==
    ASSUME PipelineTypeOK, HandsOK, FlowInv, Publish
    PROVE  FlowInv'
<1> DEFINE i == published + 1
<1>0. /\ 1 \in Place /\ 2 \in Place /\ 1 \in 1..9 /\ (\A b \in 1..9 : b \in Place)
      /\ Place' = Place /\ Event' = Event
  BY DEF Place, Event
<1>1. /\ published < NumEvents /\ published' = i
      /\ UNCHANGED <<event, listener, q, w, sent>>
  BY DEF Publish
<1>2. i \in Event /\ published \in Nat
  BY <1>1 DEF Event, PipelineTypeOK
<1>3. /\ \A b \in Place : b # 1 => Line'[b] = Line[b]
      /\ Hand(w'["send"]) = Hand(w["send"])
  BY <1>1, UpstreamFrame, LineNow, LineThen
<1>4. \A b \in Place : \A j \in Line[b] : j < i /\ j \in Event
  <2>1. \A b \in Place : \A j \in Line[b] : j <= published /\ j \in Event
    BY LineType DEF FlowInv, Accounted
  <2> QED
    BY <1>2, <2>1 DEF Event
<1>5. i \notin Live /\ Live \subseteq Event
  <2>1. 10 \in Place
    BY DEF Place
  <2>2. \A b \in Place : i \notin Line[b]
    BY <1>2, <1>4
  <2> QED
    BY <1>0, <2>1, <2>2, PolicyParts DEF Live
<1>6. fate[i] = "none"
  BY <1>2 DEF FlowInv, Accounted
<1>7. Live' = {x \in Event : (\E b \in 1..9 : x \in Line'[b]) \/ x \in Hand(w'["send"])}
  BY <1>0 DEF Live, Hand
<1>8. CASE Listening /\ Len(sub) < SubHwm
  <2>1. sub' = Append(sub, i) /\ fate' = fate
    BY <1>8 DEF Publish
  <2>2. sub \in Seq(Event) /\ Sorted(sub) /\ \A j \in Elems(sub) : j < i
    BY <1>0, <1>4, LineNow DEF PipelineTypeOK, FlowInv, QueuesSorted
  <2>3. Elems(sub') = Elems(sub) \cup {i} /\ Sorted(sub')
    BY <1>2, <2>1, <2>2, AppendElems
  <2>4. Line'[1] = Line[1] \cup {i}
    BY <2>3, LineNow, LineThen
  <2>5. InOrder(Line)'
    <3>1. InOrder(Line')
      BY <1>3, <1>4, <2>4, EnterInOrder DEF FlowInv
    <3> QED
      BY <3>1, <1>0 DEF InOrder
  <2>6. Live' = Live \cup {i}
    BY <1>0, <1>2, <1>3, <1>7, <2>4 DEF Live
  <2>7. Accounted'
    <3>1. ASSUME NEW x \in Event PROVE fate'[x] # "none" <=> x <= published' /\ x \notin Live'
      <4>1. x = i \/ (x <= published' <=> x <= published)
        BY <1>1, <1>2 DEF Event
      <4> QED
        BY <1>6, <2>1, <2>6, <4>1 DEF FlowInv, Accounted
    <3>2. ASSUME NEW b \in Place, NEW x \in Line'[b] PROVE x <= published'
      <4>1. x = i \/ x \in Line[b]
        BY <1>3, <2>4
      <4>2. x \in Int /\ i \in Int /\ (x = i \/ x < i)
        BY <4>1, <1>2, <1>4 DEF Event
      <4> QED
        BY <1>1, <4>2
    <3> QED
      BY <1>0, <3>1, <3>2 DEF Accounted
  <2>8. QueuesSorted'
    BY <1>1, <2>3 DEF FlowInv, QueuesSorted
  <2>9. DownIsEmpty'
    BY <1>1, <1>8 DEF DownIsEmpty, Listening
  <2>10. PolicyHeld'
    BY <1>1, <1>3, PolicyParts, PolicyKeeps
  <2> QED
    BY <2>5, <2>7, <2>8, <2>9, <2>10 DEF FlowInv
<1>9. CASE ~(Listening /\ Len(sub) < SubHwm)
  <2>1. sub' = sub /\ fate' = [fate EXCEPT ![i] = "missed"]
    BY <1>9 DEF Publish
  <2>2. \A b \in Place : Line'[b] = Line[b]
    BY <1>3, <2>1, LineNow, LineThen
  <2>3. InOrder(Line)'
    <3>1. InOrder(Line')
      BY <2>2, LeaveInOrder DEF FlowInv
    <3> QED
      BY <3>1, <1>0 DEF InOrder
  <2>4. Live' = Live
    BY <1>0, <1>3, <1>7, <2>2 DEF Live
  <2>5. Accounted'
    <3>1. ASSUME NEW x \in Event PROVE fate'[x] # "none" <=> x <= published' /\ x \notin Live'
      <4>1. x # i => (x <= published' <=> x <= published)
        BY <1>1, <1>2 DEF Event
      <4>2. fate'[x] = IF x = i THEN "missed" ELSE fate[x]
        BY <2>1 DEF PipelineTypeOK
      <4>3. i <= published'
        BY <1>1, <1>2
      <4> QED
        BY <1>5, <2>4, <4>1, <4>2, <4>3 DEF FlowInv, Accounted
    <3>2. ASSUME NEW b \in Place, NEW x \in Line'[b] PROVE x <= published'
      <4>1. x < i /\ x \in Int /\ i \in Int
        BY <1>2, <1>4, <2>2 DEF Event
      <4> QED
        BY <1>1, <4>1
    <3> QED
      BY <1>0, <3>1, <3>2 DEF Accounted
  <2>6. QueuesSorted'
    BY <1>1, <2>1 DEF FlowInv, QueuesSorted
  <2>7. DownIsEmpty'
    <3>1. Hand(w["send"])' = Hand(w'["send"])
      BY DEF Hand
    <3> QED
      BY <1>0, <1>1, <1>3, <2>2, <3>1 DEF FlowInv, DownIsEmpty
  <2>8. PolicyHeld'
    BY <1>1, <1>3, <2>2, PolicyParts, PolicyKeeps
  <2> QED
    BY <2>3, <2>5, <2>6, <2>7, <2>8 DEF FlowInv
<1> QED
  BY <1>8, <1>9

\* recv_string returns an event for the pipeline: the listener holds it ...
LEMMA AcceptFlow ==
    ASSUME PipelineTypeOK, HandsOK, FlowInv, Accept
    PROVE  FlowInv'
<1> DEFINE i == Head(sub)
           h == [pc |-> "put", ev |-> i]
<1>0. 1 \in 1..9 /\ 1 \in Place /\ 2 \in Place
  BY DEF Place
<1>1. /\ listener.pc = "recv" /\ sub # << >> /\ sub' = Tail(sub) /\ listener' = h
      /\ UNCHANGED <<event, published, q, w, sent, fate>>
  BY DEF Accept
<1>2. /\ i \in Elems(sub) /\ i \in Event /\ (\A j \in Elems(sub) : j # i => i < j)
      /\ Elems(Tail(sub)) = Elems(sub) \ {i} /\ Sorted(Tail(sub))
  BY <1>1, TailElems DEF PipelineTypeOK, FlowInv, QueuesSorted
<1>3. Hand(listener) = {} /\ Hand(listener') = {i}
  <2>1. listener.ev = 0 /\ i # 0
    BY <1>1, <1>2 DEF HandsOK, Event
  <2>2. listener'.ev = i
    BY <1>1
  <2> QED
    BY <2>1, <2>2 DEF Hand
<1>4. /\ \A b \in Place : b # 1 /\ b # 2 => Line'[b] = Line[b]
      /\ Hand(w'["send"]) = Hand(w["send"])
  BY <1>1, UpstreamFrame
<1>5. Advances(1, i)
  BY <1>1, <1>2, <1>3, <1>4, LineNow, LineThen DEF Advances
<1>6. InOrder(Line)' /\ Accounted'
  BY <1>0, <1>1, <1>4, <1>5, AdvanceKeeps
<1>7. QueuesSorted'
  BY <1>1, <1>2 DEF FlowInv, QueuesSorted
<1>8. DownIsEmpty'
  BY <1>1 DEF DownIsEmpty
<1>9. PolicyHeld'
  BY <1>1, <1>4, PolicyParts, PolicyKeeps
<1> QED
  BY <1>6, <1>7, <1>8, <1>9 DEF FlowInv

\* ... or one to be ignored: it leaves the line.
LEMMA IgnoreFlow ==
    ASSUME PipelineTypeOK, HandsOK, FlowInv, Ignore
    PROVE  FlowInv'
<1> DEFINE i == Head(sub)
<1>0. 1 \in 1..9 /\ 1 \in Place /\ 2 \in Place /\ "dropped" \in Fate
  BY DEF Place, Fate
<1>1. /\ listener.pc = "recv" /\ sub # << >> /\ sub' = Tail(sub)
      /\ fate' = [fate EXCEPT ![i] = "dropped"]
      /\ UNCHANGED <<event, published, listener, q, w, sent>>
  BY DEF Ignore
<1>2. i \in Elems(sub) /\ Elems(Tail(sub)) = Elems(sub) \ {i} /\ Sorted(Tail(sub))
  BY <1>1, TailElems DEF PipelineTypeOK, FlowInv, QueuesSorted
<1>3. /\ \A b \in Place : b # 1 => Line'[b] = Line[b]
      /\ Hand(w'["send"]) = Hand(w["send"])
  BY <1>1, UpstreamFrame, LineNow, LineThen
<1>4. Leaves(1, i)
  BY <1>1, <1>2, <1>3, LineNow, LineThen DEF Leaves
<1>5. InOrder(Line)' /\ Accounted'
  BY <1>0, <1>1, <1>3, <1>4, LeaveKeeps
<1>6. QueuesSorted'
  BY <1>1, <1>2 DEF FlowInv, QueuesSorted
<1>7. DownIsEmpty'
  BY <1>1 DEF DownIsEmpty
<1>8. PolicyHeld'
  BY <1>1, <1>3, PolicyParts, PolicyKeeps
<1> QED
  BY <1>5, <1>6, <1>7, <1>8 DEF FlowInv

\* The socket is closed with what it holds.
LEMMA SocketClosedFlow ==
    ASSUME PipelineTypeOK, FlowInv, sub' = << >>,
           \A x \in Elems(sub) : fate'[x] # "none",
           \A x \in Event \ Elems(sub) : fate'[x] = fate[x],
           UNCHANGED <<event, published, q, w, sent>>,
           Hand(listener') = Hand(listener), listener'.pc # "down"
    PROVE  FlowInv'
<1>0. /\ 1 \in 1..9 /\ 1 \in Place /\ 2 \in Place /\ 10 \in Place /\ (\A b \in 1..9 : b \in Place)
      /\ Place' = Place /\ Event' = Event
  BY DEF Place, Event
<1>1. /\ Line'[1] = {} /\ \A b \in Place : b # 1 => Line'[b] = Line[b]
      /\ Hand(w'["send"]) = Hand(w["send"])
  BY UpstreamFrame, EmptyElems, LineNow, LineThen
<1>2. InOrder(Line)'
  <2>1. InOrder(Line')
    BY <1>1, LeaveInOrder DEF FlowInv
  <2> QED
    BY <2>1, <1>0 DEF InOrder
<1>3. Elems(sub) = Line[1] /\ Line[1] \in SUBSET Live
  BY <1>0, LineNow, LineType DEF Live
<1>4. \A x \in Line[1] : (\A b \in Place : b # 1 => x \notin Line[b]) /\ x \notin Hand(w["send"])
  BY <1>0, OnePlace, PolicyParts DEF FlowInv
<1>5. Live' = Live \ Line[1]
  <2>1. Live' = {x \in Event : (\E b \in 1..9 : x \in Line'[b]) \/ x \in Hand(w'["send"])}
    BY <1>0 DEF Live, Hand
  <2>2. ASSUME NEW x \in Event
        PROVE  ((\E b \in 1..9 : x \in Line'[b]) \/ x \in Hand(w'["send"]))
                 <=> x \notin Line[1] /\ ((\E b \in 1..9 : x \in Line[b]) \/ x \in Hand(w["send"]))
    BY <1>0, <1>1, <1>4
  <2> QED
    BY <2>1, <2>2 DEF Live
<1>6. \A b \in Place : \A x \in Line'[b] : \E c \in Place : x \in Line[c]
  BY <1>1
<1>7. Accounted'
  BY <1>3, <1>5, <1>6, LeavingAccounted
<1>8. QueuesSorted'
  BY EmptyElems DEF FlowInv, QueuesSorted
<1>9. DownIsEmpty'
  BY DEF DownIsEmpty
<1>10. PolicyHeld'
  BY <1>1, PolicyParts, PolicyKeeps
<1> QED
  BY <1>2, <1>7, <1>8, <1>9, <1>10 DEF FlowInv

\* What CloseSocket does to the fates, when it starts from fates that differ from
\* the current ones at most for a buffered event that was dropped.
LEMMA CloseSocketFates ==
    ASSUME PipelineTypeOK, FlowInv, NEW f, CloseSocket(f),
           \A x \in Event : f[x] = fate[x] \/ (x \in Elems(sub) /\ f[x] = "dropped")
    PROVE  /\ sub' = << >>
           /\ \A x \in Elems(sub) : fate'[x] # "none"
           /\ \A x \in Event \ Elems(sub) : fate'[x] = fate[x]
<1>1. Elems(sub) \subseteq Event
  BY LineType, LineNow DEF Place
<1>2. \A x \in Event : fate'[x] = IF x \in Elems(sub) /\ f[x] = "none" THEN "missed" ELSE f[x]
  BY DEF CloseSocket, Elems
<1> QED
  BY <1>1, <1>2 DEF CloseSocket

\* put() of the listener.
LEMMA IngestFlow ==
    ASSUME PipelineTypeOK, HandsOK, FlowInv, Ingest
    PROVE  FlowInv'
<1> DEFINE i == listener.ev
<1>0. /\ 2 \in 1..9 /\ 2 \in Place /\ 3 \in Place
      /\ "extract" \in Stage /\ "sign" \in Stage /\ "pep" \in Stage /\ "send" \in Stage
  BY DEF Place, Stage
<1>1. /\ listener.pc = "put" /\ q' = [q EXCEPT !["extract"] = Append(@, i)]
      /\ listener' = [pc |-> IF stopping THEN "done" ELSE "recv", ev |-> 0]
      /\ UNCHANGED <<event, published, sub, w, sent, fate>>
  BY DEF Ingest
<1>2. i \in Event /\ Hand(listener) = {i}
  <2>1. i # 0 /\ i \in 0..NumEvents
    BY <1>1 DEF HandsOK, PipelineTypeOK
  <2> QED
    BY <2>1 DEF Hand, Event
<1>3. Hand(listener') = {} /\ listener'.pc # "down"
  <2>1. listener'.ev = 0 /\ listener'.pc # "down"
    BY <1>1
  <2> QED
    BY <2>1 DEF Hand
<1>4. q \in [Stage -> Seq(Event)] /\ q["extract"] \in Seq(Event) /\ Sorted(q["extract"])
  BY <1>0 DEF PipelineTypeOK, FlowInv, QueuesSorted
<1>5. q'["extract"] = Append(q["extract"], i) /\ \A r \in Stage : r # "extract" => q'[r] = q[r]
  BY <1>0, <1>1, <1>4
<1>6. \A j \in Elems(q["extract"]) : j < i
  <2>1. i \in Line[2] /\ Line[3] = Elems(q["extract"])
    BY <1>2, LineNow
  <2> QED
    BY <1>0, <2>1 DEF FlowInv, InOrder
<1>7. Elems(q'["extract"]) = Elems(q["extract"]) \cup {i} /\ Sorted(q'["extract"])
  BY <1>2, <1>4, <1>5, <1>6, AppendElems
<1>8. \A b \in Place : b # 2 /\ b # 3 => Line'[b] = Line[b]
  <2>1. UNCHANGED <<sub, w, sent>>
    BY <1>1
  <2>2. q'["sign"] = q["sign"] /\ q'["pep"] = q["pep"] /\ q'["send"] = q["send"]
    BY <1>0, <1>5
  <2> QED
    BY <2>1, <2>2, LineNow, LineThen, Places10
<1>9. Advances(2, i)
  BY <1>2, <1>3, <1>7, <1>8, LineNow, LineThen DEF Advances
<1>10. InOrder(Line)' /\ Accounted'
  BY <1>0, <1>1, <1>9, AdvanceKeeps
<1>11. QueuesSorted'
  BY <1>1, <1>5, <1>7 DEF FlowInv, QueuesSorted
<1>12. DownIsEmpty'
  BY <1>3 DEF DownIsEmpty
<1>13. PolicyHeld'
  BY <1>1, <1>8, PolicyParts, PolicyKeeps
<1> QED
  BY <1>10, <1>11, <1>12, <1>13 DEF FlowInv

\* What the process holds is what is live: a crash takes the live events with it.
LEMMA InProcessIsLive == \A x \in Event : x \in InProcess <=> x \in Live
<1>0. "extract" \in Stage /\ "sign" \in Stage /\ "pep" \in Stage /\ "send" \in Stage
  BY DEF Stage
<1> TAKE x \in Event
<1>1. x # 0
  BY DEF Event
<1>2. x \in InProcess <=> \/ x \in Elems(sub) \/ x = listener.ev
                          \/ (\E s \in Stage : x = w[s].ev) \/ (\E s \in Stage : x \in Elems(q[s]))
  BY DEF InProcess, Elems
<1>3. \A s \in Stage : s = "extract" \/ s = "sign" \/ s = "pep" \/ s = "send"
  BY DEF Stage
<1>4. (x = listener.ev <=> x \in Hand(listener)) /\ \A s \in Stage : x = w[s].ev <=> x \in Hand(w[s])
  BY <1>1 DEF Hand
<1>5. x \in InProcess <=> \/ x \in Line[1] \/ x \in Line[2] \/ x \in Line[3] \/ x \in Line[4]
                          \/ x \in Line[5] \/ x \in Line[6] \/ x \in Line[7] \/ x \in Line[8]
                          \/ x \in Line[9] \/ x \in Hand(w["send"])
  BY <1>0, <1>2, <1>3, <1>4, LineNow
<1>6. (\E b \in 1..9 : x \in Line[b])
         <=> \/ x \in Line[1] \/ x \in Line[2] \/ x \in Line[3] \/ x \in Line[4]
             \/ x \in Line[5] \/ x \in Line[6] \/ x \in Line[7] \/ x \in Line[8] \/ x \in Line[9]
  <2>1. \A b \in 1..9 : \/ b = 1 \/ b = 2 \/ b = 3 \/ b = 4 \/ b = 5
                         \/ b = 6 \/ b = 7 \/ b = 8 \/ b = 9
    OBVIOUS
  <2>2. /\ 1 \in 1..9 /\ 2 \in 1..9 /\ 3 \in 1..9 /\ 4 \in 1..9 /\ 5 \in 1..9
        /\ 6 \in 1..9 /\ 7 \in 1..9 /\ 8 \in 1..9 /\ 9 \in 1..9
    OBVIOUS
  <2> QED
    BY <2>1, <2>2, Zenon
<1> QED
  BY <1>5, <1>6 DEF Live

\* The process dies: every live event is lost, and the line behind the hand-over
\* is empty.
LEMMA CrashFlow ==
    ASSUME PipelineTypeOK, HandsOK, FlowInv, Crash
    PROVE  FlowInv'
<1>0. /\ 10 \in Place /\ (\A b \in 1..9 : b \in Place) /\ Place' = Place /\ Event' = Event
      /\ "extract" \in Stage /\ "sign" \in Stage /\ "pep" \in Stage /\ "send" \in Stage
  BY DEF Place, Event, Stage
<1>1. /\ sub' = << >> /\ (\A s \in Stage : q'[s] = << >>)
      /\ (\A s \in Stage : w'[s] = [pc |-> "done", ev |-> 0])
      /\ listener' = [pc |-> "down", ev |-> 0] /\ UNCHANGED <<event, published, sent>>
  BY DEF Crash
<1>2. Hand(listener') = {} /\ \A s \in Stage : Hand(w'[s]) = {}
  <2>1. listener'.ev = 0 /\ \A s \in Stage : w'[s].ev = 0
    BY <1>1
  <2> QED
    BY <2>1 DEF Hand
<1>3. (\A b \in 1..9 : Line'[b] = {}) /\ Line'[10] = Line[10]
  <2>1. \A b \in 1..9 : \/ b = 1 \/ b = 2 \/ b = 3 \/ b = 4 \/ b = 5
                         \/ b = 6 \/ b = 7 \/ b = 8 \/ b = 9
    OBVIOUS
  <2> QED
    BY <1>0, <1>1, <1>2, <2>1, EmptyElems, LineNow, LineThen
<1>4. \A b \in Place : Line'[b] \subseteq Line[b]
  <2>1. \A b \in Place : b \in 1..9 \/ b = 10
    BY DEF Place
  <2> QED
    BY <1>3, <2>1
<1>5. InOrder(Line)'
  <2>1. InOrder(Line')
    BY <1>4, LeaveInOrder DEF FlowInv
  <2> QED
    BY <2>1, <1>0 DEF InOrder
<1>6. Live' = {}
  <2>1. Live' = {x \in Event : (\E b \in 1..9 : x \in Line'[b]) \/ x \in Hand(w'["send"])}
    BY <1>0 DEF Live, Hand
  <2> QED
    BY <1>0, <1>2, <1>3, <2>1
<1>8. \A x \in Event : fate'[x] = IF x \in Live THEN "lost" ELSE fate[x]
  BY InProcessIsLive DEF Crash
<1>9. Accounted'
  <2>1. Live \in SUBSET Live /\ Live' = Live \ Live /\ Live \subseteq Event
    BY <1>6 DEF Live
  <2>2. (\A x \in Live : fate'[x] # "none") /\ \A x \in Event \ Live : fate'[x] = fate[x]
    BY <1>8, <2>1
  <2>3. \A b \in Place : \A x \in Line'[b] : \E c \in Place : x \in Line[c]
    BY <1>4
  <2> QED
    BY <1>1, <2>1, <2>2, <2>3, LeavingAccounted
<1>10. QueuesSorted'
  BY <1>1, EmptyElems DEF QueuesSorted
<1>11. DownIsEmpty'
  <2>1. Hand(w["send"])' = Hand(w'["send"])
    BY DEF Hand
  <2> QED
    BY <1>0, <1>2, <1>3, <2>1 DEF DownIsEmpty
<1>12. PolicyHeld'
  <2>0. 8 \in 1..9 /\ 9 \in 1..9
    OBVIOUS
  <2>1. Line'[8] = {} /\ Line'[9] = {} /\ event' = event
    BY <1>1, <1>3, <2>0, Zenon
  <2>2. Hand(w'["send"]) = {}
    BY <1>0, <1>2
  <2> QED
    BY <1>3, <2>1, <2>2, PolicyParts, PolicyKeeps
<1> QED
  BY <1>5, <1>9, <1>10, <1>11, <1>12 DEF FlowInv

\* Every step keeps the invariant.
LEMMA FlowStep ==
    ASSUME PipelineTypeOK, HandsOK, FlowInv, [Next]_vars
    PROVE  FlowInv'
<1>s. "extract" \in Stage /\ "sign" \in Stage /\ "pep" \in Stage /\ "send" \in Stage
  BY DEF Stage
<1>f. "unsigned" \in Fate /\ "denied" \in Fate
  BY DEF Fate
<1>1. CASE Publish
  BY <1>1, PublishFlow
<1>2. CASE Accept
  BY <1>2, AcceptFlow
<1>3. CASE Ignore
  BY <1>3, IgnoreFlow
<1>4. CASE Choke
  <2> DEFINE f == [fate EXCEPT ![Head(sub)] = "dropped"]
  <2>1. /\ listener.pc = "recv" /\ sub # << >> /\ CloseSocket(f)
        /\ listener' = [pc |-> "sleep", ev |-> 0]
        /\ UNCHANGED <<event, published, q, w, sent>>
    BY <1>4 DEF Choke
  <2>2. Head(sub) \in Elems(sub)
    BY <2>1, TailElems DEF PipelineTypeOK, FlowInv, QueuesSorted
  <2>3. \A x \in Event : f[x] = fate[x] \/ (x \in Elems(sub) /\ f[x] = "dropped")
    BY <2>2 DEF PipelineTypeOK
  <2>4. /\ sub' = << >> /\ \A x \in Elems(sub) : fate'[x] # "none"
        /\ \A x \in Event \ Elems(sub) : fate'[x] = fate[x]
    BY <2>1, <2>3, CloseSocketFates
  <2>5. Hand(listener') = Hand(listener) /\ listener'.pc # "down"
    <3>1. listener.ev = 0 /\ listener'.ev = 0 /\ listener'.pc # "down"
      BY <2>1 DEF HandsOK
    <3> QED
      BY <3>1 DEF Hand
  <2> QED
    BY <2>1, <2>4, <2>5, SocketClosedFlow
<1>5. CASE SocketError
  <2>1. /\ listener.pc = "recv" /\ CloseSocket(fate)
        /\ listener' = [pc |-> "sleep", ev |-> 0]
        /\ UNCHANGED <<event, published, q, w, sent>>
    BY <1>5 DEF SocketError
  <2>2. /\ sub' = << >> /\ \A x \in Elems(sub) : fate'[x] # "none"
        /\ \A x \in Event \ Elems(sub) : fate'[x] = fate[x]
    BY <2>1, CloseSocketFates
  <2>3. Hand(listener') = Hand(listener) /\ listener'.pc # "down"
    <3>1. listener.ev = 0 /\ listener'.ev = 0 /\ listener'.pc # "down"
      BY <2>1 DEF HandsOK
    <3> QED
      BY <3>1 DEF Hand
  <2> QED
    BY <2>1, <2>2, <2>3, SocketClosedFlow
<1>6. CASE Reconnect
  <2>1. listener.ev = 0 /\ listener'.ev = 0 /\ listener'.pc # "down"
    BY <1>6 DEF Reconnect, HandsOK
  <2>2. UNCHANGED <<event, published, sub, q, w, sent, fate>>
    BY <1>6 DEF Reconnect
  <2>3. \A b \in Place : Line'[b] = Line[b]
    <3>1. Hand(listener') = Hand(listener)
      BY <2>1 DEF Hand
    <3> QED
      BY <2>2, <3>1, LineNow, LineThen, Places10
  <2>4. InOrder(Line)' /\ Accounted'
    BY <2>2, <2>3, StillKeeps
  <2>5. QueuesSorted' /\ DownIsEmpty'
    BY <2>1, <2>2 DEF FlowInv, QueuesSorted, DownIsEmpty
  <2>6. PolicyHeld'
    BY <2>2, <2>3, PolicyParts, PolicyKeeps
  <2> QED
    BY <2>4, <2>5, <2>6 DEF FlowInv
<1>7. CASE Ingest
  BY <1>7, IngestFlow
<1>8. CASE StartConversion
  BY <1>8, <1>s, TakeFlow DEF StartConversion
<1>9. CASE Extracted
  BY <1>9, ExtractedFlow
<1>10. CASE ConversionFails
  BY <1>10, ConversionFailsFlow
<1>11. CASE Sign
  BY <1>11, <1>s, TakeFlow DEF Sign
<1>12. CASE SignFails
  BY <1>12, <1>s, <1>f, TakeAndDropFlow DEF SignFails
<1>13. CASE Approve
  <2>1. q["pep"] \in Seq(Event) /\ q["pep"] # << >>
    BY <1>13, <1>s DEF Approve, Take, PipelineTypeOK
  <2>2. Head(q["pep"]) \in Event
    BY <2>1, EventSeqs
  <2>3. Head(q["pep"]) \in Sharable
    BY <1>13, <2>2 DEF Approve, Sharable
  <2>4. Take("pep", "put") /\ UNCHANGED <<event, published, sub, listener, sent, fate>>
    BY <1>13 DEF Approve
  <2> QED
    BY <2>3, <2>4, <1>s, TakeFlow
<1>14. CASE Reject
  BY <1>14, <1>s, <1>f, TakeAndDropFlow DEF Reject
<1>15. CASE StartSending
  BY <1>15, StartSendingFlow
<1>16. CASE Settle
  BY <1>16, SettleFlow
<1>17. ASSUME NEW s \in Stage, Put(s) PROVE FlowInv'
  BY <1>17, PutFlow
<1>18. CASE Shutdown
  <2>1. /\ listener.pc # "down" /\ CloseSocket(fate)
        /\ listener' = IF listener.pc = "recv" THEN [pc |-> "done", ev |-> 0] ELSE listener
        /\ UNCHANGED <<event, published, q, w, sent>>
    BY <1>18 DEF Shutdown
  <2>2. /\ sub' = << >> /\ \A x \in Elems(sub) : fate'[x] # "none"
        /\ \A x \in Event \ Elems(sub) : fate'[x] = fate[x]
    BY <2>1, CloseSocketFates
  <2>3. listener'.ev = listener.ev /\ listener'.pc # "down"
    BY <2>1 DEF HandsOK
  <2>4. Hand(listener') = Hand(listener)
    BY <2>3 DEF Hand
  <2> QED
    BY <2>1, <2>2, <2>3, <2>4, SocketClosedFlow
<1>19. CASE Crash
  BY <1>19, CrashFlow
<1>20. CASE Restart
  <2>1. /\ listener.pc = "down" /\ listener' = [pc |-> "recv", ev |-> 0]
        /\ (\A s \in Stage : w'[s] = Idle) /\ UNCHANGED <<event, published, sub, q, sent, fate>>
    BY <1>20 DEF Restart
  <2>2. (\A a \in 1..9 : Line[a] = {}) /\ Hand(w["send"]) = {}
    BY <2>1 DEF FlowInv, DownIsEmpty
  <2>3. Hand(listener') = {} /\ \A s \in Stage : Hand(w'[s]) = {}
    <3>1. listener'.ev = 0 /\ Idle.ev = 0
      BY <2>1 DEF Idle
    <3> QED
      BY <2>1, <3>1 DEF Hand
  <2>4. \A b \in Place : Line'[b] = Line[b]
    <3>1. Line[2] = {} /\ Line[4] = {} /\ Line[6] = {} /\ Line[8] = {}
      BY <2>2
    <3>2. Line'[2] = {} /\ Line'[4] = {} /\ Line'[6] = {} /\ Line'[8] = {}
      BY <1>s, <2>3, LineThen
    <3>3. /\ Line'[1] = Line[1] /\ Line'[3] = Line[3] /\ Line'[5] = Line[5]
          /\ Line'[7] = Line[7] /\ Line'[9] = Line[9] /\ Line'[10] = Line[10]
      BY <2>1, LineNow, LineThen
    <3> QED
      BY <3>1, <3>2, <3>3, Places10
  <2>5. InOrder(Line)' /\ Accounted'
    BY <1>s, <2>1, <2>2, <2>3, <2>4, StillKeeps
  <2>6. QueuesSorted'
    BY <2>1 DEF FlowInv, QueuesSorted
  <2>7. DownIsEmpty'
    BY <2>1 DEF DownIsEmpty
  <2>8. PolicyHeld'
    BY <1>s, <2>1, <2>3, <2>4, PolicyParts, PolicyKeeps
  <2> QED
    BY <2>5, <2>6, <2>7, <2>8 DEF FlowInv
<1>21. CASE UNCHANGED vars
  <2>1. UNCHANGED <<event, published, sub, listener, q, w, sent, fate>>
    BY <1>21 DEF vars
  <2>2. \A b \in Place : Line'[b] = Line[b]
    BY <2>1, LineNow, LineThen, Places10
  <2>3. InOrder(Line)' /\ Accounted'
    BY <2>1, <2>2, StillKeeps
  <2>4. QueuesSorted' /\ PolicyHeld'
    BY <2>1, <2>2, PolicyParts, PolicyKeeps DEF FlowInv, QueuesSorted
  <2>5. DownIsEmpty'
    <3>1. Hand(w["send"])' = Hand(w["send"]) /\ \A b \in 1..9 : b \in Place
      BY <2>1 DEF Hand, Place
    <3> QED
      BY <2>1, <2>2, <3>1 DEF FlowInv, DownIsEmpty
  <2> QED
    BY <2>3, <2>4, <2>5 DEF FlowInv
<1> QED
  BY <1>1, <1>2, <1>3, <1>4, <1>5, <1>6, <1>7, <1>8, <1>9, <1>10, <1>11, <1>12, <1>13,
     <1>14, <1>15, <1>16, <1>17, <1>18, <1>19, <1>20, <1>21
     DEF Next, ListenerStep, Work, SignerStep

\* FlowInv is inductive on top of the types: events keep the order of the feed
\* from the socket to the transmission worker, and none is lost unaccounted for.
THEOREM FlowInvariant == Spec => []FlowInv
<1>1. Init => FlowInv
  <2> SUFFICES ASSUME Init PROVE FlowInv
    OBVIOUS
  <2>0. "extract" \in Stage /\ "sign" \in Stage /\ "pep" \in Stage /\ "send" \in Stage
    BY DEF Stage
  <2>1. /\ sub = << >> /\ sent = << >> /\ listener.ev = 0 /\ listener.pc = "recv" /\ published = 0
        /\ \A s \in Stage : q[s] = << >> /\ w[s].ev = 0
    BY DEF Init, Idle
  <2>2. Hand(listener) = {} /\ \A s \in Stage : Hand(w[s]) = {}
    BY <2>1 DEF Hand
  <2>3. \A b \in Place : Line[b] = {}
    BY <2>0, <2>1, <2>2, EmptyElems, LineNow, Places10
  <2>4. InOrder(Line) /\ DownIsEmpty
    BY <2>1, <2>3 DEF InOrder, DownIsEmpty
  <2>5. QueuesSorted
    BY <2>1, EmptyElems DEF QueuesSorted
  <2>6. PolicyHeld
    <3>1. 8 \in Place /\ 9 \in Place /\ 10 \in Place
      BY DEF Place
    <3> QED
      BY <2>0, <2>2, <2>3, <3>1 DEF PolicyHeld
  <2>7. Accounted
    <3>1. \A i \in Event : fate[i] = "none" /\ ~(i <= published)
      BY <2>1 DEF Init, Event
    <3> QED
      BY <2>3, <3>1 DEF Accounted
  <2> QED
    BY <2>4, <2>5, <2>6, <2>7 DEF FlowInv
<1>2. PipelineTypeOK /\ HandsOK /\ FlowInv /\ [Next]_vars => FlowInv'
  BY FlowStep
<1> QED
  BY <1>1, <1>2, TypesAndHands, PTL DEF Spec
-----------------------------------------------------------------------------
(* Every event is accounted for                                            *)

\* Where an event without a fate can be: a task's hand or a buffer is a place of
\* the line, and no two of them are the same place.
LEMMA WhereItIs ==
    ASSUME PipelineTypeOK, HandsOK, FlowInv, NEW i \in Event
    PROVE  /\ i \in Elems(sub) <=> i \in Line[1]
           /\ listener.ev = i <=> i \in Line[2]
           /\ \A s \in Stage : i \in Elems(q[s]) <=> i \in Line[QPlace[s]]
           /\ \A s \in Stage : w[s].ev = i => i \in Line[QPlace[s] + 1]
           /\ \A s \in Stage : w[s].ev = i <=> i \in Hand(w[s])
<1>1. i # 0
  BY DEF Event
<1>2. (listener.ev = i <=> i \in Hand(listener)) /\ \A s \in Stage : w[s].ev = i <=> i \in Hand(w[s])
  BY <1>1 DEF Hand
<1>3. ASSUME NEW s \in Stage, w[s].ev = i PROVE i \in Line[QPlace[s] + 1]
  <2>1. CASE s # "send"
    BY <1>2, <1>3, <2>1, StagePlaces
  <2>2. CASE s = "send"
    <3>1. QPlace[s] + 1 = 10
      BY <2>2 DEF QPlace
    <3> QED
      BY <1>2, <1>3, <2>2, <3>1 DEF FlowInv, PolicyHeld
  <2> QED
    BY <2>1, <2>2
<1> QED
  BY <1>2, <1>3, LineNow, StagePlaces

\* An event that is in a queue or a buffer is there once.
LEMMA OnceInQueue ==
    ASSUME NEW s \in Seq(Event), Sorted(s), NEW j \in DOMAIN s, NEW k \in DOMAIN s, s[j] = s[k]
    PROVE  j = k
<1>1. j \in Int /\ k \in Int /\ s[j] \in Int
  BY EventSeqs DEF Event
<1> QED
  BY <1>1 DEF Sorted

\* What it means to be one of the places of an event.
LEMMA PlacesOf ==
    ASSUME NEW i, NEW z
    PROVE  z \in Places(i) <=> \/ \E k \in DOMAIN sub : sub[k] = i /\ z = <<"sub", k>>
                               \/ listener.ev = i /\ z = <<"listener", 0>>
                               \/ \E s \in Stage : \E k \in DOMAIN q[s] : q[s][k] = i /\ z = <<s, k>>
                               \/ \E s \in Stage : w[s].ev = i /\ z = <<s, 0>>
                               \/ fate[i] # "none" /\ z = <<"fate", 0>>
<1> DEFINE A == {<<"sub", k>> : k \in {k \in DOMAIN sub : sub[k] = i}}
           B == {<<"listener", 0>> : x \in {x \in {0} : listener.ev = i}}
           C(s) == {<<s, k>> : k \in {k \in DOMAIN q[s] : q[s][k] = i}}
           D == {<<s, 0>> : s \in {s \in Stage : w[s].ev = i}}
           F == {<<"fate", 0>> : x \in {x \in {0} : fate[i] # "none"}}
           G == UNION {C(s) : s \in Stage}
<1>1. z \in A <=> \E k \in DOMAIN sub : sub[k] = i /\ z = <<"sub", k>>
  BY Zenon
<1>2. z \in B <=> listener.ev = i /\ z = <<"listener", 0>>
  BY Zenon
<1>3. \A s : z \in C(s) <=> \E k \in DOMAIN q[s] : q[s][k] = i /\ z = <<s, k>>
  BY Zenon
<1>4. z \in G <=> \E s \in Stage : z \in C(s)
  <2> HIDE DEF C
  <2> QED
    BY Zenon DEF G
<1>5. z \in D <=> \E s \in Stage : w[s].ev = i /\ z = <<s, 0>>
  BY Zenon
<1>6. z \in F <=> fate[i] # "none" /\ z = <<"fate", 0>>
  BY Zenon
<1>7. Places(i) = A \cup B \cup G \cup D \cup F
  BY DEF Places
<1> HIDE DEF A, B, C, D, F, G
<1>8. z \in Places(i) <=> z \in A \/ z \in B \/ z \in G \/ z \in D \/ z \in F
  BY <1>7
<1> QED
  BY <1>1, <1>2, <1>3, <1>4, <1>5, <1>6, <1>8

\* The set Places of an event has at most one element ...
LEMMA AtMostOnePlace ==
    ASSUME PipelineTypeOK, HandsOK, FlowInv, NEW i \in Event,
           NEW x \in Places(i), NEW y \in Places(i)
    PROVE  x = y
<1> DEFINE InSub(z) == \E k \in DOMAIN sub : sub[k] = i /\ z = <<"sub", k>>
           InListener(z) == listener.ev = i /\ z = <<"listener", 0>>
           InQueue(z) == \E s \in Stage : \E k \in DOMAIN q[s] : q[s][k] = i /\ z = <<s, k>>
           InHand(z) == \E s \in Stage : w[s].ev = i /\ z = <<s, 0>>
           InFate(z) == fate[i] # "none" /\ z = <<"fate", 0>>
<1>1. \A z \in Places(i) : InSub(z) \/ InListener(z) \/ InQueue(z) \/ InHand(z) \/ InFate(z)
  BY PlacesOf
<1>2. \A z : InSub(z) => i \in Line[1]
  BY WhereItIs DEF Elems
<1>3. \A z : InListener(z) => i \in Line[2]
  BY WhereItIs
<1>4. \A s \in Stage : \A k \in DOMAIN q[s] : q[s][k] = i => i \in Line[QPlace[s]]
  BY WhereItIs DEF Elems
<1>5. \A s \in Stage : w[s].ev = i => i \in Line[QPlace[s] + 1]
  BY WhereItIs
<1>6. \A s, t \in Stage : /\ QPlace[s] \in Place /\ QPlace[s] + 1 \in Place /\ QPlace[s] # QPlace[t] + 1
                          /\ QPlace[s] > 2 /\ (QPlace[s] = QPlace[t] => s = t)
                          /\ (QPlace[s] + 1 = QPlace[t] + 1 => s = t)
  <2> SUFFICES ASSUME NEW s \in Stage, NEW t \in Stage
               PROVE  /\ QPlace[s] \in Place /\ QPlace[s] + 1 \in Place /\ QPlace[s] # QPlace[t] + 1
                      /\ QPlace[s] > 2 /\ (QPlace[s] = QPlace[t] => s = t)
                      /\ (QPlace[s] + 1 = QPlace[t] + 1 => s = t)
    OBVIOUS
  <2> QED
    BY DEF QPlace, Stage, Place
<1>7. 1 \in Place /\ 2 \in Place /\ \A a \in Place : a \in Int
  BY DEF Place
<1>8. \A a, b \in Place : i \in Line[a] /\ i \in Line[b] => a = b
  BY OnePlace DEF FlowInv
<1>9. \A z : InFate(z) => ~InSub(y) /\ ~InListener(y) /\ ~InQueue(y) /\ ~InHand(y)
                          /\ ~InSub(x) /\ ~InListener(x) /\ ~InQueue(x) /\ ~InHand(x)
  <2> SUFFICES ASSUME fate[i] # "none"
               PROVE  \A z : ~InSub(z) /\ ~InListener(z) /\ ~InQueue(z) /\ ~InHand(z)
    OBVIOUS
  <2>1. (\A a \in 1..9 : i \notin Line[a]) /\ i \notin Hand(w["send"])
    BY DEF FlowInv, Accounted, Live
  <2>2. \A s \in Stage : i \notin Hand(w[s])
    <3>1. \A s \in Stage : s # "send" => Line[QPlace[s] + 1] = Hand(w[s]) /\ QPlace[s] + 1 \in 1..9
      BY StagePlaces
    <3> QED
      BY <2>1, <3>1
  <2>3. \A s \in Stage : QPlace[s] \in 1..9
    BY StagePlaces
  <2>4. 1 \in 1..9 /\ 2 \in 1..9
    OBVIOUS
  <2> QED
    BY <1>2, <1>3, <1>4, <2>1, <2>2, <2>3, <2>4, WhereItIs
<1>10. CASE InFate(x) \/ InFate(y)
  BY <1>1, <1>9, <1>10
<1>11. CASE InSub(x)
  <2>1. ~InListener(y) /\ ~InQueue(y) /\ ~InHand(y)
    BY <1>2, <1>3, <1>4, <1>5, <1>6, <1>7, <1>8, <1>11
  <2>2. CASE InSub(y)
    <3>1. PICK j \in DOMAIN sub : sub[j] = i /\ x = <<"sub", j>>
      BY <1>11
    <3>2. PICK k \in DOMAIN sub : sub[k] = i /\ y = <<"sub", k>>
      BY <2>2
    <3>3. j = k
      BY <3>1, <3>2, OnceInQueue DEF PipelineTypeOK, FlowInv, QueuesSorted
    <3> QED
      BY <3>1, <3>2, <3>3
  <2> QED
    BY <1>1, <1>10, <2>1, <2>2
<1>12. CASE InListener(x)
  <2>1. ~InSub(y) /\ ~InQueue(y) /\ ~InHand(y)
    BY <1>2, <1>3, <1>4, <1>5, <1>6, <1>7, <1>8, <1>12
  <2> QED
    BY <1>1, <1>10, <1>12, <2>1
<1>13. CASE InQueue(x)
  <2>1. PICK s \in Stage : \E j \in DOMAIN q[s] : q[s][j] = i /\ x = <<s, j>>
    BY <1>13
  <2>2. PICK j \in DOMAIN q[s] : q[s][j] = i /\ x = <<s, j>>
    BY <2>1
  <2>3. i \in Line[QPlace[s]]
    BY <1>4, <2>2
  <2>4. ~InSub(y) /\ ~InListener(y) /\ ~InHand(y)
    BY <1>2, <1>3, <1>5, <1>6, <1>7, <1>8, <2>3
  <2>5. CASE InQueue(y)
    <3>1. PICK t \in Stage : \E k \in DOMAIN q[t] : q[t][k] = i /\ y = <<t, k>>
      BY <2>5
    <3>2. PICK k \in DOMAIN q[t] : q[t][k] = i /\ y = <<t, k>>
      BY <3>1
    <3>3. s = t
      BY <1>4, <1>6, <1>8, <2>3, <3>2
    <3>4. j = k
      BY <2>2, <3>2, <3>3, OnceInQueue DEF PipelineTypeOK, FlowInv, QueuesSorted
    <3> QED
      BY <2>2, <3>2, <3>3, <3>4
  <2> QED
    BY <1>1, <1>10, <2>4, <2>5
<1>14. CASE InHand(x)
  <2>1. PICK s \in Stage : w[s].ev = i /\ x = <<s, 0>>
    BY <1>14
  <2>2. i \in Line[QPlace[s] + 1]
    BY <1>5, <2>1
  <2>3. ~InSub(y) /\ ~InListener(y) /\ ~InQueue(y)
    BY <1>2, <1>3, <1>4, <1>6, <1>7, <1>8, <2>2
  <2>4. CASE InHand(y)
    BY <1>5, <1>6, <1>8, <2>1, <2>2, <2>4
  <2> QED
    BY <1>1, <1>10, <2>3, <2>4
<1> QED
  BY <1>1, <1>10, <1>11, <1>12, <1>13, <1>14

\* ... and it has one exactly when the event was published.
LEMMA SomePlace ==
    ASSUME PipelineTypeOK, HandsOK, FlowInv, NEW i \in Event
    PROVE  Places(i) # {} <=> i <= published
<1>1. Places(i) # {} <=> \/ i \in Elems(sub) \/ listener.ev = i
                         \/ (\E s \in Stage : i \in Elems(q[s])) \/ (\E s \in Stage : w[s].ev = i)
                         \/ fate[i] # "none"
  <2>1. ASSUME Places(i) # {}
        PROVE  \/ i \in Elems(sub) \/ listener.ev = i
               \/ (\E s \in Stage : i \in Elems(q[s])) \/ (\E s \in Stage : w[s].ev = i)
               \/ fate[i] # "none"
    BY <2>1, PlacesOf DEF Elems
  <2>2. ASSUME i \in Elems(sub) PROVE Places(i) # {}
    <3>1. PICK k \in DOMAIN sub : sub[k] = i
      BY <2>2 DEF Elems
    <3>2. <<"sub", k>> \in Places(i)
      BY <3>1, PlacesOf
    <3> QED
      BY <3>2
  <2>3. ASSUME listener.ev = i PROVE Places(i) # {}
    <3>1. <<"listener", 0>> \in Places(i)
      BY <2>3, PlacesOf
    <3> QED
      BY <3>1
  <2>4. ASSUME NEW s \in Stage, i \in Elems(q[s]) PROVE Places(i) # {}
    <3>1. PICK k \in DOMAIN q[s] : q[s][k] = i
      BY <2>4 DEF Elems
    <3>2. <<s, k>> \in Places(i)
      BY <3>1, PlacesOf
    <3> QED
      BY <3>2
  <2>5. ASSUME NEW s \in Stage, w[s].ev = i PROVE Places(i) # {}
    <3>1. <<s, 0>> \in Places(i)
      BY <2>5, PlacesOf
    <3> QED
      BY <3>1
  <2>6. ASSUME fate[i] # "none" PROVE Places(i) # {}
    <3>1. <<"fate", 0>> \in Places(i)
      BY <2>6, PlacesOf
    <3> QED
      BY <3>1
  <2> QED
    BY <2>1, <2>2, <2>3, <2>4, <2>5, <2>6
<1>2. ASSUME Places(i) # {} PROVE i <= published
  <2>1. \A a \in Place : i \in Line[a] => i <= published
    BY DEF FlowInv, Accounted
  <2>2. 1 \in Place /\ 2 \in Place /\ \A s \in Stage : QPlace[s] \in Place /\ QPlace[s] + 1 \in Place
    <3> SUFFICES ASSUME NEW s \in Stage
                 PROVE  1 \in Place /\ 2 \in Place /\ QPlace[s] \in Place /\ QPlace[s] + 1 \in Place
      BY DEF Place, Stage
    <3> QED
      BY DEF QPlace, Stage, Place
  <2>3. fate[i] # "none" => i <= published
    BY DEF FlowInv, Accounted
  <2> QED
    BY <1>1, <1>2, <2>1, <2>2, <2>3, WhereItIs
<1>3. ASSUME i <= published, fate[i] = "none" PROVE Places(i) # {}
  <2>1. i \in Live
    BY <1>3 DEF FlowInv, Accounted
  <2>2. CASE i \in Hand(w["send"])
    BY <1>1, <2>2, WhereItIs DEF Stage
  <2>3. ASSUME NEW a \in 1..9, i \in Line[a] PROVE Places(i) # {}
    <3>1. "extract" \in Stage /\ "sign" \in Stage /\ "pep" \in Stage /\ "send" \in Stage
      BY DEF Stage
    <3>2. a = 1 \/ a = 2 \/ a = 3 \/ a = 4 \/ a = 5 \/ a = 6 \/ a = 7 \/ a = 8 \/ a = 9
      OBVIOUS
    <3>3. \A s \in Stage : w[s].ev = i <=> i \in Hand(w[s])
      BY WhereItIs
    <3> QED
      BY <1>1, <2>3, <3>1, <3>2, <3>3, LineNow, WhereItIs
  <2> QED
    BY <2>1, <2>2, <2>3 DEF Live
<1> QED
  BY <1>1, <1>2, <1>3

\* No event is duplicated and none vanishes: every event that was published is in
\* exactly one buffer, queue or hand, or has exactly one fate, for any feed, any
\* size of the queues and any number of errors and crashes.
THEOREM AllAccountedFor == Spec => []EveryEventAccountedFor
<1>1. ASSUME PipelineTypeOK, HandsOK, FlowInv PROVE EveryEventAccountedFor
  <2> SUFFICES ASSUME NEW i \in Event
               PROVE  Cardinality(Places(i)) = IF i <= published THEN 1 ELSE 0
    BY DEF EveryEventAccountedFor
  <2>1. CASE i <= published
    <3>1. PICK x \in Places(i) : TRUE
      BY <1>1, <2>1, SomePlace
    <3>2. Places(i) = {x}
      BY <1>1, <3>1, AtMostOnePlace
    <3> QED
      BY <2>1, <3>2, FS_Singleton
  <2>2. CASE ~(i <= published)
    <3>1. Places(i) = {}
      BY <1>1, <2>2, SomePlace
    <3> QED
      BY <2>2, <3>1, FS_EmptySet
  <2> QED
    BY <2>1, <2>2
<1> QED
  BY <1>1, TypesAndHands, FlowInvariant, PTL
-----------------------------------------------------------------------------
(* Gateway A keeps its promise about the feed                              *)

Refusals == {"missed", "dropped", "rejected", "unsigned", "denied"}

\* An event that is still on its way was not handed over and has no outcome.
LEMMA UpstreamPending ==
    ASSUME PipelineTypeOK, FlowInv, NEW a \in 1..9, NEW i \in Line[a]
    PROVE  i \in Event /\ fate[i] = "none" /\ i \notin Elems(sent)
<1>1. a \in Place /\ 10 \in Place /\ a # 10
  BY DEF Place
<1>2. i \in Event /\ i \in Live
  BY <1>1, LineType DEF Live
<1> QED
  BY <1>1, <1>2, LiveMeaning, OnePlace, LineNow DEF FlowInv

\* A step that the promise does not speak of.
LEMMA FeedUnseen ==
    ASSUME UNCHANGED <<event, sent, fate>>
    PROVE  UNCHANGED Promise!vars
  BY DEF Promise!vars

\* A step that gives outcomes, each one that fits, to events that had none.
LEMMA OutcomesSeen ==
    ASSUME PipelineTypeOK, PipelineTypeOK', NEW S \in SUBSET Event, UNCHANGED <<event, sent>>,
           \A i \in S : fate[i] = "none",
           \A i \in S : \/ fate'[i] = "lost"
                        \/ i \in Elems(sent) /\ fate'[i] \in {"acked", "failed"}
                        \/ i \notin Elems(sent) /\ fate'[i] \in Refusals,
           \A i \in Event \ S : fate'[i] = fate[i]
    PROVE  [Promise!Next]_(Promise!vars)
<1>1. fate \in [Event -> Fate \cup {"none"}] /\ fate' \in [Event -> Fate \cup {"none"}]
  <2>1. Event' = Event /\ Fate' = Fate
    BY DEF Event, Fate
  <2> QED
    BY <2>1 DEF PipelineTypeOK
<1>2. CASE S = {}
  <2>1. fate' = fate
    BY <1>1, <1>2
  <2> QED
    BY <2>1, FeedUnseen
<1>3. CASE S # {}
  <2>1. Promise!Handed = Elems(sent)
    BY DEF Promise!Handed, Elems
  <2>2. \A i \in S : fate'[i] \in {"lost"} \cup (IF i \in Elems(sent) THEN {"acked", "failed"}
                                                                     ELSE Refusals)
    OBVIOUS
  <2>3. Promise!Conclude(S)
    BY <1>1, <1>3, <2>1, <2>2 DEF Promise!Conclude, Promise!Pending, Refusals
  <2> QED
    BY <2>3 DEF Promise!Next
<1> QED
  BY <1>2, <1>3

\* One event on its way leaves the pipeline before the transmission worker.
LEMMA RefusalSeen ==
    ASSUME PipelineTypeOK, PipelineTypeOK', FlowInv, UNCHANGED <<event, sent>>,
           NEW a \in 1..9, NEW i \in Line[a], NEW how \in Refusals,
           fate' = [fate EXCEPT ![i] = how]
    PROVE  [Promise!Next]_(Promise!vars)
<1>1. i \in Event /\ fate[i] = "none" /\ i \notin Elems(sent)
  BY UpstreamPending
<1>2. fate'[i] = how /\ \A j \in Event \ {i} : fate'[j] = fate[j]
  BY <1>1 DEF PipelineTypeOK
<1> DEFINE S == {i}
<1>3. S \in SUBSET Event /\ \A j \in S : j = i
  BY <1>1
<1> HIDE DEF S
<1>4. \A j \in Event \ S : fate'[j] = fate[j]
  BY <1>2 DEF S
<1> QED
  BY <1>1, <1>2, <1>3, <1>4, OutcomesSeen

\* The socket goes with the events that it holds.
LEMMA SocketClosedSeen ==
    ASSUME PipelineTypeOK, PipelineTypeOK', FlowInv, UNCHANGED <<event, sent>>,
           NEW f, CloseSocket(f),
           \A x \in Event : f[x] = fate[x] \/ (x \in Elems(sub) /\ f[x] = "dropped")
    PROVE  [Promise!Next]_(Promise!vars)
<1>1. \A x \in Elems(sub) : x \in Event /\ fate[x] = "none" /\ x \notin Elems(sent)
  <2>1. 1 \in 1..9 /\ Line[1] = Elems(sub)
    BY LineNow
  <2> QED
    BY <2>1, UpstreamPending
<1>2. \A x \in Event : fate'[x] = IF x \in Elems(sub) /\ f[x] = "none" THEN "missed" ELSE f[x]
  BY DEF CloseSocket, Elems
<1>3. \A x \in Elems(sub) : fate'[x] \in Refusals
  BY <1>1, <1>2 DEF Refusals
<1>4. Elems(sub) \in SUBSET Event /\ \A x \in Event \ Elems(sub) : fate'[x] = fate[x]
  BY <1>1, <1>2
<1> QED
  BY <1>1, <1>3, <1>4, OutcomesSeen

\* Every step of the five tasks is a step of the promise, or cannot be seen.
LEMMA FeedStepSeen ==
    ASSUME PipelineTypeOK, PipelineTypeOK', HandsOK, FlowInv, [Next]_vars
    PROVE  [Promise!Next]_(Promise!vars)
<1>s. "extract" \in Stage /\ "sign" \in Stage /\ "pep" \in Stage /\ "send" \in Stage
  BY DEF Stage
<1>p. 1 \in 1..9 /\ 4 \in 1..9 /\ 5 \in 1..9 /\ 7 \in 1..9 /\ 9 \in 1..9
  OBVIOUS
<1>r. Refusals = {"missed", "dropped", "rejected", "unsigned", "denied"}
  BY DEF Refusals
<1>h. sub # << >> => Head(sub) \in Line[1] /\ Head(sub) \in Elems(sub)
  BY TailElems, LineNow DEF PipelineTypeOK, FlowInv, QueuesSorted
<1>q. \A s \in Stage : q[s] # << >> => Head(q[s]) \in Elems(q[s])
  BY TailElems DEF PipelineTypeOK, FlowInv, QueuesSorted
<1>1. CASE Publish
  <2>1. UNCHANGED <<event, sent>>
    BY <1>1 DEF Publish
  <2>2. CASE UNCHANGED fate
    BY <2>1, <2>2, FeedUnseen
  <2>3. CASE fate' = [fate EXCEPT ![published + 1] = "missed"]
    <3> DEFINE i == published + 1
               S == {i}
    <3>1. i \in Event /\ ~(i <= published)
      BY <1>1 DEF Publish, PipelineTypeOK, Event
    <3>2. fate[i] = "none" /\ i \notin Elems(sent)
      <4>1. 10 \in Place
        BY DEF Place
      <4> QED
        BY <3>1, <4>1, LineNow DEF FlowInv, Accounted
    <3>3. fate'[i] = "missed" /\ \A j \in Event \ {i} : fate'[j] = fate[j]
      BY <2>3, <3>1 DEF PipelineTypeOK
    <3>4. S \in SUBSET Event /\ (\A j \in S : j = i) /\ \A j \in Event \ S : fate'[j] = fate[j]
      BY <3>1, <3>3
    <3> HIDE DEF S
    <3> QED
      BY <1>r, <2>1, <3>2, <3>3, <3>4, OutcomesSeen
  <2> QED
    BY <1>1, <2>2, <2>3 DEF Publish
<1>2. CASE Accept
  BY <1>2, FeedUnseen DEF Accept
<1>3. CASE Ignore
  <2>1. sub # << >> /\ fate' = [fate EXCEPT ![Head(sub)] = "dropped"] /\ UNCHANGED <<event, sent>>
    BY <1>3 DEF Ignore
  <2> QED
    BY <1>h, <1>p, <1>r, <2>1, RefusalSeen
<1>4. CASE Choke
  <2> DEFINE f == [fate EXCEPT ![Head(sub)] = "dropped"]
  <2>1. sub # << >> /\ CloseSocket(f) /\ UNCHANGED <<event, sent>>
    BY <1>4 DEF Choke
  <2>2. \A x \in Event : f[x] = fate[x] \/ (x \in Elems(sub) /\ f[x] = "dropped")
    BY <1>h, <2>1 DEF PipelineTypeOK
  <2> QED
    BY <2>1, <2>2, SocketClosedSeen
<1>5. CASE SocketError
  BY <1>5, SocketClosedSeen DEF SocketError
<1>6. CASE Reconnect
  BY <1>6, FeedUnseen DEF Reconnect
<1>7. CASE Ingest
  BY <1>7, FeedUnseen DEF Ingest
<1>8. CASE StartConversion
  BY <1>8, FeedUnseen DEF StartConversion
<1>9. CASE Extracted
  BY <1>9, FeedUnseen DEF Extracted
<1>10. CASE ConversionFails
  <2>1. /\ w["extract"].pc = "work" /\ fate' = [fate EXCEPT ![w["extract"].ev] = "rejected"]
        /\ UNCHANGED <<event, sent>>
    BY <1>10 DEF ConversionFails
  <2>2. w["extract"].ev # 0
    BY <1>s, <2>1 DEF HandsOK
  <2>3. w["extract"].ev \in Line[4]
    BY <2>2, LineNow DEF Hand
  <2> QED
    BY <1>p, <1>r, <2>1, <2>3, RefusalSeen
<1>11. CASE Sign
  BY <1>11, FeedUnseen DEF Sign
<1>12. CASE SignFails
  <2>1. /\ q["sign"] # << >> /\ fate' = [fate EXCEPT ![Head(q["sign"])] = "unsigned"]
        /\ UNCHANGED <<event, sent>>
    BY <1>12 DEF SignFails, TakeAndDrop
  <2>2. Head(q["sign"]) \in Line[5]
    BY <1>s, <1>q, <2>1, LineNow
  <2> QED
    BY <1>p, <1>r, <2>1, <2>2, RefusalSeen
<1>13. CASE Approve
  BY <1>13, FeedUnseen DEF Approve
<1>14. CASE Reject
  <2>1. /\ q["pep"] # << >> /\ fate' = [fate EXCEPT ![Head(q["pep"])] = "denied"]
        /\ UNCHANGED <<event, sent>>
    BY <1>14 DEF Reject, TakeAndDrop
  <2>2. Head(q["pep"]) \in Line[7]
    BY <1>s, <1>q, <2>1, LineNow
  <2> QED
    BY <1>p, <1>r, <2>1, <2>2, RefusalSeen
<1>15. CASE StartSending
  <2> DEFINE i == Head(q["send"])
  <2>1. Take("send", "work") /\ sent' = Append(sent, w'["send"].ev) /\ UNCHANGED <<event, fate>>
    BY <1>15 DEF StartSending
  <2>2. q["send"] # << >>
    BY <2>1 DEF Take
  <2>3. w'["send"] = [pc |-> "work", ev |-> i]
    BY <1>s, <2>1, TakeType
  <2>4. sent' = Append(sent, i)
    BY <2>1, <2>3
  <2>5. i \in Line[9]
    BY <1>s, <1>q, <2>2, LineNow
  <2>6. i \in Event /\ fate[i] = "none"
    BY <1>p, <2>5, UpstreamPending
  <2>7. i \in Sharable
    BY <2>5 DEF FlowInv, PolicyHeld
  <2>8. \A j \in Elems(sent) : j < i
    <3>1. 9 \in Place /\ 10 \in Place /\ 9 < 10
      BY DEF Place
    <3> QED
      BY <2>5, <3>1, LineNow DEF FlowInv, InOrder
  <2>9. Promise!Handed = Elems(sent)
    BY DEF Promise!Handed, Elems
  <2> HIDE DEF i
  <2>10. Promise!HandOver(i)
    BY <2>1, <2>4, <2>6, <2>7, <2>8, <2>9 DEF Promise!HandOver, Promise!Pending, Sharable
  <2> QED
    BY <2>6, <2>10 DEF Promise!Next
<1>16. CASE Settle
  <2>1. PICK how \in {"acked", "failed"} : fate' = [fate EXCEPT ![w["send"].ev] = how]
    BY <1>16 DEF Settle
  <2> DEFINE i == w["send"].ev
             S == {i}
  <2>2. i \in Hand(w["send"])
    <3>1. w["send"].pc = "work"
      BY <1>16 DEF Settle
    <3> QED
      BY <1>s, <3>1 DEF HandsOK, Hand
  <2>3. i \in Elems(sent) /\ i \in Event /\ i \in Live
    BY <2>2, LineNow, LineType DEF FlowInv, PolicyHeld, Live
  <2>4. fate[i] = "none"
    BY <2>3, LiveMeaning
  <2>5. fate'[i] = how /\ \A j \in Event \ {i} : fate'[j] = fate[j]
    BY <2>1, <2>3 DEF PipelineTypeOK
  <2>6. S \in SUBSET Event /\ (\A j \in S : j = i) /\ \A j \in Event \ S : fate'[j] = fate[j]
    BY <2>3, <2>5
  <2>7. UNCHANGED <<event, sent>>
    BY <1>16 DEF Settle
  <2> HIDE DEF S, i
  <2> QED
    BY <2>3, <2>4, <2>5, <2>6, <2>7, OutcomesSeen
<1>17. ASSUME NEW s \in Stage, Put(s) PROVE UNCHANGED Promise!vars
  BY <1>17, FeedUnseen DEF Put
<1>18. CASE Shutdown
  BY <1>18, SocketClosedSeen DEF Shutdown
<1>19. CASE Crash
  <2>1. \A x \in Event : fate'[x] = IF x \in Live THEN "lost" ELSE fate[x]
    BY <1>19, InProcessIsLive DEF Crash
  <2>2. Live \in SUBSET Event /\ \A x \in Live : fate[x] = "none"
    BY LiveMeaning
  <2>3. (\A x \in Live : fate'[x] = "lost") /\ \A x \in Event \ Live : fate'[x] = fate[x]
    BY <2>1, <2>2
  <2>4. UNCHANGED <<event, sent>>
    BY <1>19 DEF Crash
  <2> QED
    BY <2>2, <2>3, <2>4, OutcomesSeen
<1>20. CASE Restart
  BY <1>20, FeedUnseen DEF Restart
<1>21. CASE UNCHANGED vars
  BY <1>21, FeedUnseen DEF vars
<1> QED
  BY <1>1, <1>2, <1>3, <1>4, <1>5, <1>6, <1>7, <1>8, <1>9, <1>10, <1>11, <1>12, <1>13,
     <1>14, <1>15, <1>16, <1>17, <1>18, <1>19, <1>20, <1>21
     DEF Next, ListenerStep, Work, SignerStep

\* GatewayAPipeline implements FeedPromise: the five tasks hand over only events
\* that the outbound policy lets pass, in the order of the feed and at most once,
\* and give each event one final outcome that fits whether it was handed over.
THEOREM PipelineRefines == Spec => ImplementsFeedPromise
<1>1. Init => Promise!Init
  BY DEF Init, Promise!Init
<1>2. PipelineTypeOK /\ PipelineTypeOK' /\ HandsOK /\ FlowInv /\ [Next]_vars
        => [Promise!Next]_(Promise!vars)
  BY FeedStepSeen
<1> QED
  BY <1>1, <1>2, PipelineTypeCorrect, TypesAndHands, FlowInvariant, PTL
     DEF Spec, ImplementsFeedPromise, Promise!Spec
-----------------------------------------------------------------------------
(* What AMBER+STRICT keeps at home                                         *)

\* A set of natural numbers that is not empty has a least element ...
LEMMA LeastElement ==
    ASSUME NEW T \in SUBSET Nat, T # {}
    PROVE  \E m \in T : \A k \in T : m <= k
<1> DEFINE R == OpToRel(<, Nat)
<1>1. \A x, y \in Nat : x < y => <<x, y>> \in R
  BY DEF OpToRel
<1>2. IsWellFoundedOn(R, Nat)
  BY NatLessThanWellFounded
<1> HIDE DEF R
<1>3. PICK x \in T : \A y \in T : ~(<<y, x>> \in R)
  BY <1>2, WFMin
<1>4. ASSUME NEW k \in T PROVE x <= k
  <2>1. k \in Nat /\ x \in Nat
    OBVIOUS
  <2>2. ~(k < x)
    BY <1>1, <1>3, <2>1
  <2> QED
    BY <2>1, <2>2
<1> QED
  BY <1>4

\* ... and one that is bounded a greatest.
LEMMA GreatestElement ==
    ASSUME NEW n \in Nat, NEW T \in SUBSET (1..n), T # {}
    PROVE  \E m \in T : \A k \in T : k <= m
<1> DEFINE U == {u \in Nat : \A k \in T : k <= u}
<1>1. \A k \in T : k \in Nat /\ k >= 1 /\ k <= n
  OBVIOUS
<1>2. U \in SUBSET Nat /\ n \in U
  BY <1>1
<1>3. PICK m \in U : \A u \in U : m <= u
  <2> HIDE DEF U
  <2> QED
    BY <1>2, LeastElement
<1>4. m \in Nat /\ \A k \in T : k <= m
  OBVIOUS
<1>5. CASE m \notin T
  <2>1. \A k \in T : k <= m - 1
    BY <1>1, <1>4, <1>5
  <2>2. PICK t \in T : TRUE
    OBVIOUS
  <2>3. m - 1 \in Nat
    BY <1>1, <1>4, <2>1, <2>2
  <2>4. m - 1 \in U
    BY <2>1, <2>3
  <2> QED
    BY <1>3, <1>4, <2>4
<1> QED
  BY <1>4, <1>5

\* _convert_and_validate marks an event AMBER+STRICT when that is the only marking
\* among its tags, whatever their number, order and case.
LEMMA StrictIsMarked ==
    ASSUME NEW e, e.tags \in Seq(Tag),
           {Lower(e.tags[j]) : j \in DOMAIN e.tags} \cap DOMAIN TlpOfTag = {"tlp:amber+strict"}
    PROVE  TlpMarkingOf(e) = "tlp:amber+strict"
<1> DEFINE T == {k \in DOMAIN e.tags : Lower(e.tags[k]) \in DOMAIN TlpOfTag}
           last == CHOOSE k \in T : \A j \in T : j <= k
<1>1. \A k \in T : Lower(e.tags[k]) = "tlp:amber+strict"
  OBVIOUS
<1>2. T # {}
  OBVIOUS
<1>3. Len(e.tags) \in Nat /\ T \in SUBSET (1..Len(e.tags))
  OBVIOUS
<1>4. TlpMarkingOf(e) = IF T = {} THEN "tlp:amber" ELSE TlpOfTag[Lower(e.tags[last])]
  BY DEF TlpMarkingOf
<1> HIDE DEF T
<1>5. \E m \in T : \A k \in T : k <= m
  BY <1>2, <1>3, GreatestElement
<1>6. last \in T
  BY <1>5
<1>7. TlpOfTag["tlp:amber+strict"] = "tlp:amber+strict"
  BY DEF TlpOfTag
<1> QED
  BY <1>1, <1>2, <1>4, <1>6, <1>7

\* With a policy table that lets nobody see AMBER+STRICT, as the one of main.py,
\* the transmission worker never gets an event of which that is the only marking.
THEOREM StrictNeverSent ==
    ASSUME ~Authorize("tlp:amber+strict", Recipient)
    PROVE  Spec => []StrictStaysHome
<1>1. ASSUME PipelineTypeOK, FlowInv PROVE StrictStaysHome
  <2> SUFFICES ASSUME NEW k \in DOMAIN sent,
                      {Lower(event[sent[k]].tags[j]) : j \in DOMAIN event[sent[k]].tags}
                         \cap DOMAIN TlpOfTag = {"tlp:amber+strict"}
               PROVE  FALSE
    BY DEF StrictStaysHome
  <2>1. sent[k] \in Line[10] /\ sent[k] \in Event
    BY <1>1, LineNow, EventSeqs DEF Elems, PipelineTypeOK
  <2>2. Authorize(TlpMarkingOf(event[sent[k]]), Recipient)
    BY <1>1, <2>1 DEF FlowInv, PolicyHeld, Sharable
  <2>3. event[sent[k]].tags \in Seq(Tag)
    BY <1>1, <2>1, FeedAssumption DEF PipelineTypeOK
  <2>4. TlpMarkingOf(event[sent[k]]) = "tlp:amber+strict"
    BY <2>3, StrictIsMarked
  <2> QED
    BY <2>2, <2>4
<1> QED
  BY <1>1, PipelineTypeCorrect, FlowInvariant, PTL
=============================================================================
