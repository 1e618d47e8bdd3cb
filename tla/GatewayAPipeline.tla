-------------------------- MODULE GatewayAPipeline --------------------------
(***************************************************************************)
(* Gateway A from the MISP feed to the transmission worker: five asyncio   *)
(* tasks (listener, extractor, signer, PEP worker, transmission worker)    *)
(* joined by four bounded queues, and run_pipeline's shutdown.             *)
(*                                                                         *)
(* MISP's ZeroMQ publisher never waits: what its subscriber cannot buffer, *)
(* or publishes while the listener is disconnected, is gone.  What the     *)
(* transmission worker does with a transaction is in Delivery.tla; here it *)
(* ends acked or failed.                                                   *)
(*                                                                         *)
(* Events are numbered 1..NumEvents in the order MISP publishes them; the  *)
(* transaction made of an event keeps its number.                          *)
(***************************************************************************)
EXTENDS Integers, Sequences, FiniteSets

CONSTANTS NumEvents,     \* length of the feed
          Feeds,         \* the feeds MISP may publish, [Event -> an event]
          TagsFilter,    \* config.misp_tags_filter
          Policy,        \* OutboundPep.policy_table: [marking -> recipients]
          Recipient,     \* recipient_id of every GatewayATransaction
          QueueMax,      \* [Stage -> maxsize of the queue the stage reads]
          SubHwm,        \* receive high-water mark of the SUB socket
          MaxBreaks,     \* bound on errors of the ZeroMQ socket
          MaxCrashes     \* bound on deaths of the process

Stage == {"extract", "sign", "pep", "send"}

ASSUME PipelineAssumption ==
    /\ NumEvents \in Nat /\ SubHwm \in Nat /\ MaxBreaks \in Nat /\ MaxCrashes \in Nat
    /\ QueueMax \in [Stage -> Nat \ {0}]

Event == 1..NumEvents

\* A tag name as MISP wrote it: what it is in lower case, and at which places it
\* has capitals instead.
Tag == [lower : STRING, capitals : SUBSET Nat]

\* An event's tags are a list of names.
ASSUME FeedAssumption == \A f \in Feeds : \A i \in Event : f[i].tags \in Seq(Tag)

After == [extract |-> "sign", sign |-> "pep", pep |-> "send"]

VARIABLES
    event,      \* the feed, a member of Feeds
    published,  \* number of events published so far
    sub,        \* the SUB socket's receive buffer
    listener,   \* [pc, ev]: "recv", "put" (of ev), "sleep", "done" or "down"
    q,          \* [Stage -> the queue the stage reads]
    w,          \* [Stage -> [pc, ev]]: "get", "work", "put" or "done"
    state,      \* [Event -> TransactionState], "none" before VALIDATED
    sent,       \* transactions in the order the transmission worker took them
    fate,       \* [Event -> how it left the pipeline, "none" if it did not]
    breaks,     \* socket errors so far
    crashes,    \* deaths of the process so far
    stopping    \* handle_shutdown has run: every running flag is False

vars == <<event, published, sub, listener, q, w, state, sent, fate, breaks, crashes, stopping>>

\* The fates of an event: lost in the feed; dropped by the listener; dropped
\* without a dead letter by the extractor or the signer; dead-lettered by the
\* PEP or by the transmission worker; acknowledged; lost with the process.
Fate == {"missed", "dropped", "rejected", "unsigned", "denied", "failed", "acked", "lost"}

Idle == [pc |-> "get", ev |-> 0]

Init ==
    /\ event \in Feeds
    /\ published = 0
    /\ sub = << >>
    /\ listener = [pc |-> "recv", ev |-> 0]
    /\ q = [s \in Stage |-> << >>]
    /\ w = [s \in Stage |-> Idle]
    /\ state = [i \in Event |-> "none"]
    /\ sent = << >>
    /\ fate = [i \in Event |-> "none"]
    /\ breaks = 0 /\ crashes = 0
    /\ stopping = FALSE

-----------------------------------------------------------------------------
(* What the workers compute                                                *)

\* _is_relevant: no filter, or one of the event's tag names is in it as it
\* stands.  An event has a topic, a payload that is JSON or not ("garbage") or
\* JSON of another shape than the code expects ("alien"), and tag names.
Relevant(e) ==
    \/ TagsFilter = {}
    \/ \E k \in DOMAIN e.tags : e.tags[k] \in TagsFilter

\* str.lower() on a tag's name.
Lower(tag) == tag.lower

TlpOfTag == [t \in {"tlp:clear", "tlp:white", "tlp:green", "tlp:amber",
                    "tlp:amber+strict"} |->
               CASE t = "tlp:amber" -> "tlp:amber"
                 [] t = "tlp:amber+strict" -> "tlp:amber+strict"
                 [] OTHER -> "tlp:green"]

\* Mutated form: tag names are compared as MISP wrote them.
TlpMarkingCaseSensitive(e) ==
    LET tlpTags == {k \in DOMAIN e.tags : e.tags[k].capitals = {}
                                          /\ Lower(e.tags[k]) \in DOMAIN TlpOfTag} IN
    IF tlpTags = {} THEN "tlp:amber"
    ELSE TlpOfTag[Lower(e.tags[CHOOSE k \in tlpTags : \A j \in tlpTags : j <= k])]

\* _convert_and_validate's marking: AMBER, or what the last tag it knows says.
TlpMarkingOf(e) ==
    LET tlpTags == {k \in DOMAIN e.tags : Lower(e.tags[k]) \in DOMAIN TlpOfTag} IN
    IF tlpTags = {} THEN "tlp:amber"
    ELSE TlpOfTag[Lower(e.tags[CHOOSE k \in tlpTags : \A j \in tlpTags : j <= k])]

\* It returns a bundle if the event has a uuid, converts and validates.
Converts(e) == e.uuid /\ e.converts

\* OutboundPep.authorize.
Authorize(tlp, recipient) == tlp \in DOMAIN Policy /\ recipient \in Policy[tlp]

-----------------------------------------------------------------------------
(* The listener                                                            *)

Listening == listener.pc \in {"recv", "put"} /\ ~stopping

\* MISP publishes the next event; ZeroMQ buffers it or drops it.
Publish ==
    /\ published < NumEvents
    /\ published' = published + 1
    /\ IF Listening /\ Len(sub) < SubHwm
       THEN sub' = Append(sub, published + 1) /\ UNCHANGED fate
       ELSE fate' = [fate EXCEPT ![published + 1] = "missed"] /\ UNCHANGED sub
    /\ UNCHANGED <<event, listener, q, w, state, sent, breaks, crashes, stopping>>

\* Closing the socket throws its buffer away.
CloseSocket(f) ==
    /\ sub' = << >>
    /\ fate' = [i \in Event |->
                  IF \E k \in DOMAIN sub : sub[k] = i /\ f[i] = "none"
                  THEN "missed" ELSE f[i]]

\* recv_string returns a message for the pipeline: the task goes on to put it.
Accept ==
    LET e == event[Head(sub)] IN
    /\ listener.pc = "recv" /\ sub # << >>
    /\ e.topic = "misp_json" /\ e.payload = "json" /\ Relevant(e)
    /\ sub' = Tail(sub)
    /\ listener' = [pc |-> "put", ev |-> Head(sub)]
    /\ UNCHANGED <<event, published, q, w, state, sent, fate, breaks, crashes, stopping>>

\* Another topic, a payload that is not JSON, or an irrelevant event.
Ignore ==
    LET e == event[Head(sub)] IN
    /\ listener.pc = "recv" /\ sub # << >>
    /\ \/ e.topic # "misp_json" \/ e.payload = "garbage"
       \/ e.payload = "json" /\ ~Relevant(e)
    /\ sub' = Tail(sub)
    /\ fate' = [fate EXCEPT ![Head(sub)] = "dropped"]
    /\ UNCHANGED <<event, published, listener, q, w, state, sent, breaks, crashes, stopping>>

\* JSON that _is_relevant cannot look into raises: the socket is closed, with
\* the messages it holds, and reopened after a pause.
Choke ==
    LET e == event[Head(sub)] IN
    /\ listener.pc = "recv" /\ sub # << >>
    /\ e.topic = "misp_json" /\ e.payload = "alien"
    /\ CloseSocket([fate EXCEPT ![Head(sub)] = "dropped"])
    /\ listener' = [pc |-> "sleep", ev |-> 0]
    /\ UNCHANGED <<event, published, q, w, state, sent, breaks, crashes, stopping>>

\* recv_string raises ZMQError.
SocketError ==
    /\ listener.pc = "recv" /\ breaks < MaxBreaks
    /\ breaks' = breaks + 1
    /\ CloseSocket(fate)
    /\ listener' = [pc |-> "sleep", ev |-> 0]
    /\ UNCHANGED <<event, published, q, w, state, sent, crashes, stopping>>

Reconnect ==
    /\ listener.pc = "sleep"
    /\ listener' = [pc |-> IF stopping THEN "done" ELSE "recv", ev |-> 0]
    /\ UNCHANGED <<event, published, sub, q, w, state, sent, fate, breaks, crashes, stopping>>

\* out_queue.put returns: it blocks while the queue is full.
Ingest ==
    /\ listener.pc = "put" /\ Len(q["extract"]) < QueueMax["extract"]
    /\ q' = [q EXCEPT !["extract"] = Append(@, listener.ev)]
    /\ listener' = [pc |-> IF stopping THEN "done" ELSE "recv", ev |-> 0]
    /\ UNCHANGED <<event, published, sub, w, state, sent, fate, breaks, crashes, stopping>>

-----------------------------------------------------------------------------
(* The workers                                                             *)

\* The top of a worker's loop: while self.running.
NextRound == [Idle EXCEPT !.pc = IF stopping THEN "done" ELSE "get"]

\* in_queue.get returns: the worker holds the oldest item.
Take(s, pc) ==
    /\ w[s].pc = "get" /\ q[s] # << >>
    /\ q' = [q EXCEPT ![s] = Tail(@)]
    /\ w' = [w EXCEPT ![s] = [pc |-> pc, ev |-> Head(q[s])]]

\* The item the worker takes goes no further; the worker goes on.
TakeAndDrop(s, how) ==
    /\ w[s].pc = "get" /\ q[s] # << >>
    /\ q' = [q EXCEPT ![s] = Tail(@)]
    /\ w' = [w EXCEPT ![s] = NextRound]
    /\ fate' = [fate EXCEPT ![Head(q[s])] = how]

\* Mutated form: the put does not wait for room.
PutNowait(s) ==
    /\ s \in DOMAIN After /\ w[s].pc = "put"
    /\ q' = [q EXCEPT ![After[s]] = Append(@, w[s].ev)]
    /\ w' = [w EXCEPT ![s] = NextRound]
    /\ UNCHANGED <<event, published, sub, listener, state, sent, fate, breaks, crashes, stopping>>

\* Mutated form: a full queue makes the worker drop the transaction.
PutOrDrop(s) ==
    /\ s \in DOMAIN After /\ w[s].pc = "put"
    /\ q' = IF Len(q[After[s]]) < QueueMax[After[s]]
            THEN [q EXCEPT ![After[s]] = Append(@, w[s].ev)] ELSE q
    /\ w' = [w EXCEPT ![s] = NextRound]
    /\ UNCHANGED <<event, published, sub, listener, state, sent, fate, breaks, crashes, stopping>>

\* out_queue.put of the extractor, the signer and the PEP worker returns.
Put(s) ==
    /\ s \in DOMAIN After /\ w[s].pc = "put"
    /\ Len(q[After[s]]) < QueueMax[After[s]]
    /\ q' = [q EXCEPT ![After[s]] = Append(@, w[s].ev)]
    /\ w' = [w EXCEPT ![s] = NextRound]
    /\ UNCHANGED <<event, published, sub, listener, state, sent, fate, breaks, crashes, stopping>>

\* The extractor hands an event to the thread pool ...
StartConversion ==
    /\ Take("extract", "work")
    /\ UNCHANGED <<event, published, sub, listener, state, sent, fate, breaks, crashes, stopping>>

\* ... and a transaction, or nothing, comes back.
Extracted ==
    /\ w["extract"].pc = "work" /\ Converts(event[w["extract"].ev])
    /\ w' = [w EXCEPT !["extract"].pc = "put"]
    /\ state' = [state EXCEPT ![w["extract"].ev] = "VALIDATED"]
    /\ UNCHANGED <<event, published, sub, listener, q, sent, fate, breaks, crashes, stopping>>

\* Mutated form: an event that does not convert ends the extractor's loop.
ConversionEndsLoop ==
    /\ w["extract"].pc = "work" /\ ~Converts(event[w["extract"].ev])
    /\ w' = [w EXCEPT !["extract"] = [pc |-> "done", ev |-> 0]]
    /\ fate' = [fate EXCEPT ![w["extract"].ev] = "rejected"]
    /\ UNCHANGED <<event, published, sub, listener, q, state, sent, breaks, crashes, stopping>>

ConversionFails ==
    /\ w["extract"].pc = "work" /\ ~Converts(event[w["extract"].ev])
    /\ w' = [w EXCEPT !["extract"] = NextRound]
    /\ fate' = [fate EXCEPT ![w["extract"].ev] = "rejected"]
    /\ UNCHANGED <<event, published, sub, listener, q, state, sent, breaks, crashes, stopping>>

\* The signer compresses and signs without giving control away.
Sign ==
    /\ Take("sign", "put")
    /\ state' = [state EXCEPT ![Head(q["sign"])] = "SIGNED"]
    /\ UNCHANGED <<event, published, sub, listener, sent, fate, breaks, crashes, stopping>>

\* compress or sign raises: logged, no dead letter.
SignFails ==
    /\ TakeAndDrop("sign", "unsigned")
    /\ UNCHANGED <<event, published, sub, listener, state, sent, breaks, crashes, stopping>>

\* Mutated form: a rejected transaction is dead-lettered and sent all the same.
RejectAndForward ==
    LET i == Head(q["pep"]) IN
    /\ Take("pep", "put")
    /\ ~Authorize(TlpMarkingOf(event[i]), Recipient)
    /\ state' = [state EXCEPT ![i] = "POLICY_REJECTED"]
    /\ fate' = [fate EXCEPT ![i] = "denied"]
    /\ UNCHANGED <<event, published, sub, listener, sent, breaks, crashes, stopping>>

Approve ==
    LET i == Head(q["pep"]) IN
    /\ Take("pep", "put")
    /\ Authorize(TlpMarkingOf(event[i]), Recipient)
    /\ state' = [state EXCEPT ![i] = "POLICY_APPROVED"]
    /\ UNCHANGED <<event, published, sub, listener, sent, fate, breaks, crashes, stopping>>

Reject ==
    LET i == Head(q["pep"]) IN
    /\ TakeAndDrop("pep", "denied")
    /\ ~Authorize(TlpMarkingOf(event[i]), Recipient)
    /\ state' = [state EXCEPT ![i] = "POLICY_REJECTED"]
    /\ UNCHANGED <<event, published, sub, listener, sent, breaks, crashes, stopping>>

\* The transmission worker takes a transaction ...
StartSending ==
    /\ Take("send", "work")
    /\ sent' = Append(sent, w'["send"].ev)
    /\ state' = [state EXCEPT ![w'["send"].ev] = "SENDING"]
    /\ UNCHANGED <<event, published, sub, listener, fate, breaks, crashes, stopping>>

\* ... and settles it one way or the other (Delivery.tla).
Settle ==
    /\ w["send"].pc = "work"
    /\ \E how \in {"acked", "failed"} :
          /\ fate' = [fate EXCEPT ![w["send"].ev] = how]
          /\ state' = [state EXCEPT ![w["send"].ev] =
                         IF how = "acked" THEN "ACKED" ELSE "FAILED"]
    /\ w' = [w EXCEPT !["send"] = NextRound]
    /\ UNCHANGED <<event, published, sub, listener, q, sent, breaks, crashes, stopping>>

\* handle_shutdown: every stop() clears a flag; the listener's also closes the
\* socket, which cancels a recv under way.  A worker that waits in get() or
\* put() is not woken.
Shutdown ==
    /\ ~stopping /\ listener.pc # "down"
    /\ stopping' = TRUE
    /\ CloseSocket(fate)
    /\ listener' = IF listener.pc = "recv" THEN [pc |-> "done", ev |-> 0] ELSE listener
    /\ UNCHANGED <<event, published, q, w, state, sent, breaks, crashes>>

\* What the process holds: its queues are in memory, like the rest.
InProcess ==
    {sub[k] : k \in DOMAIN sub} \cup {listener.ev} \cup {w[s].ev : s \in Stage}
    \cup UNION {{q[s][k] : k \in DOMAIN q[s]} : s \in Stage}

\* The process dies, also when it is killed because its shutdown hangs.
Crash ==
    /\ listener.pc # "down" /\ crashes < MaxCrashes
    /\ crashes' = crashes + 1
    /\ fate' = [i \in Event |-> IF i \in InProcess THEN "lost" ELSE fate[i]]
    /\ sub' = << >>
    /\ q' = [s \in Stage |-> << >>]
    /\ w' = [s \in Stage |-> [pc |-> "done", ev |-> 0]]
    /\ listener' = [pc |-> "down", ev |-> 0]
    /\ UNCHANGED <<event, published, state, sent, breaks, stopping>>

\* Someone starts it again (compose.yaml has no restart policy): run_pipeline
\* begins with empty queues.
Restart ==
    /\ listener.pc = "down"
    /\ listener' = [pc |-> "recv", ev |-> 0]
    /\ w' = [s \in Stage |-> Idle]
    /\ stopping' = FALSE
    /\ UNCHANGED <<event, published, sub, q, state, sent, fate, breaks, crashes>>

-----------------------------------------------------------------------------
ListenerStep == Accept \/ Ignore \/ Choke \/ Reconnect \/ Ingest
SignerStep == Sign \/ SignFails
Work == \/ StartConversion \/ Extracted \/ ConversionFails \/ SignerStep
        \/ Approve \/ Reject \/ StartSending \/ Settle

Next ==
    \/ Publish \/ ListenerStep \/ SocketError
    \/ Work \/ \E s \in Stage : Put(s)
    \/ Shutdown \/ Crash \/ Restart

Spec == Init /\ [][Next]_vars

\* The event loop runs every task that is ready, and the thread pool answers.
\* Nothing is assumed of Settle: the transmission worker may wait in drain() for
\* ever (Delivery's EveryTransactionSettles and its exception).
Fairness ==
    /\ WF_vars(ListenerStep)
    /\ WF_vars(StartConversion \/ Extracted \/ ConversionFails \/ Put("extract"))
    /\ WF_vars(SignerStep \/ Put("sign"))
    /\ WF_vars(Approve \/ Reject \/ Put("pep"))
    /\ WF_vars(StartSending)

FairSpec == Spec /\ Fairness

-----------------------------------------------------------------------------
(* Properties                                                              *)

TransactionState == {"none", "VALIDATED", "SIGNED", "POLICY_APPROVED",
                     "POLICY_REJECTED", "SENDING", "ACKED", "FAILED"}
Holder == [pc : {"get", "work", "put", "done"}, ev : 0..NumEvents]

\* Type invariant; no queue holds more than its maxsize.
PipelineTypeOK ==
    /\ event \in Feeds
    /\ published \in 0..NumEvents
    /\ sub \in Seq(Event) /\ Len(sub) <= SubHwm
    /\ listener \in [pc : {"recv", "put", "sleep", "done", "down"}, ev : 0..NumEvents]
    /\ q \in [Stage -> Seq(Event)] /\ \A s \in Stage : Len(q[s]) <= QueueMax[s]
    /\ w \in [Stage -> Holder]
    /\ state \in [Event -> TransactionState]
    /\ sent \in Seq(Event)
    /\ fate \in [Event -> Fate \cup {"none"}]
    /\ breaks \in 0..MaxBreaks /\ crashes \in 0..MaxCrashes
    /\ stopping \in BOOLEAN

\* The places where event i is: buffers, queues, workers' hands, and its fate.
Places(i) ==
    {<<"sub", k>> : k \in {k \in DOMAIN sub : sub[k] = i}}
    \cup {<<"listener", 0>> : x \in {x \in {0} : listener.ev = i}}
    \cup (UNION {{<<s, k>> : k \in {k \in DOMAIN q[s] : q[s][k] = i}} : s \in Stage})
    \cup {<<s, 0>> : s \in {s \in Stage : w[s].ev = i}}
    \cup {<<"fate", 0>> : x \in {x \in {0} : fate[i] # "none"}}

\* No event is duplicated and none vanishes: every event that was published is
\* in exactly one place, whatever is full, fails, reconnects, shuts down or
\* crashes.
EveryEventAccountedFor ==
    \A i \in Event : Cardinality(Places(i)) = IF i <= published THEN 1 ELSE 0

\* Gateway A keeps its promise about the feed: seen from outside, the five tasks
\* with their queues, errors and crashes hand over only events that the outbound
\* policy lets pass, in order and at most once, and give each one final outcome
\* that fits whether it was handed over.
Promise == INSTANCE FeedPromise WITH
    Refusal <- {"missed", "dropped", "rejected", "unsigned", "denied"},
    Result <- {"acked", "failed"}, Loss <- {"lost"}, handed <- sent, outcome <- fate,
    sharable <- {i \in Event : Authorize(TlpMarkingOf(event[i]), Recipient)}
ImplementsFeedPromise == Promise!Spec

\* An event is not sent if AMBER+STRICT, in whatever case MISP wrote it, is the
\* only marking among its tags.
StrictStaysHome ==
    \A k \in DOMAIN sent :
        LET names == {Lower(event[sent[k]].tags[j]) : j \in DOMAIN event[sent[k]].tags} IN
        names \cap DOMAIN TlpOfTag # {"tlp:amber+strict"}

\* Every event MISP publishes has an outcome in the end: it is acknowledged,
\* dead-lettered, dropped with a log line, missed by the socket or lost with the
\* process, unless the gateway is told to stop or the transmission worker never
\* comes back from one transaction, behind which the queues fill up.
EveryEventSettles ==
    \/ <>[](stopping \/ \A i \in 1..published : fate[i] # "none")
    \/ \E i \in Event : <>[](w["send"] = [pc |-> "work", ev |-> i])

\* Once handle_shutdown has run every task ends, so that gather returns and
\* run_pipeline can report "Gateway A shutdown complete".
ShutdownCompletes ==
    stopping ~> (listener.pc = "done" /\ \A s \in Stage : w[s].pc = "done")

\* An event tagged with a marking the policy has no rule for is denied.
UnconfiguredMarkingDenied ==
    \A k \in DOMAIN sent :
        \A j \in DOMAIN event[sent[k]].tags : Lower(event[sent[k]].tags[j]) # "tlp:red"
=============================================================================
