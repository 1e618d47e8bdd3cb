---------------------------- MODULE FeedPromise -----------------------------
(***************************************************************************)
(* What Gateway A promises about the events of its feed, whatever it does  *)
(* inside: it hands events to the transmission worker in the order of the  *)
(* feed and each at most once, none that its policy keeps at home, passing *)
(* over those it loses or refuses; an event gets one outcome, and only one *)
(* that was handed over can have been acknowledged or have failed.         *)
(***************************************************************************)
EXTENDS Integers, Sequences

CONSTANTS Event,    \* numbered in the order of the feed
          Refusal,  \* outcomes of an event that is not handed over
          Result,   \* outcomes of one that is
          Loss      \* outcomes of either, when the process dies

VARIABLES sharable, \* the events that the policy lets pass
          handed,   \* events in the order they were handed over
          outcome   \* [Event -> its outcome, "none" before]

vars == <<sharable, handed, outcome>>

Handed == {handed[k] : k \in DOMAIN handed}
Pending(S) == \A i \in S : outcome[i] = "none"

Init ==
    /\ sharable \in SUBSET Event
    /\ handed = << >>
    /\ outcome = [i \in Event |-> "none"]

HandOver(i) ==
    /\ Pending({i}) /\ i \in sharable
    /\ \A j \in Handed : j < i
    /\ handed' = Append(handed, i)
    /\ UNCHANGED <<sharable, outcome>>

\* One event or, when a socket or the process goes, several get their outcome.
Conclude(S) ==
    /\ S # {} /\ Pending(S)
    /\ \A i \in S : outcome'[i] \in Loss \cup (IF i \in Handed THEN Result ELSE Refusal)
    /\ \A i \in Event \ S : outcome'[i] = outcome[i]
    /\ DOMAIN outcome' = Event
    /\ UNCHANGED <<sharable, handed>>

Next == (\E i \in Event : HandOver(i)) \/ (\E S \in SUBSET Event : Conclude(S))

Spec == Init /\ [][Next]_vars
=============================================================================
