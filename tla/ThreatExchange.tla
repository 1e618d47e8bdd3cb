--------------------------- MODULE ThreatExchange ---------------------------
(***************************************************************************)
(* What the two gateways together promise the sharing agencies about a     *)
(* transaction, with no queue, connection, timer or handler in sight.  The *)
(* sender tries up to MaxDeliveries times until the transaction is settled;*)
(* every try delivers once or not at all, and perhaps only after the       *)
(* sender has gone on to the next one or has settled the transaction.      *)
(*                                                                         *)
(*   acked       the last try delivered the bundle                         *)
(*   refused     the last try did not and never will; an earlier one that  *)
(*               the sender gave up on may have, or may still              *)
(*   unroutable  nothing was tried                                         *)
(*   unresolved  the sender gave up; each try may have delivered, or may   *)
(*               still                                                     *)
(***************************************************************************)
EXTENDS Integers

CONSTANTS Tx, MaxDeliveries

VARIABLES status,     \* [Tx -> status], "none" before submission
          tries,      \* [Tx -> Nat]: how often it was tried
          delivered   \* set of <<t, n>>: try number n of transaction t delivered it

exchangeVars == <<status, tries, delivered>>

Status == {"none", "pending", "acked", "refused", "unroutable", "unresolved"}

Init ==
    /\ status = [t \in Tx |-> "none"]
    /\ tries = [t \in Tx |-> 0]
    /\ delivered = {}

Submit(t) ==
    /\ status[t] = "none"
    /\ status' = [status EXCEPT ![t] = "pending"]
    /\ UNCHANGED <<tries, delivered>>

Try(t) ==
    /\ status[t] = "pending" /\ tries[t] < MaxDeliveries
    /\ tries' = [tries EXCEPT ![t] = @ + 1]
    /\ UNCHANGED <<status, delivered>>

\* A try delivers, perhaps late.  The one case excluded is the try refused.
Deliver(t, n) ==
    /\ n <= tries[t]
    /\ status[t] = "refused" => n < tries[t]
    /\ <<t, n>> \notin delivered
    /\ delivered' = delivered \cup {<<t, n>>}
    /\ UNCHANGED <<status, tries>>

\* The sender settles the transaction.
Settle(t, how) ==
    /\ status[t] = "pending"
    /\ how = "acked"      => <<t, tries[t]>> \in delivered
    /\ how = "refused"    => tries[t] > 0 /\ <<t, tries[t]>> \notin delivered
    /\ how = "unroutable" => tries[t] = 0
    /\ how = "unresolved" => tries[t] > 0
    /\ status' = [status EXCEPT ![t] = how]
    /\ UNCHANGED <<tries, delivered>>

Next ==
    \E t \in Tx :
        \/ Submit(t) \/ Try(t)
        \/ \E n \in 1..MaxDeliveries : Deliver(t, n)
        \/ \E how \in {"acked", "refused", "unroutable", "unresolved"} : Settle(t, how)

Spec == Init /\ [][Next]_exchangeVars
=============================================================================
