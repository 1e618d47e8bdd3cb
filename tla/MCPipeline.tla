----------------------------- MODULE MCPipeline -----------------------------
(***************************************************************************)
(* Instances of GatewayAPipeline for TLC, with the policy table of         *)
(* gateway_a/main.py and the default tags filter of gateway_a/config.py.   *)
(***************************************************************************)
EXTENDS GatewayAPipeline

MCPolicy == [m \in {"tlp:green", "tlp:amber", "tlp:amber+strict"} |->
               CASE m = "tlp:green" -> {"NIA", "ALLY_X"}
                 [] m = "tlp:amber" -> {"NIA"}
                 [] OTHER -> {}]

\* Tag names in lower case, with "TLP" in capitals, and in capitals altogether.
Name(n) == [lower |-> n, capitals |-> {}]
Tlp(n)  == [lower |-> n, capitals |-> 1..3]
Loud    == [lower |-> "tlp:amber+strict", capitals |-> (1..16) \ {4, 10}]

\* "share:NIA" is written with three capitals.
Share  == [lower |-> "share:nia", capitals |-> 7..9]
MCFilter == {Share, Name("tlp:amber")}
MCQueueMax == [s \in Stage |-> IF s = "send" THEN 2 ELSE 1]

Amber    == [topic |-> "misp_json", payload |-> "json", tags |-> <<Name("tlp:amber")>>,
             uuid |-> TRUE, converts |-> TRUE]
Strict   == [Amber EXCEPT !.tags = <<Share, Loud>>]
Stricter == [Amber EXCEPT !.tags = <<Tlp("tlp:amber+strict"), Share>>]
Mixed    == [Amber EXCEPT !.tags = <<Name("tlp:amber+strict"), Share, Tlp("tlp:green")>>]
Red      == [Amber EXCEPT !.tags = <<Share, Name("tlp:red")>>]
Other    == [Amber EXCEPT !.tags = <<Name("share:other"), Tlp("tlp:amber")>>]
NoUuid   == [Amber EXCEPT !.uuid = FALSE]
Garbage  == [Amber EXCEPT !.payload = "garbage"]
Alien    == [Amber EXCEPT !.payload = "alien"]
Heart    == [Amber EXCEPT !.topic = "misp_json_self"]

\* The second event may be of a kind the listener drops, or have tags that
\* contradict each other; it has an event before and one behind it.
Plain == {Amber, Strict, NoUuid}
Odd == {Stricter, Mixed, Other, Garbage, Alien, Heart}
MCFeeds == {f \in [Event -> Plain \cup Odd] : \A i \in Event \ {2} : f[i] \in Plain}
RedFeeds == [Event -> {Amber, Red}]
AmberFeed == [Event -> {Amber}]
=============================================================================
