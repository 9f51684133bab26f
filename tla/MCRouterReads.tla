---------------------------- MODULE MCRouterReads ----------------------------
(* A small instance of RouterReads: three callers ask for the call list,    *)
(* two for the radios and the hosts, one for the DSL status, whose fetch    *)
(* has the most steps; two radios, one host.                                *)
EXTENDS RouterReads

CONSTANTS c2, c3

MCVisitors == [k \in Keys |-> CASE k = "calls" -> Callers
                                [] k = "dsl" -> Callers \ {c2, c3}
                                [] OTHER -> Callers \ {c3}]

MCRadios == <<"radio1", "radio2">>

MCTTLs == [k \in Keys |-> IF k = "wlan" THEN 2 ELSE 1]

=============================================================================
