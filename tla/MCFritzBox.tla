----------------------------- MODULE MCFritzBox -----------------------------
(* A small instance of FritzBox: a thermostat that can be switched.  The    *)
(* handler reads it, turns it on, or sets it to 8.25 degrees; the job sets  *)
(* it to off, to 29 degrees or to boost.                                    *)
EXTENDS FritzBox

CONSTANTS a1, r1, j1

MCCaps == [a \in Ains |-> {"SWITCH", "THERMOSTAT"}]

MCTemps == {0, 33, 116, 128}

MCAsks ==
  ({r1} \X (Reads \cup [op : {"set_switch"}, ain : Ains, arg : {TRUE}]
                 \cup [op : {"set_temperature"}, ain : Ains, arg : {33}]))
    \cup ({j1} \X [op : {"set_temperature"}, ain : Ains, arg : {0, 116, 128}])

=============================================================================
