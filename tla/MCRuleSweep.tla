---------------------------- MODULE MCRuleSweep -----------------------------
(* Small instances of RuleSweep.                                           *)
EXTENDS RuleSweep

MCCold == [type |-> "device_state", property |-> "temperature_celsius",
           operator |-> "lt", value |-> 1]
MCEvening == [type |-> "time", start_time |-> 1, end_time |-> 1]
MCAtTwo == [type |-> "time", minute |-> 2]

MCRoomOrEvening == {MCCold, MCEvening}
MCPage == {MCAtTwo}

\* The room is cold or warm in one of two minutes.
MCEvenings == [now : Minutes, device : Values, weather : {NoValue}]
\* Only time passes.
MCClocks == [now : Minutes, device : {NoValue}, weather : {NoValue}]

=============================================================================
