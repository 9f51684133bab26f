--------------------------- MODULE MCWeatherCache ---------------------------
(* Small instances of WeatherCache: rain, the same rain later in the day,   *)
(* clouds, and a response without a wind speed.                             *)
EXTENDS WeatherCache

MCMeteo == {[time |-> 0, sky |-> 61, temp |-> 9, wind |-> 4],
            [time |-> 1, sky |-> 61, temp |-> 9, wind |-> 4],
            [time |-> 1, sky |-> 3, temp |-> 9, wind |-> 4],
            [time |-> 1, sky |-> 3, temp |-> 9, wind |-> Null]}

=============================================================================
