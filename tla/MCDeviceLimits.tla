--------------------------- MODULE MCDeviceLimits ---------------------------
(* A small instance of DeviceLimits for TLC: an int of six bits, in which  *)
(* the number 20 does not survive its multiplication with a unit.          *)
EXTENDS DeviceLimits

SmallDefault ==
    [k \in Knobs |-> CASE k = "max-output-bytes"                    -> 4
                       [] k = "postback-max-attempts"               -> 3
                       [] k = "postback-base-retry-backoff-seconds" -> 2
                       [] k = "sas-token-lifetime-hours"            -> 24]
SmallValues == {-1, 0, 1, 5, 20}
=============================================================================
