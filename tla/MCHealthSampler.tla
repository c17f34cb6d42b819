--------------------------- MODULE MCHealthSampler ---------------------------
(* The TLC instance of HealthSampler: readings that reach every status.    *)
EXTENDS HealthSampler

SomeTemperatures == {"normal", "fail", None}
SomeBits == {"under_voltage", "soft_temp_limit"}
WellOrUnreadable == {{}, None}
UpOrDown == {"fresh", "down"}
=============================================================================
