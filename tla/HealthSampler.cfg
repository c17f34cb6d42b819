SPECIFICATION HealthSpec
CONSTANTS
    None = None
    MaxRounds = 3
    MaxBytes = 1
    Temperatures <- SomeTemperatures
    Bits <- SomeBits
    Hosts <- WellOrUnreadable
    Links <- UpOrDown
INVARIANTS HealthTypeOK PushingIsFlow SensorAgreesWithHealth
PROPERTIES AlertsKeepActivation
