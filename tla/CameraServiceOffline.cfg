SPECIFICATION ServiceSpec
CONSTANTS
    i1 = i1
    i2 = i2
    w1 = w1
    NoId = NoId
    Main = Main
    NoThread = NoThread
    IngressId <- TwoIds
    Worker <- OneWorker
    MaxRequests = 0
    Faults <- RefusedOnly
INVARIANTS OfflineAdvertisesNothing
