SPECIFICATION Spec
CONSTANTS
    i1 = i1
    i2 = i2
    i3 = i3
    w1 = w1
    w2 = w2
    NoId = NoId
    Main = Main
    NoThread = NoThread
    IngressId <- TwoIds
    Worker <- OneWorker
    MaxRequests = 2
    Faults <- CommandOnly

INVARIANTS NeverPushAtDead
