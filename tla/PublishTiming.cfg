SPECIFICATION TimingSpec
CONSTANTS
    w1 = w1
    Publisher = Publisher
    Main = Main
    NoOne = NoOne
    Other <- OneOther
    Interval = 1
    CallTimeout = 1
    OtherTimeout = 2
    FetchTimeout = 6
    Margin = 10
    Expiry = 6
    JoinTimeout = 6
    Lifetimes <- ShortAndLong
    MaxMisses = 1
INVARIANTS TimingTypeOK TokenOutlivesCall EntityStaysLive
PROPERTIES NoGhost
