\* A pool of three, two per sender; three threads; three builds of the store;
\* two accounts; 8-bit targets; a second of six milliseconds.
SPECIFICATION PartsSpec
CONSTANTS
    Sender = {"ann", "bob"}
    Tx <- MCTx
    MaxTransactions = 3
    MaxPerSender = 2
    BaseFee = {0, 2}
    Nonce = {0, 1, 2}
    Balance = {3, 9}
    SequenceMax = 5
    Thread = {"miner", "worker", "other"}
    CallsOf <- MCCallsOf
    Key = {"k1", "k2"}
    Version = {1, 2, 3}
    Address = {"ann", "con"}
    Slot = {"s"}
    Code = {"c"}
    Word = {0, 1}
    Funds = {0, 1}
    Width = 8
    DigitBits = 2
    RadixBits = 4
    CubicC1 = 2849
    CubicC2 = 58
    CubicC3 = 1
    MaxHalflives = 3
    IdealSecs = 1
    HalflifeSecs = 2
    PowLimit = 127
    MsPerSecond = 2
    FutureDriftMs = 2
    StampMax = 18
    HeightMax = 3
    ParamSets <- MCParamSets
    SecondMs = 6
    MaxTxGasLimit = 5
    LagSeconds = 1
    WindowSeconds = 2
    KMultiple = 10
    InitialBaseFee = 9
    FeeMax = 40
INVARIANTS
    IndexesAgree
    SelectionIsExecutable
    StuckOnlyByReentry
    AcknowledgedSurvives
    NeverReinterpreted
    AccountsAreSound
    UndoIsExact
    CompactRoundsDown
    ChainGrows
    LaterIsNoHarder
    OnScheduleIsAnchor
    DerivedAreExact
    FeeSteersToTarget
PROPERTIES
    DisplacedByBetter
    ImplementsMap
CHECK_DEADLOCK FALSE
