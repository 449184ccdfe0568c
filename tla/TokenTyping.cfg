CONSTANTS
    Alphabet <- FourSymbols
    VersionSpan = 2
    CounterSpan = 4
    DaysSpan = 4
    FlagSpan = 2
    VERSION = 1
    PayloadSymbols = 3
    SignatureSymbols = 3
    Secret = {1, 2}
    Signature <- ToySignature
    NoToken = NoToken
    Stray = {"0", "2", "V", "?"}
    MaxEdits = 2
SPECIFICATION CodecSpec
INVARIANT CarefulCopyIsRead
INVARIANT OnlySignedIsRead
CHECK_DEADLOCK FALSE
