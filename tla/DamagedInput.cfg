CONSTANTS
    ByteSpan = 6
    WordBytes = 1
    DayBytes = 2
    MAGIC <- Magic
    FORMAT_VERSION = 2
    StringField <- TwoStrings
    Device <- SmallDevices
    Texts <- ManyTexts
    Name <- ThreeNames
    Value <- SmallValues
    Firmware <- OneOrTwo
    Mirror <- TwoMirrors
    Placeholder <- Junk
    Blank = {32}
    Misprint <- FewBytes
SPECIFICATION ReadersSpec
INVARIANT ReadsInBounds
INVARIANT WholeRecordIsRead
INVARIANT AcceptedIsGenuine
INVARIANT ReadsExactlyJson
INVARIANT CutAnswerIsRejected
INVARIANT RequestIsRead
INVARIANT WalkInBounds
INVARIANT IntroducesItself
CHECK_DEADLOCK FALSE
