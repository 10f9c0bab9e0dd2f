SPECIFICATION MCSpec
CONSTANTS
    GroupBits = 2
    CountBits = 5
    FieldIds <- MCFieldIds
    IdOf <- MCIdOf
    Words <- MCWords
    Ten = 2
    FractionDigits = 3
    Hours = 2
    Sixty = 2
    SubaccountSize = 2
    NumberBytes = 1
    MaxPositionDepth = 8
    MaxText = 3
    MaxItems = 2
    MaxNested = 12
    Subjects <- MCSubjects
    Clocks <- MCClocks
    InputsOf <- MCInputsOf
    RepeatsOf <- MCRepeatsOf
    RepliesOf <- MCRepliesOf
    Worlds <- MCWorlds
    Window = 0
    MaxClock = 2
    MaxTraffic = 2
INVARIANTS
    FoundIsTheCall
    AbsentNeverRuns
    PlainBlockIsFound
    EnvelopeInterned
    FormIsLayered
    TextsAreExact
    ShownIsRead
    ArgumentIsValid
    OneIntent
    SchemaIsTheReading
    ReplyHasItsClass
CHECK_DEADLOCK FALSE
