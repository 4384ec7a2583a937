SPECIFICATION Spec
CONSTANTS
    line = line
    lines = lines
    magic = magic
    number = number
    alice = alice
    bob = bob
    carol = carol
    Paths <- MCPaths
    Index <- MCIndex
    Blocks <- MCBlocks
    Texts <- MCTexts
    FirstLine <- MCFirstLine
    MagicTexts = {magic}
    Values = {number}
    Null = Null
    Object = Object
    Array = Array
    Absent = Absent
    None = None
    Failed = Failed
    Fps <- MCFps
    Known = {alice, bob}
    Recipients <- MCRecipients
    Open = {alice}
    MaxMoves = 1
INVARIANTS TypeOK OnlySkippedShown RoundTrip MovesReported RefusedExactly FailsExactly
CHECK_DEADLOCK FALSE
