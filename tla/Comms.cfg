SPECIFICATION CommsSpec
CONSTANTS
    Frames <- FramesDef
    Length <- LengthDef
    Parts <- PartsDef
    Offers <- OffersDef
    Declared <- DeclaredDef
    FrameLimit = 4
    PacketSize = 4
    Unread = 1
    MaxRestarts = 1
    Messages = {"held", "long"}
    HeaderByte = 2
    Chunk = 4
    WriteAlign = 2
    BodyAlign = 2
    MinBody = 4
    MaxBody = 6
INVARIANTS  AnswersHaveNoGaps AcksCarryTheVerdict
PROPERTIES LinkComesUp UpgradeCompletes
CHECK_DEADLOCK FALSE
