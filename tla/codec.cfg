SPECIFICATION EitherSpec
CONSTANTS
    BlockSize = 8
    LengthSize = 2
    Pieces <- MCPieces
    MaxData = 26
    FieldLists <- MCFieldLists
    Damaged <- MCDamaged
INVARIANTS FieldsComeBack DigestOfWhole
CHECK_DEADLOCK FALSE
