CONSTANTS
    a = a
    b = b
    huge = huge
    noise = noise
    Documents <- MCDocuments
    LengthOf <- MCLengthOf
    Junk = {noise}
    ChunkSize = 9
    MinChunk = 5
    MaxChunks = 4
    MinChars = 4
    MaxChars = 10
    Similarity = 60
SPECIFICATION CSpec
INVARIANTS SizeBound KeptUnlessShort AcceptedDistinct
CHECK_DEADLOCK FALSE
