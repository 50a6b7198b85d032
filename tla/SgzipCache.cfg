SPECIFICATION Spec
CONSTANTS
    Junk = Junk
    None = None
    a = a  b = b
    Images <- TwoImages
    Sizes <- SomeSizes
    Levels <- OneLevel
    BlockSize = 2
    Slack = 2
    BufferSize = 5
    MaxLen = 4
    FarOffset = 9
CHECK_DEADLOCK FALSE
INVARIANT ReadFromImage
