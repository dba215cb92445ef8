SPECIFICATION Spec
CONSTANTS
    MaskBytes = 3
    PayloadMax = 3
    Messages <- MCMessages
    Strays <- MCLookalikes
    Nodes = {n1, n2}
    NoNode = NoNode
    Behind <- MCBehind
    MaxInFlight = 1
PROPERTY HeaderDeterminesKind
