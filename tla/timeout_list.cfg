CONSTANTS
    p1 = p1
    p2 = p2
    p3 = p3
    p4 = p4
    Ports = {p1, p2, p3, p4}
    HEAD = HEAD
    NULL = NULL
SPECIFICATION Spec
INVARIANTS ActiveMeansListed AllDueFire
PROPERTIES WalkEnds
