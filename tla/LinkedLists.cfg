SPECIFICATION FairSpec
CONSTANTS
    L = L
    D = D
    e1 = e1
    e2 = e2
    e3 = e3
    e4 = e4
    e5 = e5
    NULL = NULL
    List = {L, D}
    Elem <- MCElem
    Key <- MCKey
INVARIANTS
    BothWaysAgree
PROPERTIES
    ImplementsElementLists
    EachAsDescribed
    JobEnds
