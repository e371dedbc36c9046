CONSTANTS
    a = a
    b = b
    e1 = e1
    e2 = e2
    v1 = v1
    v2 = v2
    None = None
    Activities = {a, b}
    Editors = {e1, e2}
    Visitors = {v1, v2}
    ShowcaseTtl = 3
    EventsTtl = 1
    MaxProduce = 2
SYMMETRY Symmetry
SPECIFICATION Spec
INVARIANTS
    StalenessBounded
PROPERTY
    QuietEditIsVisible
