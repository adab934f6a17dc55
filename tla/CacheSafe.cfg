SPECIFICATION Spec
CONSTANTS
    Store = {1, 2}
    Client = {c1, c2}
    Subjects = {1}
    Authorities <- MCAuthorities
    MaxRev = 1
    MaxEntries = 1
    None = None
INVARIANTS AnswersCurrent LayoutReadable NoCircularWait
PROPERTIES ResetLatched
SYMMETRY MCSymmetry
