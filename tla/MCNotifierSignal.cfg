CONSTANTS
    n1 = n1
    n2 = n2
    n3 = n3
    n4 = n4
    n5 = n5
    Notifiers <- MCNotifiers
    BitsPerWord = 2
    MaxWords = 2
SPECIFICATION Spec
SYMMETRY Symmetry
INVARIANT TypeOK
INVARIANT Conservative
INVARIANT PreciseOnOneWord
