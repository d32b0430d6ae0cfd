------------------------- MODULE MCNotifierSignal --------------------------
\* Five notifiers, two router words of two bits each: the fifth
\* allocation fails, and searches mix same-word and cross-word signals.
EXTENDS NotifierSignal, TLC

CONSTANTS n1, n2, n3, n4, n5

MCNotifiers == {n1, n2, n3, n4, n5}

Symmetry == Permutations(MCNotifiers)
=============================================================================
