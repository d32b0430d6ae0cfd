------------------------- MODULE MCActiveNotifier --------------------------
\* Three tasks and two dependent signals: enough for the array to hold
\* several tasks and signals at once and to collapse back to the inline
\* slot from either side.
EXTENDS ActiveNotifier

CONSTANTS t1, t2, t3, s1, s2

MCTasks == {t1, t2, t3}
MCSignals == {s1, s2}
=============================================================================
