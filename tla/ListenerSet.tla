----------------------------- MODULE ListenerSet -----------------------------
\* What an ActiveNotifier promises about its listeners, without the
\* storage: an ordered list of listener tasks and an ordered list of
\* dependent signals.  Adding is idempotent and appends at the end of the
\* list it belongs to; removing a task drops it wherever it is; a change
\* may fail for want of memory, and then nothing changes.
EXTENDS Sequences, SequencesExt

CONSTANTS
    Tasks,    \* listener tasks (model values)
    Signals   \* dependent signals (model values)

VARIABLES
    tasks,    \* the listener tasks, in the order they were added
    signals,  \* the dependent signals, in the order they were added
    result    \* return value of the last change: 0 or -1

vars == <<tasks, signals, result>>

AddOnce(s, x) == IF x \in ToSet(s) THEN s ELSE Append(s, x)

Init ==
    /\ tasks = <<>>
    /\ signals = <<>>
    /\ result = 0

AddListener(t) ==
    /\ tasks' = AddOnce(tasks, t)
    /\ result' = 0
    /\ UNCHANGED signals

RemoveListener(t) ==
    /\ tasks' = Remove(tasks, t)
    /\ result' = 0
    /\ UNCHANGED signals

AddDependentSignal(s) ==
    /\ signals' = AddOnce(signals, s)
    /\ result' = 0
    /\ UNCHANGED tasks

ChangeFails ==
    /\ result' = -1
    /\ UNCHANGED <<tasks, signals>>

Next ==
    \/ \E t \in Tasks : AddListener(t) \/ RemoveListener(t)
    \/ \E s \in Signals : AddDependentSignal(s)
    \/ ChangeFails

Spec == Init /\ [][Next]_vars
=============================================================================
