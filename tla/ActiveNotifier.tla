---------------------------- MODULE ActiveNotifier ----------------------------
\* The listener storage of an ActiveNotifier (src/lib/notifier.cc,
\* ActiveNotifier::listener_change and its callers).  A single listener
\* task lives in the inline slot _listener1; otherwise _listeners is an
\* array holding the tasks, a null, the dependent signals and a null.
\* The module is shown to implement ListenerSet.
EXTENDS Sequences, SequencesExt, FiniteSets

CONSTANTS
    Tasks,    \* listener tasks (model values)
    Signals,  \* dependent signals (model values)
    NULL      \* the null pointer

ASSUME NULL \notin Tasks \cup Signals /\ Tasks \cap Signals = {}

VARIABLES
    listener1,  \* _listener1: the inline task slot, or NULL
    listeners,  \* _listeners: the array, <<>> for the null pointer
    result      \* return value of the last listener_change: 0 or -1

vars == <<listener1, listeners, result>>

TypeOK ==
    /\ listener1 \in Tasks \cup {NULL}
    /\ listeners \in Seq(Tasks \cup Signals \cup {NULL})
    /\ result \in {0, -1}

Init ==
    /\ listener1 = NULL
    /\ listeners = <<>>
    /\ result = 0

\* The indices of the nulls of an array, and its two partitions.
Nulls(a) == {i \in DOMAIN a : a[i] = NULL}
Sentinel(a, k) == CHOOSE i \in Nulls(a) : Cardinality({j \in Nulls(a) : j <= i}) = k
Partition(a, x) ==
    IF x = 0 THEN SubSeq(a, 1, Sentinel(a, 1) - 1)
             ELSE SubSeq(a, Sentinel(a, 1) + 1, Sentinel(a, 2) - 1)

\* Mutant: the count loop forgets the inline slot.
Counted_noinline ==
    IF listeners = <<>> THEN 0
    ELSE Cardinality({j \in 1 .. Sentinel(listeners, 2) : listeners[j] # NULL})

\* The count loop: the entries of the array before its second null, and
\* one for the inline slot; the copy is allocated n + 2 + add entries.
Counted ==
    (IF listeners = <<>> THEN 0
     ELSE Cardinality({j \in 1 .. Sentinel(listeners, 2) : listeners[j] # NULL}))
    + (IF listener1 # NULL THEN 1 ELSE 0)

\* Mutant: what is appended even when it is already listed.
CopiedArray_nodedup(what, where, add) ==
    LET old == IF listeners = <<>> THEN <<listener1, NULL, NULL>> ELSE listeners
        Kept(x) == IF add THEN Partition(old, x) ELSE Remove(Partition(old, x), what)
        Part(x) == Kept(x) \o (IF add /\ where = x THEN <<what>> ELSE <<>>)
    IN Part(0) \o <<NULL>> \o Part(1) \o <<NULL>>

\* listener_change(what, where, add), when it is not the fast path and
\* both allocations succeed.  The old list is first put in array form (the
\* inline slot, or nothing, becomes <<_listener1, 0, 0>>).  The copy keeps
\* each entry unless it is what and this is a removal; meeting what while
\* adding cancels the add; at the null ending partition "where" what is
\* appended if the add still stands.  The new array is then collapsed back
\* to nothing or to the inline slot when it holds no more than one task.
CopiedArray(what, where, add) ==
    LET old == IF listeners = <<>> THEN <<listener1, NULL, NULL>> ELSE listeners
        Kept(x) == IF add THEN Partition(old, x) ELSE Remove(Partition(old, x), what)
        Seen(x) == \E y \in 0 .. x : what \in ToSet(Partition(old, y))
        Part(x) == Kept(x) \o (IF add /\ where = x /\ ~Seen(x) THEN <<what>> ELSE <<>>)
    IN Part(0) \o <<NULL>> \o Part(1) \o <<NULL>>

\* Mutant: a list left with a single task is not moved back inline.
Collapsed_nocollapse(ntos) ==
    CASE ntos[1] = NULL /\ ntos[2] = NULL -> [l1 |-> NULL, ls |-> <<>>]
      [] OTHER -> [l1 |-> NULL, ls |-> ntos]

\* The storage that holds the copied array ntos: nothing, the inline slot
\* for a single task, or the array itself.
Collapsed(ntos) ==
    CASE ntos[1] = NULL /\ ntos[2] = NULL -> [l1 |-> NULL, ls |-> <<>>]
      [] ntos[1] # NULL /\ ntos[2] = NULL /\ ntos[3] = NULL -> [l1 |-> ntos[1], ls |-> <<>>]
      [] OTHER -> [l1 |-> NULL, ls |-> ntos]

\* Mutant: the fast path forgets to check that a task is being added.
FastPath_anyfast(where, add) == listener1 = NULL /\ listeners = <<>> /\ add

\* The fast path stores a first task inline, with no allocation.
FastPath(where, add) == listener1 = NULL /\ listeners = <<>> /\ where = 0 /\ add

\* The storage after a listener_change that did not run out of memory.
Changed(what, where, add) ==
    IF FastPath(where, add) THEN [l1 |-> what, ls |-> <<>>]
    ELSE Collapsed(CopiedArray(what, where, add))

\* ActiveNotifier::listener_change.  Off the fast path, new
\* task_or_signal_t[] may return null ("out of memory in Notifier!"): -1,
\* and the storage is left alone.
listener_change(what, where, add) ==
    \/ /\ listener1' = Changed(what, where, add).l1
       /\ listeners' = Changed(what, where, add).ls
       /\ result' = 0
    \/ /\ ~FastPath(where, add)
       /\ result' = -1
       /\ UNCHANGED <<listener1, listeners>>

add_listener(t) == listener_change(t, 0, TRUE)

remove_listener(t) == listener_change(t, 0, FALSE)

add_dependent_signal(s) == listener_change(s, 1, TRUE)

Next ==
    \/ \E t \in Tasks : add_listener(t) \/ remove_listener(t)
    \/ \E s \in Signals : add_dependent_signal(s)

Spec == Init /\ [][Next]_vars

\* ActiveNotifier::listeners: the inline task, or the array up to its first null.
ListenerTasks ==
    IF listener1 # NULL THEN <<listener1>>
    ELSE IF listeners = <<>> THEN <<>> ELSE Partition(listeners, 0)

DependentSignals ==
    IF listeners = <<>> THEN <<>> ELSE Partition(listeners, 1)

\* Properties

\* The storage stays canonical after any sequence of adds and removes: the
\* inline slot and the array are never both in use; an array has exactly two
\* nulls, ends with one, keeps tasks before the first and signals after it,
\* and is only kept when the inline slot or nothing could not hold the list.
Canonical ==
    /\ listener1 # NULL => listeners = <<>>
    /\ listeners # <<>> =>
        /\ Cardinality(Nulls(listeners)) = 2
        /\ listeners[Len(listeners)] = NULL
        /\ ToSet(Partition(listeners, 0)) \subseteq Tasks
        /\ ToSet(Partition(listeners, 1)) \subseteq Signals
        /\ ~(Len(listeners) = 2)
        /\ ~(Len(listeners) = 3 /\ listeners[1] # NULL)

\* The listener array implements the abstract listener lists: listeners()
\* returns exactly the tasks, each once, in the order they were added.
\* The calls that change the storage: add_listener, remove_listener and
\* add_dependent_signal, as (what, where, add).
Calls == {<<t, 0, b>> : t \in Tasks, b \in BOOLEAN} \cup {<<s, 1, TRUE>> : s \in Signals}

\* The array new task_or_signal_t[n + 2 + add] holds every entry the copy
\* loop writes (the assert after the loop): for whatever change comes
\* next, off the fast path, the copy is no longer than the allocation.
AllocationSuffices ==
    \A c \in Calls : ~FastPath(c[2], c[3]) =>
        Len(CopiedArray(c[1], c[2], c[3])) <= Counted + 2 + (IF c[3] THEN 1 ELSE 0)

Abstract == INSTANCE ListenerSet WITH tasks <- ListenerTasks, signals <- DependentSignals
AbstractSpec == Abstract!Spec
=============================================================================
