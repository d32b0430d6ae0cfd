---------------------------- MODULE NotifierSearch ----------------------------
\* Notifier::upstream_empty_signal (and its mirror downstream_full_signal)
\* in src/lib/notifier.cc: walk the router graph from a port with a
\* NotifierElementFilter, combine the signals of the notifiers found, run
\* a second pass if a SEARCH_CONTINUE_WAKE notifier asked for one, then
\* register the task and the dependent notifier's signal with every
\* notifier found and return the signal.
\*
\* The walk itself (Router::upstream_elements) is not in the repository;
\* it visits each element reachable from the origin once, calls
\* check_match on it and goes on past it when check_match returns false.
\* Links[e] are the elements one hop further from element e (upstream for
\* the empty search, downstream for the full search).  The elements' roles
\* are chosen in Init, so one run covers every configuration of a graph.
EXTENDS SignalAlgebra, Sequences, SequencesExt, FiniteSets

CONSTANTS
    Elements,      \* elements of the graph other than the origin (model values)
    Origin,        \* the element whose port the search starts from
    Links,         \* Links[e]: the elements one hop further from e
    SigIndex,      \* SigIndex[e]: allocation order of e's notifier signal
    Listened,      \* elements whose notifier already has another listener
    Passive,       \* elements whose notifier is a plain Notifier, not an ActiveNotifier
    AllocCanFail   \* whether listener_change may run out of memory

\* The roles an element can play for the search: no notifier under the
\* searched name (NoNotifier), or a notifier with one of the three SearchOps.
NoNotifier == "none"
SEARCH_STOP == "stop"
SEARCH_CONTINUE == "continue"
SEARCH_CONTINUE_WAKE == "continue_wake"
Roles == {NoNotifier, SEARCH_STOP, SEARCH_CONTINUE, SEARCH_CONTINUE_WAKE}

\* The searching task, a task registered by an earlier search, and the
\* dependent notifier's signal.
Task == "task"
OtherTask == "other"
DepSignal == "dependent"
NULL == "null"

VARIABLES
    role,       \* role[e]: e's notifier's search op, or NoNotifier
    pushport,   \* pushport[e]: port_active(isoutput, port) at e
    withTask,   \* a task was passed
    withDep,    \* a dependent notifier was passed
    phase,      \* "pass1", "pass2", "listen", "depend", "done"
    frontier,   \* elements reached by the walk and not yet checked
    visited,    \* elements checked in the current pass
    acc,        \* filter._signal
    found,      \* filter._notifiers
    need_pass2, \* filter._need_pass2
    signal,     \* the local "signal", copied after the first pass
    i,          \* loop index of the registration loops
    l1,         \* l1[e]: _listener1 of e's ActiveNotifier
    ls,         \* ls[e]: _listeners of e's ActiveNotifier (<<>> for null)
    ret         \* the returned signal, once phase = "done"

vars == <<role, pushport, withTask, withDep, phase, frontier, visited, acc,
          found, need_pass2, signal, i, l1, ls, ret>>

\* The listener storage of e's notifier, as ActiveNotifier models it.
AN(a, b) == INSTANCE ActiveNotifier
    WITH listener1 <- a, listeners <- b, result <- 0,
         Tasks <- {Task, OtherTask}, Signals <- {DepSignal}
Listeners(e) == ToSet(AN(l1[e], ls[e])!ListenerTasks)
Dependents(e) == ToSet(AN(l1[e], ls[e])!DependentSignals)

\* Every notifier's basic signal was allocated when its element initialized.
Sig(e) == BasicSignal(SigIndex[e])

\* port_active, or port_flow from the port reaches no port on the other side.
Boundary(e) == pushport[e] \/ Links[e] = {}

TypeOK ==
    /\ role \in [Elements -> Roles]
    /\ pushport \in [Elements -> BOOLEAN]
    /\ withTask \in BOOLEAN /\ withDep \in BOOLEAN
    /\ phase \in {"pass1", "pass2", "listen", "depend", "done"}
    /\ frontier \subseteq Elements /\ visited \subseteq Elements
    /\ acc \in Signal /\ signal \in Signal /\ ret \in Signal
    /\ found \in Seq(Elements)
    /\ need_pass2 \in BOOLEAN
    /\ i \in 1 .. Len(found) + 1
    /\ l1 \in [Elements -> {Task, OtherTask, NULL}]
    /\ ls \in [Elements -> Seq({Task, OtherTask, DepSignal, NULL})]

\* The filter is constructed with the idle signal; the first walk starts.
Init ==
    /\ role \in [Elements -> Roles]
    /\ pushport \in [Elements -> BOOLEAN]
    /\ \A e \in Elements : pushport[e] => role[e] = NoNotifier /\ Links[e] # {}
    /\ withTask \in BOOLEAN /\ withDep \in BOOLEAN
    /\ phase = "pass1"
    /\ frontier = Links[Origin]
    /\ visited = {}
    /\ acc = idle_signal
    /\ found = <<>>
    /\ need_pass2 = FALSE
    /\ signal = idle_signal
    /\ i = 1
    /\ l1 = [e \in Elements |-> IF e \in Listened THEN OtherTask ELSE NULL]
    /\ ls = [e \in Elements |-> <<>>]
    /\ ret = idle_signal

\* NotifierElementFilter::check_match, one action per outcome.
Walking == phase \in {"pass1", "pass2"}

\* The walk checks e and goes on past it unless check_match returned true.
Visit(e, stop) ==
    /\ visited' = visited \cup {e}
    /\ frontier' = (frontier \ {e}) \cup (IF stop THEN {} ELSE Links[e] \ visited')

\* Mutant: SEARCH_CONTINUE_WAKE stops the walk in the second pass too.
CheckNotifier_wakestops(e) ==
    /\ Walking /\ e \in frontier /\ role[e] # NoNotifier
    /\ found' = Append(found, e)
    /\ acc' = PlusEq(acc, Sig(e))
    /\ IF role[e] = SEARCH_CONTINUE_WAKE
       THEN need_pass2' = TRUE /\ Visit(e, TRUE)
       ELSE UNCHANGED need_pass2 /\ Visit(e, role[e] = SEARCH_STOP)
    /\ UNCHANGED <<role, pushport, withTask, withDep, phase, signal, i, l1, ls, ret>>

\* e has a notifier: record it, add its signal, and stop on SEARCH_STOP, or
\* on SEARCH_CONTINUE_WAKE in the first pass (which asks for a second pass).
CheckNotifier(e) ==
    /\ Walking /\ e \in frontier /\ role[e] # NoNotifier
    /\ found' = Append(found, e)
    /\ acc' = PlusEq(acc, Sig(e))
    /\ IF role[e] = SEARCH_CONTINUE_WAKE /\ phase = "pass1"
       THEN need_pass2' = TRUE /\ Visit(e, TRUE)
       ELSE UNCHANGED need_pass2 /\ Visit(e, role[e] = SEARCH_STOP)
    /\ UNCHANGED <<role, pushport, withTask, withDep, phase, signal, i, l1, ls, ret>>

\* No notifier and push meets pull here (or nothing flows through): busy.
CheckBoundary(e) ==
    /\ Walking /\ e \in frontier /\ role[e] = NoNotifier /\ Boundary(e)
    /\ acc' = busy_signal
    /\ Visit(e, TRUE)
    /\ UNCHANGED <<role, pushport, withTask, withDep, phase, found, need_pass2,
                   signal, i, l1, ls, ret>>

\* No notifier and a pull path through e: the walk goes on.
PassThrough(e) ==
    /\ Walking /\ e \in frontier /\ role[e] = NoNotifier /\ ~Boundary(e)
    /\ Visit(e, FALSE)
    /\ UNCHANGED <<role, pushport, withTask, withDep, phase, acc, found,
                   need_pass2, signal, i, l1, ls, ret>>

\* upstream_empty_signal after the walks.

\* NotifierSignal(), the default-constructed signal, is the busy signal
\* (notifier.hh): the value a filter that ran into a push output holds
\* (check_match, line 386), which the comment before the early return names.
default_signal == busy_signal

\* "if (ok < 0 || signal == NotifierSignal()) return NotifierSignal();"
\* otherwise the registration loops start.
AfterWalks(s) ==
    IF s = default_signal
    THEN phase' = "done" /\ ret' = default_signal
    ELSE phase' = "listen" /\ UNCHANGED ret

\* The first walk ended: "signal = filter._signal", then a second pass if
\* the walk did not run into a push output and a notifier asked for one.
EndPass1 ==
    /\ phase = "pass1" /\ frontier = {}
    /\ signal' = acc
    /\ IF acc # default_signal /\ need_pass2
       THEN /\ phase' = "pass2"
            /\ frontier' = Links[Origin]
            /\ visited' = {}
            /\ UNCHANGED ret
       ELSE /\ AfterWalks(acc)
            /\ UNCHANGED <<frontier, visited>>
    /\ UNCHANGED <<role, pushport, withTask, withDep, acc, found, need_pass2,
                   i, l1, ls>>

\* The second walk ended; the local signal is not read again.
EndPass2 ==
    /\ phase = "pass2" /\ frontier = {}
    /\ AfterWalks(signal)
    /\ UNCHANGED <<role, pushport, withTask, withDep, frontier, visited, acc,
                   found, need_pass2, signal, i, l1, ls>>

\* The base class's add_listener and add_dependent_signal: a plain
\* Notifier registers nothing and returns 0.
NotifierAdd(e) == e \in Passive /\ UNCHANGED <<l1, ls>>

\* add_listener or add_dependent_signal on e's notifier.  On an
\* ActiveNotifier, listener_change(what, where, TRUE): the storage changes,
\* or, off the fast path, allocation fails and it is left alone.
AddAt(e, what, where) ==
    \/ NotifierAdd(e)
    \/ /\ e \notin Passive
       /\ l1' = [l1 EXCEPT ![e] = AN(l1[e], ls[e])!Changed(what, where, TRUE).l1]
       /\ ls' = [ls EXCEPT ![e] = AN(l1[e], ls[e])!Changed(what, where, TRUE).ls]
    \/ /\ e \notin Passive /\ AllocCanFail /\ ~AN(l1[e], ls[e])!FastPath(where, TRUE)
       /\ UNCHANGED <<l1, ls>>

\* One add_listener(task) of the loop; its return value is ignored.
ListenStep ==
    /\ phase = "listen" /\ withTask /\ i <= Len(found)
    /\ AddAt(found[i], Task, 0)
    /\ i' = i + 1
    /\ UNCHANGED <<role, pushport, withTask, withDep, phase, frontier, visited,
                   acc, found, need_pass2, signal, ret>>

\* Mutant: the registration loop stops one notifier early.
ListenDone_early ==
    /\ phase = "listen" /\ (~withTask \/ i >= Len(found))
    /\ phase' = "depend" /\ i' = 1
    /\ UNCHANGED <<role, pushport, withTask, withDep, frontier, visited, acc,
                   found, need_pass2, signal, l1, ls, ret>>

\* Mutant: the second loop starts from index 0.
ListenDone_zero ==
    /\ phase = "listen" /\ (~withTask \/ i > Len(found))
    /\ phase' = "depend" /\ i' = 0
    /\ UNCHANGED <<role, pushport, withTask, withDep, frontier, visited, acc,
                   found, need_pass2, signal, l1, ls, ret>>

\* The task loop is over; the dependent-signal loop starts.
ListenDone ==
    /\ phase = "listen" /\ (~withTask \/ i > Len(found))
    /\ phase' = "depend" /\ i' = 1
    /\ UNCHANGED <<role, pushport, withTask, withDep, frontier, visited, acc,
                   found, need_pass2, signal, l1, ls, ret>>

\* One add_dependent_signal(&dependent_notifier->_signal); result ignored.
DependStep ==
    /\ phase = "depend" /\ withDep /\ i <= Len(found)
    /\ AddAt(found[i], DepSignal, 1)
    /\ i' = i + 1
    /\ UNCHANGED <<role, pushport, withTask, withDep, phase, frontier, visited,
                   acc, found, need_pass2, signal, ret>>

\* "return signal;"
Return ==
    /\ phase = "depend" /\ (~withDep \/ i > Len(found))
    /\ phase' = "done" /\ ret' = signal
    /\ UNCHANGED <<role, pushport, withTask, withDep, frontier, visited, acc,
                   found, need_pass2, signal, i, l1, ls>>

Next ==
    \/ \E e \in Elements : CheckNotifier(e) \/ CheckBoundary(e) \/ PassThrough(e)
    \/ EndPass1 \/ EndPass2
    \/ ListenStep \/ ListenDone \/ DependStep \/ Return

Spec == Init /\ [][Next]_vars

\* Properties

\* s covers e's notifier: s is active whenever e's basic signal is.
AlwaysActive(s) == s \in {busy_signal, overderived_signal}
Covers(s, e) ==
    AlwaysActive(s) \/ (s.value = Sig(e).value /\ Sig(e).mask \subseteq s.mask)

\* The reference: the elements a walk reaches when it goes on past
\* pass-through elements, SEARCH_CONTINUE notifiers and, in the second pass,
\* SEARCH_CONTINUE_WAKE notifiers.
GoesOn(e, pass2) ==
    CASE role[e] = NoNotifier           -> ~Boundary(e)
      [] role[e] = SEARCH_CONTINUE_WAKE -> pass2
      [] OTHER                          -> role[e] = SEARCH_CONTINUE

RECURSIVE Reached(_, _)
Reached(S, pass2) ==
    LET T == S \cup UNION {Links[e] : e \in {x \in S : GoesOn(x, pass2)}}
    IN IF T = S THEN S ELSE Reached(T, pass2)

NotifiersIn(pass2) == {e \in Reached(Links[Origin], pass2) : role[e] # NoNotifier}
BoundariesIn(pass2) ==
    {e \in Reached(Links[Origin], pass2) : role[e] = NoNotifier /\ Boundary(e)}

\* The second pass runs when the first found a SEARCH_CONTINUE_WAKE
\* notifier and ran into no push output.
SecondPassRuns ==
    /\ \E e \in NotifiersIn(FALSE) : role[e] = SEARCH_CONTINUE_WAKE
    /\ BoundariesIn(FALSE) = {}

ExpectedFound ==
    NotifiersIn(FALSE) \cup (IF SecondPassRuns THEN NotifiersIn(TRUE) ELSE {})

\* Once the walks are over, the filter has recorded exactly the notifiers
\* that lie before the first SEARCH_STOP notifier or push/pull boundary on
\* some path from the port, counting those past a SEARCH_CONTINUE_WAKE
\* notifier only when the first pass asked for a second one and did not
\* run into a push output (the "signal != NotifierSignal()" guard).
FoundExactlyReachable ==
    phase \in {"listen", "depend", "done"} => ToSet(found) = ExpectedFound

\* No lost wakeup: when the returned signal is not always active, the task
\* (and the dependent notifier's signal) is registered with every
\* ActiveNotifier whose activity the returned signal reports, so the task
\* that sleeps on the signal is rescheduled when it becomes active.  (A
\* plain Notifier never reschedules anyone: its listeners must poll.)
ListenersCoverSignal ==
    (phase = "done" /\ ~AlwaysActive(ret)) =>
        \A e \in ToSet(found) \ Passive : Covers(ret, e) =>
            /\ withTask => Task \in Listeners(e)
            /\ withDep => DepSignal \in Dependents(e)

\* The returned signal is conservative (the comment of
\* upstream_empty_signal, spec section 8): it combines every notifier
\* found, so it is active whenever one of them is, and it is busy whenever
\* the walks ran into a push output.
ReturnedCoversFound ==
    (phase = "done" /\ Initialized(ret)) =>
        /\ \A e \in ToSet(found) : Covers(ret, e)
        /\ acc = busy_signal => ret = busy_signal
=============================================================================
