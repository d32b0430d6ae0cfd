-------------------------------- MODULE Wakeup --------------------------------
\* Sleep and wakeup around ActiveNotifiers (src/lib/notifier.cc and the
\* activation of spec section 4.3, whose code, ActiveNotifier::set_active in
\* notifier.hh, is not in the repository).
\*
\* Queues are ActiveNotifiers whose signal is active while they hold
\* packets.  Pull-through elements export an ActiveNotifier of their own
\* whose signal is registered as a dependent signal of the notifiers
\* upstream of them.  Consumer tasks pull from a source notifier and sleep
\* when the pull finds nothing and the source's signal is inactive.  First
\* the elements' initialize() calls register tasks and dependent signals
\* through the real listener storage (ActiveNotifier); then the router runs.
\* Consumer tasks run one at a time on the router's worker, and so do the
\* producers of the other queues, each push with its set_active(true) as one
\* step.  A producer on a thread of its own (spec 5: bits may be set from
\* other threads, and Task::reschedule may be called from any thread)
\* interleaves with the steps of a task's run: it enqueues, then sets the bit
\* and reads whether it was clear, then reschedules the listeners and
\* activates the dependent signals (set-then-reschedule, spec 9).
EXTENDS Naturals, Sequences, SequencesExt, FiniteSets

CONSTANTS
    Queues,         \* notifiers of packet queues (model values)
    Pulls,          \* notifiers of pull-through elements (model values)
    Tasks,          \* consumer tasks (model values)
    NULL,           \* the null pointer
    Cap,            \* queue capacity
    Up,             \* Up[p]: the notifiers one hop upstream of pull-through p
    Src,            \* Src[t]: the notifier task t pulls from
    TaskSignal,     \* TaskSignal[t]: the notifiers whose bits t's signal tests
    Registrations,  \* the add_listener / add_dependent_signal calls of initialize
    AllocCanFail,   \* whether listener_change may run out of memory
    Threaded,       \* queues whose producer runs on a thread of its own
    Departing       \* tasks whose element may be cleaned up while the router runs

Notifiers == Queues \cup Pulls

VARIABLES
    pkts,   \* pkts[q]: packets in queue q
    bit,    \* bit[n]: n's basic signal bit in the router's word
    l1,     \* l1[n]: n's _listener1
    ls,     \* ls[n]: n's _listeners array (<<>> for null)
    sched,  \* sched[t]: t is on the worker's run queue
    pc,     \* pc[t]: where task t's run is ("idle" when not running)
    ppc,    \* ppc[q]: where the threaded producer of q is
    reg,    \* the next registration call; past the end, the router runs
    alive   \* the tasks not yet destroyed

vars == <<pkts, bit, l1, ls, sched, pc, ppc, reg, alive>>

\* The listener storage of notifier n, as ActiveNotifier models it.
AN(a, b) == INSTANCE ActiveNotifier
    WITH listener1 <- a, listeners <- b, result <- 0, Signals <- Notifiers

\* Mutant: only the task in the inline slot is taken as a listener.
ListenersOf_inlineonly(n) == IF l1[n] # NULL THEN {l1[n]} ELSE {}

ListenersOf(n) == ToSet(AN(l1[n], ls[n])!ListenerTasks)
DependentsOf(n) == ToSet(AN(l1[n], ls[n])!DependentSignals)

\* The notifiers a pull from n goes through, and the queues it can reach.
RECURSIVE Below(_)
Below(n) == {n} \cup (IF n \in Pulls THEN UNION {Below(m) : m \in Up[n]} ELSE {})
Reach(t) == Below(Src[t]) \cap Queues
PullPath(t) == Below(Src[t]) \cap Pulls

Running == reg > Len(Registrations)
WorkerIdle == \A t \in Tasks : pc[t] = "idle"

TypeOK ==
    /\ pkts \in [Queues -> 0 .. Cap]
    /\ bit \in [Notifiers -> BOOLEAN]
    /\ l1 \in [Notifiers -> Tasks \cup {NULL}]
    /\ ls \in [Notifiers -> Seq(Tasks \cup Notifiers \cup {NULL})]
    /\ sched \in [Tasks -> BOOLEAN]
    /\ pc \in [Tasks -> {"idle", "pull", "clear", "check"}]
    /\ ppc \in [Queues -> {"idle", "set", "wake"}]
    /\ reg \in 1 .. Len(Registrations) + 1
    /\ alive \subseteq Tasks

\* Tasks start scheduled; no notifier has listeners or active signals.
Init ==
    /\ pkts = [q \in Queues |-> 0]
    /\ bit = [n \in Notifiers |-> FALSE]
    /\ l1 = [n \in Notifiers |-> NULL]
    /\ ls = [n \in Notifiers |-> <<>>]
    /\ sched = [t \in Tasks |-> TRUE]
    /\ pc = [t \in Tasks |-> "idle"]
    /\ ppc = [q \in Queues |-> "idle"]
    /\ reg = 1
    /\ alive = Tasks

\* Mutant: the dependent-signal loop calls add_listener.
Register_wrongpart ==
    /\ ~Running
    /\ LET r == Registrations[reg]
           new == AN(l1[r.at], ls[r.at])!Changed(r.what, 0, TRUE)
       IN \/ /\ l1' = [l1 EXCEPT ![r.at] = new.l1]
             /\ ls' = [ls EXCEPT ![r.at] = new.ls]
          \/ /\ AllocCanFail /\ ~AN(l1[r.at], ls[r.at])!FastPath(0, TRUE)
             /\ UNCHANGED <<l1, ls>>
    /\ reg' = reg + 1
    /\ UNCHANGED <<pkts, bit, sched, pc, ppc, alive>>

\* One add_listener(task) or add_dependent_signal(&signal) of a search's
\* registration loop; a failed listener_change is ignored.
Register ==
    /\ ~Running
    /\ LET r == Registrations[reg]
           new == AN(l1[r.at], ls[r.at])!Changed(r.what, r.where, TRUE)
       IN \/ /\ l1' = [l1 EXCEPT ![r.at] = new.l1]
             /\ ls' = [ls EXCEPT ![r.at] = new.ls]
          \/ /\ AllocCanFail /\ ~AN(l1[r.at], ls[r.at])!FastPath(r.where, TRUE)
             /\ UNCHANGED <<l1, ls>>
    /\ reg' = reg + 1
    /\ UNCHANGED <<pkts, bit, sched, pc, ppc, alive>>

\* The notifiers that go from inactive to active when those in S do: every
\* dependent signal of one of them whose bit was clear, and so on (4.3).
RECURSIVE Woken(_)
Woken(S) ==
    LET T == S \cup {d \in UNION {DependentsOf(n) : n \in S} : ~bit[d]}
    IN IF T = S THEN S ELSE Woken(T)

\* The wake walk over the notifiers S that became active: reschedule their
\* listener tasks and set the bits of their dependent signals.
Wake(S) ==
    /\ bit' = [m \in Notifiers |-> bit[m] \/ m \in S \/ \E k \in S : m \in DependentsOf(k)]
    /\ sched' = [t \in Tasks |-> sched[t] \/ \E k \in S : t \in ListenersOf(k)]

\* A producer on the worker enqueues a packet and calls set_active(true).
Push(q) ==
    /\ Running /\ WorkerIdle /\ q \notin Threaded /\ pkts[q] < Cap
    /\ pkts' = [pkts EXCEPT ![q] = @ + 1]
    /\ IF bit[q] THEN UNCHANGED <<bit, sched>> ELSE Wake(Woken({q}))
    /\ UNCHANGED <<l1, ls, pc, ppc, reg, alive>>

\* A producer on its own thread enqueues a packet ...
Enqueue(q) ==
    /\ Running /\ q \in Threaded /\ ppc[q] = "idle" /\ pkts[q] < Cap
    /\ pkts' = [pkts EXCEPT ![q] = @ + 1]
    /\ ppc' = [ppc EXCEPT ![q] = "set"]
    /\ UNCHANGED <<bit, l1, ls, sched, pc, reg, alive>>

\* ... sets the bit, remembering whether it was clear ...
SetBit(q) ==
    /\ ppc[q] = "set"
    /\ bit' = [bit EXCEPT ![q] = TRUE]
    /\ ppc' = [ppc EXCEPT ![q] = IF bit[q] THEN "idle" ELSE "wake"]
    /\ UNCHANGED <<pkts, l1, ls, sched, pc, reg, alive>>

\* ... and, if it was, walks the listener lists as they are now.
WakeListeners(q) ==
    /\ ppc[q] = "wake"
    /\ Wake(Woken({q}))
    /\ ppc' = [ppc EXCEPT ![q] = "idle"]
    /\ UNCHANGED <<pkts, l1, ls, pc, reg, alive>>

\* The worker picks a scheduled task; the scheduler unschedules a task
\* before running it, so a reschedule during the run puts it back.
Fire(t) ==
    /\ Running /\ WorkerIdle /\ sched[t] /\ t \in alive
    /\ sched' = [sched EXCEPT ![t] = FALSE]
    /\ pc' = [pc EXCEPT ![t] = "pull"]
    /\ UNCHANGED <<pkts, bit, l1, ls, ppc, reg, alive>>

\* The task pulls through its source.  A packet taken from a queue that it
\* empties clears the queue's signal, and the task reschedules itself.
Pull(t) ==
    /\ pc[t] = "pull"
    /\ \/ \E q \in Reach(t) :
            /\ pkts[q] > 0
            /\ pkts' = [pkts EXCEPT ![q] = @ - 1]
            /\ bit' = [bit EXCEPT ![q] = pkts[q] > 1]
            /\ sched' = [sched EXCEPT ![t] = TRUE]
            /\ pc' = [pc EXCEPT ![t] = "idle"]
       \/ /\ \A q \in Reach(t) : pkts[q] = 0
          /\ pc' = [pc EXCEPT ![t] = "clear"]
          /\ UNCHANGED <<pkts, bit, sched>>
    /\ UNCHANGED <<l1, ls, ppc, reg, alive>>

\* A pull that found nothing: the pull-through elements on the way clear
\* their signals as it returns.
Clear(t) ==
    /\ pc[t] = "clear"
    /\ bit' = [n \in Notifiers |-> bit[n] /\ n \notin PullPath(t)]
    /\ pc' = [pc EXCEPT ![t] = "check"]
    /\ UNCHANGED <<pkts, l1, ls, sched, ppc, reg, alive>>

\* The task tests the signal its element's upstream_empty_signal returned,
\* and sleeps unless it is active.
Check(t) ==
    /\ pc[t] = "check"
    /\ sched' = [sched EXCEPT ![t] = @ \/ \E n \in TaskSignal[t] : bit[n]]
    /\ pc' = [pc EXCEPT ![t] = "idle"]
    /\ UNCHANGED <<pkts, bit, l1, ls, ppc, reg, alive>>

\* The notifiers a task was registered with: those its element's
\* initialize() called add_listener on.
Regs(t) == {Registrations[i].at : i \in {j \in DOMAIN Registrations : Registrations[j].what = t}}

\* The storage of the notifiers in R after each calls listener_change(t, 0, add).
ChangedAt(R, t, add) ==
    /\ l1' = [n \in Notifiers |-> IF n \in R THEN AN(l1[n], ls[n])!Changed(t, 0, add).l1 ELSE l1[n]]
    /\ ls' = [n \in Notifiers |-> IF n \in R THEN AN(l1[n], ls[n])!Changed(t, 0, add).ls ELSE ls[n]]

\* Mutant: the cleanup calls listener_change with add set.
Cleanup_asadd(t) ==
    /\ Running /\ WorkerIdle /\ t \in Departing \cap alive
    /\ \E failed \in (IF AllocCanFail THEN SUBSET Regs(t) ELSE {{}}) :
           ChangedAt(Regs(t) \ failed, t, TRUE)
    /\ alive' = alive \ {t}
    /\ sched' = [sched EXCEPT ![t] = FALSE]
    /\ UNCHANGED <<pkts, bit, pc, ppc, reg>>

\* An element's cleanup on the worker: remove_listener(task) on every
\* notifier the task was registered with, then the Task is destroyed (and
\* unscheduled).  remove_listener is void: listener_change never takes the
\* fast path for a removal, so each call allocates, and one that runs out
\* of memory leaves the task listed without the caller knowing.
Cleanup(t) ==
    /\ Running /\ WorkerIdle /\ t \in Departing \cap alive
    /\ \E failed \in (IF AllocCanFail THEN SUBSET Regs(t) ELSE {{}}) :
           ChangedAt(Regs(t) \ failed, t, FALSE)
    /\ alive' = alive \ {t}
    /\ sched' = [sched EXCEPT ![t] = FALSE]
    /\ UNCHANGED <<pkts, bit, pc, ppc, reg>>

Next ==
    \/ Register
    \/ \E q \in Queues : Push(q) \/ Enqueue(q) \/ SetBit(q) \/ WakeListeners(q)
    \/ \E t \in Tasks : Fire(t) \/ Pull(t) \/ Clear(t) \/ Check(t) \/ Cleanup(t)

\* The elements' initialize() calls finish; a producer that has enqueued
\* finishes its set_active; a running task finishes its run; and the
\* worker's round-robin scheduler runs every task that stays scheduled
\* whenever the worker comes free (strong fairness: other tasks' runs
\* disable Fire(t) again and again).  Producers need not push, and
\* elements need not be cleaned up.
Fairness ==
    /\ WF_vars(Register)
    /\ \A q \in Queues : WF_vars(SetBit(q)) /\ WF_vars(WakeListeners(q))
    /\ \A t \in Tasks : SF_vars(Fire(t)) /\ WF_vars(Pull(t) \/ Clear(t) \/ Check(t))

Spec == Init /\ [][Next]_vars /\ Fairness

\* Properties

\* No task sleeps while a packet waits in a queue it pulls from: the
\* transition that put the packet there woke it, directly or through the
\* dependent signals of the pull-through elements between them.
NoSleepWithWork ==
    Running => \A t \in alive :
        (~sched[t] /\ pc[t] = "idle") => \A q \in Reach(t) : pkts[q] = 0 \/ ppc[q] # "idle"

\* Whenever a packet waits in a queue upstream of a task, the task is
\* eventually scheduled to pull it, unless it is destroyed first (spec 8,
\* wake semantics).
PacketsEventuallyPulled ==
    \A t \in Tasks : \A q \in Reach(t) : pkts[q] > 0 ~> (sched[t] \/ t \notin alive)

\* A destroyed task is listed by no notifier: its element's cleanup took it
\* out of every listener list it was added to, so no later activation
\* reschedules a freed Task (spec 9: the task must deregister before
\* destruction; the notifier's reference is non-owning).
NoDanglingListener ==
    \A n \in Notifiers : ListenersOf(n) \subseteq alive
=============================================================================
