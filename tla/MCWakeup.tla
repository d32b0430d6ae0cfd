------------------------------- MODULE MCWakeup -------------------------------
\* Queue q1 feeds a pull-through p1, behind which sits a pull-through p2;
\* queue q2 is pulled from directly.  Task t1 pulls through p2, so a q1
\* packet must cascade q1 -> p1 -> p2 to wake it; tasks t3 and t4 pull
\* through p1 and can clear p1's signal while p2's stays set; task t2 pulls
\* from q2.  p1's notifier is SEARCH_CONTINUE_WAKE, so the registrations
\* and signals below are those upstream_empty_signal makes through it:
\* p1 twice, then q1 directly, and a signal holding p1's bit only.
EXTENDS Wakeup

CONSTANTS q1, q2, p1, p2, t1, t2, t3, t4

MCQueues == {q1, q2}
MCPulls == {p1, p2}
MCTasks == {t1, t2, t3, t4}
MCUp == (p1 :> {q1}) @@ (p2 :> {p1})
MCSrc == (t1 :> p2) @@ (t2 :> q2) @@ (t3 :> p1) @@ (t4 :> p1)

\* The calls of the elements' initialize(), in configuration order, as
\* upstream_empty_signal makes them on this graph.  q1, q2 and p2 export
\* SEARCH_STOP notifiers; p1's is SEARCH_CONTINUE_WAKE (a rate limiter,
\* spec scenario 4).  A search that meets p1 stops there in the first pass,
\* and, its signal being p1's bit, walks again: check_match pushes p1 a
\* second time and goes on to q1.  So found is <<p1, p1, q1>>, the loops
\* register with p1 twice (the second call finds the entry already there)
\* and with q1, and the signal returned is the first pass's, p1's bit
\* alone (finding 1).  p1's element finds q1 and registers p1's signal;
\* p2's element finds <<p1, p1, q1>> and registers p2's; t1's finds p2,
\* t2's q2, and t3's and t4's <<p1, p1, q1>>.  q1 ends up with an array of
\* two tasks and two dependent signals, p1 with one dependent signal and
\* two tasks, q2 and p2 with one task in the inline slot.
Dep(n, s) == [at |-> n, what |-> s, where |-> 1]
Lis(n, t) == [at |-> n, what |-> t, where |-> 0]
MCRegistrations ==
    << Dep(q1, p1),
       Dep(p1, p2), Dep(p1, p2), Dep(q1, p2),
       Lis(p2, t1),
       Lis(q2, t2),
       Lis(p1, t3), Lis(p1, t3), Lis(q1, t3),
       Lis(p1, t4), Lis(p1, t4), Lis(q1, t4) >>

\* The notifiers each task's returned signal tests.
MCTaskSignal == (t1 :> {p2}) @@ (t2 :> {q2}) @@ (t3 :> {p1}) @@ (t4 :> {p1})

\* Producers on their own threads: q2's alone, or both.
MCThreadedQ2 == {q2}
MCThreadedAll == {q1, q2}

\* Elements cleaned up while the router runs: none, or the consumers of q2
\* (whose task sits in q2's inline slot) and t3 (which shares p1's and
\* q1's arrays with t4 and the dependent signals).
MCDepartNone == {}
MCDepartSome == {t2, t3}
=============================================================================
