# TLA+ models of the notifier core (empower-lvap-agent)

This directory holds TLA+ models of `src/lib/notifier.cc` and
`src/elements/wifi/ap/openauthresponder.cc`, with the TLC configurations
that check them. The modules are translated from the source. Where the code
the source calls is not in the repository, the module follows `spec.md`. That
code is `notifier.hh`, `Router::upstream_elements` and
`Router::new_notifier_signal`, and the activation code of `ActiveNotifier`
(`set_active`, which wakes listeners). `PROJECT.json` maps every definition to the
lines it models and lists the runs, mutants, findings and hazards.

## 1. Inventory

### Components

| component | source | state | operations |
|---|---|---|---|
| Signal word | `notifier.cc:28-29, 106-110`, router | `static_value` (TRUE\|OVERDERIVED), the router's words of basic bits | `static_initialize`, `new_notifier_signal` (router), bit set/clear (header) |
| NotifierSignal | `notifier.cc:120-150` | value: (word pointer, mask) | `+=`, equality, `active`, `unparse` (debug only) |
| Notifier | `notifier.cc:153-214` | `_signal`, search op | `initialize`; `add_listener`, `remove_listener` and `add_dependent_signal` do nothing here |
| ActiveNotifier | `notifier.cc:217-346` | `_listener1` (inline task slot), `_listeners` (array: tasks, null, dependent signals, null) | `listener_change`, `add_listener`, `remove_listener`, `add_dependent_signal`, `listeners`; activation `set_active` is in the header |
| NotifierElementFilter | `notifier.cc:349-395` | `_signal`, `_notifiers`, `_pass2`, `_need_pass2`, `_name` | `check_match` |
| Search | `notifier.cc:433-526` | local `signal`, the filter | `upstream_empty_signal`, `downstream_full_signal` |
| OpenAuthResponder | `openauthresponder.cc` | `_debug`, `_winfo` | `configure`, `push`, `send_auth_response`, `debug` handlers |

### How they interact

- An element's `Notifier::initialize` asks the router for a basic signal.
  The router hands out one bit of a shared word, and takes a new word when
  one is full.
- A consumer task calls `upstream_empty_signal(e, port, task, dep)`. The
  router walks the graph upstream and calls `check_match` at every element.
  - `check_match` records each notifier it finds and adds its signal with `+=`.
  - It stops at a `SEARCH_STOP` notifier.
  - It also stops at a `SEARCH_CONTINUE_WAKE` notifier in the first pass, and
    asks for a second pass.
  - It sets the signal to busy where push meets pull.
- After the walks, the task and the dependent notifier's signal are added to
  every notifier found, through `listener_change`. Then the signal is returned.
- Producers set and clear their bits from any thread. An ActiveNotifier that
  becomes active reschedules its listener tasks and activates its dependent
  signals. This part is in the header.
- `OpenAuthResponder` is a leaf element. It does not take part in the
  notifier core.

### What is hard

- **Interleaving.** Producers toggle bits while a search combines signals.
- **Ordering.** There are two walk passes, the returned signal is copied
  between them, and registration comes after the walks.
- **Partial failure.** Each `listener_change` and each `initialize` can fail,
  and the callers ignore the failure.
- **Resource bounds.** The router's bits can run out, and then signals span
  several words.
- **Representation changes.** The listener list moves between the inline
  slot and the array.

### Correctness properties by component

- **Signals**
  - A derived signal is active whenever any of its parts is.
  - When all parts share one word, it is active exactly when one of them is.
  - A part that cannot report activity must force "always try".
- **Listener storage**
  - The storage stays canonical.
  - It holds the added tasks and signals in order, each once.
  - A failed change leaves it as it was.
  - The copy never outgrows the array allocated for it.
- **Activation**
  - No task sleeps while a packet waits upstream of it.
  - A packet waiting upstream eventually gets its consumer scheduled.
  - A task destroyed by its element's cleanup is listed by no notifier.
- **Search**
  - It finds exactly the notifiers before the first stop or boundary.
  - The returned signal covers every notifier found.
  - The task is registered with every notifier the signal reports. If not,
    a wakeup is lost.
- **OpenAuthResponder**
  - It answers exactly the complete open-system authentication requests
    with sequence 1.
  - It never answers a frame whose body it did not receive.

## 2. Modules and runs

| module | models |
|---|---|
| `SignalAlgebra` | signal values, the canonical signals, `operator+=` (`PlusEq`), bit allocation order |
| `NotifierSignal` | router bit allocation with a budget, `Notifier::initialize`, producers' bit toggling, a filter accumulating signals (`check_match`'s signal part, the filter constructor) |
| `ListenerSet` | the abstract promise of an ActiveNotifier's listener lists: ordered, duplicate-free, and a change may fail |
| `ActiveNotifier` | `listener_change` on the real representation, shown to refine `ListenerSet` (`AbstractSpec`) |
| `NotifierSearch` | `check_match` (one action per outcome), the two passes, the result rule and the two registration loops of `upstream_empty_signal`, which call `listener_change` on each notifier's real storage (an `ActiveNotifier` instance per element), or the base class's do-nothing `add_listener` / `add_dependent_signal` when the notifier is a plain `Notifier` (`Passive`). Element roles, push ports and the arguments are chosen in `Init`. |
| `DownstreamSearch` | `downstream_full_signal`: `NotifierSearch` with `Links` read as downstream links |
| `Wakeup` | activation (spec 4.3) over the real listener storage: registration through `ActiveNotifier!Changed`, `set_active(true)` with the dependent cascade (`Woken`, `Wake`), producers on the worker (`Push`) and on their own thread (`Enqueue`, `SetBit`, `WakeListeners`), consumer tasks (`Fire`, `Pull`, `Clear`, and `Check`, which tests the signal `TaskSignal[t]` the search returned), and an element's cleanup (`Cleanup`: `remove_listener` on each notifier the task was registered with, then the task is destroyed) |
| `OpenAuthResponder` | `push` with every early return, `send_auth_response`, the debug write handler |

`MC*.tla` fix the constants. Each `.cfg` is one run:

| run | cfg | expect | what it shows |
|---|---|---|---|
| signal_algebra | `MCNotifierSignal.cfg` | pass | `Conservative`, `PreciseOnOneWord`: 5 notifiers and 2 words of 2 bits. Allocation spans both words and the fifth allocation fails. Searches mix same-word and cross-word signals and meet boundaries, while bits are toggled. Notifiers are symmetric. |
| signal_alloc_failure | `MCNotifierSignal_alloc.cfg` | violation | `FailedAllocationForcesTry`: a search whose notifier failed to allocate returns a plain basic signal. |
| listener_storage | `MCActiveNotifier.cfg` | pass | `Canonical`, `AllocationSuffices` (the copy fits the `n + 2 + add` entries allocated for it), plus refinement of `ListenerSet` for 3 tasks and 2 dependent signals, with allocation failures. |
| search | `MCNotifierSearch.cfg` | pass | `FoundExactlyReachable` against a recursive reference (`Reached`), and `ListenersCoverSignal`. The reference runs the second pass only when the first found a CONTINUE_WAKE notifier and met no push output (a first pass that meets one returns busy and registers nothing). The graph is a diamond (origin ← a ← {b, c} ← d), which covers re-reaching d and the cases where a, b, c or d stops the walk. Signals of a, b are on one word and c, d on another. All 2000 role/port/argument assignments are checked. |
| search_pass2_signal | `MCNotifierSearch_pass2.cfg` | violation | `ReturnedCoversFound`: a = CONTINUE_WAKE, b, c = STOP. The returned signal holds only a's bit, although b and c were recorded in `_notifiers` (the trace passes no task, so it shows the signal, not the registration). The same copy also hides a push output met only in pass 2: with c a push port, `filter._signal` is busy but a's bit is returned. |
| search_listener_oom | `MCNotifierSearch_oom.cfg` | violation | `ListenersCoverSignal`: every notifier already has a listener, so `listener_change` takes its allocating path. A failed `add_dependent_signal` is ignored. |
| search_full_cyclic | `MCDownstreamSearch.cfg` | pass | `FoundExactlyReachable` and `ListenersCoverSignal` for `downstream_full_signal` on o → a → {b, d}, a → b → c → a. The walk meets a loop and must not record or stop twice. |
| wakeup | `MCWakeup.cfg` | pass | `NoSleepWithWork` and the liveness property `PacketsEventuallyPulled`. Queue q1 is behind pull-through p1, and p2 is behind p1. q2's producer runs on its own thread and races t2's run. The registrations and each task's signal are the ones `upstream_empty_signal` produces on this graph. p1's notifier is `SEARCH_CONTINUE_WAKE` (spec scenario 4), so each search through p1 finds p1 twice and then q1. The loops therefore call `add_listener`/`add_dependent_signal` on p1 twice and on q1 directly, and the returned signal holds p1's bit only (finding 1). The elements of t2 and t3 may be cleaned up at any time (`NoDanglingListener`). t2 is q2's inline listener. t3 shares p1's and q1's arrays with t4 and the dependent signals, which must survive its removal. |
| wakeup_dependent_race | `MCWakeup_race.cfg` | violation | `NoSleepWithWork`: with q1's producer on its own thread as well, t1 sleeps with a packet in q1. |
| wakeup_teardown_oom | `MCWakeup_teardown_oom.cfg` | violation | `NoDanglingListener`: a `remove_listener` that runs out of memory leaves the destroyed task listed. |
| auth_responder | `MCOpenAuthResponder.cfg` | pass | `AnswersValidRequests` over all frames from 2 stations. |
| auth_responder_truncated | `MCOpenAuthResponder_short.cfg` | violation | `RespondsOnlyToCompleteRequests`: a header-only frame is answered. |

The search run sets `CHECK_DEADLOCK FALSE`: one call of
`upstream_empty_signal` returns, and the model stops in `phase = "done"`.
**Fairness.** Only the `wakeup` run assumes fairness (`Wakeup!Fairness`):
- The elements' `initialize` calls finish (WF).
- A producer that has enqueued finishes its `set_active` (WF).
- A task that has started its run finishes it (WF).
- The round-robin scheduler runs every task that stays scheduled. This is
  strong fairness on `Fire(t)`, because the other tasks' runs keep disabling
  it while the worker is busy.
- Producers are not fair: nobody has to push.
- Cleanup is not fair: no element has to be cleaned up. A destroyed task
  is excused from `PacketsEventuallyPulled`.

**Why the bounds are enough.**
- Two bits per word and two words give both the same-word merge and the
  cross-word collapse in `+=`.
- A fifth notifier exhausts the budget.
- Three tasks and two signals let the array hold several entries in each
  partition and collapse from either side.
- The diamond has a fan-in (d reached twice), a fan-out (a), a source (d,
  where flow is zero) and room for a CONTINUE_WAKE notifier with notifiers
  behind it. c's notifier is a plain `Notifier` (d's, in the cyclic graph),
  so the registration loops meet the base class as well.
- In `wakeup`, a chain of two pull-through elements makes the cascade
  recursive. Tasks t3 and t4 on p1 let p1's signal be cleared while p2's
  stays set, and put two tasks in one partition of p1's array.
  A capacity of 2 lets a producer enqueue while another packet is still
  waiting.
- In `wakeup`, the duplicate registrations on p1 exercise the lookup that
  keeps one entry, and q1's array holds two tasks and a dependent signal.
- In `wakeup`, the two departing tasks cover removal from the
  inline slot (through the temporary 3-entry array) and from an array that
  keeps a dependent signal. t1 stays, so the router never runs out of work.
- `search_full_cyclic` has a loop of three elements and an exit.

## 3. Findings

Findings 1-4 and 6 come from code that ignores a failure, or from a stale
copy:
1. `notifier.cc:440`: `signal` is copied before the second pass, so
   notifiers found beyond a `SEARCH_CONTINUE_WAKE` notifier are missing from
   the returned signal. The same copy hides a push output met only in
   pass 2: the filter's signal becomes busy, but the pass-1 signal is
   returned and the loops register. Line 505 has the same code. End to end
   (run `wakeup`), the missing notifiers lose no wakeup: the loops still
   register the task with every notifier found, so a q1 packet wakes the
   task directly even though its signal does not test q1's bit.
2. `notifier.cc:455-458`: the registration loops ignore a failed
   `listener_change`. The signal is returned, but the task was not
   registered.
3. `notifier.cc:373`: `check_match` ignores a failed `initialize`. `+=`
   drops the uninitialized signal instead of forcing busy.
4. `openauthresponder.cc:64`: only the header length is checked before the
   6-byte auth body is read.
5. Spec gap, with dependent signals registered at `notifier.cc:458`:
   1. A producer on another thread enqueues.
   2. A consumer takes that packet and clears the queue's bit.
   3. The producer's late `set_active` sets the bit on the now empty queue.
   4. The next packet makes no 0→1 transition, so no cascade runs.
   5. The consumer behind the pull-through elements cleared their signals
      on its failed pull. It sleeps with a packet waiting.

   Spec 5 calls cross-thread bit races harmless. For a direct consumer they
   are: it checks the stale bit and spins. Through dependent signals they
   are not.

6. `notifier.cc:318`: `remove_listener` is `void` and drops
   `listener_change`'s -1. A removal never takes the fast path, so it always
   allocates. When that fails, the task stays listed, and the element's
   cleanup destroys it without knowing. Spec 4.3 says a failed reallocation
   returns a failure code. Spec 9 says a task must deregister before
   destruction. The next activation reschedules a freed `Task`.

## 4. Modelling choices

- **`NotifierSignal()`.** The default constructor is in `notifier.hh`,
  which is not in the repository. The search reads it as the busy signal
  (`default_signal`). The code itself supports this: the comment before
  `if (ok < 0 || signal == NotifierSignal())` says "All bets are off if
  filter ran into a push output", and a push output is exactly what sets
  `filter._signal` to `busy_signal()` (line 386). So a first pass that meets
  a boundary skips pass 2, returns busy and registers nothing (spec
  scenario 3). The spec's name for the default, "uninitialized", would make
  the guard unreachable from a walk, which starts idle.
- **Signal allocation in the search.** In `NotifierSearch` every notifier's
  signal was already allocated when its element initialized (`Sig`).
  Allocation failure is studied in `NotifierSignal`.
- **The walk.** It visits each element once per pass, in any order. The
  result of `+=` does not depend on the order.
  `Router::upstream_elements` never fails for a valid port, so `ok < 0` is
  not modelled.
- **Activation.** `set_active` is in `notifier.hh` and is modelled from spec
  4.3: set the bit and, on a 0→1 transition, reschedule the listener tasks
  and set the dependent signals. A dependent whose bit was clear cascades to
  its own listeners. The spec's preferred order, set-then-reschedule, is used.
  Tasks run one at a time on the worker. The scheduler unschedules a task
  before running it, so a reschedule during the run is kept. A queue takes a
  packet and clears its own bit in one step (queue element code, not in the
  repository).
- **Left out.**
  - `unparse`, `click_chatter` and the frame byte layout, because they are
    output only.
  - The read handler, because it changes no state.
  - Heap leaks, because the model has no heap.
  - The destruction of pull-through elements. No call removes a dependent
    signal, so such an element must outlive every notifier it depends on.
    Only the router's destruction frees elements, after its threads stop,
    and then nothing activates a signal.

## 5. Plan

Done:
1. `SignalAlgebra` + `NotifierSignal`.
2. `ActiveNotifier` + `ListenerSet` (refinement).
3. `NotifierSearch`.
4. `OpenAuthResponder`.
5. `Wakeup`: activation, the dependent cascade, a producer thread racing
   consumer runs, and liveness.
6. `DownstreamSearch` on a cyclic graph.
7. Teardown of consumer tasks (`Cleanup`), with `remove_listener` failures.
8. The search's registration loops on the real listener storage, and plain
   `Notifier`s (the base class) in the search.
9. A larger `wakeup` instance: two tasks on one pull-through.
10. `AllocationSuffices`: the count loop sizes the copy correctly.
11. The search composed into `Wakeup`: `Registrations` and `TaskSignal` are
   what `upstream_empty_signal` produces on the wakeup graph, including a
   `SEARCH_CONTINUE_WAKE` element and finding 1's signal.

Next:
12. Re-search after a configuration change.
13. A threaded producer behind a chain in the passing `wakeup` run, once a
   fix for finding 5 is chosen.
