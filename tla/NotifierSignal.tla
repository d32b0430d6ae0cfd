--------------------------- MODULE NotifierSignal ---------------------------
\* Activity signals (NotifierSignal, src/lib/notifier.cc) and the router's
\* signal words.  A signal is a pointer to a signal word plus a mask; it
\* is active when the word has a masked bit set.  Basic signals are
\* allocated bit by bit from router words (a new word when one is full);
\* a search accumulates the signals of the notifiers it finds with +=.
\*
\* One accumulator (the NotifierElementFilter's _signal) is modelled, with
\* the history of what was added to it, while producers toggle the bits
\* of their basic signals at any time.
EXTENDS SignalAlgebra, FiniteSets

CONSTANT Notifiers  \* notifiers whose basic signals are allocated (model values)

VARIABLES
    sig,      \* sig[n]: notifier n's _signal
    nalloc,   \* basic signals allocated so far by the router
    wordval,  \* wordval[w]: the bits currently set in word w
    acc,      \* the search filter's accumulated _signal
    parts,    \* history: notifiers whose signal was added to acc
    crossed   \* history: acc was set to busy at a back-pressure boundary

vars == <<sig, nalloc, wordval, acc, parts, crossed>>

TypeOK ==
    /\ sig \in [Notifiers -> Signal]
    /\ nalloc \in 0 .. Budget
    /\ wordval \in [{NullWord} \cup Words -> SUBSET Bits]
    /\ acc \in Signal
    /\ parts \subseteq Notifiers
    /\ crossed \in BOOLEAN

\* NotifierSignal::static_initialize sets the static word to TRUE|OVERDERIVED;
\* notifiers start with uninitialized signals and the filter with idle.
Init ==
    /\ sig = [n \in Notifiers |-> uninitialized_signal]
    /\ nalloc = 0
    /\ wordval = [w \in {NullWord} \cup Words |->
                    IF w = StaticWord THEN TRUE_MASK \cup OVERDERIVED_MASK ELSE {}]
    /\ acc = idle_signal
    /\ parts = {}
    /\ crossed = FALSE

\* Mutant: the router hands out bits past its last word.
NewNotifierSignal_nobudget(n) ==
    /\ sig' = [sig EXCEPT ![n] = BasicSignal(nalloc)]
    /\ nalloc' = nalloc + 1

\* Router::new_notifier_signal: the next bit, or failure once the budget
\* of words is spent (the signal is then left uninitialized).
NewNotifierSignal(n) ==
    IF nalloc < Budget
    THEN /\ sig' = [sig EXCEPT ![n] = BasicSignal(nalloc)]
         /\ nalloc' = nalloc + 1
    ELSE UNCHANGED <<sig, nalloc>>

\* Notifier::initialize: allocate only if the signal is uninitialized.
initialize(n) ==
    IF ~Initialized(sig[n]) THEN NewNotifierSignal(n) ELSE UNCHANGED <<sig, nalloc>>

\* A producer activates or deactivates its basic signal (an atomic bit
\* update on the shared word, from any thread).
SetActive(n, active) ==
    /\ Initialized(sig[n])
    /\ wordval' = [wordval EXCEPT ![sig[n].value] =
                     IF active THEN @ \cup sig[n].mask ELSE @ \ sig[n].mask]
    /\ UNCHANGED <<sig, nalloc, acc, parts, crossed>>

\* NotifierElementFilter::check_match on an element that has the notifier:
\* initialize its signal if needed, then _signal += n->signal().  The
\* += reads the signal after initialize has assigned it.
CheckMatchNotifier(n) ==
    /\ initialize(n)
    /\ acc' = PlusEq(acc, sig'[n])
    /\ parts' = parts \cup {n}
    /\ UNCHANGED <<wordval, crossed>>

\* check_match on a port where push and pull meet: _signal = busy_signal().
CheckMatchBoundary ==
    /\ acc' = busy_signal
    /\ crossed' = TRUE
    /\ UNCHANGED <<sig, nalloc, wordval, parts>>

\* A new search: NotifierElementFilter's constructor starts from idle.
NewFilter ==
    /\ acc' = idle_signal
    /\ parts' = {}
    /\ crossed' = FALSE
    /\ UNCHANGED <<sig, nalloc, wordval>>

Next ==
    \/ \E n \in Notifiers, b \in BOOLEAN : SetActive(n, b)
    \/ \E n \in Notifiers : CheckMatchNotifier(n)
    \/ CheckMatchBoundary
    \/ NewFilter

Spec == Init /\ [][Next]_vars

\* Properties

\* Derived signals are conservative (the NotifierSignal class comment): if
\* any basic signal added to the filter's signal is active now, the derived
\* signal is active now, whatever words the basics were allocated from and
\* whatever bits producers have toggled since.
Conservative ==
    \A n \in parts : Active(sig[n], wordval) => Active(acc, wordval)

\* Same-word union is precise (spec 8): when every signal added was
\* allocated from one router word and no boundary was crossed, the derived
\* signal is active exactly when one of them is.
PreciseOnOneWord ==
    ( /\ ~crossed
      /\ parts # {}
      /\ \A n, m \in parts : Initialized(sig[n]) /\ sig[n].value = sig[m].value )
    => (Active(acc, wordval) <=> \E n \in parts : Active(sig[n], wordval))

\* A notifier whose signal could not be allocated cannot report activity,
\* so a search that met one must make its caller always try (spec 4.2, 7):
\* the accumulated signal is then uninitialized or one of the signals that
\* are always active (busy, overderived).
FailedAllocationForcesTry ==
    (\E n \in parts : ~Initialized(sig[n])) =>
        acc \in {busy_signal, overderived_signal, uninitialized_signal}
=============================================================================
