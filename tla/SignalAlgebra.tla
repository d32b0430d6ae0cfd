---------------------------- MODULE SignalAlgebra ----------------------------
\* The values of NotifierSignal (src/lib/notifier.cc) and their algebra:
\* a signal is a signal-word pointer and a mask, active when the word has
\* a masked bit set; operator+= combines two signals into a derived one.
EXTENDS Naturals

CONSTANTS
    BitsPerWord,  \* basic-signal bits per router word
    MaxWords      \* router words the router can allocate (the signal budget)

ASSUME BitsPerWord \in Nat \ {0} /\ MaxWords \in Nat

\* Words are numbered: 0 is the null pointer, 1 the static word,
\* 2 .. MaxWords + 1 the router's words.
NullWord   == 0
StaticWord == 1
RouterWords == 2 .. MaxWords + 1
Words == {StaticWord} \cup RouterWords

\* Bits of a word.  On the static word bit 0 is TRUE_MASK, bit 1 OVERDERIVED_MASK.
Bits == 0 .. (IF BitsPerWord > 2 THEN BitsPerWord - 1 ELSE 1)
TRUE_MASK        == {0}
OVERDERIVED_MASK == {1}

Signal == [value : {NullWord} \cup Words, mask : SUBSET Bits]

\* The four canonical signals.
idle_signal          == [value |-> StaticWord, mask |-> {}]
busy_signal          == [value |-> StaticWord, mask |-> TRUE_MASK]
overderived_signal   == [value |-> StaticWord, mask |-> TRUE_MASK \cup OVERDERIVED_MASK]
uninitialized_signal == [value |-> NullWord, mask |-> {}]

Initialized(s) == s.value # NullWord

\* (load(word) & mask) != 0; the null word reads as no bits.
Active(s, wordval) == s.mask \cap wordval[s.value] # {}

\* Mutant: the same-word case assigns the mask instead of or-ing it.
PlusEq_assign(s, a) ==
    LET this == IF s.mask = {} THEN [s EXCEPT !.value = a.value] ELSE s
    IN CASE this = busy_signal                    -> this
         [] a = busy_signal                       -> a
         [] this.value = a.value \/ a.mask = {}   -> [this EXCEPT !.mask = a.mask]
         [] OTHER                                 -> overderived_signal

\* Mutant: a zero-mask left side keeps its own word.
PlusEq_noadopt(s, a) ==
    CASE s = busy_signal                    -> s
      [] a = busy_signal                    -> a
      [] s.value = a.value \/ a.mask = {}   -> [s EXCEPT !.mask = @ \cup a.mask]
      [] OTHER                              -> overderived_signal

\* NotifierSignal::operator+=: the signal "s += a".  A zero-mask left side
\* first takes a's word; busy is preserved, busy on the right wins, same
\* word (or a zero-mask right side) merges masks, anything else collapses.
PlusEq(s, a) ==
    LET this == IF s.mask = {} THEN [s EXCEPT !.value = a.value] ELSE s
    IN CASE this = busy_signal                    -> this
         [] a = busy_signal                       -> a
         [] this.value = a.value \/ a.mask = {}   -> [this EXCEPT !.mask = @ \cup a.mask]
         [] OTHER                                 -> overderived_signal

\* The basic signal handed out as the k-th allocation (k = 0, 1, ...).
BasicSignal(k) == [value |-> 2 + k \div BitsPerWord, mask |-> {k % BitsPerWord}]

\* Basic signals the router can hand out.
Budget == MaxWords * BitsPerWord
=============================================================================
