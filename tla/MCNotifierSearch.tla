------------------------- MODULE MCNotifierSearch --------------------------
\* A diamond upstream of the origin: origin <- a; a <- b, c; b, c <- d.
\* d has no inputs.  With two bits per word, a and b share a word and c
\* and d share another, so derived signals are precise or overderived.
EXTENDS NotifierSearch

CONSTANTS a, b, c, d, o

MCElements == {a, b, c, d}
MCLinks == (o :> {a}) @@ (a :> {b, c}) @@ (b :> {d}) @@ (c :> {d}) @@ (d :> {})
MCSigIndex == (a :> 0) @@ (b :> 1) @@ (c :> 2) @@ (d :> 3)

\* c's notifier, when it has one, is a plain Notifier.
MCPassive == {c}
=============================================================================
