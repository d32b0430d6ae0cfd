------------------------- MODULE MCDownstreamSearch --------------------------
\* Downstream of the origin's output: o -> a; a -> b, d; b -> c; c -> a.
\* The loop a -> b -> c -> a (a path that feeds back into itself, as a
\* retransmit or a recirculation does) makes the walk meet an element it
\* has already checked; d has no outputs.  a and b share a signal word, c
\* and d share another.
EXTENDS DownstreamSearch

CONSTANTS a, b, c, d, o

MCElements == {a, b, c, d}
MCLinks == (o :> {a}) @@ (a :> {b, d}) @@ (b :> {c}) @@ (c :> {a}) @@ (d :> {})
MCSigIndex == (a :> 0) @@ (b :> 1) @@ (c :> 2) @@ (d :> 3)

\* d's notifier, when it has one, is a plain Notifier.
MCPassive == {d}
=============================================================================
