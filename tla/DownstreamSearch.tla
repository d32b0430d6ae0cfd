--------------------------- MODULE DownstreamSearch ---------------------------
\* Notifier::downstream_full_signal (src/lib/notifier.cc) is the code of
\* upstream_empty_signal with two names changed: the filter looks for
\* Notifier::FULL_NOTIFIER, and Router::downstream_elements walks from an
\* output port along the links to downstream inputs.  check_match then sees
\* input ports, and port_active there means the walk ran into a pull input.
\* Links are taken as downstream links, and the search is NotifierSearch's.
EXTENDS NotifierSearch

\* The full search from output port: the filter, the passes, the result
\* rule and the registration loops of downstream_full_signal.
downstream_full_signal == Spec
=============================================================================
