----------------------- MODULE MCOpenAuthResponder -------------------------
\* Two stations, so that responses to different senders are told apart.
EXTENDS OpenAuthResponder

CONSTANTS st1, st2, bssid

MCStations == {st1, st2}
=============================================================================
