--------------------------- MODULE OpenAuthResponder ---------------------------
\* OpenAuthResponder (src/elements/wifi/ap/openauthresponder.cc): answers
\* 802.11 open-system authentication requests.  push() drops a frame that
\* is too short, not management, not authentication, not open-system or
\* not sequence 1, and otherwise sends an authentication response with
\* sequence 2 and status success to the sender.  Frames are records; the
\* bytes of a frame matter only as far as push() reads them.
EXTENDS Naturals

CONSTANTS
    Stations,   \* addresses of stations sending frames (model values)
    BSSID       \* the access point's BSSID (from WIRELESS_INFO)

\* Frame lengths, as far as push() can tell them apart: shorter than the
\* 802.11 header, the header alone (with less than the 6-byte auth body),
\* or the header and the auth body.
Short == "short"
HeaderOnly == "header_only"
Complete == "complete"

WIFI_FC0_TYPE_MGT == "mgt"
WIFI_FC0_SUBTYPE_AUTH == "auth"
WIFI_AUTH_ALG_OPEN == 0
WIFI_STATUS_SUCCESS == 0

\* The 16-bit values push() may read for algo and seq: the ones that matter.
Algos == {WIFI_AUTH_ALG_OPEN, 1}
Seqs == {1, 2}

Frame ==
    [len : {Short}] \cup
    [len : {HeaderOnly}, type : {WIFI_FC0_TYPE_MGT, "data"},
     subtype : {WIFI_FC0_SUBTYPE_AUTH, "probe_req"}, src : Stations] \cup
    [len : {Complete}, type : {WIFI_FC0_TYPE_MGT, "data"},
     subtype : {WIFI_FC0_SUBTYPE_AUTH, "probe_req"}, src : Stations,
     algo : Algos, seq : Seqs]

Response == [dst : Stations, addr2 : {BSSID}, addr3 : {BSSID},
             algo : Algos, seq : Seqs, status : {WIFI_STATUS_SUCCESS},
             request : Frame]

VARIABLES
    debug,     \* _debug
    last,      \* the frame last pushed, or NoFrame
    verdict,   \* how the last push() ended
    out        \* responses pushed on output 0, each with the frame it answers

vars == <<debug, last, verdict, out>>

NoFrame == [len |-> "none"]

Verdicts == {"none", "too_small", "not_mgt", "not_auth", "bad_algo",
             "bad_seq", "responded", "no_packet"}

TypeOK ==
    /\ debug \in BOOLEAN
    /\ last \in Frame \cup {NoFrame}
    /\ verdict \in Verdicts
    /\ out \subseteq Response

\* configure() sets _debug from DEBUG (false by default).
Init ==
    /\ debug \in BOOLEAN
    /\ last = NoFrame
    /\ verdict = "none"
    /\ out = {}

\* The 16-bit words at offsets 0 and 2 after the header.  For a frame that
\* ends with its header, push() reads them past the end of the packet data:
\* whatever the buffer holds there, so any value.
ReadAlgo(f) == IF f.len = Complete THEN {f.algo} ELSE Algos
ReadSeq(f) == IF f.len = Complete THEN {f.seq} ELSE Seqs

\* Mutant: the requester's address goes into addr2 as well.
send_auth_response_swapped(dst, seq, status, f) ==
    \/ /\ out' = out \cup {[dst |-> dst, addr2 |-> dst, addr3 |-> BSSID,
                            algo |-> WIFI_AUTH_ALG_OPEN, seq |-> seq,
                            status |-> status, request |-> f]}
       /\ verdict' = "responded"
    \/ /\ verdict' = "no_packet"
       /\ UNCHANGED out

\* send_auth_response(dst, seq, status): Packet::make may fail, and then
\* nothing is sent.
send_auth_response(dst, seq, status, f) ==
    \/ /\ out' = out \cup {[dst |-> dst, addr2 |-> BSSID, addr3 |-> BSSID,
                            algo |-> WIFI_AUTH_ALG_OPEN, seq |-> seq,
                            status |-> status, request |-> f]}
       /\ verdict' = "responded"
    \/ /\ verdict' = "no_packet"
       /\ UNCHANGED out

\* Mutant: the sequence-number check is missing.
push_noseq(f) ==
    /\ last' = f
    /\ UNCHANGED debug
    /\ CASE f.len = Short ->
              verdict' = "too_small" /\ UNCHANGED out
         [] f.type # WIFI_FC0_TYPE_MGT ->
              verdict' = "not_mgt" /\ UNCHANGED out
         [] f.subtype # WIFI_FC0_SUBTYPE_AUTH ->
              verdict' = "not_auth" /\ UNCHANGED out
         [] OTHER ->
              \E algo \in ReadAlgo(f) :
                  CASE algo # WIFI_AUTH_ALG_OPEN ->
                         verdict' = "bad_algo" /\ UNCHANGED out
                    [] OTHER ->
                         send_auth_response(f.src, 2, WIFI_STATUS_SUCCESS, f)

\* push(): the checks in the order of the code; every path kills the frame.
push(f) ==
    /\ last' = f
    /\ UNCHANGED debug
    /\ CASE f.len = Short ->
              verdict' = "too_small" /\ UNCHANGED out
         [] f.type # WIFI_FC0_TYPE_MGT ->
              verdict' = "not_mgt" /\ UNCHANGED out
         [] f.subtype # WIFI_FC0_SUBTYPE_AUTH ->
              verdict' = "not_auth" /\ UNCHANGED out
         [] OTHER ->
              \E algo \in ReadAlgo(f), seq \in ReadSeq(f) :
                  CASE algo # WIFI_AUTH_ALG_OPEN ->
                         verdict' = "bad_algo" /\ UNCHANGED out
                    [] seq # 1 ->
                         verdict' = "bad_seq" /\ UNCHANGED out
                    [] OTHER ->
                         send_auth_response(f.src, 2, WIFI_STATUS_SUCCESS, f)

\* The "debug" write handler: a boolean sets _debug, anything else is an
\* error that leaves it alone.
write_debug(parses, value) ==
    /\ debug' = IF parses THEN value ELSE debug
    /\ UNCHANGED <<last, verdict, out>>

Next ==
    \/ \E f \in Frame : push(f)
    \/ \E parses, value \in BOOLEAN : write_debug(parses, value)

Spec == Init /\ [][Next]_vars

\* Properties

\* A frame carrying a full open-system authentication request with sequence
\* number 1 is answered, unless no packet could be allocated for the answer,
\* and a complete frame that fails any check is not.
Valid(f) ==
    /\ f.type = WIFI_FC0_TYPE_MGT /\ f.subtype = WIFI_FC0_SUBTYPE_AUTH
    /\ f.algo = WIFI_AUTH_ALG_OPEN /\ f.seq = 1

AnswersValidRequests ==
    last.len = Complete =>
        ((\E r \in out : r.request = last) \/ verdict = "no_packet" <=> Valid(last))

\* A response answers only a frame that holds the whole authentication body
\* (algorithm, sequence, status) push() parses.
RespondsOnlyToCompleteRequests ==
    \A r \in out : r.request.len = Complete
=============================================================================
