------------------------------ MODULE MCRtspText ------------------------------
(***************************************************************************)
(* RtspText with headers of every length modulo 3, sequence numbers of one *)
(* and two digits, ports of four and of five (the latter make the          *)
(* transport line exactly as long as transport_info), the lines of a       *)
(* request in several orders, and URIs with and without a port.            *)
(***************************************************************************)
EXTENDS RtspText

MCHeaders ==
    {[sps |-> <<103, 66, 0, 40>>, pps |-> <<104, 206>>],
     [sps |-> <<103, 66, 0, 40, 149>>, pps |-> <<104>>],
     [sps |-> <<103, 77, 64, 31, 149, 255>>, pps |-> <<104, 206, 60>>]}

Full == <<"rtsp://", "192.168.1.9", ":8554">>
NoPort == <<"rtsp://", "192.168.1.9">>

Req(kind, uri, seq, lines) ==
    [kind |-> kind, uri |-> uri, seq |-> seq, port |-> <<"5", "0", "0", "4">>,
     rtcp |-> <<"5", "0", "0", "5">>, lines |-> lines]

FiveDigits(r) ==
    [r EXCEPT !.port = <<"5", "0", "0", "0", "4">>, !.rtcp = <<"5", "0", "0", "0", "5">>]

MCRequests ==
    {Req("OPTIONS", Full, <<"1">>, lines) :
        lines \in {<<"cseq", "agent">>, <<"agent", "cseq">>}}
    \union {Req("DESCRIBE", uri, <<"2">>, <<"cseq", "agent">>) : uri \in {Full, NoPort}}
    \union {Req("SETUP", Full, <<"3">>, lines) :
               lines \in {<<"cseq", "agent", "transport">>, <<"transport", "cseq">>,
                          <<"cseq", "agent_", "transport">>}}
    \union {FiveDigits(Req("SETUP", Full, <<"1", "0">>, <<"cseq", "transport">>))}
    \union {Req("PLAY", uri, <<"1", "1">>, <<"agent", "cseq">>) : uri \in {Full, NoPort}}
    \union {Req("TEARDOWN", Full, <<"4">>, <<"cseq">>)}
=============================================================================
