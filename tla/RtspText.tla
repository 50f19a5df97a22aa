------------------------------- MODULE RtspText -------------------------------
(***************************************************************************)
(* The text of an RTSP session: how video_server finds the command in what *)
(* recv gave it, what the handlers of rtsp.c read from a request and write *)
(* into a reply, and how the encoder's header becomes the parameter sets   *)
(* of the description (video.c, rtsp.c).                                   *)
(*                                                                         *)
(* A text is a sequence of words; the code's searches for a string are     *)
(* searches for consecutive words.  TCP may deliver a request in pieces,   *)
(* split after any word, and the rest of one with the next one.  What the  *)
(* session does with its threads is VideoSession's.                        *)
(***************************************************************************)
EXTENDS Integers, Sequences, SequencesExt, FiniteSetsExt, FiniteSets, TLC

CONSTANTS
    Headers,        \* what an encoder can produce: [sps |-> bytes, pps |-> bytes]
    Requests,       \* what a client can send: [kind, uri, seq, port, rtcp, lines]
    TransportRoom   \* bytes of transport_info

Kinds == <<"OPTIONS", "DESCRIBE", "SETUP", "PLAY", "TEARDOWN">>

CRLF == <<"CR", "LF">>

\* The words of a command; the first alone is not the command.
Command ==
    [OPTIONS |-> <<"OPT", "IONS">>, DESCRIBE |-> <<"DESC", "RIBE">>,
     SETUP |-> <<"SET", "UP">>, PLAY |-> <<"PL", "AY">>,
     TEARDOWN |-> <<"TEAR", "DOWN ">>]

DottedQuads == {"192.168.1.9"}
PortSuffixes == {":8554"}

VARIABLES
    where,          \* video_server: "accept", "recv", or "dispatch" behind recv
    header,         \* of the session's encoder
    recv_buf, send_buf,
    mask,           \* rtsp_bit_mask: the commands served
    session_id,
    client_port,
    request,        \* the client's request that waits for a reply, or NoRequest
    stream,         \* what the client sent and recv has not given yet
    reply           \* history: the last reply, and the request it went to

vars == <<where, header, recv_buf, send_buf, mask, session_id, client_port,
          request, stream, reply>>

NoRequest == [kind |-> "none", uri |-> << >>, seq |-> << >>, port |-> << >>,
              rtcp |-> << >>, lines |-> << >>]
NoReply == [to |-> NoRequest, text |-> << >>]

-----------------------------------------------------------------------------
(* The client's requests. *)

\* The words the server looks for in a request.
Keywords == {Command[kind][1] : kind \in DOMAIN Command} \union {"CSeq: ", "Transport: ", "port="}

LineNames == {"cseq", "agent", "agent_", "transport"}

Line(name, r) ==
    CASE name = "cseq" -> <<"CSeq: ">> \o r.seq
      [] name = "agent" -> <<"User-Agent: ", "LibVLC">>
      [] name = "agent_" -> <<"User-Agent: ", "My", "_", "Player">>
      [] name = "transport" ->
            <<"Transport: ", "RTP/AVP;unicast;", "client", "_", "port=">>
            \o r.port \o <<"-">> \o r.rtcp

RequestText(r) ==
    Command[r.kind] \o r.uri \o <<" RTSP/1.0">> \o CRLF
    \o FlattenSeq([k \in DOMAIN r.lines |-> Line(r.lines[k], r) \o CRLF]) \o CRLF

-----------------------------------------------------------------------------
(* Searching a text. *)

\* strstr: the first place at or after `from' where the words are, or 0.
Find(text, words, from) ==
    LET hits == {i \in from .. Len(text) - Len(words) + 1 :
                    SubSeq(text, i, i + Len(words) - 1) = words}
    IN  IF hits = {} THEN 0 ELSE Min(hits)

None == [ok |-> FALSE, words |-> << >>]
Some(words) == [ok |-> TRUE, words |-> words]

\* From a word to before the next CRLF, as the handlers take "CSeq: " and
\* get_transport_info takes "Transport: ".
LineFrom(text, word) ==
    LET start == Find(text, <<word>>, 1)
        end == Find(text, CRLF, start)
    IN  IF start = 0 \/ end = 0 THEN None ELSE Some(SubSeq(text, start, end - 1))

\* get_rtsp_uri: the first match of rtsp://address:port.
Uri(text) ==
    LET hits == {i \in 1 .. Len(text) - 2 :
                    /\ text[i] = "rtsp://"
                    /\ text[i + 1] \in DottedQuads
                    /\ text[i + 2] \in PortSuffixes}
    IN  IF hits = {} THEN None ELSE Some(SubSeq(text, Min(hits), Min(hits) + 2))

\* get_server_ip: the first dotted quad.
ServerIp(text) ==
    LET hits == {i \in DOMAIN text : text[i] \in DottedQuads}
    IN  IF hits = {} THEN None ELSE Some(<<text[Min(hits)]>>)

\* strtoul: the number the leading digits make.
Digits == <<"0", "1", "2", "3", "4", "5", "6", "7", "8", "9">>
DigitWords == {Digits[d] : d \in DOMAIN Digits}
Number(words) ==
    LET other == {i \in DOMAIN words : words[i] \notin DigitWords}
        digits == IF other = {} THEN words ELSE SubSeq(words, 1, Min(other) - 1)
    IN  FoldLeft(LAMBDA v, w : 10 * v + (CHOOSE d \in 0 .. 9 : Digits[d + 1] = w), 0, digits)

\* A request as RFC 2326 has it: no header field twice, Transport only where a
\* stream is set up, a port of 16 bits, and nothing in the URI that begins a
\* command or a field the server looks for.
WellFormed(r) ==
    /\ r.kind \in {Kinds[k] : k \in DOMAIN Kinds}
    /\ r.uri \in Seq(STRING \ Keywords)
    /\ r.seq \in Seq(DigitWords) /\ r.port \in Seq(DigitWords) /\ r.rtcp \in Seq(DigitWords)
    /\ Number(r.port) \in 0 .. 2^16 - 1
    /\ r.lines \in Seq(LineNames)
    /\ \A j, k \in DOMAIN r.lines :
          r.lines[j] = r.lines[k] /\ r.lines[j] \in {"cseq", "transport"} => j = k
    /\ r.kind # "SETUP" => \A k \in DOMAIN r.lines : r.lines[k] # "transport"

ASSUME RequestAssumption == \A r \in Requests : WellFormed(r)

\* strlen of a line.
Bytes(line) == FoldLeft(LAMBDA n, w : n + Len(w), 0, line)

ASSUME RoomAssumption ==            \* nobody sends a longer line
    \A r \in Requests : Bytes(Line("transport", r)) <= TransportRoom

\* Mutant: what stands behind the "-", the second port of the pair.
GetPort_second(text) ==
    LET u == Find(text, <<"_">>, 1)
        dash == Find(text, <<"-">>, u)
        end == Find(text, CRLF, dash)
    IN  IF u <= 1 \/ dash = 0 \/ end = 0 THEN None
        ELSE Some(SubSeq(text, dash + 1, end - 1))

\* get_port, sscanf "%*[^_]_port=%[^-]-": what follows the first "_" of the
\* text must be "port=", and the number is what stands before the next "-".
GetPort(text) ==
    LET u == Find(text, <<"_">>, 1)
        dash == Find(text, <<"-">>, u)
        last == IF dash = 0 THEN Len(text) ELSE dash - 1
    IN  IF u <= 1 \/ u + 2 > last \/ text[u + 1] # "port=" THEN None
        ELSE Some(SubSeq(text, u + 2, last))

-----------------------------------------------------------------------------
(* The encoder's parameter sets. *)

START_CODE == <<0, 0, 0, 1>>

\* The SPS has its profile and its level; H.264 lets no start code into a set.
ASSUME HeaderAssumption ==
    \A h \in Headers :
        /\ h.sps \in Seq(0 .. 255) /\ h.pps \in Seq(0 .. 255)
        /\ Len(h.sps) >= 4 /\ Len(h.pps) >= 1
        /\ \A k \in 1 .. Len(h.sps) - 3 : SubSeq(h.sps, k, k + 3) # START_CODE

\* get_sps_and_pps_from_header: split at the second start code, searched for
\* from behind the first over as many bytes as the header has.
Split(bytes, length) ==
    LET second == Find(SubSeq(bytes, 1, Len(START_CODE) + length), START_CODE,
                       Len(START_CODE) + 1)
    IN  [sps |-> SubSeq(bytes, 1, second - 1),
         pps |-> SubSeq(bytes, second, length)]

\* The stream buffer behind the header is the driver's; nothing is in it yet.
ParameterSets(h) ==
    LET bytes == START_CODE \o h.sps \o START_CODE \o h.pps
    IN  Split(bytes \o <<0, 0, 0, 0>>, Len(bytes))

Alphabet64 ==
    <<"A", "B", "C", "D", "E", "F", "G", "H", "I", "J", "K", "L", "M", "N", "O", "P",
      "Q", "R", "S", "T", "U", "V", "W", "X", "Y", "Z", "a", "b", "c", "d", "e", "f",
      "g", "h", "i", "j", "k", "l", "m", "n", "o", "p", "q", "r", "s", "t", "u", "v",
      "w", "x", "y", "z", "0", "1", "2", "3", "4", "5", "6", "7", "8", "9", "+", "/">>

Alphabet16 == Digits \o <<"a", "b", "c", "d", "e", "f">>

\* Mutant: no byte is looked at beyond the one a character begins in.
Base64Encode_single(raw) ==
    LET steps == (8 * Len(raw) + 5) \div 6
        char(j) == LET bit == 6 * j
                   IN  Alphabet64[(((raw[bit \div 8 + 1] * 2^(bit % 8)) \div 4) % 64) + 1]
    IN  [j \in 1 .. steps |-> char(j - 1)]

\* base64_encode: six bits at a time, from one byte or two, and "=" up to
\* a whole number of bytes.
Base64Encode(raw) ==
    LET steps == (8 * Len(raw) + 5) \div 6
        char(j) ==
            LET byte == (6 * j) \div 8
                shift == (6 * j) % 8
                next == IF byte + 1 < Len(raw) THEN raw[byte + 2] \div 2^(8 - shift) ELSE 0
            IN  Alphabet64[(((raw[byte + 1] * 2^shift + next) \div 4) % 64) + 1]
        pads == CHOOSE n \in 0 .. 3 : (6 * (steps + n)) % 8 = 0
                                      /\ \A m \in 0 .. n - 1 : (6 * (steps + m)) % 8 # 0
    IN  [j \in 1 .. steps |-> char(j - 1)] \o [n \in 1 .. pads |-> "="]

\* base16_encode, "%02x".
Base16Encode(raw) ==
    FlattenSeq([k \in DOMAIN raw |->
                  <<Alphabet16[raw[k] \div 16 + 1], Alphabet16[(raw[k] % 16) + 1]>>])

-----------------------------------------------------------------------------
(* The handlers: what they append to send_buf, and whether they succeed.   *)

StatusAndServer == <<"RTSP/1.0 200 OK ">> \o CRLF \o <<"Server: ">> \o CRLF
Date == <<"Date: ", "now">> \o CRLF
Session == <<"Session: ", session_id>> \o CRLF

Failed(send) == [ok |-> FALSE, send |-> send]
Done(send) == [ok |-> TRUE, send |-> send]

Handle_OPTIONS(send, recv) ==
    LET cseq == LineFrom(recv, "CSeq: ")
    IN  IF ~cseq.ok THEN Failed(send \o StatusAndServer)
        ELSE Done(send \o StatusAndServer \o cseq.words \o CRLF
                  \o <<"Public: ">> \o CRLF \o CRLF)

\* "%d": as many digits as the number needs.
Decimal(n) ==
    LET tens == <<1, 10, 100, 1000, 10000, 100000, 1000000, 10000000, 100000000>>
        places == CHOOSE k \in 1 .. 9 : (k = 1 \/ n >= tens[k]) /\ (k = 9 \/ n < tens[k + 1])
    IN  [j \in 1 .. places |-> Digits[((n \div tens[places - j + 1]) % 10) + 1]]

\* The session description.
Sdp(ip, sets) ==
    LET bare(nal) == SubSeq(nal, Len(START_CODE) + 1, Len(nal))
    IN  <<"o=NVRStream ", "now", "IN IP4 ">> \o ip \o CRLF \o <<"m=video ">> \o CRLF
        \o <<"profile-level-id=">>
        \o Base16Encode(SubSeq(bare(sets.sps), 2, 4))
        \o <<";packetization-mode=1;", "sprop-parameter-sets=">>
        \o Base64Encode(bare(sets.sps)) \o <<",">> \o Base64Encode(bare(sets.pps)) \o CRLF
        \o <<"a=control:streamid=0">> \o CRLF

Handle_DESCRIBE(send, recv, sets) ==
    LET cseq == LineFrom(recv, "CSeq: ")
        uri == Uri(recv)
        ip == ServerIp(recv)
        sdp == Sdp(ip.words, sets)
    IN  IF ~cseq.ok \/ ~uri.ok \/ ~ip.ok THEN Failed(send \o StatusAndServer)
        ELSE Done(send \o StatusAndServer \o cseq.words \o CRLF \o Date
                  \o <<"Content-Base: ">> \o uri.words \o <<"/">> \o CRLF
                  \o <<"Content-Type: ">> \o CRLF
                  \o <<"Content-Length: ">> \o Decimal(Len(sdp)) \o CRLF \o CRLF
                  \o sdp)

\* get_transport_info copies the line into TransportRoom zero bytes: without
\* a zero left, what strcat copies ends somewhere behind them.
Fits(line) == Bytes(line) < TransportRoom
TransportInfos(line) == IF Fits(line) THEN {line} ELSE {line, line \o <<"?">>}

Handle_SETUP(send, recv, transport) ==
    LET cseq == LineFrom(recv, "CSeq: ")
    IN  IF ~cseq.ok \/ ~LineFrom(recv, "Transport: ").ok
        THEN Failed(send \o StatusAndServer)
        ELSE Done(send \o StatusAndServer \o cseq.words \o CRLF \o Session \o Date
                  \o <<"Expries: ", "now">> \o CRLF \o transport
                  \o <<";server-port=5004-5005">> \o CRLF \o CRLF)

Handle_PLAY(send, recv) ==
    LET cseq == LineFrom(recv, "CSeq: ")
        uri == Uri(recv)
    IN  IF ~cseq.ok \/ ~uri.ok THEN Failed(send \o StatusAndServer)
        ELSE Done(send \o StatusAndServer \o cseq.words \o CRLF \o Session
                  \o <<"RTP-Info: url=">> \o uri.words
                  \o <<"/trackID=1;seq=0;rtptime=0">> \o CRLF \o CRLF)

Handle_TEARDOWN(send, recv) ==
    LET cseq == LineFrom(recv, "CSeq: ")
    IN  IF ~cseq.ok THEN Failed(send \o StatusAndServer)
        ELSE Done(send \o StatusAndServer \o cseq.words \o CRLF \o Session
                  \o <<"Connection: Close ">> \o CRLF \o CRLF)

-----------------------------------------------------------------------------
(* video_server. *)

Init ==
    /\ where = "accept"
    /\ header \in Headers
    /\ recv_buf = << >> /\ send_buf = << >>
    /\ mask = {} /\ session_id = "none" /\ client_port = 0
    /\ request = NoRequest /\ stream = << >> /\ reply = NoReply

\* Mutant: the memset is missing, and strcat appends to the last reply.
Cleared_kept(buf) == buf

\* memset(send_buf, 0, 1400), and the same for recv_buf.
Cleared(buf) == << >>

\* The loop goes round to recv.
ToRecv(sent) ==
    /\ where' = "recv"
    /\ send_buf' = Cleared(sent) /\ recv_buf' = Cleared(recv_buf)

\* Create_Session_ID and accept; the new video thread has its encoder's
\* header ready when sem_wait returns (VideoSession).
Accept ==
    /\ where = "accept"
    /\ ToRecv(send_buf)
    /\ mask' = {}
    /\ session_id' \in {"one", "other"}
    /\ header' \in Headers
    /\ reply' = NoReply
    /\ UNCHANGED <<client_port, request, stream>>

\* A client sends a request and waits for the reply.
ClientSends ==
    /\ where = "recv" /\ request = NoRequest
    /\ \E r \in Requests : request' = r /\ stream' = stream \o RequestText(r)
    /\ reply' = NoReply
    /\ UNCHANGED <<where, header, recv_buf, send_buf, mask, session_id, client_port>>

\* recv: what has arrived of what was sent.
Recv ==
    /\ where = "recv" /\ stream # << >>
    /\ where' = "dispatch"
    /\ \E n \in 1 .. Len(stream) :
          /\ recv_buf' = SubSeq(stream, 1, n)
          /\ stream' = SubSeq(stream, n + 1, Len(stream))
    /\ UNCHANGED <<header, send_buf, mask, session_id, client_port, request, reply>>

\* The chain of strstr: the commands are looked for in this order.
IsCommand(kind) ==
    LET found(k) == Find(recv_buf, Command[Kinds[k]], 1) # 0
    IN  \E k \in DOMAIN Kinds :
            Kinds[k] = kind /\ found(k) /\ \A j \in 1 .. k - 1 : ~found(j)

\* The commands rtsp_bit_mask must hold, exactly.
Before(kind) ==
    {Kinds[j] : j \in {i \in DOMAIN Kinds : \A k \in 1 .. i : Kinds[k] # kind}}

\* break, and close(rtsp_conn_sockfd): the client starts anew.
SessionEnds ==
    /\ where' = "accept"
    /\ request' = NoRequest /\ stream' = << >>
    /\ UNCHANGED <<header, recv_buf, mask, session_id>>

\* A SETUP in order stores its port before its handler can refuse it.
PortStored(kind) ==
    LET port == GetPort(recv_buf)
    IN  IF kind = "SETUP" /\ mask = Before(kind) /\ port.ok
        THEN Number(port.words) % 65536 ELSE client_port

\* Out of order, refused by its handler, or tcp_send_data fails.
NotServed(kind) ==
    /\ where = "dispatch" /\ IsCommand(kind)
    /\ SessionEnds
    /\ client_port' = PortStored(kind)
    /\ UNCHANGED <<send_buf, reply>>

Replied(kind, handled) ==
    /\ where = "dispatch" /\ IsCommand(kind)
    /\ mask = Before(kind)
    /\ handled.ok
    /\ reply' = [to |-> request, text |-> handled.send]

Served(kind, handled) ==
    /\ Replied(kind, handled)
    /\ ToRecv(handled.send)
    /\ mask' = mask \union {kind}
    /\ request' = NoRequest
    /\ UNCHANGED <<header, session_id, stream>>

Options ==
    /\ Served("OPTIONS", Handle_OPTIONS(send_buf, recv_buf))
    /\ UNCHANGED client_port

Describe ==
    /\ Served("DESCRIBE", Handle_DESCRIBE(send_buf, recv_buf, ParameterSets(header)))
    /\ UNCHANGED client_port

Setup ==
    /\ GetPort(recv_buf).ok
    /\ \E info \in TransportInfos(LineFrom(recv_buf, "Transport: ").words) :
          Served("SETUP", Handle_SETUP(send_buf, recv_buf, info))
    /\ client_port' = PortStored("SETUP")

Play ==
    /\ Served("PLAY", Handle_PLAY(send_buf, recv_buf))
    /\ UNCHANGED client_port

Teardown ==
    /\ Replied("TEARDOWN", Handle_TEARDOWN(send_buf, recv_buf))
    /\ SessionEnds
    /\ send_buf' = reply'.text
    /\ UNCHANGED client_port

\* A refused command, and a text without any command in it.
Refuse ==
    \/ \E k \in DOMAIN Kinds : NotServed(Kinds[k])
    \/ /\ where = "dispatch"
       /\ \A k \in DOMAIN Kinds : ~IsCommand(Kinds[k])
       /\ SessionEnds
       /\ UNCHANGED <<send_buf, client_port, reply>>

Next ==
    \/ Accept \/ ClientSends \/ Recv \/ Options \/ Describe \/ Setup \/ Play
    \/ Teardown \/ Refuse

Spec == Init /\ [][Next]_vars

-----------------------------------------------------------------------------
(* Properties. *)

Once(text, words) ==
    Cardinality({i \in 1 .. Len(text) - Len(words) + 1 :
                    SubSeq(text, i, i + Len(words) - 1) = words}) = 1

\* What stands between two texts, the first time.
Between(text, from, to) ==
    LET start == Find(text, from, 1) + Len(from)
    IN  SubSeq(text, start, Find(text, to, start) - 1)

Mark == [OPTIONS |-> "Public: ", DESCRIBE |-> "Content-Type: ", SETUP |-> "Transport: ",
         PLAY |-> "RTP-Info: url=", TEARDOWN |-> "Connection: Close "]

\* However TCP cuts the requests, a reply is one reply, and one to the request
\* the client waits with: it begins with the status, repeats that request's
\* whole CSeq and nothing else's, names this session, and its head ends in the
\* only empty line, behind which there are as many bytes (words, here) as
\* Content-Length says.  A transport line is repeated whole if it fits.
ReplyFitsRequest ==
    reply # NoReply =>
        LET r == reply.to
            text == reply.text
            head == Find(text, CRLF \o CRLF, 1) + Len(CRLF \o CRLF) - 1
            body == SubSeq(text, head + 1, Len(text))
        IN  /\ text[1] = "RTSP/1.0 200 OK " /\ Once(text, <<text[1]>>)
            /\ Once(text, <<Mark[r.kind]>>)
            /\ Once(text, <<"CSeq: ">>) /\ Once(text, <<"CSeq: ">> \o r.seq \o CRLF)
            /\ Once(text, CRLF \o CRLF)
            /\ r.kind \in {"SETUP", "PLAY", "TEARDOWN"} =>
                  Once(text, <<"Session: ", session_id>> \o CRLF)
            /\ IF r.kind = "DESCRIBE"
               THEN Between(text, <<"Content-Length: ">>, CRLF) = Decimal(Len(body))
               ELSE body = << >>
            /\ r.kind = "SETUP" /\ Fits(Line("transport", r)) =>
                  Once(text, Line("transport", r) \o <<";server-port=5004-5005">> \o CRLF)

\* Behind an answered SETUP the RTP packets go to the port the client named,
\* until the session ends, whatever stood before that port in the request
\* and however the request came.
PortIsClients ==
    [][/\ \A r \in Requests :
             reply'.to = r /\ r.kind = "SETUP" => client_port' = Number(r.port)
       /\ "SETUP" \in mask \intersect mask' => client_port' = client_port]_vars

\* What base64 text decodes to: the characters that are no padding are six bits
\* each, the first the highest, and eight bits make a byte.
Decoded(text) ==
    LET letters == {k \in DOMAIN text : text[k] # "="}
        value(c) == CHOOSE v \in 0 .. 63 : Alphabet64[v + 1] = c
        bit(k) == (value(text[k \div 6 + 1]) \div 2^(5 - (k % 6))) % 2
        byte(k) == 128 * bit(k) + 64 * bit(k + 1) + 32 * bit(k + 2) + 16 * bit(k + 3)
                   + 8 * bit(k + 4) + 4 * bit(k + 5) + 2 * bit(k + 6) + bit(k + 7)
    IN  [i \in 1 .. (6 * Cardinality(letters)) \div 8 |-> byte(8 * (i - 1))]

\* The description lets a player set up its decoder: its parameter sets
\* decode to the SPS and the PPS of this session's encoder, without their start
\* codes and in whole groups of four characters, and its profile and level are
\* the three bytes behind the SPS's first.
SetsAreEncoders ==
    reply.to.kind = "DESCRIBE" =>
        LET sps == Between(reply.text, <<"sprop-parameter-sets=">>, <<",">>)
            pps == Between(reply.text, <<",">>, CRLF)
            level == Between(reply.text, <<"profile-level-id=">>, <<";packetization-mode=1;">>)
        IN  /\ Decoded(sps) = header.sps /\ Decoded(pps) = header.pps
            /\ Len(sps) % 4 = 0 /\ Len(pps) % 4 = 0
            /\ \A k \in 1 .. 3 : level[2 * k - 1] = Alphabet16[header.sps[k + 1] \div 16 + 1]
                              /\ level[2 * k] = Alphabet16[(header.sps[k + 1] % 16) + 1]
            /\ Len(level) = 6
=============================================================================
