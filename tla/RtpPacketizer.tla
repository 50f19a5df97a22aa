---------------------------- MODULE RtpPacketizer ----------------------------
(***************************************************************************)
(* How rtp_pthread cuts a NALU into RTP packets (rtp.c, the loop after     *)
(* get_globe_frame_info).  A NALU of `len` bytes lies in nalu_buf at the   *)
(* positions 0 .. len - 1, its header at 0; what is beyond is left over    *)
(* from earlier NALUs.  A packet is the range of positions it carries and  *)
(* its header bits; the bytes themselves are not modelled, except the NALU *)
(* header, which is an integer in 0 .. 255.                                *)
(***************************************************************************)
EXTENDS Naturals, Sequences, FiniteSets

CONSTANTS
    MaxPayload,     \* PAYLOAD_MAX_SIZE
    MaxLength,      \* bound on the length of a NALU
    Headers,        \* NALU headers the encoder produces
    SeqModulus      \* seq_num is an unsigned short: 2^16

ASSUME PacketizerAssumption ==
    /\ MaxPayload \in Nat \ {0}
    /\ MaxLength \in Nat \ {0}
    /\ Headers \subseteq 0 .. 255
    /\ SeqModulus \in Nat \ {0}

VARIABLES
    at,         \* "get", "single", "slice", "rest" or "dead"
    len,        \* nalu_length
    header,     \* *nalu_buf
    i,          \* number of the next slice
    nextFrame,  \* next_frame: payload bytes already in packets
    seqNum,     \* seq_num
    sent        \* the packets of this NALU sent so far

vars == <<at, len, header, i, nextFrame, seqNum, sent>>

\* Mutant: the NALU without its header byte.
PayloadLength_body(l) == l - 1

\* nalu_payload_length
PayloadLength(l) == l + 1

Slices(l) == PayloadLength(l) \div MaxPayload
Rest(l) == PayloadLength(l) % MaxPayload

\* *nalu_buf & 0x80>>7: the shift binds tighter, so this is bit 0.
F(h) == h % 2

\* *nalu_buf & 0x60>>5: the low two bits.
NRI(h) == h % 4

Fragment(first, size, s, e) ==
    [kind |-> "FU_A", first |-> first, last |-> first + size - 1,
     s |-> s, e |-> e, m |-> e, seq |-> seqNum,
     F |-> F(header), NRI |-> NRI(header), type |-> header % 32]

Single ==
    [kind |-> "single", first |-> 0, last |-> len - 1,
     s |-> TRUE, e |-> TRUE, m |-> TRUE, seq |-> seqNum,
     F |-> header \div 128, NRI |-> (header \div 32) % 4, type |-> header % 32]

Init ==
    /\ at = "get" /\ len = 0 /\ header = 0 /\ i = 1 /\ nextFrame = 0
    /\ seqNum = 0 /\ sent = << >>

\* get_globe_frame_info returned a NALU of l bytes with header h.
Get(l, h) ==
    /\ at = "get"
    /\ len' = l /\ header' = h
    /\ i' = 1 /\ nextFrame' = 0 /\ sent' = << >>
    /\ at' = IF l <= MaxPayload THEN "single" ELSE "slice"
    /\ UNCHANGED seqNum

\* udp_send_data with seq_num++.
Send(p) ==
    /\ sent' = Append(sent, p)
    /\ seqNum' = (seqNum + 1) % SeqModulus

SendSingle ==
    /\ at = "single"
    /\ Send(Single)
    /\ at' = "get"
    /\ UNCHANGED <<len, header, i, nextFrame>>

\* Mutant: every slice is copied from the start of the payload.
SendSlice_same ==
    /\ at = "slice"
    /\ Send(Fragment(1, MaxPayload, i = 1, Rest(len) = 0 /\ i = Slices(len)))
    /\ nextFrame' = nextFrame + MaxPayload
    /\ i' = i + 1
    /\ at' = IF i < Slices(len) THEN "slice"
             ELSE IF Rest(len) = 0 THEN "get" ELSE "rest"
    /\ UNCHANGED <<len, header>>

\* One turn of the for loop; after the last, `continue` when nothing is left.
SendSlice ==
    /\ at = "slice"
    /\ Send(Fragment(1 + nextFrame, MaxPayload, i = 1,
                     Rest(len) = 0 /\ i = Slices(len)))
    /\ nextFrame' = nextFrame + MaxPayload
    /\ i' = i + 1
    /\ at' = IF i < Slices(len) THEN "slice"
             ELSE IF Rest(len) = 0 THEN "get" ELSE "rest"
    /\ UNCHANGED <<len, header>>

\* The last, shorter fragment.
SendRest ==
    /\ at = "rest"
    /\ Send(Fragment(1 + nextFrame, Rest(len), FALSE, TRUE))
    /\ nextFrame' = nextFrame + Rest(len)
    /\ at' = "get"
    /\ UNCHANGED <<len, header, i>>

\* get_globe_frame_info or udp_send_data fails: the thread exits.
Fail ==
    /\ at # "dead"
    /\ at' = "dead"
    /\ UNCHANGED <<len, header, i, nextFrame, seqNum, sent>>

Next ==
    \/ \E l \in 1 .. MaxLength, h \in Headers : Get(l, h)
    \/ SendSingle \/ SendSlice \/ SendRest \/ Fail

Spec == Init /\ [][Next]_vars

-----------------------------------------------------------------------------
(* Properties.  A NALU is finished when the thread is back at "get". *)

Packet == [kind : {"single", "FU_A"}, first : Nat, last : Nat,
           s : BOOLEAN, e : BOOLEAN, m : BOOLEAN, seq : 0 .. SeqModulus - 1,
           F : 0 .. 1, NRI : 0 .. 3, type : 0 .. 31]

\* Types; sequence numbers fit the 16 bits of their field.
TypeOK ==
    /\ at \in {"get", "single", "slice", "rest", "dead"}
    /\ len \in 0 .. MaxLength /\ header \in Headers \union {0}
    /\ i \in Nat \ {0} /\ nextFrame \in Nat
    /\ seqNum \in 0 .. SeqModulus - 1
    /\ sent \in Seq(Packet)

Finished == at = "get" /\ sent # << >>

\* What a receiver needs to put a fragmented NALU together: the sequence
\* numbers are consecutive, the start bit is on the first fragment and only
\* there, the end bit and the marker on the last and only there, and no
\* fragment has both (RFC 6184, 5.8), whatever the length.
FragmentsWellFormed ==
    /\ \A j \in 1 .. Len(sent) - 1 :
          sent[j + 1].seq = (sent[j].seq + 1) % SeqModulus
    /\ \A j \in 1 .. Len(sent) :
          /\ sent[j].s <=> j = 1
          /\ sent[j].e => j = Len(sent) /\ at \in {"get", "dead"}
          /\ sent[j].m <=> sent[j].e
          /\ sent[j].kind = "FU_A" => ~(sent[j].s /\ sent[j].e)
    /\ Finished => sent[Len(sent)].e

\* Once the NALU is finished, every byte of it (after the header, which a
\* fragmented NALU carries in its FU bytes) has been sent exactly once.
EveryByteOnce ==
    Finished =>
        \A b \in 1 .. len - 1 :
            Cardinality({j \in 1 .. Len(sent) :
                            sent[j].first <= b /\ b <= sent[j].last}) = 1

=============================================================================
