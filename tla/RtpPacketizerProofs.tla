------------------------- MODULE RtpPacketizerProofs -------------------------
(***************************************************************************)
(* Proofs about the cutting of a NALU, for every payload size, length and  *)
(* width of the sequence numbers.  The invariant says what each packet     *)
(* sent so far carries: its place in the NALU follows from its number.     *)
(***************************************************************************)
EXTENDS RtpPacketizer, FiniteSetTheorems, TLAPS

\* The packets a NALU of l bytes is cut into.
Fragments(l) == IF Rest(l) = 0 THEN Slices(l) ELSE Slices(l) + 1

\* Where the thread is: the counters say how many packets have been sent.
PlaceInv ==
    /\ at = "single" => sent = << >> /\ len > 0
    /\ at = "slice" =>
          /\ len > MaxPayload /\ i <= Slices(len)
          /\ Len(sent) = i - 1 /\ nextFrame = (i - 1) * MaxPayload
    /\ at = "rest" =>
          /\ len > MaxPayload /\ Rest(len) # 0
          /\ Len(sent) = Slices(len) /\ nextFrame = Slices(len) * MaxPayload
    /\ Finished => sent[Len(sent)].e

\* A NALU in one packet.
Whole ==
    /\ Len(sent) = 1 /\ at \in {"get", "dead"}
    /\ sent[1].kind = "single" /\ sent[1].first = 0 /\ sent[1].last = len - 1
    /\ sent[1].s /\ sent[1].e /\ sent[1].m

\* Packet j of a fragmented NALU.
IsFragment(p, j) ==
    /\ p.kind = "FU_A"
    /\ p.first = 1 + (j - 1) * MaxPayload
    /\ p.last = IF j <= Slices(len) THEN j * MaxPayload ELSE PayloadLength(len)
    /\ p.s <=> j = 1
    /\ p.e <=> j = Fragments(len)
    /\ p.m <=> p.e

Cut ==
    /\ len > MaxPayload
    /\ Len(sent) <= Fragments(len)
    /\ Len(sent) = Fragments(len) => at \in {"get", "dead"}
    /\ \A j \in 1 .. Len(sent) : IsFragment(sent[j], j)

\* The sequence numbers, up to the one the next packet will have.
SeqInv ==
    /\ \A j \in 1 .. Len(sent) - 1 :
          sent[j + 1].seq = (sent[j].seq + 1) % SeqModulus
    /\ sent # << >> => seqNum = (sent[Len(sent)].seq + 1) % SeqModulus

Inv ==
    /\ TypeOK /\ PlaceInv /\ SeqInv
    /\ sent = << >> \/ Whole \/ Cut

-----------------------------------------------------------------------------
(* Arithmetic of the cut. *)

\* The payload is its whole slices and a rest shorter than one.
LEMMA Division ==
    ASSUME NEW l \in Nat
    PROVE  /\ Slices(l) \in Nat /\ Rest(l) \in Nat /\ Rest(l) < MaxPayload
           /\ l + 1 = Slices(l) * MaxPayload + Rest(l)
<1>1. l + 1 \in Nat /\ MaxPayload \in Nat \ {0}
  BY PacketizerAssumption
<1>2. \A n \in Nat, d \in Nat \ {0} :
         /\ n \div d \in Nat /\ n % d \in Nat /\ n % d < d
         /\ n = (n \div d) * d + (n % d)
  BY SMTT(20)
<1> QED
  BY <1>1, <1>2 DEF Slices, Rest, PayloadLength

\* A slice between two multiples.
LEMMA Multiples ==
    ASSUME NEW a \in Nat, NEW b \in Nat, a < b
    PROVE  a * MaxPayload + MaxPayload <= b * MaxPayload
<1>1. PICK d \in Nat : b = a + 1 + d
  <2>1. b - (a + 1) \in Nat
    OBVIOUS
  <2>2. b = a + 1 + (b - (a + 1))
    OBVIOUS
  <2> QED
    BY <2>1, <2>2
<1>2. \A p \in Nat : (a + 1 + d) * p = a * p + p + d * p /\ d * p \in Nat
                     /\ a * p \in Nat
  BY SMTT(20)
<1> QED
  BY <1>1, <1>2, PacketizerAssumption

\* A NALU that does not fit one packet is cut into two or more.
LEMMA FragmentCount ==
    ASSUME NEW l \in Nat, l > MaxPayload
    PROVE  /\ Slices(l) \in Nat \ {0}
           /\ Fragments(l) \in Nat /\ Fragments(l) >= 2 /\ Slices(l) <= Fragments(l)
<1>1. /\ Slices(l) \in Nat /\ Rest(l) \in Nat /\ Rest(l) < MaxPayload
      /\ l + 1 = Slices(l) * MaxPayload + Rest(l)
  BY Division
<1>2. MaxPayload \in Nat \ {0}
  BY PacketizerAssumption
<1>3. Slices(l) # 0
  BY <1>1, <1>2
<1>4. Slices(l) = 1 => Rest(l) # 0
  BY <1>1, <1>2
<1> QED
  BY <1>1, <1>3, <1>4 DEF Fragments

-----------------------------------------------------------------------------
LEMMA Numbers ==
    ASSUME Inv
    PROVE  /\ len \in Nat /\ i \in Nat \ {0} /\ nextFrame \in Nat
           /\ seqNum \in 0 .. SeqModulus - 1 /\ Len(sent) \in Nat
           /\ header \in 0 .. 255
           /\ MaxPayload \in Nat \ {0} /\ SeqModulus \in Nat \ {0}
           /\ MaxLength \in Nat \ {0}
BY PacketizerAssumption DEF Inv, TypeOK

LEMMA InitInv == Init => Inv
<1> SUFFICES ASSUME Init PROVE Inv
  OBVIOUS
<1>1. TypeOK
  BY PacketizerAssumption DEF Init, TypeOK
<1>2. PlaceInv /\ SeqInv
  BY DEF Init, PlaceInv, SeqInv, Finished
<1> QED
  BY <1>1, <1>2 DEF Init, Inv

\* What sending a packet does to the sequence of those sent.
LEMMA SendStep ==
    ASSUME Inv, NEW p \in Packet, p.seq = seqNum, Send(p)
    PROVE  /\ sent' \in Seq(Packet) /\ Len(sent') = Len(sent) + 1
           /\ sent'[Len(sent) + 1] = p /\ sent' # << >>
           /\ \A j \in 1 .. Len(sent) : sent'[j] = sent[j]
           /\ seqNum' \in 0 .. SeqModulus - 1
           /\ SeqInv'
<1>1. sent \in Seq(Packet) /\ sent' = Append(sent, p)
  BY DEF Inv, TypeOK, Send
<1>2. /\ sent' \in Seq(Packet) /\ Len(sent') = Len(sent) + 1 /\ Len(sent) \in Nat
      /\ sent'[Len(sent) + 1] = p /\ sent' # << >>
      /\ \A j \in 1 .. Len(sent) : sent'[j] = sent[j]
  BY <1>1, SMTT(20)
<1>3. seqNum' = (seqNum + 1) % SeqModulus
  BY DEF Send
<1>4. seqNum' \in 0 .. SeqModulus - 1
  <2>1. \A n \in Nat, d \in Nat \ {0} : n % d \in 0 .. d - 1
    OBVIOUS
  <2>2. seqNum + 1 \in Nat
    BY Numbers
  <2> QED
    BY <1>3, <2>1, <2>2, PacketizerAssumption
<1>5. ASSUME NEW j \in 1 .. Len(sent') - 1
      PROVE  sent'[j + 1].seq = (sent'[j].seq + 1) % SeqModulus
  <2>1. j \in 1 .. Len(sent) /\ sent'[j] = sent[j]
    BY <1>2
  <2>2. CASE j = Len(sent)
    <3>1. sent # << >>
      BY <1>1, <2>1
    <3>2. sent'[j + 1].seq = seqNum
      BY <1>2, <2>2
    <3> QED
      BY <2>1, <2>2, <3>1, <3>2 DEF Inv, SeqInv
  <2>3. CASE j # Len(sent)
    <3>1. j \in 1 .. Len(sent) - 1 /\ j + 1 \in 1 .. Len(sent)
      BY <1>2, <2>1, <2>3
    <3>2. sent'[j + 1] = sent[j + 1]
      BY <1>2, <3>1
    <3> QED
      BY <2>1, <3>1, <3>2 DEF Inv, SeqInv
  <2> QED
    BY <2>2, <2>3
<1>6. seqNum' = (sent'[Len(sent')].seq + 1) % SeqModulus
  BY <1>2, <1>3
<1>7. SeqInv'
  BY <1>5, <1>6 DEF SeqInv
<1> QED
  BY <1>2, <1>4, <1>7

\* Both kinds of packet fill the fields of the RTP headers.
LEMMA HeaderBits ==
    ASSUME NEW h \in 0 .. 255
    PROVE  /\ F(h) \in 0 .. 1 /\ NRI(h) \in 0 .. 3 /\ h % 32 \in 0 .. 31
           /\ h \div 128 \in 0 .. 1 /\ (h \div 32) % 4 \in 0 .. 3
BY SMTT(20) DEF F, NRI

LEMMA FragmentIsPacket ==
    ASSUME Inv, NEW first \in Nat \ {0}, NEW size \in Nat, NEW s \in BOOLEAN,
           NEW e \in BOOLEAN
    PROVE  Fragment(first, size, s, e) \in Packet
<1>1. first + size - 1 \in Nat
  OBVIOUS
<1>2. F(header) \in 0 .. 1 /\ NRI(header) \in 0 .. 3 /\ header % 32 \in 0 .. 31
  BY Numbers, HeaderBits
<1>3. seqNum \in 0 .. SeqModulus - 1
  BY Numbers
<1> QED
  BY <1>1, <1>2, <1>3 DEF Fragment, Packet

-----------------------------------------------------------------------------
LEMMA GetStep ==
    ASSUME Inv, NEW l \in 1 .. MaxLength, NEW h \in Headers, Get(l, h)
    PROVE  Inv'
<1>1. sent' = << >> /\ Len(sent') = 0 /\ len' = l /\ i' = 1 /\ nextFrame' = 0
      /\ at' = (IF l <= MaxPayload THEN "single" ELSE "slice")
      /\ header' = h /\ seqNum' = seqNum
  BY DEF Get
<1>2. l \in Nat \ {0} /\ l <= MaxLength
  BY PacketizerAssumption
<1>3. TypeOK'
  BY <1>1, <1>2 DEF Inv, TypeOK
<1>4. PlaceInv'
  <2>1. CASE l <= MaxPayload
    BY <1>1, <1>2, <2>1 DEF PlaceInv, Finished
  <2>2. CASE ~(l <= MaxPayload)
    <3>1. l > MaxPayload
      BY <1>2, <2>2, PacketizerAssumption
    <3>2. Slices(l) \in Nat \ {0}
      BY <1>2, <3>1, FragmentCount
    <3>3. (1 - 1) * MaxPayload = 0
      BY PacketizerAssumption
    <3>4. at' = "slice" /\ i' <= Slices(len') /\ Len(sent') = i' - 1
          /\ nextFrame' = (i' - 1) * MaxPayload /\ len' > MaxPayload
      BY <1>1, <2>2, <3>1, <3>2, <3>3
    <3> QED
      BY <3>4 DEF PlaceInv, Finished, Slices, PayloadLength
  <2> QED
    BY <2>1, <2>2
<1>5. SeqInv'
  BY <1>1 DEF SeqInv
<1> QED
  BY <1>1, <1>3, <1>4, <1>5 DEF Inv

LEMMA SendSingleStep ==
    ASSUME Inv, SendSingle
    PROVE  Inv'
<1>1. /\ at = "single" /\ at' = "get" /\ Send(Single)
      /\ UNCHANGED <<len, header, i, nextFrame>>
  BY DEF SendSingle
<1>2. sent = << >> /\ len > 0 /\ len \in Nat
  BY <1>1, Numbers DEF Inv, PlaceInv
<1>3. Single \in Packet
  <2>1. len - 1 \in Nat
    BY <1>2
  <2>2. header % 32 \in 0 .. 31 /\ header \div 128 \in 0 .. 1
        /\ (header \div 32) % 4 \in 0 .. 3
    BY Numbers, HeaderBits
  <2>3. seqNum \in 0 .. SeqModulus - 1
    BY Numbers
  <2> QED
    BY <2>1, <2>2, <2>3 DEF Single, Packet
<1>4. Single.seq = seqNum
  BY DEF Single
<1>5. /\ sent' \in Seq(Packet) /\ Len(sent') = Len(sent) + 1
      /\ sent'[Len(sent) + 1] = Single /\ sent' # << >>
      /\ seqNum' \in 0 .. SeqModulus - 1 /\ SeqInv'
  BY <1>1, <1>3, <1>4, SendStep
<1>6. Len(sent') = 1 /\ sent'[1] = Single
  BY <1>2, <1>5
<1>7. TypeOK'
  BY <1>1, <1>5 DEF Inv, TypeOK
<1>8. Whole'
  BY <1>1, <1>6 DEF Whole, Single
<1>9. PlaceInv'
  BY <1>1, <1>6 DEF PlaceInv, Finished, Single
<1> QED
  BY <1>5, <1>7, <1>8, <1>9 DEF Inv

\* A further fragment in its place keeps the cut.
LEMMA FragmentStep ==
    ASSUME Inv, NEW p \in Packet, len > MaxPayload, at \in {"slice", "rest"},
           Len(sent) < Fragments(len), IsFragment(p, Len(sent) + 1),
           sent' \in Seq(Packet), Len(sent') = Len(sent) + 1,
           sent'[Len(sent) + 1] = p,
           \A j \in 1 .. Len(sent) : sent'[j] = sent[j], len' = len,
           Len(sent) + 1 = Fragments(len) => at' = "get"
    PROVE  Cut'
<1>1. Len(sent) \in Nat /\ len \in Nat
  BY Numbers
<1>2. Fragments(len) \in Nat
  BY <1>1, FragmentCount
<1>3. ASSUME NEW j \in 1 .. Len(sent')
      PROVE  IsFragment(sent'[j], j)
  <2>1. CASE j = Len(sent) + 1
    BY <2>1
  <2>2. CASE j # Len(sent) + 1
    <3>1. j \in 1 .. Len(sent) /\ sent # << >>
      BY <1>1, <2>2
    <3>2. Cut
      BY <3>1 DEF Inv, Whole
    <3> QED
      BY <3>1, <3>2 DEF Cut
  <2> QED
    BY <2>1, <2>2
<1>4. Len(sent') <= Fragments(len)
  BY <1>1, <1>2
<1>5. /\ Fragments(len)' = Fragments(len) /\ PayloadLength(len)' = PayloadLength(len)
      /\ Slices(len)' = Slices(len)
  BY DEF Fragments, Slices, Rest, PayloadLength
<1>6. (\A j \in 1 .. Len(sent) : IsFragment(sent[j], j))'
  BY <1>3, <1>5 DEF IsFragment
<1> QED
  BY <1>4, <1>5, <1>6 DEF Cut

LEMMA SendSliceStep ==
    ASSUME Inv, SendSlice
    PROVE  Inv'
<1> DEFINE n == Len(sent) + 1
           p == Fragment(1 + nextFrame, MaxPayload, i = 1, Rest(len) = 0 /\ i = Slices(len))
<1>1. /\ at = "slice" /\ Send(p)
      /\ nextFrame' = nextFrame + MaxPayload /\ i' = i + 1
      /\ at' = (IF i < Slices(len) THEN "slice"
                ELSE IF Rest(len) = 0 THEN "get" ELSE "rest")
      /\ len' = len /\ header' = header
  BY DEF SendSlice
<1>2. /\ len > MaxPayload /\ i <= Slices(len)
      /\ Len(sent) = i - 1 /\ nextFrame = (i - 1) * MaxPayload
  BY <1>1 DEF Inv, PlaceInv
<1>3. /\ len \in Nat /\ i \in Nat \ {0} /\ nextFrame \in Nat /\ MaxPayload \in Nat \ {0}
  BY Numbers
<1>4. /\ Slices(len) \in Nat \ {0} /\ Fragments(len) \in Nat
      /\ Slices(len) <= Fragments(len)
  BY <1>2, <1>3, FragmentCount
<1>5. n = i /\ Len(sent) < Fragments(len)
  BY <1>2, <1>3, <1>4
<1>6. (i - 1) * MaxPayload + MaxPayload = i * MaxPayload
  <2>1. \A a \in Nat \ {0}, b \in Nat : (a - 1) * b + b = a * b
    OBVIOUS
  <2> QED
    BY <1>3, <2>1
<1>7. p \in Packet /\ p.seq = seqNum
  <2>1. 1 + nextFrame \in Nat \ {0}
    BY <1>3
  <2>2. (i = 1) \in BOOLEAN /\ (Rest(len) = 0 /\ i = Slices(len)) \in BOOLEAN
    OBVIOUS
  <2>3. p \in Packet
    BY <1>3, <2>1, <2>2, FragmentIsPacket
  <2> QED
    BY <2>3 DEF Fragment
<1>8. IsFragment(p, i)
  <2>1. p.last = i * MaxPayload
    BY <1>2, <1>3, <1>6 DEF Fragment
  <2>2. (Rest(len) = 0 /\ i = Slices(len)) <=> i = Fragments(len)
    BY <1>2, <1>3, <1>4 DEF Fragments
  <2> QED
    BY <1>2, <2>1, <2>2 DEF IsFragment, Fragment
<1> HIDE DEF p
<1>9. /\ sent' \in Seq(Packet) /\ Len(sent') = Len(sent) + 1
      /\ sent'[Len(sent) + 1] = p /\ sent' # << >>
      /\ \A j \in 1 .. Len(sent) : sent'[j] = sent[j]
      /\ seqNum' \in 0 .. SeqModulus - 1 /\ SeqInv'
  BY <1>1, <1>7, SendStep
<1>10. TypeOK'
  BY <1>1, <1>3, <1>9 DEF Inv, TypeOK
<1>11. Len(sent) + 1 = Fragments(len) => at' = "get"
  BY <1>1, <1>2, <1>3, <1>4, <1>5 DEF Fragments
<1>12. Cut'
  BY <1>1, <1>2, <1>5, <1>7, <1>8, <1>9, <1>11, FragmentStep
<1>13. PlaceInv'
  <2>1. /\ Slices(len') = Slices(len) /\ Rest(len') = Rest(len)
        /\ Len(sent') = i /\ nextFrame' = i * MaxPayload /\ i' - 1 = i
    BY <1>1, <1>2, <1>3, <1>5, <1>6, <1>9
  <2>2. CASE i < Slices(len)
    <3>1. at' = "slice" /\ i' <= Slices(len')
      BY <1>1, <1>3, <1>4, <2>1, <2>2
    <3> QED
      BY <1>1, <1>2, <2>1, <3>1 DEF PlaceInv, Finished, Slices, PayloadLength
  <2>3. CASE i = Slices(len) /\ Rest(len) = 0
    <3>1. at' = "get" /\ p.e /\ sent'[Len(sent')] = p
      BY <1>1, <1>3, <1>4, <1>8, <1>9, <2>3 DEF IsFragment, Fragments
    <3> QED
      BY <3>1 DEF PlaceInv, Finished
  <2>4. CASE i = Slices(len) /\ Rest(len) # 0
    <3>1. at' = "rest"
      BY <1>1, <1>3, <1>4, <2>4
    <3> QED
      BY <1>1, <1>2, <2>1, <2>4, <3>1 DEF PlaceInv, Finished, Slices, Rest, PayloadLength
  <2> QED
    BY <1>2, <1>3, <1>4, <2>2, <2>3, <2>4
<1> QED
  BY <1>9, <1>10, <1>12, <1>13 DEF Inv

LEMMA SendRestStep ==
    ASSUME Inv, SendRest
    PROVE  Inv'
<1> DEFINE p == Fragment(1 + nextFrame, Rest(len), FALSE, TRUE)
<1>1. /\ at = "rest" /\ Send(p) /\ at' = "get"
      /\ nextFrame' = nextFrame + Rest(len) /\ UNCHANGED <<len, header, i>>
  BY DEF SendRest
<1>2. /\ len > MaxPayload /\ Rest(len) # 0
      /\ Len(sent) = Slices(len) /\ nextFrame = Slices(len) * MaxPayload
  BY <1>1 DEF Inv, PlaceInv
<1>3. /\ len \in Nat /\ nextFrame \in Nat /\ MaxPayload \in Nat \ {0}
  BY Numbers
<1>4. /\ Slices(len) \in Nat \ {0} /\ Rest(len) \in Nat
      /\ len + 1 = Slices(len) * MaxPayload + Rest(len)
      /\ Fragments(len) = Slices(len) + 1
  BY <1>2, <1>3, FragmentCount, Division DEF Fragments
<1>5. p \in Packet /\ p.seq = seqNum
  <2>1. 1 + nextFrame \in Nat \ {0}
    BY <1>3
  <2>2. p \in Packet
    BY <1>4, <2>1, FragmentIsPacket
  <2> QED
    BY <2>2 DEF Fragment
<1>6. IsFragment(p, Len(sent) + 1) /\ p.e
  <2>1. p.kind = "FU_A" /\ p.first = 1 + nextFrame /\ p.e /\ p.m /\ ~p.s
        /\ p.last = 1 + nextFrame + Rest(len) - 1
    BY DEF Fragment
  <2>2. p.last = PayloadLength(len)
    <3>1. nextFrame + Rest(len) = len + 1
      BY <1>2, <1>4
    <3> HIDE DEF p
    <3> QED
      BY <1>3, <1>4, <2>1, <3>1 DEF PayloadLength
  <2>3. Len(sent) + 1 = Fragments(len) /\ Len(sent) + 1 # 1
        /\ ~(Len(sent) + 1 <= Slices(len)) /\ (Len(sent) + 1) - 1 = Slices(len)
    BY <1>2, <1>4
  <2> HIDE DEF p
  <2> QED
    BY <1>2, <2>1, <2>2, <2>3 DEF IsFragment
<1> HIDE DEF p
<1>7. /\ sent' \in Seq(Packet) /\ Len(sent') = Len(sent) + 1
      /\ sent'[Len(sent) + 1] = p /\ sent' # << >>
      /\ \A j \in 1 .. Len(sent) : sent'[j] = sent[j]
      /\ seqNum' \in 0 .. SeqModulus - 1 /\ SeqInv'
  BY <1>1, <1>5, SendStep
<1>8. TypeOK'
  <2>1. nextFrame' \in Nat
    BY <1>1, <1>3, <1>4
  <2> QED
    BY <1>1, <1>7, <2>1 DEF Inv, TypeOK
<1>9. Cut'
  <2>1. Len(sent) < Fragments(len)
    BY <1>2, <1>4
  <2> QED
    BY <1>1, <1>2, <1>5, <1>6, <1>7, <2>1, FragmentStep
<1>10. PlaceInv'
  BY <1>1, <1>6, <1>7 DEF PlaceInv, Finished
<1> QED
  BY <1>7, <1>8, <1>9, <1>10 DEF Inv

LEMMA FailStep ==
    ASSUME Inv, Fail
    PROVE  Inv'
<1>1. at' = "dead" /\ UNCHANGED <<len, header, i, nextFrame, seqNum, sent>>
  BY DEF Fail
<1>2. TypeOK' /\ PlaceInv' /\ SeqInv'
  BY <1>1 DEF Inv, TypeOK, PlaceInv, Finished, SeqInv
<1>3. Whole => Whole'
  BY <1>1 DEF Whole
<1>4. Cut => Cut'
  BY <1>1 DEF Cut, IsFragment, Fragments, Slices, Rest, PayloadLength
<1> QED
  BY <1>1, <1>2, <1>3, <1>4 DEF Inv

LEMMA StutterStep ==
    ASSUME Inv, UNCHANGED vars
    PROVE  Inv'
<1>1. UNCHANGED <<at, len, header, i, nextFrame, seqNum, sent>>
  BY DEF vars
<1>2. TypeOK' /\ PlaceInv' /\ SeqInv'
  BY <1>1 DEF Inv, TypeOK, PlaceInv, Finished, SeqInv, Slices, Rest, PayloadLength
<1>3. Whole => Whole'
  BY <1>1 DEF Whole
<1>4. Cut => Cut'
  BY <1>1 DEF Cut, IsFragment, Fragments, Slices, Rest, PayloadLength
<1> QED
  BY <1>1, <1>2, <1>3, <1>4 DEF Inv

\* The invariant of rtp_pthread's loop (rtp.c): wherever the thread is, the
\* packets it has sent of this NALU are the first ones of the cut.
THEOREM PacketizerInvariant == Spec => []Inv
<1>1. ASSUME Inv, [Next]_vars PROVE Inv'
  BY <1>1, GetStep, SendSingleStep, SendSliceStep, SendRestStep, FailStep, StutterStep
     DEF Next
<1> QED
  BY <1>1, InitInv, PTL DEF Spec

\* Every field of every packet has the width the RTP and FU headers give it,
\* for every modulus of seq_num.
THEOREM PacketizerTypeCorrect == Spec => []TypeOK
<1>1. Inv => TypeOK
  BY DEF Inv
<1> QED
  BY <1>1, PacketizerInvariant, PTL

-----------------------------------------------------------------------------
LEMMA CutIsWellFormed ==
    ASSUME Inv
    PROVE  FragmentsWellFormed
<1>1. CASE sent = << >>
  BY <1>1 DEF FragmentsWellFormed, Finished
<1>2. CASE Whole
  <2>1. \A j \in 1 .. Len(sent) : j = 1
    BY <1>2 DEF Whole
  <2>2. \A j \in 1 .. Len(sent) - 1 :
           sent[j + 1].seq = (sent[j].seq + 1) % SeqModulus
    BY DEF Inv, SeqInv
  <2> QED
    BY <1>2, <2>1, <2>2 DEF Whole, FragmentsWellFormed
<1>3. CASE Cut
  <2>1. len \in Nat /\ len > MaxPayload /\ Len(sent) \in Nat
    BY <1>3, Numbers DEF Cut
  <2>2. Fragments(len) \in Nat /\ Fragments(len) >= 2
    BY <2>1, FragmentCount
  <2>3. ASSUME NEW j \in 1 .. Len(sent)
        PROVE  /\ sent[j].s <=> j = 1
               /\ sent[j].e => j = Len(sent) /\ at \in {"get", "dead"}
               /\ sent[j].m <=> sent[j].e
               /\ ~(sent[j].s /\ sent[j].e)
    <3>1. IsFragment(sent[j], j)
      BY <1>3 DEF Cut
    <3>2. Len(sent) <= Fragments(len)
          /\ (Len(sent) = Fragments(len) => at \in {"get", "dead"})
      BY <1>3 DEF Cut
    <3>3. j = Fragments(len) => j = Len(sent) /\ at \in {"get", "dead"}
      BY <2>1, <2>2, <3>2
    <3>4. ~(j = 1 /\ j = Fragments(len))
      BY <2>2
    <3> QED
      BY <3>1, <3>3, <3>4 DEF IsFragment
  <2>4. Finished => sent[Len(sent)].e
    BY DEF Inv, PlaceInv
  <2>5. \A j \in 1 .. Len(sent) - 1 :
           sent[j + 1].seq = (sent[j].seq + 1) % SeqModulus
    BY DEF Inv, SeqInv
  <2> QED
    BY <2>3, <2>4, <2>5 DEF FragmentsWellFormed
<1> QED
  BY <1>1, <1>2, <1>3 DEF Inv

\* What a receiver needs to put a NALU together: consecutive numbers, one
\* start, one end and the marker on it (rtp.c), for every size and length.
THEOREM FragmentsAreWellFormed == Spec => []FragmentsWellFormed
<1>1. Inv => FragmentsWellFormed
  BY CutIsWellFormed
<1> QED
  BY <1>1, PacketizerInvariant, PTL

\* One fragment and no other carries byte b: the one b's quotient names.
LEMMA OneFragment ==
    ASSUME Inv, Finished, Cut, NEW b \in 1 .. len - 1
    PROVE  \E f : {j \in 1 .. Len(sent) : sent[j].first <= b /\ b <= sent[j].last} = {f}
<1> DEFINE q == (b - 1) \div MaxPayload
<1>1. /\ len \in Nat /\ len > MaxPayload /\ Len(sent) \in Nat
      /\ MaxPayload \in Nat \ {0} /\ b \in Nat /\ b - 1 \in Nat /\ b < len
  BY Numbers DEF Cut
<1>2. q \in Nat /\ q * MaxPayload < b /\ b <= q * MaxPayload + MaxPayload
  <2>1. \A n \in Nat, d \in Nat \ {0} :
           /\ n \div d \in Nat /\ n % d \in Nat /\ n % d < d
           /\ n = (n \div d) * d + (n % d) /\ (n \div d) * d \in Nat
    BY SMTT(20)
  <2>2. /\ q \in Nat /\ (b - 1) % MaxPayload \in Nat /\ (b - 1) % MaxPayload < MaxPayload
        /\ b - 1 = q * MaxPayload + ((b - 1) % MaxPayload) /\ q * MaxPayload \in Nat
    BY <1>1, <2>1
  <2> HIDE DEF q
  <2> QED
    BY <1>1, <2>2
<1> HIDE DEF q
<1>3. /\ Slices(len) \in Nat /\ Rest(len) \in Nat /\ Rest(len) < MaxPayload
      /\ len + 1 = Slices(len) * MaxPayload + Rest(len) /\ Fragments(len) \in Nat
  BY <1>1, Division, FragmentCount
<1>4. Len(sent) = Fragments(len)
  <2>1. Len(sent) \in 1 .. Len(sent) /\ sent[Len(sent)].e
    BY <1>1 DEF Inv, PlaceInv, Finished, TypeOK
  <2> QED
    BY <2>1 DEF Cut, IsFragment
<1>5. \A a, c \in Nat : a * MaxPayload \in Nat
         /\ (a <= c => a * MaxPayload <= c * MaxPayload)
  <2> SUFFICES ASSUME NEW a \in Nat, NEW c \in Nat
               PROVE  /\ a * MaxPayload \in Nat
                      /\ a <= c => a * MaxPayload <= c * MaxPayload
    OBVIOUS
  <2>1. \A x, y \in Nat : x * y \in Nat
    OBVIOUS
  <2>2. a * MaxPayload \in Nat
    BY <1>1, <2>1
  <2>3. ASSUME a < c PROVE a * MaxPayload <= c * MaxPayload
    <3>1. a * MaxPayload + MaxPayload <= c * MaxPayload
      BY <2>3, Multiples
    <3>2. c * MaxPayload \in Nat
      BY <1>1, <2>1
    <3> QED
      BY <1>1, <2>2, <3>1, <3>2
  <2> QED
    BY <2>2, <2>3
<1>6. q + 1 \in 1 .. Len(sent)
  <2>1. ASSUME Slices(len) < q PROVE FALSE
    <3>1. Slices(len) * MaxPayload + MaxPayload <= q * MaxPayload
      BY <1>2, <1>3, <2>1, Multiples
    <3>2. Slices(len) * MaxPayload \in Nat /\ q * MaxPayload \in Nat
      BY <1>2, <1>3, <1>5
    <3> QED
      BY <1>1, <1>2, <1>3, <3>1, <3>2
  <2>2. ASSUME Slices(len) = q, Rest(len) = 0 PROVE FALSE
    <3>1. q * MaxPayload \in Nat
      BY <1>2, <1>5
    <3> QED
      BY <1>1, <1>2, <1>3, <2>2, <3>1
  <2> QED
    BY <1>2, <1>3, <1>4, <2>1, <2>2 DEF Fragments
<1>7. ASSUME NEW j \in 1 .. Len(sent)
      PROVE  /\ sent[j].first = 1 + (j - 1) * MaxPayload
             /\ sent[j].last = IF j <= Slices(len) THEN j * MaxPayload ELSE len + 1
  BY DEF Cut, IsFragment, PayloadLength
<1>8. sent[q + 1].first <= b /\ b <= sent[q + 1].last
  <2>1. (q + 1) - 1 = q /\ (q + 1) * MaxPayload = q * MaxPayload + MaxPayload
    <3>1. \A x, y \in Nat : (x + 1) * y = x * y + y
      OBVIOUS
    <3> QED
      BY <1>1, <1>2, <3>1
  <2>2. q * MaxPayload \in Nat
    BY <1>2, <1>5
  <2>3. /\ sent[q + 1].first = 1 + q * MaxPayload
        /\ \/ sent[q + 1].last = q * MaxPayload + MaxPayload
           \/ sent[q + 1].last = len + 1
    BY <1>6, <1>7, <2>1
  <2> QED
    BY <1>1, <1>2, <2>2, <2>3
<1>9. ASSUME NEW j \in 1 .. Len(sent), sent[j].first <= b, b <= sent[j].last
      PROVE  j = q + 1
  <2>1. j \in Nat /\ j - 1 \in Nat /\ (j - 1) * MaxPayload \in Nat
        /\ j * MaxPayload \in Nat /\ q * MaxPayload \in Nat
    BY <1>1, <1>2, <1>5
  <2>2. ~(q < j - 1)
    <3>1. ASSUME q < j - 1 PROVE q * MaxPayload + MaxPayload <= (j - 1) * MaxPayload
      BY <1>2, <2>1, <3>1, Multiples
    <3>2. 1 + (j - 1) * MaxPayload <= b
      BY <1>7, <1>9
    <3> QED
      BY <1>1, <1>2, <2>1, <3>1, <3>2
  <2>3. ~(j <= q)
    <3>1. CASE j <= Slices(len)
      <4>1. b <= j * MaxPayload
        BY <1>7, <1>9, <3>1
      <4>2. j <= q => j * MaxPayload <= q * MaxPayload
        BY <1>2, <1>5, <2>1
      <4> QED
        BY <1>1, <1>2, <2>1, <4>1, <4>2
    <3>2. CASE ~(j <= Slices(len))
      BY <1>2, <1>3, <1>4, <1>6, <3>2 DEF Fragments
    <3> QED
      BY <3>1, <3>2
  <2> QED
    BY <1>2, <2>1, <2>2, <2>3
<1>10. {j \in 1 .. Len(sent) : sent[j].first <= b /\ b <= sent[j].last} = {q + 1}
  BY <1>6, <1>8, <1>9
<1> QED
  BY <1>10

LEMMA EachByteOnce ==
    ASSUME Inv
    PROVE  EveryByteOnce
<1> SUFFICES ASSUME Finished, NEW b \in 1 .. len - 1
             PROVE  Cardinality({j \in 1 .. Len(sent) :
                                   sent[j].first <= b /\ b <= sent[j].last}) = 1
  BY DEF EveryByteOnce
<1> DEFINE carrying == {j \in 1 .. Len(sent) : sent[j].first <= b /\ b <= sent[j].last}
<1>1. \E f : carrying = {f}
  <2>1. CASE Whole
    <3>1. Len(sent) = 1 /\ sent[1].first = 0 /\ sent[1].last = len - 1
      BY <2>1 DEF Whole
    <3>2. len \in Nat
      BY Numbers
    <3>3. carrying = {1}
      BY <3>1, <3>2
    <3> QED
      BY <3>3
  <2>2. CASE Cut
    BY <2>2, OneFragment
  <2> QED
    BY <2>1, <2>2 DEF Inv, Finished
<1> HIDE DEF carrying
<1>2. Cardinality(carrying) = 1
  BY <1>1, FS_Singleton
<1> QED
  BY <1>2 DEF carrying

\* Every byte of a NALU goes out in one packet and in one only, whatever the
\* length and PAYLOAD_MAX_SIZE (the two loops of rtp.c leave no gap).
THEOREM EveryByteIsSentOnce == Spec => []EveryByteOnce
<1>1. Inv => EveryByteOnce
  BY EachByteOnce
<1> QED
  BY <1>1, PacketizerInvariant, PTL

=============================================================================
