-------------------------- MODULE CommandStreamProofs --------------------------
(***************************************************************************)
(* Proofs about the framing of commands, for every number and size of      *)
(* commands and every way TCP can cut the stream.  The invariant says what *)
(* a call of tcp_recv_data has in its buffer: the bytes from the place in  *)
(* the stream where it began, of the next command and of no other.         *)
(***************************************************************************)
EXTENDS CommandStream, SequenceTheorems, WellFoundedInduction, TLAPS

\* The commands lie one behind the other in the phone's stream.
Layout ==
    /\ \A i, j \in 1 .. Len(starts) : i < j => starts[i] < starts[j]
    /\ \A k \in 1 .. Len(starts) :
          /\ starts[k] < total
          /\ starts[k] + LengthBytes + sizes[k] = StartOf(k + 1)

\* n bytes of the stream, from the one behind place b.
Bytes(b, n) == [j \in 1 .. n |-> b + j]

\* What recv_cmd has read of the next command.
Reading ==
    LET k == Len(commands) + 1
    IN  /\ at = "length" =>
              /\ left > 0 /\ Len(buf) + left = LengthBytes
              /\ buf = Bytes(StartOf(k), Len(buf))
              /\ read = StartOf(k) + Len(buf)
        /\ at = "command" =>
              /\ k <= Len(starts)
              /\ left > 0 /\ Len(buf) + left = sizes[k]
              /\ buf = Bytes(starts[k] + LengthBytes, Len(buf))
              /\ read = starts[k] + LengthBytes + Len(buf)

Inv ==
    /\ TypeOK /\ Layout /\ Reading
    /\ Len(commands) <= Len(sizes)
    /\ CommandsIntact /\ BetweenCommands

-----------------------------------------------------------------------------
\* The numbers among the types.
LEMMA Numbers ==
    ASSUME Inv
    PROVE  /\ Len(starts) \in Nat /\ Len(sizes) = Len(starts)
           /\ Len(commands) \in Nat /\ Len(commands) <= Len(starts)
           /\ LengthBytes \in Nat \ {0} /\ Len(buf) \in Nat
           /\ read \in Nat /\ arrived \in Nat /\ total \in Nat
           /\ read <= arrived /\ arrived <= total
           /\ \A k \in 1 .. Len(starts) :
                 starts[k] \in Nat /\ sizes[k] \in CommandSizes /\ sizes[k] \in Nat \ {0}
<1>1. /\ starts \in Seq(Nat) /\ sizes \in Seq(CommandSizes) /\ Len(sizes) = Len(starts)
      /\ commands \in Seq(Seq(Nat)) /\ buf \in Seq(Nat) /\ Len(commands) <= Len(sizes)
      /\ total \in Nat /\ arrived \in 0 .. total /\ read \in 0 .. arrived
  BY DEF Inv, TypeOK
<1>2. \A k \in 1 .. Len(starts) : starts[k] \in Nat /\ sizes[k] \in CommandSizes
  BY <1>1
<1>3. CommandSizes \subseteq Nat \ {0} /\ LengthBytes \in Nat \ {0}
  BY StreamAssumption
<1>4. /\ Len(starts) \in Nat /\ Len(commands) \in Nat /\ Len(buf) \in Nat
      /\ arrived \in Nat /\ read \in Nat /\ read <= arrived /\ arrived <= total
  BY <1>1
<1> QED
  BY <1>1, <1>2, <1>3, <1>4

\* Concatenating sequences of numbers.
LEMMA ConcatType ==
    ASSUME NEW s \in Seq(Nat), NEW t \in Seq(Nat), NEW m, NEW n,
           Len(s) = m, Len(t) = n
    PROVE  s \o t \in Seq(Nat) /\ Len(s \o t) = m + n
  BY ConcatProperties, Zenon

\* It does not matter which two of three come first.
LEMMA ConcatThree ==
    ASSUME NEW s \in Seq(Nat), NEW t \in Seq(Nat), NEW u \in Seq(Nat)
    PROVE  (s \o t) \o u = s \o (t \o u)
  BY ConcatAssociative, SMTT(30)

\* A sequence is a piece when its elements are.
LEMMA IsPiece ==
    ASSUME NEW s \in Seq(Nat), NEW b \in Nat, NEW n \in Nat, Len(s) = n,
           \A j \in 1 .. n : s[j] = b + j
    PROVE  s = Bytes(b, n)
  BY DEF Bytes

\* A piece is a sequence of numbers.
LEMMA BytesType ==
    ASSUME NEW b \in Nat, NEW n \in Nat
    PROVE  Bytes(b, n) \in Seq(Nat) /\ Len(Bytes(b, n)) = n
  BY DEF Bytes

\* Two adjoining pieces are one.
LEMMA BytesJoin ==
    ASSUME NEW b \in Nat, NEW m \in Nat, NEW n \in Nat
    PROVE  Bytes(b, m) \o Bytes(b + m, n) = Bytes(b, m + n)
<1> DEFINE old == Bytes(b, m)
           new == Bytes(b + m, n)
<1>0. m + n \in Nat
  OBVIOUS
<1>1. old \in Seq(Nat) /\ Len(old) = m
  BY BytesType
<1>2. new \in Seq(Nat) /\ Len(new) = n
  <2>1. b + m \in Nat
    OBVIOUS
  <2> QED
    BY <2>1, BytesType
<1>3. old \o new \in Seq(Nat) /\ Len(old \o new) = m + n
  <2> HIDE DEF old, new
  <2> QED
    BY <1>1, <1>2, ConcatType
<1>4. \A j \in 1 .. m + n : (old \o new)[j] = b + j
  <2> SUFFICES ASSUME NEW j \in 1 .. m + n PROVE (old \o new)[j] = b + j
    OBVIOUS
  <2>1. CASE j <= m
    <3>1. old[j] = b + j
      BY <2>1 DEF Bytes
    <3> HIDE DEF old, new
    <3> QED
      BY <1>1, <1>2, <2>1, <3>1
  <2>2. CASE j > m
    <3>1. j - m \in 1 .. n
      BY <2>2
    <3>2. new[j - m] = b + j
      BY <3>1 DEF Bytes
    <3>3. (old \o new)[j] = new[j - m]
      <4>1. j \in 1 .. Len(old) + Len(new) /\ ~(j <= Len(old)) /\ Len(old) = m
        BY <1>1, <1>2, <2>2
      <4> HIDE DEF old, new
      <4> QED
        BY <1>1, <1>2, <4>1, SMTT(20)
    <3> QED
      BY <3>2, <3>3
  <2> HIDE DEF old, new
  <2>3. j <= m \/ j > m
    OBVIOUS
  <2> QED
    BY <2>1, <2>2, <2>3
<1>5. old \o new = Bytes(b, m + n)
  <2> HIDE DEF old, new
  <2> QED
    BY <1>3, <1>4, <1>0, IsPiece
<1> QED
  BY <1>5

\* Receiving n more bytes extends the piece of the stream in the buffer.
LEMMA ReceivedIsPiece ==
    ASSUME NEW b \in Nat, NEW m \in Nat, NEW n \in Nat,
           buf = Bytes(b, m), read = b + m
    PROVE  Received(n) = Bytes(b, m + n) /\ Len(Received(n)) = m + n
<1>1. Received(n) = Bytes(b, m) \o Bytes(b + m, n)
  BY DEF Received, Bytes
<1>2. Received(n) = Bytes(b, m + n)
  BY <1>1, BytesJoin
<1>3. m + n \in Nat
  OBVIOUS
<1>4. Len(Bytes(b, m + n)) = m + n
  BY <1>3, BytesType
<1> QED
  BY <1>2, <1>4

\* A buffer with the length of command k in it yields this length only.
LEMMA LengthIsRead ==
    ASSUME Inv, NEW k \in 1 .. Len(starts)
    PROVE  LengthIn(Bytes(starts[k], LengthBytes)) = {sizes[k]}
<1>1. ASSUME NEW i \in 1 .. Len(starts),
             Bytes(starts[k], LengthBytes) = Bytes(starts[i], LengthBytes)
      PROVE  i = k
  <2>1. starts[k] + 1 = starts[i] + 1
    <3>1. Bytes(starts[k], LengthBytes)[1] = starts[k] + 1
      BY StreamAssumption DEF Bytes
    <3>2. Bytes(starts[i], LengthBytes)[1] = starts[i] + 1
      BY StreamAssumption DEF Bytes
    <3> QED
      BY <1>1, <3>1, <3>2
  <2>2. starts[k] \in Nat /\ starts[i] \in Nat
    <3>1. starts \in Seq(Nat)
      BY DEF Inv, TypeOK
    <3> QED
      BY <3>1
  <2>3. i \in Nat /\ k \in Nat /\ ~(i < k) /\ ~(k < i)
    BY <2>1, <2>2 DEF Inv, Layout
  <2> QED
    BY <2>3
<1> QED
  BY <1>1 DEF LengthIn, Bytes

-----------------------------------------------------------------------------
LEMMA InitInv == Init => Inv
<1> SUFFICES ASSUME Init PROVE Inv
  OBVIOUS
<1>1. TypeOK
  BY StreamAssumption DEF Init, TypeOK
<1>2. Layout /\ Reading /\ CommandsIntact /\ BetweenCommands
  BY DEF Init, Layout, Reading, CommandsIntact, BetweenCommands, StartOf
<1> QED
  BY <1>1, <1>2 DEF Init, Inv

\* Steps that leave the phone's stream and recv_cmd's part of it alone.
LEMMA QuietStep ==
    ASSUME Inv, TypeOK', UNCHANGED <<starts, sizes, total>>, UNCHANGED recvVars,
           \/ at' = at /\ left' = left
           \/ /\ at' \notin {"length", "command"}
              /\ \/ at' \in {"closed", "failed"}
                 \/ at \in {"recv", "dispose", "check", "send"}
                 \/ at = "length" /\ buf = << >>
    PROVE  Inv'
<1>1. StartOf(Len(commands) + 1)' = StartOf(Len(commands) + 1)
  BY DEF StartOf, recvVars
<1>2. Layout'
  BY DEF Inv, Layout, StartOf
<1>3. CommandsIntact' /\ (Len(commands) <= Len(sizes))'
  BY DEF Inv, CommandsIntact, recvVars
<1>4. Reading'
  BY <1>1 DEF Inv, Reading, Bytes, recvVars
<1>5. BetweenCommands'
  <2>1. CASE at = "length" /\ buf = << >>
    <3>1. Reading
      BY DEF Inv
    <3>2. read = StartOf(Len(commands) + 1)
      <4>1. Len(buf) = 0 /\ read \in Nat
        BY <2>1 DEF Inv, TypeOK
      <4>2. read = StartOf(Len(commands) + 1) + Len(buf)
        BY <2>1, <3>1 DEF Reading
      <4>3. StartOf(Len(commands) + 1) \in Nat
        <5>1. Len(commands) + 1 \in Nat \ {0} /\ Len(starts) \in Nat /\ total \in Nat
          BY Numbers
        <5>2. \A i \in 1 .. Len(starts) : starts[i] \in Nat
          BY Numbers
        <5> QED
          BY <5>1, <5>2 DEF StartOf
      <4> QED
        BY <4>1, <4>2, <4>3
    <3> QED
      BY <1>1, <3>2 DEF BetweenCommands, recvVars
  <2>2. CASE ~(at = "length" /\ buf = << >>)
    BY <1>1, <2>2 DEF Inv, BetweenCommands, recvVars
  <2> QED
    BY <2>1, <2>2
<1> QED
  BY <1>2, <1>3, <1>4, <1>5 DEF Inv

\* The phone appends a command to its stream.
LEMMA CommandStep ==
    ASSUME Inv, TypeOK', NEW n \in CommandSizes, Command(n)
    PROVE  Inv'
<1> DEFINE L == Len(starts)
<1>1. /\ L \in Nat /\ Len(sizes) = L /\ total \in Nat /\ n \in Nat \ {0}
      /\ LengthBytes \in Nat \ {0}
  BY StreamAssumption DEF Inv, TypeOK
<1>2. /\ Len(starts') = L + 1 /\ Len(sizes') = L + 1
      /\ starts'[L + 1] = total /\ sizes'[L + 1] = n
      /\ \A k \in 1 .. L : starts'[k] = starts[k] /\ sizes'[k] = sizes[k]
  <2>1. starts' = Append(starts, total) /\ sizes' = Append(sizes, n)
    BY DEF Command
  <2>2. starts \in Seq(Nat) /\ sizes \in Seq(CommandSizes)
    BY DEF Inv, TypeOK
  <2>3. /\ Len(starts') = L + 1 /\ starts'[L + 1] = total
        /\ \A k \in 1 .. L : starts'[k] = starts[k]
    BY <1>1, <2>1, <2>2, SMTT(20)
  <2>4. /\ Len(sizes') = L + 1 /\ sizes'[L + 1] = n
        /\ \A k \in 1 .. L : sizes'[k] = sizes[k]
    BY <1>1, <2>1, <2>2, SMTT(20)
  <2> QED
    BY <2>3, <2>4
<1>3. total' = total + LengthBytes + n
  BY DEF Command
<1>4. \A k \in 1 .. L + 1 : StartOf(k)' = StartOf(k)
  BY <1>1, <1>2, <1>3 DEF StartOf
<1>5. \A k \in 1 .. L : starts[k] \in Nat /\ starts[k] < total
  <2>1. \A k \in 1 .. L : starts[k] \in Nat
    BY Numbers
  <2>2. \A k \in 1 .. L : starts[k] < total
    BY DEF Inv, Layout
  <2> QED
    BY <2>1, <2>2
<1>6. Layout'
  <2>1. ASSUME NEW i \in 1 .. L + 1, NEW j \in 1 .. L + 1, i < j
        PROVE  starts'[i] < starts'[j]
    <3>1. i \in 1 .. L
      BY <1>1, <2>1
    <3>2. CASE j \in 1 .. L
      BY <1>2, <2>1, <3>1, <3>2 DEF Inv, Layout
    <3>3. CASE j = L + 1
      BY <1>2, <1>5, <3>1, <3>3
    <3> QED
      BY <1>1, <3>2, <3>3
  <2>2. ASSUME NEW k \in 1 .. L + 1
        PROVE  /\ starts'[k] < total'
               /\ starts'[k] + LengthBytes + sizes'[k] = StartOf(k + 1)'
    <3>1. CASE k \in 1 .. L
      <4>1. k + 1 \in 1 .. L + 1
        BY <1>1, <3>1
      <4>2. starts[k] + LengthBytes + sizes[k] = StartOf(k + 1)
        BY <3>1 DEF Inv, Layout
      <4>3. starts[k] < total'
        BY <1>1, <1>3, <1>5, <3>1
      <4> QED
        BY <1>2, <1>4, <3>1, <4>1, <4>2, <4>3
    <3>2. CASE k = L + 1
      <4>1. StartOf(k + 1)' = total'
        BY <1>1, <1>2, <3>2 DEF StartOf
      <4> QED
        BY <1>1, <1>2, <1>3, <3>2, <4>1
    <3> QED
      BY <1>1, <3>1, <3>2
  <2> QED
    BY <1>2, <2>1, <2>2 DEF Layout
<1>7. Len(commands) \in Nat /\ Len(commands) + 1 \in 1 .. L + 1
  BY <1>1, Numbers
<1>8. UNCHANGED <<read, buf, commands, at, left>>
  BY DEF Command, recvVars
<1>9. StartOf(Len(commands) + 1)' = StartOf(Len(commands) + 1)
  BY <1>4, <1>7, <1>8
<1>10. Reading'
  BY <1>1, <1>2, <1>7, <1>8, <1>9 DEF Inv, Reading, Bytes
<1>11. CommandsIntact' /\ BetweenCommands' /\ (Len(commands) <= Len(sizes))'
  BY <1>1, <1>2, <1>7, <1>8, <1>9 DEF Inv, CommandsIntact, BetweenCommands
<1> QED
  BY <1>6, <1>10, <1>11 DEF Inv

\* recv_cmd begins with an empty buffer between two commands.
LEMMA RecvCmdStep ==
    ASSUME Inv, TypeOK', RecvCmd
    PROVE  Inv'
<1>1. UNCHANGED <<starts, sizes, total, read, commands>>
  BY DEF RecvCmd, phoneVars
<1>2. StartOf(Len(commands) + 1)' = StartOf(Len(commands) + 1)
  BY <1>1 DEF StartOf
<1>3. read = StartOf(Len(commands) + 1) /\ read \in Nat
  BY DEF RecvCmd, Inv, BetweenCommands, TypeOK
<1>4. /\ buf' = Bytes(read, Len(buf')) /\ Len(buf') = 0
      /\ left' = LengthBytes /\ at' = "length"
  BY DEF RecvCmd, Bytes
<1>5. Reading'
  BY <1>1, <1>2, <1>3, <1>4, StreamAssumption DEF Reading
<1>6. Layout'
  BY <1>1 DEF Inv, Layout, StartOf
<1>7. CommandsIntact' /\ (Len(commands) <= Len(sizes))'
  BY <1>1 DEF Inv, CommandsIntact
<1>8. BetweenCommands'
  BY <1>4 DEF BetweenCommands
<1> QED
  BY <1>5, <1>6, <1>7, <1>8 DEF Inv

\* Bytes of the length.  They are bytes of the next command, which has
\* therefore begun, so its size is what the last of them completes.
LEMMA RecvLengthStep ==
    ASSUME Inv, TypeOK', RecvLength
    PROVE  Inv'
<1> DEFINE k == Len(commands) + 1
           m == Len(buf)
<1>1. PICK n \in Portion :
        /\ read' = read + n
        /\ IF n < left
           THEN left' = left - n /\ buf' = Received(n) /\ UNCHANGED at
           ELSE /\ \E l \in LengthIn(Received(n)) : left' = CommandLeft(l)
                /\ buf' = << >>
                /\ at' = "command"
  BY DEF RecvLength
<1>2. UNCHANGED <<starts, sizes, total, arrived, commands>> /\ at = "length"
  BY DEF RecvLength, phoneVars
<1>3. /\ m \in Nat /\ left \in Nat \ {0} /\ m + left = LengthBytes
      /\ buf = Bytes(StartOf(k), m) /\ read = StartOf(k) + m
  <2>1. m \in Nat /\ left \in Nat
    BY Numbers DEF Inv, TypeOK
  <2>2. /\ left > 0 /\ m + left = LengthBytes
        /\ buf = Bytes(StartOf(k), m) /\ read = StartOf(k) + m
    BY <1>2 DEF Inv, Reading
  <2> QED
    BY <2>1, <2>2
<1>4. /\ n \in Nat \ {0} /\ n <= left /\ read + n <= arrived
      /\ read \in Nat /\ arrived <= total /\ total \in Nat /\ arrived \in Nat
  <2>1. n \in 1 .. left /\ n <= arrived - read
    BY DEF Portion, Pending
  <2> HIDE DEF k, m
  <2> QED
    BY <1>3, <2>1, Numbers
<1>5. k \in Nat \ {0} /\ Len(starts) \in Nat /\ Len(sizes) = Len(starts)
      /\ k - 1 <= Len(starts)
  BY Numbers
<1>6. k \in 1 .. Len(starts)
  <2>1. CASE k > Len(starts)
    <3>1. StartOf(k) = total
      BY <1>5, <2>1 DEF StartOf
    <3> QED
      BY <1>3, <1>4, <3>1
  <2> QED
    BY <1>5, <2>1
<1>7. StartOf(k) = starts[k] /\ starts[k] \in Nat /\ sizes[k] \in CommandSizes
  <2>1. \A i \in 1 .. Len(starts) : starts[i] \in Nat /\ sizes[i] \in CommandSizes
    BY Numbers
  <2> HIDE DEF k
  <2> QED
    BY <1>5, <1>6, <2>1 DEF StartOf
<1>8. Received(n) = Bytes(starts[k], m + n) /\ Len(Received(n)) = m + n
  <2> HIDE DEF k, m
  <2> QED
    BY <1>3, <1>4, <1>7, ReceivedIsPiece
<1>9. StartOf(k)' = StartOf(k) /\ k' = k
  BY <1>2 DEF StartOf
<1>10. Layout'
  BY <1>2 DEF Inv, Layout, StartOf
<1>11. CommandsIntact' /\ (Len(commands) <= Len(sizes))'
  BY <1>2 DEF Inv, CommandsIntact
<1>12. BetweenCommands' /\ Reading'
  <2>1. CASE n < left
    <3>1. at' = "length" /\ left' = left - n /\ buf' = Bytes(starts[k], m + n)
          /\ Len(buf') = m + n /\ read' = starts[k] + (m + n)
      BY <1>1, <1>2, <1>3, <1>4, <1>7, <1>8, <2>1
    <3>2. left' > 0 /\ Len(buf') + left' = LengthBytes
      BY <1>3, <1>4, <2>1, <3>1
    <3> QED
      BY <1>7, <1>9, <3>1, <3>2 DEF BetweenCommands, Reading, Bytes
  <2>2. CASE ~(n < left)
    <3>1. n = left /\ m + n = LengthBytes
      BY <1>3, <1>4, <2>2
    <3>2. LengthIn(Received(n)) = {sizes[k]}
      BY <1>6, <1>8, <3>1, LengthIsRead
    <3>3. at' = "command" /\ left' = sizes[k] /\ buf' = << >>
      BY <1>1, <2>2, <3>2 DEF CommandLeft
    <3>4. read' = starts[k] + LengthBytes
      BY <1>1, <1>3, <1>4, <1>7, <3>1
    <3>5. sizes[k] \in Nat /\ sizes[k] > 0
      <4> HIDE DEF k
      <4> QED
        BY <1>6, Numbers
    <3>6. Len(buf') = 0 /\ buf' = Bytes(starts[k] + LengthBytes, 0)
      BY <3>3 DEF Bytes
    <3>7. starts'[k] = starts[k] /\ sizes'[k] = sizes[k] /\ k <= Len(starts')
      BY <1>2, <1>6
    <3>8. starts[k] + LengthBytes + 0 = starts[k] + LengthBytes /\ 0 + sizes[k] = sizes[k]
      BY <1>7, <3>5, StreamAssumption
    <3> HIDE DEF m
    <3> QED
      BY <1>2, <3>3, <3>4, <3>5, <3>6, <3>7, <3>8 DEF BetweenCommands, Reading, Bytes
  <2> QED
    BY <2>1, <2>2
<1> QED
  BY <1>10, <1>11, <1>12 DEF Inv

\* Bytes of the command; with the last of them the stream stands at the next.
LEMMA RecvCommandStep ==
    ASSUME Inv, TypeOK', RecvCommand
    PROVE  Inv'
<1> DEFINE k == Len(commands) + 1
           m == Len(buf)
           b == starts[k] + LengthBytes
<1>1. PICK n \in Portion :
        /\ read' = read + n
        /\ left' = left - n
        /\ buf' = Received(n)
        /\ IF n < left THEN UNCHANGED <<at, commands>>
           ELSE at' = "dispose" /\ commands' = Append(commands, buf')
  BY DEF RecvCommand
<1>2. UNCHANGED <<starts, sizes, total, arrived>> /\ at = "command"
  BY DEF RecvCommand, phoneVars
<1>3. /\ k <= Len(starts) /\ m \in Nat /\ left \in Nat \ {0} /\ m + left = sizes[k]
      /\ buf = Bytes(b, m) /\ read = b + m
  <2>1. m \in Nat /\ left \in Nat
    BY Numbers DEF Inv, TypeOK
  <2>2. /\ k <= Len(starts) /\ left > 0 /\ m + left = sizes[k]
        /\ buf = Bytes(b, m) /\ read = b + m
    BY <1>2 DEF Inv, Reading
  <2> QED
    BY <2>1, <2>2
<1>4. n \in Nat \ {0} /\ n <= left
  BY <1>3 DEF Portion
<1>5. k \in 1 .. Len(starts) /\ Len(sizes) = Len(starts) /\ Len(starts) \in Nat
      /\ Len(commands) \in Nat
  BY <1>3, Numbers
<1>6. starts[k] \in Nat /\ b \in Nat
  <2>1. \A i \in 1 .. Len(starts) : starts[i] \in Nat
    BY Numbers
  <2>2. starts[k] \in Nat
    BY <1>5, <2>1
  <2> QED
    BY <2>2, StreamAssumption
<1>7. Received(n) = Bytes(b, m + n) /\ Len(Received(n)) = m + n
  <2> HIDE DEF k, m, b
  <2> QED
    BY <1>3, <1>4, <1>6, ReceivedIsPiece
<1>8. Layout'
  BY <1>2 DEF Inv, Layout, StartOf
<1>9. read' = b + (m + n)
  BY <1>1, <1>3, <1>4, <1>6
<1>10. CASE n < left
  <2>1. UNCHANGED <<at, commands>> /\ left' = left - n /\ left' > 0
        /\ (m + n) + left' = sizes[k]
    BY <1>1, <1>3, <1>4, <1>10
  <2>2. buf' = Bytes(b, m + n) /\ Len(buf') = m + n
    BY <1>1, <1>7
  <2>3. CommandsIntact' /\ (Len(commands) <= Len(sizes))'
    BY <1>2, <2>1 DEF Inv, CommandsIntact
  <2>4. BetweenCommands' /\ Reading'
    BY <1>2, <1>3, <1>9, <2>1, <2>2 DEF BetweenCommands, Reading, Bytes
  <2> QED
    BY <1>8, <2>3, <2>4 DEF Inv
<1>11. CASE ~(n < left)
  <2>1. n = left /\ m + n = sizes[k]
    BY <1>3, <1>4, <1>11
  <2>2. at' = "dispose" /\ commands' = Append(commands, Bytes(b, sizes[k]))
    BY <1>1, <1>7, <1>11, <2>1
  <2>3. /\ Len(commands') = k /\ commands'[k] = Bytes(b, sizes[k])
        /\ \A i \in 1 .. Len(commands) : commands'[i] = commands[i]
    BY <2>2 DEF Inv, TypeOK
  <2>4. (Len(commands) <= Len(sizes))'
    BY <1>2, <1>5, <2>3
  <2>5. CommandsIntact'
    <3> SUFFICES ASSUME NEW i \in 1 .. k
                 PROVE  /\ i <= Len(sizes)
                        /\ commands'[i] = [j \in 1 .. sizes[i] |-> starts[i] + LengthBytes + j]
      BY <1>2, <2>3 DEF CommandsIntact
    <3>1. CASE i = k
      BY <1>5, <2>3, <3>1 DEF Bytes
    <3>2. CASE i # k
      <4>1. i \in 1 .. Len(commands)
        BY <1>5, <3>2
      <4> QED
        BY <2>3, <4>1 DEF Inv, CommandsIntact
    <3> QED
      BY <3>1, <3>2
  <2>6. BetweenCommands'
    <3>1. starts[k] + LengthBytes + sizes[k] = StartOf(k + 1)
      BY <1>5 DEF Inv, Layout
    <3>2. read' = StartOf(k + 1)
      BY <1>9, <2>1, <3>1
    <3>3. StartOf(Len(commands) + 1)' = StartOf(k + 1)
      <4>1. (Len(commands) + 1)' = k + 1
        BY <2>3
      <4> HIDE DEF k
      <4> QED
        BY <1>2, <4>1 DEF StartOf
    <3> QED
      BY <3>2, <3>3 DEF BetweenCommands
  <2>7. Reading'
    BY <2>2 DEF Reading
  <2> QED
    BY <1>8, <2>4, <2>5, <2>6, <2>7 DEF Inv
<1> QED
  BY <1>10, <1>11

-----------------------------------------------------------------------------
\* Whatever recv returns is a part of the stream.
LEMMA PortionType ==
    ASSUME Inv, NEW n \in Portion
    PROVE  /\ n \in Nat \ {0} /\ n <= left /\ left - n \in Nat
           /\ read + n \in 0 .. arrived
           /\ Received(n) \in Seq(Nat)
<1>1. left \in Nat /\ buf \in Seq(Nat) /\ read \in Nat /\ arrived \in Nat
  BY Numbers DEF Inv, TypeOK
<1>2. n \in Nat \ {0} /\ n <= left /\ n <= arrived - read
  BY <1>1 DEF Portion, Pending
<1>3. [j \in 1 .. n |-> read + j] \in Seq(Nat)
  BY <1>1, <1>2
<1> QED
  BY <1>1, <1>2, <1>3 DEF Received

\* Every step keeps the types.
LEMMA TypeStep ==
    ASSUME Inv, [Next]_vars
    PROVE  TypeOK'
<1> USE DEF TypeOK
<1>0. TypeOK
  BY DEF Inv
<1>1. ASSUME NEW n \in CommandSizes, Command(n) PROVE TypeOK'
  <2>1. total + LengthBytes + n \in Nat /\ total <= total + LengthBytes + n
    BY <1>0, StreamAssumption
  <2>2. starts' \in Seq(Nat) /\ Len(starts') = Len(starts) + 1
    BY <1>0, <1>1 DEF Command
  <2>3. sizes' \in Seq(CommandSizes) /\ Len(sizes') = Len(sizes) + 1
    BY <1>0, <1>1 DEF Command
  <2>4. Len(sizes') <= MaxCommands
    BY <1>0, <1>1, <2>3, StreamAssumption DEF Command
  <2>5. total' \in Nat /\ arrived' \in 0 .. total'
    BY <1>0, <1>1, <2>1 DEF Command
  <2> QED
    BY <1>0, <1>1, <2>2, <2>3, <2>4, <2>5 DEF Command, recvVars, sendVars
<1>2. CASE Arrive
  BY <1>0, <1>2 DEF Arrive, recvVars, sendVars
<1>3. CASE PhoneGoes
  BY <1>0, <1>3 DEF PhoneGoes, recvVars, sendVars
<1>4. CASE RecvCmd
  BY <1>0, <1>4, StreamAssumption DEF RecvCmd, phoneVars, sendVars
<1>5. CASE RecvLength
  <2>1. PICK n \in Portion :
          /\ read' = read + n
          /\ IF n < left
             THEN left' = left - n /\ buf' = Received(n) /\ UNCHANGED at
             ELSE /\ \E l \in LengthIn(Received(n)) : left' = CommandLeft(l)
                  /\ buf' = << >>
                  /\ at' = "command"
    BY <1>5 DEF RecvLength
  <2>2. LengthIn(Received(n)) \subseteq Nat
    <3>1. \A k \in 1 .. Len(starts) : sizes[k] \in Nat
      BY Numbers
    <3> QED
      BY <3>1, StreamAssumption DEF LengthIn
  <2>3. left' \in Nat /\ buf' \in Seq(Nat) /\ at' \in {"length", "command"}
    <3>1. left - n \in Nat /\ Received(n) \in Seq(Nat)
      BY PortionType
    <3>2. at = "length"
      BY <1>5 DEF RecvLength
    <3>3. CASE n < left
      BY <2>1, <3>1, <3>2, <3>3
    <3>4. CASE ~(n < left)
      <4>1. PICK l \in LengthIn(Received(n)) : left' = CommandLeft(l)
        BY <2>1, <3>4
      <4>2. left' \in Nat
        BY <2>2, <4>1 DEF CommandLeft
      <4> QED
        BY <2>1, <3>4, <4>2
    <3> QED
      BY <3>3, <3>4
  <2>4. read' \in 0 .. arrived
    BY <2>1, PortionType
  <2>5. UNCHANGED <<starts, sizes, total, arrived, peer, commands, echo, echoes, out>>
    BY <1>5 DEF RecvLength, phoneVars, sendVars
  <2>6. at' # "send" /\ at' \in {"recv", "length", "command", "dispose", "check", "send",
                                "closed", "failed"}
    BY <2>3
  <2> QED
    BY <1>0, <2>3, <2>4, <2>5, <2>6
<1>6. CASE RecvCommand
  <2>1. PICK n \in Portion :
          /\ read' = read + n
          /\ left' = left - n
          /\ buf' = Received(n)
          /\ IF n < left THEN UNCHANGED <<at, commands>>
             ELSE at' = "dispose" /\ commands' = Append(commands, buf')
    BY <1>6 DEF RecvCommand
  <2>2. left' \in Nat /\ buf' \in Seq(Nat) /\ read' \in 0 .. arrived
    BY <2>1, PortionType
  <2>3. commands' \in Seq(Seq(Nat)) /\ at' \in {"command", "dispose"}
    <3>1. at = "command" /\ commands \in Seq(Seq(Nat))
      BY <1>0, <1>6 DEF RecvCommand
    <3>2. CASE n < left
      BY <2>1, <3>1, <3>2
    <3>3. CASE ~(n < left)
      <4>1. commands' = Append(commands, buf') /\ at' = "dispose"
        BY <2>1, <3>3
      <4> QED
        BY <2>2, <3>1, <4>1
    <3> QED
      BY <3>2, <3>3
  <2>4. UNCHANGED <<starts, sizes, total, arrived, peer, echo, echoes, out>>
    BY <1>6 DEF RecvCommand, phoneVars, sendVars
  <2>5. at' # "send" /\ at' \in {"recv", "length", "command", "dispose", "check", "send",
                                "closed", "failed"}
    BY <2>3
  <2> QED
    BY <1>0, <2>2, <2>3, <2>4, <2>5
<1>7. CASE NoData \/ RecvClosed \/ RecvFail \/ Quit \/ SendFail
  BY <1>0, <1>7
     DEF NoData, RecvClosed, RecvFail, Quit, SendFail, phoneVars, recvVars, sendVars
<1>8. ASSUME NEW n \in EchoSizes, SendEcho(n) PROVE TypeOK'
  <2>1. echo' \in EchoSizes /\ left' \in Nat /\ left' <= echo' /\ at' = "send"
    BY <1>8, StreamAssumption DEF SendEcho
  <2>2. echoes' \in Seq(EchoSizes) /\ Len(echoes') <= MaxEchoes
    BY <1>0, <1>8, StreamAssumption DEF SendEcho
  <2> QED
    BY <1>0, <1>8, <2>1, <2>2 DEF SendEcho, phoneVars, recvVars
<1>9. CASE Dispose
  BY <1>0, <1>8, <1>9 DEF Dispose, phoneVars, recvVars, sendVars
<1>10. CASE Check
  BY <1>0, <1>8, <1>10 DEF Check, phoneVars, recvVars, sendVars
<1>11. CASE Send
  <2>1. PICK n \in 1 .. left :
          /\ out' = out \o Sent(n)
          /\ left' = left - n
          /\ at' = IF n = left THEN "check" ELSE "send"
    BY <1>11 DEF Send
  <2>2. left \in Nat /\ echo \in Nat /\ left <= echo /\ n \in Nat /\ n <= left
    BY <1>0, <1>11, StreamAssumption DEF Send
  <2>3. Sent(n) \in Seq(Nat)
    <3>1. \A j \in 1 .. n : (echo - left) + j \in Nat
      BY <2>2
    <3> QED
      BY <2>2, <3>1 DEF Sent
  <2>4. out' \in Seq(Nat)
    BY <1>0, <2>1, <2>3
  <2>5. left' \in Nat /\ left' <= echo /\ at' \in {"check", "send"}
    BY <2>1, <2>2
  <2> QED
    BY <1>0, <1>11, <2>4, <2>5 DEF Send, phoneVars, recvVars
<1>12. CASE UNCHANGED vars
  BY <1>0, <1>12 DEF vars, phoneVars, recvVars, sendVars
<1> QED
  BY <1>1, <1>2, <1>3, <1>4, <1>5, <1>6, <1>7, <1>9, <1>10, <1>11, <1>12
     DEF Next, ServerNext

\* Every step keeps the invariant: four change the stream or what has been
\* read of it, the others leave both alone.
LEMMA StepInv == Inv /\ [Next]_vars => Inv'
<1> SUFFICES ASSUME Inv, [Next]_vars PROVE Inv'
  OBVIOUS
<1>0. TypeOK'
  BY TypeStep
<1>1. CASE \E n \in CommandSizes : Command(n)
  BY <1>0, <1>1, CommandStep
<1>2. CASE RecvCmd
  BY <1>0, <1>2, RecvCmdStep
<1>3. CASE RecvLength
  BY <1>0, <1>3, RecvLengthStep
<1>4. CASE RecvCommand
  BY <1>0, <1>4, RecvCommandStep
<1>5. CASE Arrive \/ PhoneGoes \/ UNCHANGED vars
  <2>1. /\ UNCHANGED <<starts, sizes, total>> /\ UNCHANGED recvVars
        /\ at' = at /\ left' = left
    BY <1>5 DEF Arrive, PhoneGoes, vars, phoneVars
  <2> QED
    BY <1>0, <2>1, QuietStep
<1>6. CASE NoData \/ RecvClosed \/ RecvFail \/ Quit \/ SendFail
  <2>1. UNCHANGED <<starts, sizes, total>> /\ UNCHANGED recvVars
    BY <1>6 DEF NoData, RecvClosed, RecvFail, Quit, SendFail, phoneVars
  <2>2. \/ at' \in {"closed", "failed"}
        \/ at' = "check" /\ at = "length" /\ buf = << >>
    BY <1>6 DEF NoData, RecvClosed, RecvFail, Quit, SendFail
  <2> QED
    BY <1>0, <2>1, <2>2, QuietStep
<1>7. CASE Dispose \/ Check \/ Send
  <2>1. UNCHANGED <<starts, sizes, total>> /\ UNCHANGED recvVars
    BY <1>7 DEF Dispose, Check, Send, SendEcho, phoneVars
  <2>2. at \in {"dispose", "check", "send"} /\ at' \in {"recv", "check", "send"}
    BY <1>7 DEF Dispose, Check, Send, SendEcho
  <2> QED
    BY <1>0, <2>1, <2>2, QuietStep
<1> QED
  BY <1>1, <1>2, <1>3, <1>4, <1>5, <1>6, <1>7 DEF Next, ServerNext

-----------------------------------------------------------------------------
\* The strengthened invariant holds of every run: however many commands of
\* whatever sizes the phone sends, and however TCP cuts them.
THEOREM StreamInvariant == Spec => []Inv
  BY InitInv, StepInv, PTL DEF Spec

\* Types hold; tcp_recv_data and tcp_send_data never move more than they were
\* asked to, so that buff_len does not pass zero.
THEOREM StreamTypeCorrect == Spec => []TypeOK
<1>1. Inv => TypeOK
  BY DEF Inv
<1> QED
  BY <1>1, StreamInvariant, PTL

\* recv_cmd returns the phone's commands, whole, in order and none twice.
THEOREM CommandsAreIntact == Spec => []CommandsIntact
<1>1. Inv => CommandsIntact
  BY DEF Inv
<1> QED
  BY <1>1, StreamInvariant, PTL

\* Every call of recv_cmd leaves the stream between two commands, the call
\* that finds no data included.
THEOREM CallsEndBetweenCommands == Spec => []BetweenCommands
<1>1. Inv => BetweenCommands
  BY DEF Inv
<1> QED
  BY <1>1, StreamInvariant, PTL
-----------------------------------------------------------------------------
(* FlattenSeq, a recursive function: the induction over the length of its   *)
(* argument is made by taking the least length that is a counterexample.    *)

\* A set of numbers that is not empty has a least one.
LEMMA Least ==
    ASSUME NEW T \in SUBSET Nat, T # {}
    PROVE  \E x \in T : \A y \in T : x <= y
<1> DEFINE Less == {ss \in Nat \X Nat : ss[1] < ss[2]}
<1>1. IsWellFoundedOn(Less, Nat)
  BY NatLessThanWellFounded DEF OpToRel
<1> HIDE DEF Less
<1>2. PICK x \in T : \A y \in T : ~(<<y, x>> \in Less)
  BY <1>1, WFMin
<1>3. \A y \in T : ~(y < x)
  <2> SUFFICES ASSUME NEW y \in T, y < x PROVE FALSE
    OBVIOUS
  <2>1. <<y, x>> \in Less
    BY DEF Less
  <2> QED
    BY <1>2, <2>1
<1>4. \A y \in T : x <= y
  BY <1>3
<1> QED
  BY <1>4

\* f[i] is the first i sequences of s one behind the other, for i up to k.
Joins(f, s, k) ==
    f = [i \in 1 .. k |-> IF i = 1 THEN s[i] ELSE f[i - 1] \o s[i]]

\* Its elements.
LEMMA JoinsAt ==
    ASSUME NEW s, NEW k \in Nat, NEW f, Joins(f, s, k), NEW i \in 1 .. k
    PROVE  f[i] = IF i = 1 THEN s[i] ELSE f[i - 1] \o s[i]
<1> DEFINE h == [j \in 1 .. k |-> IF j = 1 THEN s[j] ELSE f[j - 1] \o s[j]]
<1>1. f = h
  BY DEF Joins
<1>2. h[i] = IF i = 1 THEN s[i] ELSE f[i - 1] \o s[i]
  OBVIOUS
<1> HIDE DEF h
<1>3. f[i] = h[i]
  BY <1>1
<1> QED
  BY <1>2, <1>3

\* The joined sequences up to k can be continued by one.
LEMMA JoinOne ==
    ASSUME NEW s, NEW k \in Nat, NEW f, Joins(f, s, k)
    PROVE  \E g : Joins(g, s, k + 1)
<1> DEFINE g == [i \in 1 .. k + 1 |->
                    IF i <= k THEN f[i] ELSE IF i = 1 THEN s[i] ELSE f[k] \o s[i]]
           h == [i \in 1 .. k + 1 |-> IF i = 1 THEN s[i] ELSE g[i - 1] \o s[i]]
<1>1. ASSUME NEW i \in 1 .. k + 1
      PROVE  g[i] = h[i]
  <2>1. CASE i = 1 /\ k = 0
    BY <2>1
  <2>2. CASE i <= k
    <3>1. f[i] = IF i = 1 THEN s[i] ELSE f[i - 1] \o s[i]
      BY <2>2, JoinsAt
    <3>2. i # 1 => g[i - 1] = f[i - 1]
      BY <2>2
    <3>3. g[i] = f[i] /\ h[i] = IF i = 1 THEN s[i] ELSE g[i - 1] \o s[i]
      BY <2>2
    <3> HIDE DEF g, h
    <3> QED
      BY <3>1, <3>2, <3>3
  <2>3. CASE i = k + 1 /\ k # 0
    <3>1. i \in 1 .. k + 1 /\ i # 1 /\ ~(i <= k)
      BY <2>3
    <3>2. g[i] = f[k] \o s[i]
      BY <3>1
    <3>3. h[i] = g[i - 1] \o s[i]
      <4> HIDE DEF g
      <4> QED
        BY <3>1
    <3>4. g[i - 1] = f[k]
      BY <2>3
    <3> HIDE DEF g, h
    <3> QED
      BY <3>2, <3>3, <3>4
  <2> QED
    BY <2>1, <2>2, <2>3
<1>2. g = h
  <2>1. DOMAIN g = 1 .. k + 1 /\ DOMAIN h = 1 .. k + 1
    OBVIOUS
  <2>2. g = [i \in 1 .. k + 1 |-> g[i]] /\ h = [i \in 1 .. k + 1 |-> h[i]]
    OBVIOUS
  <2> HIDE DEF g, h
  <2> QED
    BY <1>1, <2>1, <2>2
<1>3. Joins(g, s, k + 1)
  BY <1>2 DEF Joins
<1> QED
  BY <1>3

\* So they exist up to every k.
LEMMA JoinsExist ==
    ASSUME NEW s, NEW k \in Nat
    PROVE  \E f : Joins(f, s, k)
<1> DEFINE Bad == {n \in Nat : ~ \E f : Joins(f, s, n)}
<1>1. ASSUME Bad # {} PROVE FALSE
  <2>1. PICK n \in Bad : \A y \in Bad : n <= y
    BY <1>1, Least
  <2>2. CASE n = 0
    <3>1. Joins([i \in 1 .. 0 |-> s], s, 0)
      BY DEF Joins
    <3> QED
      BY <2>1, <2>2, <3>1
  <2>3. CASE n # 0
    <3>1. n - 1 \in Nat /\ ~(n <= n - 1)
      BY <2>3
    <3>2. n - 1 \notin Bad
      BY <2>1, <3>1
    <3>3. \E f : Joins(f, s, n - 1)
      BY <3>1, <3>2
    <3>4. \E f : Joins(f, s, (n - 1) + 1)
      BY <3>1, <3>3, JoinOne
    <3> QED
      BY <3>4
  <2> QED
    BY <2>2, <2>3
<1> QED
  BY <1>1

\* Two functions agree up to k.
Agree(f, g, k) == \A i \in 1 .. k : f[i] = g[i]

\* They are determined by the sequences that are joined.
LEMMA JoinsUnique ==
    ASSUME NEW s, NEW t, NEW k \in Nat, NEW m \in Nat, k <= m,
           Agree(s, t, k),
           NEW f, Joins(f, s, k), NEW g, Joins(g, t, m)
    PROVE  Agree(f, g, k)
<1> DEFINE Bad == {i \in 1 .. k : f[i] # g[i]}
<1>1. ASSUME Bad # {} PROVE FALSE
  <2>1. PICK i \in Bad : \A y \in Bad : i <= y
    <3>1. Bad \in SUBSET Nat
      OBVIOUS
    <3> HIDE DEF Bad
    <3> QED
      BY <1>1, <3>1, Least
  <2>2. i \in 1 .. k /\ i \in 1 .. m /\ f[i] # g[i]
    OBVIOUS
  <2>3. /\ f[i] = IF i = 1 THEN s[i] ELSE f[i - 1] \o s[i]
        /\ g[i] = IF i = 1 THEN t[i] ELSE g[i - 1] \o t[i]
    BY <2>2, JoinsAt
  <2>4. i # 1 => f[i - 1] = g[i - 1]
    <3>1. i # 1 => i - 1 \in 1 .. k /\ ~(i <= i - 1)
      BY <2>2
    <3> QED
      BY <2>1, <3>1
  <2>5. s[i] = t[i]
    BY <2>2 DEF Agree
  <2> HIDE DEF Bad
  <2> QED
    BY <2>2, <2>3, <2>4, <2>5
<1> QED
  BY <1>1 DEF Agree

\* What FlattenSeq computes: the last of the joined sequences.
LEMMA FlattenIsJoin ==
    ASSUME NEW s, Len(s) \in Nat, Len(s) # 0
    PROVE  \E f : Joins(f, s, Len(s)) /\ FlattenSeq(s) = f[Len(s)]
<1>1. FlattenSeq(s) = (CHOOSE f : Joins(f, s, Len(s)))[Len(s)]
  BY Zenon DEF FlattenSeq, Joins
<1>2. \E f : Joins(f, s, Len(s))
  BY JoinsExist
<1> QED
  BY <1>1, <1>2

\* One sequence more is appended to the flat one.
LEMMA FlattenAppend ==
    ASSUME NEW T, NEW s \in Seq(Seq(T)), NEW x \in Seq(T)
    PROVE  FlattenSeq(Append(s, x)) = FlattenSeq(s) \o x
<1> DEFINE t == Append(s, x)
           L == Len(s)
<1>1. L \in Nat /\ Len(t) = L + 1 /\ t[L + 1] = x /\ \A i \in 1 .. L : t[i] = s[i]
  OBVIOUS
<1> HIDE DEF t
<1>2. PICK g : Joins(g, t, L + 1) /\ FlattenSeq(t) = g[L + 1]
  BY <1>1, FlattenIsJoin
<1>3. g[L + 1] = IF L + 1 = 1 THEN t[L + 1] ELSE g[(L + 1) - 1] \o t[L + 1]
  <2>1. L + 1 \in Nat /\ L + 1 \in 1 .. L + 1
    BY <1>1
  <2> HIDE DEF L
  <2> QED
    BY <1>2, <2>1, JoinsAt
<1>4. CASE L = 0
  <2>1. FlattenSeq(s) = << >>
    BY <1>4 DEF FlattenSeq
  <2>2. << >> \o x = x
    OBVIOUS
  <2> QED
    BY <1>1, <1>2, <1>3, <1>4, <2>1, <2>2 DEF t
<1>5. CASE L # 0
  <2>1. PICK f : Joins(f, s, L) /\ FlattenSeq(s) = f[L]
    BY <1>1, <1>5, FlattenIsJoin
  <2>2. f[L] = g[L]
    <3>1. /\ L \in Nat /\ L + 1 \in Nat /\ L <= L + 1 /\ L \in 1 .. L
          /\ Agree(s, t, L)
      BY <1>1, <1>5 DEF Agree
    <3> HIDE DEF L
    <3>2. Agree(f, g, L)
      BY <1>2, <2>1, <3>1, JoinsUnique, Zenon
    <3> QED
      BY <3>1, <3>2 DEF Agree
  <2>3. (L + 1) - 1 = L /\ L + 1 # 1
    BY <1>1, <1>5
  <2> HIDE DEF L
  <2> QED
    BY <1>1, <1>2, <1>3, <2>1, <2>2, <2>3 DEF t
<1> QED
  BY <1>4, <1>5

-----------------------------------------------------------------------------
(* The echoes: what tcp_send_data has given to the socket. *)

\* All bytes of the echoes begun.
All(e) == FlattenSeq([i \in 1 .. Len(e) |-> Bytes(0, e[i])])

\* What has been given and what is left of the last echo make up the echoes.
EchoInv ==
    /\ All(echoes) \in Seq(Nat)
    /\ at = "send" => /\ left \in Nat \ {0} /\ echo \in Nat /\ left <= echo
                      /\ out \o Bytes(echo - left, left) = All(echoes)
    /\ at \notin {"send", "failed"} => out = All(echoes)
    /\ IsPrefix(out, All(echoes))

\* A sequence is a prefix of each of its continuations, and of itself.
LEMMA ConcatPrefix ==
    ASSUME NEW s \in Seq(Nat), NEW r \in Seq(Nat)
    PROVE  IsPrefix(s, s \o r) /\ IsPrefix(s, s)
<1>1. s \o r \in Seq(Nat) /\ Len(s \o r) = Len(s) + Len(r) /\ Len(r) \in Nat
  OBVIOUS
<1>2. SubSeq(s, 1, Len(s)) = s
  OBVIOUS
<1>3. SubSeq(s \o r, 1, Len(s)) = s
  <2>1. /\ SubSeq(s \o r, 1, Len(s)) \in Seq(Nat)
        /\ Len(SubSeq(s \o r, 1, Len(s))) = Len(s)
    BY <1>1
  <2>2. \A i \in 1 .. Len(s) : SubSeq(s \o r, 1, Len(s))[i] = s[i]
    BY <1>1
  <2> QED
    BY <2>1, <2>2
<1> QED
  BY <1>1, <1>2, <1>3 DEF IsPrefix

\* An echo more.
LEMMA AllAppend ==
    ASSUME NEW e \in Seq(Nat), NEW n \in Nat
    PROVE  All(Append(e, n)) = All(e) \o Bytes(0, n)
<1> DEFINE s == [i \in 1 .. Len(e) |-> Bytes(0, e[i])]
           t == [i \in 1 .. Len(Append(e, n)) |-> Bytes(0, Append(e, n)[i])]
<1>1. s \in Seq(Seq(Nat)) /\ Len(s) = Len(e) /\ Len(e) \in Nat
  <2>1. \A i \in 1 .. Len(e) : Bytes(0, e[i]) \in Seq(Nat)
    <3>1. \A i \in 1 .. Len(e) : e[i] \in Nat
      OBVIOUS
    <3> QED
      BY <3>1, BytesType
  <2> QED
    BY <2>1
<1>2. Bytes(0, n) \in Seq(Nat)
  BY BytesType
<1>3. /\ Len(Append(e, n)) = Len(e) + 1 /\ Append(e, n)[Len(e) + 1] = n
      /\ \A i \in 1 .. Len(e) : Append(e, n)[i] = e[i]
  OBVIOUS
<1>4. t = Append(s, Bytes(0, n))
  <2>1. /\ Append(s, Bytes(0, n)) \in Seq(Seq(Nat))
        /\ Len(Append(s, Bytes(0, n))) = Len(e) + 1
        /\ Append(s, Bytes(0, n))[Len(e) + 1] = Bytes(0, n)
        /\ \A i \in 1 .. Len(e) : Append(s, Bytes(0, n))[i] = s[i]
    <3> HIDE DEF s
    <3> QED
      BY <1>1, <1>2
  <2>2. t = [i \in 1 .. Len(e) + 1 |-> IF i = Len(e) + 1 THEN Bytes(0, n) ELSE s[i]]
    BY <1>1, <1>3
  <2> DEFINE a == Append(s, Bytes(0, n))
             h == [i \in 1 .. Len(e) + 1 |-> IF i = Len(e) + 1 THEN Bytes(0, n) ELSE s[i]]
  <2>3. a = [i \in 1 .. Len(e) + 1 |-> a[i]]
    <3>1. a \in Seq(Seq(Nat)) /\ Len(a) = Len(e) + 1
      BY <2>1
    <3> HIDE DEF a
    <3>2. DOMAIN a = 1 .. Len(a) /\ a = [i \in DOMAIN a |-> a[i]]
      BY <3>1
    <3> QED
      BY <3>1, <3>2
  <2>4. \A i \in 1 .. Len(e) + 1 : a[i] = h[i]
    <3> SUFFICES ASSUME NEW i \in 1 .. Len(e) + 1 PROVE a[i] = h[i]
      OBVIOUS
    <3>1. i = Len(e) + 1 \/ i \in 1 .. Len(e)
      BY <1>1
    <3> HIDE DEF s
    <3> QED
      BY <1>1, <2>1, <3>1
  <2>5. h = [i \in 1 .. Len(e) + 1 |-> h[i]]
    OBVIOUS
  <2> HIDE DEF a, h, s, t
  <2>6. a = h
    BY <2>3, <2>4, <2>5
  <2> QED
    BY <2>2, <2>6 DEF a, h
<1>5. FlattenSeq(Append(s, Bytes(0, n))) = FlattenSeq(s) \o Bytes(0, n)
  <2> HIDE DEF s
  <2> QED
    BY <1>1, <1>2, FlattenAppend
<1> QED
  BY <1>4, <1>5 DEF All

\* The types the steps need.
LEMMA EchoTypes ==
    ASSUME TypeOK
    PROVE  echoes \in Seq(Nat) /\ out \in Seq(Nat) /\ left \in Nat
<1>1. echoes \in Seq(EchoSizes) /\ out \in Seq(Nat) /\ left \in Nat
  BY DEF TypeOK
<1>2. EchoSizes \subseteq Nat
  BY StreamAssumption
<1>3. /\ Len(echoes) \in Nat /\ echoes = [i \in 1 .. Len(echoes) |-> echoes[i]]
      /\ \A i \in 1 .. Len(echoes) : echoes[i] \in EchoSizes
  BY <1>1
<1>4. \A i \in 1 .. Len(echoes) : echoes[i] \in Nat
  BY <1>2, <1>3
<1>5. echoes \in Seq(Nat)
  BY <1>3, <1>4
<1> QED
  BY <1>1, <1>5

\* Nothing is given to the socket at first.
LEMMA InitEcho == Init => EchoInv
<1> SUFFICES ASSUME Init PROVE EchoInv
  OBVIOUS
<1>1. All(echoes) = << >>
  BY DEF Init, All, FlattenSeq
<1>2. out = << >> /\ << >> \in Seq(Nat) /\ at = "recv"
  BY DEF Init
<1>3. IsPrefix(<< >>, << >>)
  BY <1>2, ConcatPrefix
<1> QED
  BY <1>1, <1>2, <1>3 DEF EchoInv

\* An echo is begun when all before it have been given to the socket, and each
\* send goes on where the last one stopped.
LEMMA EchoStep == TypeOK /\ EchoInv /\ [Next]_vars => EchoInv'
<1> SUFFICES ASSUME TypeOK, EchoInv, [Next]_vars PROVE EchoInv'
  OBVIOUS
<1>1. ASSUME NEW n \in EchoSizes, SendEcho(n), at \in {"dispose", "check"}
      PROVE  EchoInv'
  <2>1. n \in Nat \ {0} /\ echoes \in Seq(Nat) /\ out \in Seq(Nat)
    BY StreamAssumption, EchoTypes
  <2>2. out = All(echoes)
    BY <1>1 DEF EchoInv
  <2>3. All(echoes') = out \o Bytes(0, n)
    BY <1>1, <2>1, <2>2, AllAppend DEF SendEcho
  <2>4. Bytes(0, n) \in Seq(Nat)
    BY <2>1, BytesType
  <2>5. All(echoes') \in Seq(Nat) /\ IsPrefix(out, All(echoes'))
    BY <2>1, <2>3, <2>4, ConcatPrefix
  <2>6. out' = out /\ left' = n /\ echo' = n /\ at' = "send" /\ n - n = 0 /\ n <= n
    BY <1>1, <2>1 DEF SendEcho
  <2> QED
    BY <2>1, <2>3, <2>5, <2>6 DEF EchoInv
<1>2. CASE Send
  <2>1. PICK n \in 1 .. left :
          /\ out' = out \o Sent(n)
          /\ left' = left - n
          /\ at' = IF n = left THEN "check" ELSE "send"
    BY <1>2 DEF Send
  <2>2. /\ left \in Nat \ {0} /\ echo \in Nat /\ left <= echo /\ at = "send"
        /\ out \o Bytes(echo - left, left) = All(echoes)
        /\ All(echoes) \in Seq(Nat) /\ out \in Seq(Nat)
        /\ UNCHANGED <<echo, echoes>>
    BY <1>2 DEF Send, EchoInv, TypeOK
  <2>3. /\ n \in Nat \ {0} /\ n <= left /\ left - n \in Nat
        /\ echo - left \in Nat /\ (echo - left) + n = echo - (left - n)
        /\ n + (left - n) = left
    BY <2>2
  <2>4. Sent(n) = Bytes(echo - left, n)
    BY DEF Sent, Bytes
  <2>5. Bytes(echo - left, left) = Bytes(echo - left, n) \o Bytes(echo - left', left')
    <3>1. Bytes(echo - left, n) \o Bytes((echo - left) + n, left - n)
            = Bytes(echo - left, n + (left - n))
      BY <2>3, BytesJoin
    <3> QED
      BY <2>1, <2>3, <3>1
  <2>6. Bytes(echo - left, n) \in Seq(Nat) /\ Bytes(echo - left', left') \in Seq(Nat)
    BY <2>1, <2>3, BytesType
  <2>7. out' \in Seq(Nat) /\ out' \o Bytes(echo - left', left') = All(echoes)
    <3>1. out' = out \o Bytes(echo - left, n)
      BY <2>1, <2>4
    <3>2. out' \in Seq(Nat)
      BY <2>2, <2>6, <3>1, ConcatType
    <3>3. out' \o Bytes(echo - left', left')
            = out \o (Bytes(echo - left, n) \o Bytes(echo - left', left'))
      BY <2>2, <2>6, <3>1, ConcatThree
    <3> QED
      BY <2>2, <2>5, <3>2, <3>3
  <2>8. IsPrefix(out', All(echoes))
    BY <2>6, <2>7, ConcatPrefix
  <2>9. CASE n = left
    <3>1. Bytes(echo - left', left') = << >> /\ at' = "check"
      BY <2>1, <2>2, <2>9, SMTT(20) DEF Bytes
    <3>2. out' = All(echoes)
      BY <2>7, <3>1
    <3> QED
      BY <2>2, <2>8, <3>1, <3>2 DEF EchoInv
  <2>10. CASE n # left
    <3>1. at' = "send" /\ left' \in Nat \ {0} /\ left' <= echo
      BY <2>1, <2>2, <2>3, <2>10
    <3> QED
      BY <2>2, <2>7, <2>8, <3>1 DEF EchoInv
  <2> QED
    BY <2>9, <2>10
<1>3. CASE UNCHANGED <<out, echoes, echo>>
           /\ \/ at' = at /\ left' = left
              \/ at # "send" /\ at' # "send" /\ (at = "failed" => at' = "failed")
              \/ at' = "failed"
  BY <1>3 DEF EchoInv
<1>4. ASSUME NEW n \in CommandSizes, Command(n) PROVE EchoInv'
  BY <1>3, <1>4 DEF Command, sendVars
<1>5. CASE RecvLength
  BY <1>3, <1>5 DEF RecvLength, sendVars
<1>6. CASE RecvCommand
  BY <1>3, <1>6 DEF RecvCommand, sendVars
<1>7. CASE Dispose \/ Check
  <2>1. CASE \E n \in EchoSizes : SendEcho(n)
    BY <1>1, <1>7, <2>1 DEF Dispose, Check
  <2>2. CASE at' \in {"check", "recv"} /\ UNCHANGED sendVars
    BY <1>3, <1>7, <2>2 DEF Dispose, Check, sendVars
  <2> QED
    BY <1>7, <2>1, <2>2 DEF Dispose, Check
<1>8. CASE Arrive \/ PhoneGoes \/ RecvCmd \/ NoData \/ RecvClosed \/ RecvFail
           \/ Quit \/ SendFail \/ UNCHANGED vars
  BY <1>3, <1>8
  DEF Arrive, PhoneGoes, RecvCmd, NoData, RecvClosed, RecvFail, Quit, SendFail,
      vars, sendVars
<1> QED
  BY <1>2, <1>4, <1>5, <1>6, <1>7, <1>8 DEF Next, ServerNext

\* The stream to the phone holds the echoes whole and in order, however send
\* cuts them.
THEOREM EchoesAreIntact == Spec => []EchoesIntact
<1>1. TypeOK /\ EchoInv => EchoesIntact
  <2> SUFFICES ASSUME TypeOK, EchoInv PROVE EchoesIntact
    OBVIOUS
  <2>1. All(echoes)
          = FlattenSeq([i \in 1 .. Len(echoes) |-> [j \in 1 .. echoes[i] |-> j]])
    <3>1. \A i \in 1 .. Len(echoes) : Bytes(0, echoes[i]) = [j \in 1 .. echoes[i] |-> j]
      <4>1. \A i \in 1 .. Len(echoes) : echoes[i] \in Nat
        BY EchoTypes
      <4> QED
        BY <4>1 DEF Bytes
    <3>2. [i \in 1 .. Len(echoes) |-> Bytes(0, echoes[i])]
            = [i \in 1 .. Len(echoes) |-> [j \in 1 .. echoes[i] |-> j]]
      BY <3>1
    <3> QED
      BY <3>2 DEF All
  <2> QED
    BY <2>1, Zenon DEF EchoesIntact, EchoInv
<1>2. Inv => TypeOK
  BY DEF Inv
<1>3. Spec => []TypeOK
  BY <1>2, StreamInvariant, PTL
<1>4. Spec => []EchoInv
  BY <1>3, InitEcho, EchoStep, PTL DEF Spec
<1> QED
  BY <1>1, <1>3, <1>4, PTL

-----------------------------------------------------------------------------
(* The channel of commands. *)

\* The commands sent, as the refinement mapping has them.
Sending == [k \in 1 .. Len(sizes) |->
               [j \in 1 .. sizes[k] |-> starts[k] + LengthBytes + j]]

\* Nothing but the next command of the phone changes what has been sent.
LEMMA SendingStep ==
    ASSUME Inv, [Next]_vars
    PROVE  \/ UNCHANGED <<starts, sizes>>
           \/ /\ Len(Sending') = Len(Sending) + 1
              /\ \A k \in 1 .. Len(Sending) : Sending'[k] = Sending[k]
              /\ UNCHANGED commands
<1>1. ASSUME NEW n \in CommandSizes, Command(n)
      PROVE  /\ Len(Sending') = Len(Sending) + 1
             /\ \A k \in 1 .. Len(Sending) : Sending'[k] = Sending[k]
             /\ UNCHANGED commands
  <2> DEFINE L == Len(sizes)
  <2>1. /\ starts \in Seq(Nat) /\ sizes \in Seq(CommandSizes) /\ Len(starts) = L
        /\ L \in Nat
    BY DEF Inv, TypeOK
  <2>2. starts' = Append(starts, total) /\ sizes' = Append(sizes, n)
    BY <1>1 DEF Command
  <2>3. /\ Len(sizes') = L + 1
        /\ \A k \in 1 .. L : sizes'[k] = sizes[k]
    BY <2>1, <2>2, SMTT(20)
  <2>4. \A k \in 1 .. L : starts'[k] = starts[k]
    BY <2>1, <2>2, SMTT(20)
  <2>5. Len(Sending) = L /\ Len(Sending') = L + 1
    BY <2>1, <2>3 DEF Sending
  <2>6. ASSUME NEW k \in 1 .. L
        PROVE  Sending'[k] = Sending[k]
    <3>1. /\ k \in 1 .. Len(sizes) /\ k \in 1 .. Len(sizes')
          /\ sizes'[k] = sizes[k] /\ starts'[k] = starts[k]
      BY <2>1, <2>3, <2>4
    <3>2. Sending[k] = [j \in 1 .. sizes[k] |-> starts[k] + LengthBytes + j]
      BY <3>1 DEF Sending
    <3>3. Sending'[k] = [j \in 1 .. sizes'[k] |-> starts'[k] + LengthBytes + j]
      BY <3>1 DEF Sending
    <3> QED
      BY <3>1, <3>2, <3>3
  <2> HIDE DEF L
  <2> QED
    BY <1>1, <2>5, <2>6 DEF Command, recvVars
<1>2. ASSUME ~ \E n \in CommandSizes : Command(n)
      PROVE  UNCHANGED <<starts, sizes>>
  BY <1>2
  DEF Next, ServerNext, Arrive, PhoneGoes, RecvCmd, RecvLength, NoData, RecvCommand,
      RecvClosed, RecvFail, Dispose, SendEcho, Quit, Check, Send, SendFail, vars,
      phoneVars
<1> QED
  BY <1>1, <1>2

\* What recv_cmd returns is the next of the commands sent.
LEMMA ReturningStep ==
    ASSUME Inv, Inv', [Next]_vars, UNCHANGED <<starts, sizes>>
    PROVE  \/ UNCHANGED commands
           \/ /\ Len(commands) < Len(Sending)
              /\ commands' = Append(commands, Sending[Len(commands) + 1])
<1> DEFINE k == Len(commands) + 1
<1>1. commands' = commands \/ \E c : commands' = Append(commands, c)
  BY DEF Next, ServerNext, Command, Arrive, PhoneGoes, RecvCmd, RecvLength, NoData,
         RecvCommand, RecvClosed, RecvFail, Dispose, SendEcho, Quit, Check, Send,
         SendFail, vars, recvVars
<1>2. ASSUME NEW c, commands' = Append(commands, c)
      PROVE  /\ Len(commands) < Len(Sending)
             /\ commands' = Append(commands, Sending[k])
  <2>1. commands \in Seq(Seq(Nat)) /\ Len(commands) \in Nat /\ Len(sizes) \in Nat
    <3>1. commands \in Seq(Seq(Nat)) /\ sizes \in Seq(CommandSizes)
      BY DEF Inv, TypeOK
    <3> QED
      BY <3>1
  <2>2. Len(commands') = k /\ commands'[k] = c
    BY <1>2, <2>1
  <2>3. k \in 1 .. Len(sizes)
    <3>1. Len(commands') <= Len(sizes')
      BY DEF Inv
    <3> QED
      BY <2>1, <2>2, <3>1
  <2>4. c = [j \in 1 .. sizes[k] |-> starts[k] + LengthBytes + j]
    <3>1. \A i \in 1 .. Len(commands') :
             commands'[i] = [j \in 1 .. sizes[i] |-> starts[i] + LengthBytes + j]
      BY DEF Inv, CommandsIntact
    <3>2. k \in 1 .. Len(commands')
      BY <2>1, <2>2
    <3> HIDE DEF k
    <3> QED
      BY <2>2, <3>1, <3>2
  <2>5. Sending[k] = c
    <3> HIDE DEF k
    <3> QED
      BY <2>3, <2>4 DEF Sending
  <2>6. Len(Sending) = Len(sizes)
    BY <2>1 DEF Sending
  <2> QED
    BY <1>2, <2>1, <2>3, <2>5, <2>6
<1> QED
  BY <1>1, <1>2

\* Out of the stream of bytes recv_cmd makes the channel of commands.
THEOREM StreamIsChannel == Spec => CommandsInOrder
<1>1. Init => Channel!Init
  BY DEF Init, Channel!Init
<1>2. Inv /\ Inv' /\ [Next]_vars => [Channel!Next]_<<Sending, commands>>
  <2> SUFFICES ASSUME Inv, Inv', [Next]_vars
               PROVE  Channel!Send \/ Channel!Receive \/ UNCHANGED <<Sending, commands>>
    BY DEF Channel!Next
  <2>1. CASE UNCHANGED <<starts, sizes>>
    <3>1. Sending' = Sending
      BY <2>1 DEF Sending
    <3> QED
      BY <2>1, <3>1, ReturningStep DEF Channel!Receive, Sending
  <2>2. CASE /\ Len(Sending') = Len(Sending) + 1
             /\ \A k \in 1 .. Len(Sending) : Sending'[k] = Sending[k]
             /\ UNCHANGED commands
    BY <2>2 DEF Channel!Send, Sending
  <2> QED
    BY <2>1, <2>2, SendingStep
<1> QED
  BY <1>1, <1>2, StreamInvariant, PTL
  DEF Spec, CommandsInOrder, Channel!Spec, Sending
=============================================================================
