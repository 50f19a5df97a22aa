---------------------------- MODULE RtspTextProofs ----------------------------
(***************************************************************************)
(* Proofs about the text of an RTSP session, for every encoder header,     *)
(* every set of well-formed requests and every way TCP cuts them: that a   *)
(* reply fits its request, that its parameter sets are the encoder's and   *)
(* that RTP packets go to the port the client named.  The functions come   *)
(* first (where the searches stop, base64 there and back), then texts as   *)
(* sequences that are joined and cut, then what a request has of the words *)
(* the server looks for, the session's invariant, and the replies.         *)
(***************************************************************************)
EXTENDS RtspText, SequenceTheorems, FiniteSetTheorems, WellFoundedInduction, NaturalsInduction, TLAPS


(* Texts of words, and headers of bytes. *)

At(text, words, i) == SubSeq(text, i, i + Len(words) - 1) = words

\* Min, and so Find, is the first place.
LEMMA FindIs ==
    ASSUME NEW S, NEW text \in Seq(S), NEW words \in Seq(S), NEW from \in Nat \ {0},
           NEW i \in from .. Len(text) - Len(words) + 1,
           At(text, words, i), \A j \in from .. i - 1 : ~At(text, words, j)
    PROVE  Find(text, words, from) = i
<1> DEFINE hits == {k \in from .. Len(text) - Len(words) + 1 :
                      SubSeq(text, k, k + Len(words) - 1) = words}
<1>1. i \in hits /\ hits \subseteq Int /\ i \in Int
  BY DEF At
<1>2. \A k \in hits : i <= k
  <2> SUFFICES ASSUME NEW k \in hits, k < i PROVE FALSE
    BY <1>1
  <2>1. At(text, words, k)
    BY DEF At
  <2>2. k \in from .. i - 1
    OBVIOUS
  <2> QED
    BY <2>1, <2>2
<1> HIDE DEF hits
<1>3. \A x \in hits : (\A y \in hits : x <= y) => x = i
  BY <1>1, <1>2
<1>4. Min(hits) = i
  BY <1>1, <1>2, <1>3 DEF Min
<1> QED
  BY <1>1, <1>4 DEF Find, hits

\* A text holds a piece where it holds the piece's words.
LEMMA PieceIs ==
    ASSUME NEW S, NEW text \in Seq(S), NEW piece \in Seq(S), NEW i \in Nat \ {0},
           i + Len(piece) <= Len(text) + 1,
           \A k \in 1 .. Len(piece) : text[i + k - 1] = piece[k]
    PROVE  At(text, piece, i)
<1> DEFINE n == i + Len(piece) - 1
           s == SubSeq(text, i, n)
<1>1. /\ Len(piece) \in Nat /\ Len(text) \in Nat /\ i \in Int /\ n \in Int /\ n <= Len(text)
      /\ n - i + 1 = Len(piece) /\ (i <= n <=> Len(piece) # 0)
  OBVIOUS
<1>2. \A k \in i .. n : text[k] \in S
  BY <1>1
<1> HIDE DEF n
<1>3. /\ s \in Seq(S)
      /\ Len(s) = IF i <= n THEN n - i + 1 ELSE 0
      /\ \A k \in 1 .. n - i + 1 : s[k] = text[i + k - 1]
  BY <1>1, <1>2, SubSeqProperties
<1> HIDE DEF s
<1>4. Len(s) = Len(piece)
  BY <1>1, <1>3
<1>5. \A k \in 1 .. Len(s) : s[k] = piece[k]
  BY <1>1, <1>3, <1>4
<1>6. s = piece
  BY <1>3, <1>4, <1>5, SeqEqual
<1> QED
  BY <1>6 DEF At, s, n

LEMMA PieceHas ==
    ASSUME NEW S, NEW text \in Seq(S), NEW piece \in Seq(S), NEW i \in Nat \ {0},
           At(text, piece, i), i + Len(piece) <= Len(text) + 1
    PROVE  \A k \in 1 .. Len(piece) : text[i + k - 1] = piece[k]
<1> DEFINE n == i + Len(piece) - 1
<1>1. /\ Len(piece) \in Nat /\ Len(text) \in Nat /\ i \in Int /\ n \in Int /\ n <= Len(text)
      /\ n - i + 1 = Len(piece)
  OBVIOUS
<1>2. \A j \in i .. n : text[j] \in S
  BY <1>1
<1> HIDE DEF n
<1>3. \A j \in 1 .. n - i + 1 : SubSeq(text, i, n)[j] = text[i + j - 1]
  BY <1>1, <1>2, SubSeqProperties
<1>4. SubSeq(text, i, n) = piece
  BY DEF At, n
<1> QED
  BY <1>1, <1>3, <1>4

\* One word is found where it is.
LEMMA WordAt ==
    ASSUME NEW S, NEW text \in Seq(S), NEW word \in S, NEW i \in 1 .. Len(text)
    PROVE  At(text, <<word>>, i) <=> text[i] = word
<1> DEFINE w == <<word>>
<1>1. /\ w \in Seq(S) /\ Len(w) = 1 /\ w[1] = word
      /\ i \in Nat \ {0} /\ i + Len(w) <= Len(text) + 1 /\ i + 1 - 1 = i
      /\ 1 \in 1 .. Len(w) /\ \A k \in 1 .. Len(w) : k = 1
  OBVIOUS
<1> HIDE DEF w
<1>2. ASSUME text[i] = word PROVE At(text, w, i)
  <2>1. \A k \in 1 .. Len(w) : text[i + k - 1] = w[k]
    BY <1>1, <1>2
  <2> QED
    BY <1>1, <2>1, PieceIs
<1>3. ASSUME At(text, w, i) PROVE text[i] = word
  <2>1. w \in Seq(S) /\ i \in Nat \ {0} /\ i + Len(w) <= Len(text) + 1
    BY <1>1
  <2>2. \A k \in 1 .. Len(w) : text[i + k - 1] = w[k]
    BY <1>3, <2>1, PieceHas, SMT
  <2> QED
    BY <1>1, <2>2
<1> QED
  BY <1>2, <1>3 DEF w

IsFirst(text, word, from, i) ==
    /\ i \in from .. Len(text)
    /\ text[i] = word
    /\ \A j \in from .. i - 1 : text[j] # word

LEMMA FindWord ==
    ASSUME NEW S, NEW text \in Seq(S), NEW word \in S, NEW from \in Nat \ {0}, NEW i,
           IsFirst(text, word, from, i)
    PROVE  Find(text, <<word>>, from) = i
<1>0. /\ i \in from .. Len(text) /\ text[i] = word
      /\ \A j \in from .. i - 1 : text[j] # word
  BY DEF IsFirst
<1>1. <<word>> \in Seq(S) /\ Len(<<word>>) = 1 /\ Len(text) \in Nat
  OBVIOUS
<1>2. i \in 1 .. Len(text) /\ i \in from .. Len(text) - Len(<<word>>) + 1
  BY <1>0, <1>1
<1>3. At(text, <<word>>, i)
  BY <1>0, <1>2, WordAt
<1>4. \A j \in from .. i - 1 : ~At(text, <<word>>, j)
  <2>1. \A j \in from .. i - 1 : j \in 1 .. Len(text)
    BY <1>0, <1>1
  <2> QED
    BY <1>0, <2>1, WordAt
<1> QED
  BY <1>1, <1>2, <1>3, <1>4, FindIs

\* Where the words of a text in three parts are.
Parts(S, text, a, b, c) ==
    /\ text \in Seq(S) /\ Len(text) = Len(a) + Len(b) + Len(c)
    /\ \A k \in 1 .. Len(a) : text[k] = a[k]
    /\ \A k \in 1 .. Len(b) : text[Len(a) + k] = b[k]
    /\ \A k \in 1 .. Len(c) : text[Len(a) + Len(b) + k] = c[k]
    /\ SubSeq(text, Len(a) + 1, Len(a) + Len(b)) = b

LEMMA ThreeParts ==
    ASSUME NEW S, NEW a \in Seq(S), NEW b \in Seq(S), NEW c \in Seq(S),
           NEW text, text = a \o b \o c
    PROVE  Parts(S, text, a, b, c)
<1> DEFINE ab == a \o b
<1>1. Len(a) \in Nat /\ Len(b) \in Nat /\ Len(c) \in Nat
  OBVIOUS
<1>2. /\ ab \in Seq(S) /\ Len(ab) = Len(a) + Len(b)
      /\ \A k \in 1 .. Len(a) + Len(b) : ab[k] = IF k <= Len(a) THEN a[k] ELSE b[k - Len(a)]
  BY ConcatProperties
<1>3. text = ab \o c
  OBVIOUS
<1> HIDE DEF ab
<1>4. /\ text \in Seq(S) /\ Len(text) = Len(ab) + Len(c)
      /\ \A k \in 1 .. Len(ab) + Len(c) :
            text[k] = IF k <= Len(ab) THEN ab[k] ELSE c[k - Len(ab)]
  <2>1. ab \in Seq(S)
    BY <1>2
  <2>2. /\ ab \o c \in Seq(S) /\ Len(ab \o c) = Len(ab) + Len(c)
        /\ \A k \in 1 .. Len(ab) + Len(c) :
              (ab \o c)[k] = IF k <= Len(ab) THEN ab[k] ELSE c[k - Len(ab)]
    BY <2>1, ConcatProperties
  <2> QED
    BY <1>3, <2>2
<1>5. \A k \in 1 .. Len(a) : text[k] = a[k]
  BY <1>1, <1>2, <1>4
<1>6. ASSUME NEW k \in 1 .. Len(b) PROVE text[Len(a) + k] = b[k]
  <2>1. /\ Len(a) + k \in 1 .. Len(ab) + Len(c) /\ Len(a) + k <= Len(ab)
        /\ Len(a) + k \in 1 .. Len(a) + Len(b) /\ ~(Len(a) + k <= Len(a))
        /\ Len(a) + k - Len(a) = k
    BY <1>1, <1>2
  <2> QED
    BY <1>2, <1>4, <2>1
<1>7. ASSUME NEW k \in 1 .. Len(c) PROVE text[Len(a) + Len(b) + k] = c[k]
  <2>1. /\ Len(a) + Len(b) + k \in 1 .. Len(ab) + Len(c)
        /\ ~(Len(a) + Len(b) + k <= Len(ab)) /\ Len(a) + Len(b) + k - Len(ab) = k
    BY <1>1, <1>2
  <2> QED
    BY <1>4, <2>1
<1>8. SubSeq(text, Len(a) + 1, Len(a) + Len(b)) = b
  <2>1. /\ Len(a) + 1 \in Nat \ {0} /\ Len(a) + 1 + Len(b) <= Len(text) + 1
        /\ Len(a) + 1 + Len(b) - 1 = Len(a) + Len(b)
        /\ \A k \in 1 .. Len(b) : Len(a) + 1 + k - 1 = Len(a) + k
    BY <1>1, <1>2, <1>4
  <2>2. \A k \in 1 .. Len(b) : text[Len(a) + 1 + k - 1] = b[k]
    BY <1>6, <2>1
  <2>3. At(text, b, Len(a) + 1)
    BY <1>4, <2>1, <2>2, PieceIs
  <2> QED
    BY <2>1, <2>3 DEF At
<1> QED
  BY <1>2, <1>4, <1>5, <1>6, <1>7, <1>8 DEF Parts

-----------------------------------------------------------------------------
(* The searches of rtsp.c. *)

\* The handlers take the line that begins with a word whole, from any text in
\* which the word is not found earlier, up to its CRLF and no further.
THEOREM LinesAreTakenWhole ==
    ASSUME NEW before \in Seq(STRING), NEW line \in Seq(STRING), NEW behind \in Seq(STRING),
           line # << >>, \A k \in 1 .. Len(line) : line[k] # "CR",
           \A k \in 1 .. Len(before) : before[k] # line[1],
           Len(behind) >= 2, behind[1] = "CR", behind[2] = "LF"
    PROVE  LineFrom(before \o line \o behind, line[1]) = Some(line)
<1> DEFINE text == before \o line \o behind
           start == Len(before) + 1
           end == Len(before) + Len(line) + 1
           word == line[1]
<1>1. /\ Len(before) \in Nat /\ Len(line) \in Nat \ {0} /\ Len(behind) \in Nat
      /\ 1 \in 1 .. Len(line)
  OBVIOUS
<1>2. /\ text \in Seq(STRING) /\ Len(text) = Len(before) + Len(line) + Len(behind)
      /\ \A k \in 1 .. Len(before) : text[k] = before[k]
      /\ \A k \in 1 .. Len(line) : text[Len(before) + k] = line[k]
      /\ \A k \in 1 .. Len(behind) : text[Len(before) + Len(line) + k] = behind[k]
      /\ SubSeq(text, Len(before) + 1, Len(before) + Len(line)) = line
  <2>1. Parts(STRING, text, before, line, behind)
    BY ThreeParts
  <2> QED
    BY <2>1 DEF Parts
<1>3. word \in STRING
  BY <1>1
<1>4. \A k \in 1 .. Len(before) : before[k] # word
  OBVIOUS
<1>5. text[start] = word
  BY <1>1, <1>2
<1> HIDE DEF text, word
<1>6. Find(text, <<word>>, 1) = start
  <2>1. start \in 1 .. Len(text) /\ 1 \in Nat \ {0}
        /\ \A j \in 1 .. start - 1 : j \in 1 .. Len(before)
    BY <1>1, <1>2
  <2>2. \A j \in 1 .. start - 1 : text[j] # word
    BY <1>2, <1>4, <2>1
  <2>3. text \in Seq(STRING)
    BY <1>2
  <2> HIDE DEF start
  <2> QED
    <3>1. IsFirst(text, word, 1, start)
      BY <1>5, <2>1, <2>2 DEF IsFirst
    <3> QED
      BY <1>3, <2>1, <2>3, <3>1, FindWord
<1>7. Find(text, CRLF, start) = end
  <2>1. /\ CRLF \in Seq(STRING) /\ Len(CRLF) = 2 /\ CRLF[1] = "CR" /\ CRLF[2] = "LF"
        /\ \A k \in 1 .. Len(CRLF) : k = 1 \/ k = 2
    BY DEF CRLF
  <2>2. /\ start \in Nat \ {0} /\ end \in start .. Len(text) - Len(CRLF) + 1
        /\ end \in Nat \ {0} /\ end + Len(CRLF) <= Len(text) + 1
        /\ end + 1 - 1 = Len(before) + Len(line) + 1 /\ end + 2 - 1 = Len(before) + Len(line) + 2
        /\ 1 \in 1 .. Len(behind) /\ 2 \in 1 .. Len(behind)
    BY <1>1, <1>2, <2>1
  <2>3. text \in Seq(STRING)
    BY <1>2
  <2>4. At(text, CRLF, end)
    <3>1. \A k \in 1 .. Len(CRLF) : text[end + k - 1] = CRLF[k]
      <4>1. text[Len(before) + Len(line) + 1] = "CR" /\ text[Len(before) + Len(line) + 2] = "LF"
        BY <1>2, <2>2
      <4>2. text[end + 1 - 1] = "CR" /\ text[end + 2 - 1] = "LF"
        BY <2>2, <4>1
      <4> QED
        BY <2>1, <4>2
    <3> HIDE DEF end
    <3> QED
      BY <2>1, <2>2, <2>3, <3>1, PieceIs
  <2>5. ASSUME NEW j \in start .. end - 1 PROVE ~At(text, CRLF, j)
    <3>1. /\ j - Len(before) \in 1 .. Len(line) /\ Len(before) + (j - Len(before)) = j
          /\ j \in Nat \ {0} /\ j + Len(CRLF) <= Len(text) + 1 /\ j + 1 - 1 = j
          /\ 1 \in 1 .. Len(CRLF)
      <4>1. Len(text) = Len(before) + Len(line) + Len(behind) /\ Len(CRLF) = 2
        BY <1>2, <2>1
      <4> QED
        BY <1>1, <4>1
    <3>2. text[j] # "CR"
      <4>1. text[Len(before) + (j - Len(before))] = line[j - Len(before)]
        BY <1>2, <3>1
      <4>2. line[j - Len(before)] # "CR"
        BY <3>1
      <4> QED
        BY <3>1, <4>1, <4>2
    <3>3. SUFFICES ASSUME At(text, CRLF, j) PROVE FALSE
      OBVIOUS
    <3>4. \A k \in 1 .. Len(CRLF) : text[j + k - 1] = CRLF[k]
      <4>1. CRLF \in Seq(STRING) /\ j \in Nat \ {0} /\ j + Len(CRLF) <= Len(text) + 1
        BY <2>1, <3>1
      <4> QED
        BY <2>3, <3>3, <4>1, PieceHas, SMTT(20)
    <3> QED
      BY <2>1, <3>1, <3>2, <3>4
  <2> HIDE DEF start, end
  <2> QED
    BY <2>1, <2>2, <2>4, <2>5, <2>3, FindIs
<1>8. start # 0 /\ end # 0 /\ end - 1 = Len(before) + Len(line)
  BY <1>1
<1>9. LineFrom(text, word) = Some(SubSeq(text, start, end - 1))
  <2> HIDE DEF start, end
  <2> QED
    BY <1>6, <1>7, <1>8 DEF LineFrom
<1> QED
  BY <1>2, <1>8, <1>9 DEF text, word

\* A port between its marks, whatever words these are, and where they are.
Marked(before, key, port, hyphen, behind) ==
    /\ before # << >> /\ \A k \in 1 .. Len(before) : before[k] # key[1]
    /\ Len(key) = 2 /\ key[1] # hyphen /\ key[2] # hyphen
    /\ port # << >> /\ \A k \in 1 .. Len(port) : port[k] # hyphen
    /\ behind # << >> /\ behind[1] = hyphen

Found(text, key, port, hyphen) ==
    \E u, dash \in Nat :
        /\ Find(text, <<key[1]>>, 1) = u /\ Find(text, <<hyphen>>, u) = dash
        /\ ~(u <= 1) /\ dash # 0 /\ ~(u + 2 > dash - 1)
        /\ text[u + 1] = key[2] /\ SubSeq(text, u + 2, dash - 1) = port

LEMMA MarksAreFound ==
    ASSUME NEW S, NEW before \in Seq(S), NEW key \in Seq(S), NEW port \in Seq(S),
           NEW behind \in Seq(S), NEW hyphen \in S,
           Marked(before, key, port, hyphen, behind),
           NEW text, text = before \o key \o port \o behind
    PROVE  Found(text, key, port, hyphen)
<1> DEFINE head == before \o key
           first == key[1]
           second == key[2]
           u == Len(before) + 1
           dash == Len(before) + Len(port) + 3
<1>1. /\ Len(before) \in Nat \ {0} /\ Len(port) \in Nat \ {0} /\ Len(behind) \in Nat \ {0}
      /\ 1 \in 1 .. Len(behind)
  BY DEF Marked
<1>2. first \in S /\ second \in S
  <2>1. 1 \in 1 .. Len(key) /\ 2 \in 1 .. Len(key)
    BY DEF Marked
  <2> QED
    BY <2>1, ElementOfSeq
<1>3. first # hyphen /\ second # hyphen
  BY DEF Marked
<1>4. \A k \in 1 .. Len(before) : before[k] # first
  BY DEF Marked
<1>5. text = head \o port \o behind
  OBVIOUS
<1>6. Len(key) = 2 /\ behind[1] = hyphen /\ \A k \in 1 .. Len(port) : port[k] # hyphen
  BY DEF Marked
<1>7. /\ head \in Seq(S) /\ Len(head) = Len(before) + 2
      /\ \A k \in 1 .. Len(before) : head[k] = before[k]
      /\ head[u] = first /\ head[u + 1] = second
  <2>1. /\ head \in Seq(S) /\ Len(head) = Len(before) + Len(key)
        /\ \A k \in 1 .. Len(before) + Len(key) :
              head[k] = IF k <= Len(before) THEN before[k] ELSE key[k - Len(before)]
    BY <1>1, ConcatProperties
  <2>2. /\ u \in 1 .. Len(before) + Len(key) /\ u + 1 \in 1 .. Len(before) + Len(key)
        /\ ~(u <= Len(before)) /\ ~(u + 1 <= Len(before))
        /\ u - Len(before) = 1 /\ u + 1 - Len(before) = 2
    BY <1>1, <1>6
  <2>3. head[u] = first /\ head[u + 1] = second
    BY <2>1, <2>2
  <2>4. \A k \in 1 .. Len(before) : head[k] = before[k]
    BY <1>1, <2>1
  <2> HIDE DEF head
  <2> QED
    BY <1>1, <1>6, <2>1, <2>3, <2>4
<1> HIDE DEF head, first, second
<1>8. /\ text \in Seq(S) /\ Len(text) = Len(head) + Len(port) + Len(behind)
      /\ \A k \in 1 .. Len(head) : text[k] = head[k]
      /\ \A k \in 1 .. Len(port) : text[Len(head) + k] = port[k]
      /\ \A k \in 1 .. Len(behind) : text[Len(head) + Len(port) + k] = behind[k]
      /\ SubSeq(text, Len(head) + 1, Len(head) + Len(port)) = port
  <2>1. head \in Seq(S)
    BY <1>7
  <2> QED
    <3>1. Parts(S, text, head, port, behind)
      BY <1>5, <2>1, ThreeParts
    <3> QED
      BY <3>1 DEF Parts
<1>9. text \in Seq(S)
  BY <1>8
<1>10. /\ \A k \in 1 .. Len(before) : k \in 1 .. Len(head)
      /\ u \in 1 .. Len(head) /\ u + 1 \in 1 .. Len(head)
      /\ dash = Len(head) + Len(port) + 1 /\ u \in Nat \ {0}
      /\ u \in 1 .. Len(text) /\ dash \in u .. Len(text) /\ 1 \in Nat \ {0}
      /\ \A j \in 1 .. u - 1 : j \in 1 .. Len(before)
  <2>1. Len(head) = Len(before) + 2 /\ Len(text) = Len(head) + Len(port) + Len(behind)
    BY <1>7, <1>8
  <2>2. \A k \in 1 .. Len(before) : k \in 1 .. Len(head)
    BY <1>1, <2>1
  <2>3. /\ u \in 1 .. Len(head) /\ u + 1 \in 1 .. Len(head)
        /\ dash = Len(head) + Len(port) + 1 /\ u \in Nat \ {0}
    BY <1>1, <2>1
  <2>4. u \in 1 .. Len(text) /\ dash \in u .. Len(text) /\ 1 \in Nat \ {0}
    BY <1>1, <2>1
  <2>5. \A j \in 1 .. u - 1 : j \in 1 .. Len(before)
    BY <1>1
  <2> QED
    BY <2>2, <2>3, <2>4, <2>5
<1>11. \A j \in u .. dash - 1 :
          \/ j = u \/ j = u + 1
          \/ /\ j - Len(head) \in 1 .. Len(port)
             /\ Len(head) + (j - Len(head)) = j
  <2>1. Len(head) = Len(before) + 2
    BY <1>7
  <2> SUFFICES ASSUME NEW j \in u .. dash - 1, j # u, j # u + 1
               PROVE  /\ j - Len(head) \in 1 .. Len(port)
                      /\ Len(head) + (j - Len(head)) = j
    OBVIOUS
  <2>2. j \in Int /\ j >= Len(before) + 3 /\ j <= Len(before) + Len(port) + 2
    BY <1>1
  <2> QED
    BY <1>1, <2>1, <2>2
<1> HIDE DEF u, dash
<1>12. text[u] = first /\ text[u + 1] = second
  <2>1. text[u] = head[u] /\ text[u + 1] = head[u + 1]
    BY <1>8, <1>10
  <2> QED
    BY <1>7, <2>1
<1>13. text[dash] = hyphen
  <2>1. text[Len(head) + Len(port) + 1] = behind[1]
    BY <1>1, <1>8
  <2> QED
    BY <1>6, <1>10, <2>1
<1>14. Find(text, <<first>>, 1) = u
  <2>1. \A j \in 1 .. u - 1 : text[j] # first
    <3> SUFFICES ASSUME NEW j \in 1 .. u - 1 PROVE text[j] # first
      OBVIOUS
    <3>1. j \in 1 .. Len(before) /\ j \in 1 .. Len(head)
      BY <1>10
    <3>2. text[j] = head[j] /\ head[j] = before[j]
      BY <1>7, <1>8, <3>1
    <3> QED
      BY <1>4, <3>1, <3>2
  <2>2. first \in S /\ u \in 1 .. Len(text) /\ text[u] = first /\ 1 \in Nat \ {0}
    BY <1>2, <1>10, <1>12
  <2> QED
    <3>1. IsFirst(text, first, 1, u)
      BY <2>1, <2>2 DEF IsFirst
    <3> QED
      BY <1>2, <1>9, <2>2, <3>1, FindWord
<1>15. Find(text, <<hyphen>>, u) = dash
  <2>1. ASSUME NEW j \in u .. dash - 1 PROVE text[j] # hyphen
    <3>1. CASE j - Len(head) \in 1 .. Len(port) /\ Len(head) + (j - Len(head)) = j
      <4>1. text[Len(head) + (j - Len(head))] = port[j - Len(head)]
        BY <1>8, <3>1
      <4>2. port[j - Len(head)] # hyphen
        BY <1>6, <3>1
      <4> QED
        BY <3>1, <4>1, <4>2
    <3>2. CASE j = u \/ j = u + 1
      BY <1>3, <1>12, <3>2
    <3> QED
      BY <1>11, <3>1, <3>2
  <2>2. dash \in u .. Len(text) /\ u \in Nat \ {0}
    BY <1>10
  <2> QED
    <3>1. IsFirst(text, hyphen, u, dash)
      BY <1>13, <2>1, <2>2 DEF IsFirst
    <3> QED
      BY <1>9, <2>2, <3>1, FindWord
<1>16. /\ ~(u <= 1) /\ dash # 0 /\ ~(u + 2 > dash - 1)
      /\ u + 2 = Len(head) + 1 /\ dash - 1 = Len(head) + Len(port)
  BY <1>1, <1>7 DEF u, dash
<1>17. SubSeq(text, u + 2, dash - 1) = port
  BY <1>8, <1>16
<1>18. u \in Nat /\ dash \in Nat
  BY <1>1 DEF u, dash
<1> QED
  BY <1>12, <1>14, <1>15, <1>16, <1>17, <1>18 DEF first, second, Found

LEMMA Pair ==
    ASSUME NEW S, NEW x \in S, NEW y \in S
    PROVE  <<x, y>> \in Seq(S) /\ Len(<<x, y>>) = 2 /\ <<x, y>>[1] = x /\ <<x, y>>[2] = y
OBVIOUS

\* get_port takes the first port of the pair whole, whatever stands before the
\* first "_", if that is the one of client_port.
THEOREM PortIsRead ==
    ASSUME NEW W, "_" \in W, "port=" \in W, "-" \in W,
           NEW before \in Seq(W), NEW port \in Seq(W), NEW behind \in Seq(W),
           before # << >>, \A k \in 1 .. Len(before) : before[k] # "_",
           port # << >>, \A k \in 1 .. Len(port) : port[k] # "-",
           behind # << >>, behind[1] = "-"
    PROVE  GetPort(before \o <<"_", "port=">> \o port \o behind) = Some(port)
<1> DEFINE key == <<"_", "port=">>
           text == before \o key \o port \o behind
<1>1. key \in Seq(W) /\ Len(key) = 2 /\ key[1] = "_" /\ key[2] = "port="
  BY Pair, Zenon
<1>2. key[1] # "-" /\ key[2] # "-"
  BY <1>1
<1> HIDE DEF key
<1>3. \A k \in 1 .. Len(before) : before[k] # key[1]
  BY <1>1
<1>4. Marked(before, key, port, "-", behind)
  BY <1>1, <1>2, <1>3, Zenon DEF Marked
<1>5. Found(text, key, port, "-")
  BY <1>1, <1>4, MarksAreFound
<1> HIDE DEF text
<1>6. GetPort(text) = Some(port)
  BY <1>1, <1>5, Zenon DEF GetPort, Found
<1> QED
  BY <1>6, Zenon DEF text, key

-----------------------------------------------------------------------------
(* The encoder's header and what is written of it. *)

\* Each part begins behind the code; the second code begins where the SPS ends.
Coded(text, sc, sps, length) ==
    /\ text \in Seq(Nat) /\ Len(sps) + 8 <= length /\ length <= Len(text)
    /\ \A k \in 1 .. Len(sps) : text[4 + k] = sps[k]
    /\ \A k \in 1 .. 4 : text[Len(sps) + 4 + k] = sc[k]

StartCode(sc) ==
    sc \in Seq(Nat) /\ Len(sc) = 4 /\ sc[1] = 0 /\ sc[2] = 0 /\ sc[3] = 0 /\ sc[4] = 1

\* A header with no start code in its SPS cannot hide one between the SPS and
\* the code behind it.
LEMMA SecondStartCode ==
    ASSUME NEW sc, StartCode(sc), NEW sps \in Seq(Nat), NEW text, NEW length \in Nat,
           Coded(text, sc, sps, length),
           \A k \in 1 .. Len(sps) - 3 : ~At(sps, sc, k)
    PROVE  Find(text, sc, 5) = Len(sps) + 5
<1> DEFINE n == Len(sps)
           second == n + 5
<1>1. text \in Seq(Nat) /\ sc \in Seq(Nat)
  BY DEF Coded, StartCode
<1>2. n \in Nat /\ Len(text) \in Nat /\ n + 8 <= Len(text) /\ Len(sc) = 4
  <2>1. n + 8 <= length /\ length <= Len(text) /\ Len(sc) = 4
    BY DEF Coded, StartCode
  <2> QED
    BY <1>1, <2>1
<1>3. \A k \in 1 .. n : text[4 + k] = sps[k]
  BY DEF Coded
<1>4. \A k \in 1 .. 4 : text[n + 4 + k] = sc[k]
  BY DEF Coded
<1>5. sc[1] = 0 /\ sc[2] = 0 /\ sc[3] = 0 /\ sc[4] = 1
  BY DEF StartCode
<1>6. \A k \in 1 .. n - 3 : ~At(sps, sc, k)
  OBVIOUS
<1>7. n = Len(sps)
  OBVIOUS
<1> HIDE DEF n
<1>8. At(text, sc, second)
  <2>1. \A k \in 1 .. Len(sc) : text[second + k - 1] = sc[k]
    <3>1. \A k \in 1 .. Len(sc) : k \in 1 .. 4 /\ second + k - 1 = n + 4 + k
      BY <1>2
    <3> QED
      BY <1>4, <3>1
  <2>2. second \in Nat \ {0} /\ second + Len(sc) <= Len(text) + 1
    BY <1>2
  <2> HIDE DEF second
  <2> QED
    BY <1>1, <2>1, <2>2, PieceIs
<1>9. ASSUME NEW j \in 5 .. second - 1 PROVE ~At(text, sc, j)
  <2>1. /\ j \in Nat \ {0} /\ j + Len(sc) <= Len(text) + 1
        /\ 4 \in 1 .. Len(sc) /\ j + 4 - 1 = j + 3 /\ j <= n + 4
    BY <1>2
  <2> SUFFICES ASSUME At(text, sc, j) PROVE FALSE
    OBVIOUS
  <2>2. \A k \in 1 .. Len(sc) : text[j + k - 1] = sc[k]
    <3>1. j \in Nat \ {0} /\ j + Len(sc) <= Len(text) + 1
      BY <2>1
    <3> QED
      BY <1>1, <3>1, PieceHas, SMT
  <2>3. CASE j + 3 <= n + 4
    <3>1. /\ j - 4 \in 1 .. n - 3 /\ j - 4 \in Nat \ {0}
          /\ (j - 4) + Len(sc) <= n + 1
      BY <1>2, <2>1, <2>3
    <3>2. \A k \in 1 .. Len(sc) : sps[(j - 4) + k - 1] = sc[k]
      <4> SUFFICES ASSUME NEW k \in 1 .. Len(sc) PROVE sps[(j - 4) + k - 1] = sc[k]
        OBVIOUS
      <4>1. /\ (j - 4) + k - 1 \in 1 .. n
            /\ 4 + ((j - 4) + k - 1) = j + k - 1
        BY <1>2, <2>1, <2>3
      <4>2. text[4 + ((j - 4) + k - 1)] = sps[(j - 4) + k - 1]
        BY <1>3, <4>1
      <4> QED
        BY <2>2, <4>1, <4>2
    <3>3. At(sps, sc, j - 4)
      BY <1>1, <1>7, <3>1, <3>2, PieceIs
    <3> QED
      BY <1>6, <3>1, <3>3
  <2>4. CASE ~(j + 3 <= n + 4)
    <3>1. j + 3 = n + 4 + 1 \/ j + 3 = n + 4 + 2 \/ j + 3 = n + 4 + 3
      BY <1>2, <2>1, <2>4
    <3>2. text[n + 4 + 1] = 0 /\ text[n + 4 + 2] = 0 /\ text[n + 4 + 3] = 0
      BY <1>4, <1>5
    <3>3. text[j + 3] = 0
      BY <3>1, <3>2
    <3>4. text[j + 3] = 1
      BY <1>5, <2>1, <2>2
    <3> QED
      BY <3>3, <3>4
  <2> QED
    BY <2>3, <2>4
<1>10. Find(text, sc, 5) = second
  <2>1. 5 \in Nat \ {0} /\ second \in 5 .. Len(text) - Len(sc) + 1
    BY <1>2
  <2>2. \A j \in 5 .. second - 1 : ~At(text, sc, j)
    BY <1>9
  <2> HIDE DEF second
  <2> QED
    BY <1>1, <1>8, <2>1, <2>2, FindIs
<1> QED
  BY <1>7, <1>10

LEMMA ConcatThree ==
    ASSUME NEW s \in Seq(Nat), NEW t \in Seq(Nat), NEW u \in Seq(Nat)
    PROVE  (s \o t) \o u = s \o (t \o u)
  BY ConcatAssociative, SMTT(30)

LEMMA TwoHalves ==
    \A s, t, u \in Seq(Nat) : s \o t \o s \o u = (s \o t) \o (s \o u)
<1> SUFFICES ASSUME NEW s \in Seq(Nat), NEW t \in Seq(Nat), NEW u \in Seq(Nat)
             PROVE  s \o t \o s \o u = (s \o t) \o (s \o u)
  OBVIOUS
<1>1. s \o t \in Seq(Nat)
  BY ConcatProperties
<1>2. \A a, b, c \in Seq(Nat) : (a \o b) \o c = a \o (b \o c)
  BY ConcatThree, Zenon
<1> QED
  BY <1>1, <1>2, Zenon

\* A header as the encoder hands it over, and what may lie behind it.
Laid(text, bytes, sc, sps, pps) ==
    /\ Len(bytes) = Len(sps) + Len(pps) + 8
    /\ Coded(text, sc, sps, Len(bytes))
    /\ SubSeq(text, 1, 4 + Len(bytes)) = text
    /\ SubSeq(text, 1, Len(sps) + 4) = sc \o sps
    /\ SubSeq(text, Len(sps) + 5, Len(bytes)) = sc \o pps

LEMMA HeaderLayout ==
    ASSUME NEW sc \in Seq(Nat), Len(sc) = 4, NEW sps \in Seq(Nat), NEW pps \in Seq(Nat),
           NEW rest \in Seq(Nat), Len(rest) = 4,
           NEW bytes, bytes = sc \o sps \o sc \o pps,
           NEW text, text = bytes \o rest
    PROVE  Laid(text, bytes, sc, sps, pps)
<1> DEFINE A == sc \o sps
           B == sc \o pps
           n == Len(sps)
           m == Len(pps)
<1>1. n \in Nat /\ m \in Nat
  OBVIOUS
<1>2. A \in Seq(Nat) /\ B \in Seq(Nat)
  BY ConcatProperties
<1>3. bytes = A \o B
  BY TwoHalves, Zenon
<1>4. text = A \o B \o rest
  BY <1>3
<1>5. /\ Len(A) = Len(sc) + Len(sps) /\ Len(B) = Len(sc) + Len(pps)
      /\ \A k \in 1 .. Len(sc) + Len(sps) :
            A[k] = IF k <= Len(sc) THEN sc[k] ELSE sps[k - Len(sc)]
      /\ \A k \in 1 .. Len(sc) + Len(pps) :
            B[k] = IF k <= Len(sc) THEN sc[k] ELSE pps[k - Len(sc)]
  <2>1. /\ Len(A) = Len(sc) + Len(sps)
        /\ \A k \in 1 .. Len(sc) + Len(sps) :
              A[k] = IF k <= Len(sc) THEN sc[k] ELSE sps[k - Len(sc)]
    BY ConcatProperties
  <2>2. /\ Len(B) = Len(sc) + Len(pps)
        /\ \A k \in 1 .. Len(sc) + Len(pps) :
              B[k] = IF k <= Len(sc) THEN sc[k] ELSE pps[k - Len(sc)]
    BY ConcatProperties
  <2> QED
    BY <2>1, <2>2
<1> HIDE DEF A, B
<1>6. Len(bytes) = Len(A) + Len(B)
  BY <1>2, <1>3, ConcatProperties
<1>7. Len(A) = n + 4 /\ Len(B) = m + 4 /\ Len(bytes) = n + m + 8
  BY <1>1, <1>5, <1>6
<1>8. /\ text \in Seq(Nat) /\ Len(text) = Len(A) + Len(B) + Len(rest)
      /\ \A k \in 1 .. Len(A) : text[k] = A[k]
      /\ \A k \in 1 .. Len(B) : text[Len(A) + k] = B[k]
      /\ SubSeq(text, Len(A) + 1, Len(A) + Len(B)) = B
  <2>1. Parts(Nat, text, A, B, rest)
    BY <1>2, <1>4, ThreeParts, Zenon
  <2> QED
    BY <2>1 DEF Parts
<1>9. text \in Seq(Nat) /\ Len(text) = n + m + 12
  BY <1>1, <1>7, <1>8
<1>10. ASSUME NEW k \in 1 .. n PROVE text[4 + k] = sps[k]
  <2>1. /\ 4 + k \in 1 .. Len(sc) + Len(sps) /\ 4 + k \in 1 .. Len(A)
        /\ ~(4 + k <= Len(sc)) /\ 4 + k - Len(sc) = k
    BY <1>1, <1>7
  <2>2. A[4 + k] = sps[4 + k - Len(sc)]
    BY <1>5, <2>1
  <2>3. text[4 + k] = A[4 + k]
    BY <1>8, <2>1
  <2> QED
    BY <2>1, <2>2, <2>3
<1>11. ASSUME NEW k \in 1 .. 4 PROVE text[n + 4 + k] = sc[k]
  <2>1. /\ k \in 1 .. Len(sc) + Len(pps) /\ k \in 1 .. Len(B) /\ k <= Len(sc)
        /\ Len(A) + k = n + 4 + k
    BY <1>1, <1>7
  <2>2. text[Len(A) + k] = B[k] /\ B[k] = sc[k]
    BY <1>5, <1>8, <2>1
  <2> QED
    BY <2>1, <2>2
<1>12. Coded(text, sc, sps, Len(bytes))
  <2>1. n + 8 <= Len(bytes) /\ Len(bytes) <= Len(text)
    BY <1>1, <1>7, <1>9
  <2> QED
    BY <1>9, <1>10, <1>11, <2>1 DEF Coded
<1>13. SubSeq(text, 1, 4 + Len(bytes)) = text
  <2>1. 4 + Len(bytes) = Len(text)
    BY <1>1, <1>7, <1>9
  <2> QED
    BY <1>9, <2>1, SubSeqFull
<1>14. SubSeq(text, 1, n + 4) = A
  <2>1. 1 \in Nat \ {0} /\ 1 + Len(A) <= Len(text) + 1 /\ 1 + Len(A) - 1 = n + 4
    BY <1>1, <1>7, <1>9
  <2>2. \A k \in 1 .. Len(A) : text[1 + k - 1] = A[k]
    <3>1. \A k \in 1 .. Len(A) : 1 + k - 1 = k
      BY <1>1, <1>7
    <3> QED
      BY <1>8, <3>1
  <2>3. At(text, A, 1)
    BY <1>2, <1>9, <2>1, <2>2, PieceIs
  <2> QED
    BY <2>1, <2>3 DEF At
<1>15. SubSeq(text, n + 5, Len(bytes)) = B
  <2>1. Len(A) + 1 = n + 5 /\ Len(A) + Len(B) = Len(bytes)
    BY <1>1, <1>7
  <2> QED
    BY <1>8, <2>1
<1> QED
  BY <1>7, <1>12, <1>13, <1>14, <1>15 DEF A, B, Laid

LEMMA SplitAt ==
    ASSUME NEW text, NEW length, NEW second,
           Find(SubSeq(text, 1, Len(START_CODE) + length), START_CODE, Len(START_CODE) + 1) = second
    PROVE  Split(text, length) = [sps |-> SubSeq(text, 1, second - 1),
                                  pps |-> SubSeq(text, second, length)]
BY DEF Split

\* get_sps_and_pps_from_header finds both parameter sets whole, for every SPS and
\* PPS: all it needs is that the SPS holds no start code itself, as an encoder
\* that escapes them makes sure.
THEOREM SetsAreSplit ==
    ASSUME NEW h, h.sps \in Seq(Nat), h.pps \in Seq(Nat),
           \A k \in 1 .. Len(h.sps) - 3 : SubSeq(h.sps, k, k + 3) # START_CODE
    PROVE  ParameterSets(h) = [sps |-> START_CODE \o h.sps, pps |-> START_CODE \o h.pps]
<1> DEFINE sc == START_CODE
           sps == h.sps
           pps == h.pps
           rest == <<0, 0, 0, 0>>
           bytes == sc \o sps \o sc \o pps
           text == bytes \o rest
<1>1. StartCode(sc) /\ sc \in Seq(Nat) /\ Len(sc) = 4
  BY DEF START_CODE, StartCode
<1>2. rest \in Seq(Nat) /\ Len(rest) = 4
  OBVIOUS
<1>3. sps \in Seq(Nat) /\ pps \in Seq(Nat)
  OBVIOUS
<1>4. \A k \in 1 .. Len(sps) - 3 : ~At(sps, sc, k)
  <2>1. \A k \in 1 .. Len(sps) - 3 : k + Len(sc) - 1 = k + 3
    BY <1>1, <1>3
  <2> QED
    BY <2>1 DEF At
<1>5. ParameterSets(h) = Split(text, Len(bytes))
  BY DEF ParameterSets
<1> HIDE DEF sc, sps, pps, rest
<1>a. bytes = sc \o sps \o sc \o pps /\ text = bytes \o rest
  OBVIOUS
<1> HIDE DEF text, bytes
<1>6. /\ Len(bytes) = Len(sps) + Len(pps) + 8
      /\ Coded(text, sc, sps, Len(bytes))
      /\ SubSeq(text, 1, 4 + Len(bytes)) = text
      /\ SubSeq(text, 1, Len(sps) + 4) = sc \o sps
      /\ SubSeq(text, Len(sps) + 5, Len(bytes)) = sc \o pps
  <2>1. Laid(text, bytes, sc, sps, pps)
    BY <1>1, <1>2, <1>3, <1>a, HeaderLayout
  <2> QED
    BY <2>1 DEF Laid
<1>7. Len(sps) \in Nat /\ Len(pps) \in Nat
  BY <1>3
<1>8. Len(bytes) \in Nat
  BY <1>6, <1>7
<1>9. Find(text, sc, 5) = Len(sps) + 5
  BY <1>1, <1>3, <1>4, <1>6, <1>8, SecondStartCode
<1>10. Len(sc) + 1 = 5 /\ Len(sps) + 5 - 1 = Len(sps) + 4
  BY <1>1, <1>7
<1>11. Find(SubSeq(text, 1, Len(sc) + Len(bytes)), sc, Len(sc) + 1) = Len(sps) + 5
  BY <1>1, <1>6, <1>9, <1>10
<1>12. Split(text, Len(bytes)) = [sps |-> SubSeq(text, 1, Len(sps) + 5 - 1),
                                  pps |-> SubSeq(text, Len(sps) + 5, Len(bytes))]
  BY <1>11, SplitAt, SMTT(20) DEF sc
<1> QED
  BY <1>5, <1>6, <1>10, <1>12 DEF sc, sps, pps

LEMMA FunctionIsText ==
    ASSUME NEW n \in Nat, NEW S, NEW f \in [1 .. n -> S]
    PROVE  f \in Seq(S) /\ Len(f) = n
OBVIOUS

LEMMA LongerBy ==
    ASSUME NEW S, NEW f \in Seq(S), NEW m \in Nat, NEW pad \in S
    PROVE  Len(f \o [k \in 1 .. m |-> pad]) = Len(f) + m
<1> DEFINE g == [k \in 1 .. m |-> pad]
<1>1. g \in Seq(S) /\ Len(g) = m
  OBVIOUS
<1> HIDE DEF g
<1>2. Len(f \o g) = Len(f) + m
  BY <1>1, ConcatProperties
<1> QED
  BY <1>2 DEF g

\* base64_encode pads every text to whole groups of four characters, with no
\* more than it needs: a player that reads in groups finds none cut.
THEOREM GroupsAreWhole ==
    ASSUME NEW raw \in Seq(Nat)
    PROVE  /\ Len(Base64Encode(raw)) % 4 = 0
           /\ Len(Base64Encode(raw)) \in (8 * Len(raw) + 5) \div 6 .. (8 * Len(raw) + 5) \div 6 + 3
<1> DEFINE steps == (8 * Len(raw) + 5) \div 6
           Padded(n) == (6 * (steps + n)) % 8 = 0 /\ \A m \in 0 .. n - 1 : (6 * (steps + m)) % 8 # 0
           pads == CHOOSE n \in 0 .. 3 : Padded(n)
           char(j) ==
            LET byte == (6 * j) \div 8
                shift == (6 * j) % 8
                next == IF byte + 1 < Len(raw) THEN raw[byte + 2] \div 2^(8 - shift) ELSE 0
            IN  Alphabet64[(((raw[byte + 1] * 2^shift + next) \div 4) % 64) + 1]
           f == [j \in 1 .. steps |-> char(j - 1)]
           S == {f[j] : j \in 1 .. steps} \union {"="}
<1>1. Base64Encode(raw) = f \o [n \in 1 .. pads |-> "="]
  BY DEF Base64Encode
<1>2. steps \in Nat
  OBVIOUS
<1> HIDE DEF char, steps
<1>3. f \in Seq(S) /\ Len(f) = steps /\ "=" \in S
  <2>1. f \in [1 .. steps -> S]
    OBVIOUS
  <2>2. "=" \in S
    OBVIOUS
  <2> HIDE DEF f, S
  <2> QED
    BY <1>2, <2>1, <2>2, FunctionIsText
<1>4. \E n \in 0 .. 3 : Padded(n)
  <2>1. CASE steps % 4 = 0
    <3>1. Padded(0)
      BY <1>2, <2>1
    <3> QED
      BY <3>1
  <2>2. CASE steps % 4 = 1
    <3>1. Padded(3)
      BY <1>2, <2>2
    <3> QED
      BY <3>1
  <2>3. CASE steps % 4 = 2
    <3>1. Padded(2)
      BY <1>2, <2>3
    <3> QED
      BY <3>1
  <2>4. CASE steps % 4 = 3
    <3>1. Padded(1)
      BY <1>2, <2>4
    <3> QED
      BY <3>1
  <2> QED
    BY <1>2, <2>1, <2>2, <2>3, <2>4
<1>5. pads \in 0 .. 3 /\ (6 * (steps + pads)) % 8 = 0
  BY <1>4
<1> HIDE DEF pads, f, S
<1>6. (steps + pads) % 4 = 0
  BY <1>2, <1>5
<1>7. Len(Base64Encode(raw)) = steps + pads
  BY <1>1, <1>3, <1>5, LongerBy
<1> QED
  BY <1>2, <1>5, <1>6, <1>7 DEF steps

-----------------------------------------------------------------------------
(* base64: what a player decodes is what base64_encode was given. *)

LEMMA AlphabetAt ==
    /\ Alphabet64[1] = "A" /\ Alphabet64[2] = "B" /\ Alphabet64[3] = "C" /\ Alphabet64[4] = "D"
    /\ Alphabet64[5] = "E" /\ Alphabet64[6] = "F" /\ Alphabet64[7] = "G" /\ Alphabet64[8] = "H"
    /\ Alphabet64[9] = "I" /\ Alphabet64[10] = "J" /\ Alphabet64[11] = "K" /\ Alphabet64[12] = "L"
    /\ Alphabet64[13] = "M" /\ Alphabet64[14] = "N" /\ Alphabet64[15] = "O" /\ Alphabet64[16] = "P"
    /\ Alphabet64[17] = "Q" /\ Alphabet64[18] = "R" /\ Alphabet64[19] = "S" /\ Alphabet64[20] = "T"
    /\ Alphabet64[21] = "U" /\ Alphabet64[22] = "V" /\ Alphabet64[23] = "W" /\ Alphabet64[24] = "X"
    /\ Alphabet64[25] = "Y" /\ Alphabet64[26] = "Z" /\ Alphabet64[27] = "a" /\ Alphabet64[28] = "b"
    /\ Alphabet64[29] = "c" /\ Alphabet64[30] = "d" /\ Alphabet64[31] = "e" /\ Alphabet64[32] = "f"
    /\ Alphabet64[33] = "g" /\ Alphabet64[34] = "h" /\ Alphabet64[35] = "i" /\ Alphabet64[36] = "j"
    /\ Alphabet64[37] = "k" /\ Alphabet64[38] = "l" /\ Alphabet64[39] = "m" /\ Alphabet64[40] = "n"
    /\ Alphabet64[41] = "o" /\ Alphabet64[42] = "p" /\ Alphabet64[43] = "q" /\ Alphabet64[44] = "r"
    /\ Alphabet64[45] = "s" /\ Alphabet64[46] = "t" /\ Alphabet64[47] = "u" /\ Alphabet64[48] = "v"
    /\ Alphabet64[49] = "w" /\ Alphabet64[50] = "x" /\ Alphabet64[51] = "y" /\ Alphabet64[52] = "z"
    /\ Alphabet64[53] = "0" /\ Alphabet64[54] = "1" /\ Alphabet64[55] = "2" /\ Alphabet64[56] = "3"
    /\ Alphabet64[57] = "4" /\ Alphabet64[58] = "5" /\ Alphabet64[59] = "6" /\ Alphabet64[60] = "7"
    /\ Alphabet64[61] = "8" /\ Alphabet64[62] = "9" /\ Alphabet64[63] = "+" /\ Alphabet64[64] = "/"
BY DEF Alphabet64

\* No two letters are the same, and none is a word of another kind.
LEMMA Letters ==
    /\ \A i, j \in 1 .. 64 : Alphabet64[i] = Alphabet64[j] => i = j
    /\ \A i \in 1 .. 64 : Alphabet64[i] # "=" /\ Alphabet64[i] # "CR"
<1>1. \A i, j \in 1 .. 64 : Alphabet64[i] = Alphabet64[j] => i = j
  BY AlphabetAt, SMTT(30)
<1>2. ASSUME NEW i \in 1 .. 64 PROVE Alphabet64[i] # "=" /\ Alphabet64[i] # "CR"
  BY AlphabetAt, SMTT(30)
<1> QED
  BY <1>1, <1>2

Comma == ","

LEMMA NotAComma == \A i \in 1 .. 64 : Alphabet64[i] # Comma
<1>1. /\ Comma # "A" /\ Comma # "B" /\ Comma # "C" /\ Comma # "D" /\ Comma # "E" /\ Comma # "F" /\ Comma # "G" /\ Comma # "H"
      /\ Comma # "I" /\ Comma # "J" /\ Comma # "K" /\ Comma # "L" /\ Comma # "M" /\ Comma # "N" /\ Comma # "O" /\ Comma # "P"
      /\ Comma # "Q" /\ Comma # "R" /\ Comma # "S" /\ Comma # "T" /\ Comma # "U" /\ Comma # "V" /\ Comma # "W" /\ Comma # "X"
      /\ Comma # "Y" /\ Comma # "Z" /\ Comma # "a" /\ Comma # "b" /\ Comma # "c" /\ Comma # "d" /\ Comma # "e" /\ Comma # "f"
      /\ Comma # "g" /\ Comma # "h" /\ Comma # "i" /\ Comma # "j" /\ Comma # "k" /\ Comma # "l" /\ Comma # "m" /\ Comma # "n"
      /\ Comma # "o" /\ Comma # "p" /\ Comma # "q" /\ Comma # "r" /\ Comma # "s" /\ Comma # "t" /\ Comma # "u" /\ Comma # "v"
      /\ Comma # "w" /\ Comma # "x" /\ Comma # "y" /\ Comma # "z" /\ Comma # "0" /\ Comma # "1" /\ Comma # "2" /\ Comma # "3"
      /\ Comma # "4" /\ Comma # "5" /\ Comma # "6" /\ Comma # "7" /\ Comma # "8" /\ Comma # "9" /\ Comma # "+" /\ Comma # "/"
  BY Zenon DEF Comma
<1> QED
  BY <1>1, AlphabetAt, SMTT(30)

\* The value of a letter.
Value(c) == CHOOSE v \in 0 .. 63 : Alphabet64[v + 1] = c

LEMMA ValueIs ==
    \A v \in 0 .. 63 : Value(Alphabet64[v + 1]) = v
<1> SUFFICES ASSUME NEW v \in 0 .. 63 PROVE Value(Alphabet64[v + 1]) = v
  OBVIOUS
<1> DEFINE c == Alphabet64[v + 1]
<1>1. \A u \in 0 .. 63 : Alphabet64[u + 1] = c => u = v
  <2>1. \A u \in 0 .. 63 : u + 1 \in 1 .. 64 /\ (u + 1 = v + 1 => u = v)
    OBVIOUS
  <2> QED
    BY <2>1, Letters
<1>2. Alphabet64[v + 1] = c
  OBVIOUS
<1> HIDE DEF c
<1>3. (CHOOSE u \in 0 .. 63 : Alphabet64[u + 1] = c) = v
  BY <1>1, <1>2
<1> QED
  BY <1>3 DEF c, Value

\* The six bits base64_encode takes for the character of number j, from 0.
Six(raw, j) ==
    LET byte == (6 * j) \div 8
        shift == (6 * j) % 8
        next == IF byte + 1 < Len(raw) THEN raw[byte + 2] \div 2^(8 - shift) ELSE 0
    IN  ((raw[byte + 1] * 2^shift + next) \div 4) % 64

Steps(raw) == (8 * Len(raw) + 5) \div 6

Octets == 0 .. 255

\* The bits of a and b that the second and the third of four characters have,
\* and what of a byte two characters have.
Second(a, b) == ((a * 64 + b \div 4) \div 4) % 64 = 16 * (a % 4) + b \div 16
Third(a, b) == ((a * 16 + b \div 16) \div 4) % 64 = 4 * (a % 16) + b \div 64
Halves(a, b, c) == /\ (16 * (a % 4) + b \div 16) % 16 = b \div 16
                   /\ (4 * (b % 16) + c \div 64) \div 4 = b % 16

LEMMA Shifts ==
    /\ \A b \in 0 .. 255 : b \div 256 = 0 /\ (b \div 4) % 64 = b \div 4
    /\ \A a, b \in Octets : Second(a, b) /\ Third(a, b)
    /\ \A a, b, c \in Octets : Halves(a, b, c)
<1>1. \A b \in 0 .. 255 : b \div 256 = 0
  OBVIOUS
<1>2. \A b \in 0 .. 255 : (b \div 4) % 64 = b \div 4
  OBVIOUS
<1>3. ASSUME NEW a \in 0 .. 255, NEW b \in 0 .. 255
      PROVE  ((a * 64 + b \div 4) \div 4) % 64 = 16 * (a % 4) + b \div 16
  <2>1. (a * 64 + b \div 4) \div 4 = 16 * a + b \div 16
    OBVIOUS
  <2>2. b \div 16 \in 0 .. 15
    OBVIOUS
  <2>3. \A c \in 0 .. 15 : (16 * a + c) % 64 = 16 * (a % 4) + c
    OBVIOUS
  <2> QED
    BY <2>1, <2>2, <2>3
<1>4. ASSUME NEW a \in 0 .. 255, NEW b \in 0 .. 255
      PROVE  ((a * 16 + b \div 16) \div 4) % 64 = 4 * (a % 16) + b \div 64
  <2>1. (a * 16 + b \div 16) \div 4 = 4 * a + b \div 64
    OBVIOUS
  <2>2. b \div 64 \in 0 .. 3
    OBVIOUS
  <2>3. \A c \in 0 .. 3 : (4 * a + c) % 64 = 4 * (a % 16) + c
    OBVIOUS
  <2> QED
    BY <2>1, <2>2, <2>3
<1>5. ASSUME NEW a \in Octets, NEW b \in Octets, NEW c \in Octets PROVE Halves(a, b, c)
  <2>1. b \div 16 \in 0 .. 15 /\ a % 4 \in Nat /\ c \div 64 \in 0 .. 3 /\ b % 16 \in Nat
    BY DEF Octets
  <2> DEFINE p == a % 4
             q == b \div 16
             r == b % 16
             t == c \div 64
  <2> HIDE DEF p, q, r, t
  <2>2. (16 * p + q) % 16 = q /\ (4 * r + t) \div 4 = r
    <3>1. q \in 0 .. 15 /\ p \in Nat /\ t \in 0 .. 3 /\ r \in Nat
      BY <2>1 DEF p, q, r, t
    <3> QED
      BY <3>1
  <2> QED
    BY <2>2 DEF Halves, p, q, r, t
<1>6. \A a, b \in Octets : Second(a, b) /\ Third(a, b)
  BY <1>3, <1>4, Zenon DEF Second, Third, Octets
<1> QED
  BY <1>1, <1>2, <1>5, <1>6, Zenon

\* A character begins in its byte after none, six, four or two bits.
LEMMA SixIs ==
    ASSUME NEW raw \in Seq(0 .. 255), NEW m \in Nat
    PROVE  LET next(k) == IF k <= Len(raw) THEN raw[k] ELSE 0
           IN  /\ 3 * m + 1 <= Len(raw) =>
                    /\ Six(raw, 4 * m) = raw[3 * m + 1] \div 4
                    /\ Six(raw, 4 * m + 1) =
                          16 * (raw[3 * m + 1] % 4) + next(3 * m + 2) \div 16
               /\ 3 * m + 2 <= Len(raw) =>
                    Six(raw, 4 * m + 2) =
                          4 * (raw[3 * m + 2] % 16) + next(3 * m + 3) \div 64
               /\ 3 * m + 3 <= Len(raw) =>
                    Six(raw, 4 * m + 3) = raw[3 * m + 3] % 64
<1> DEFINE next(k) == IF k <= Len(raw) THEN raw[k] ELSE 0
<1>0. Len(raw) \in Nat /\ \A k \in 1 .. Len(raw) : raw[k] \in 0 .. 255
  BY ElementOfSeq
<1>1. \A k \in Nat \ {0} : next(k) \in 0 .. 255
  BY <1>0
<1> HIDE DEF next
<1>n. \A k : next(k) = IF k <= Len(raw) THEN raw[k] ELSE 0
  BY DEF next
<1> DEFINE From(byte, shift) ==
              ((raw[byte + 1] * 2^shift
                + (IF byte + 1 < Len(raw) THEN raw[byte + 2] \div 2^(8 - shift) ELSE 0)) \div 4) % 64
<1>f. \A byte, shift : From(byte, shift) =
              ((raw[byte + 1] * 2^shift
                + (IF byte + 1 < Len(raw) THEN raw[byte + 2] \div 2^(8 - shift) ELSE 0)) \div 4) % 64
  OBVIOUS
<1>2. ASSUME NEW j \in Nat, NEW byte \in Nat, byte = (6 * j) \div 8, NEW shift \in Nat, shift = (6 * j) % 8
      PROVE Six(raw, j) = From(byte, shift)
  BY <1>2, Zenon DEF Six
<1> HIDE DEF From
<1>3. ASSUME 3 * m + 1 <= Len(raw) PROVE Six(raw, 4 * m) = raw[3 * m + 1] \div 4
  <2> DEFINE a == raw[3 * m + 1]
             b == raw[3 * m + 2]
  <2>1. /\ 4 * m \in Nat /\ 3 * m \in Nat /\ 3 * m = (6 * (4 * m)) \div 8
        /\ 0 = (6 * (4 * m)) % 8 /\ 0 \in Nat
    OBVIOUS
  <2>2. Six(raw, 4 * m) = ((a * 2^0 + (IF 3 * m + 1 < Len(raw) THEN b \div 2^(8 - 0) ELSE 0)) \div 4) % 64
    <3>1. Six(raw, 4 * m) = From(3 * m, 0)
      BY <1>2, <2>1
    <3> QED
      BY <1>f, <3>1, Zenon
  <2>3. a \in 0 .. 255 /\ (3 * m + 1 < Len(raw) => b \in 0 .. 255)
    BY <1>0, <1>3
  <2> HIDE DEF a, b
  <2>4. 2^0 = 1 /\ 2^(8 - 0) = 256
    OBVIOUS
  <2>5. (3 * m + 1 < Len(raw)) => b \div 256 = 0
    BY <2>3, Shifts
  <2>6. Six(raw, 4 * m) = (a \div 4) % 64
    BY <2>2, <2>3, <2>4, <2>5
  <2>7. (a \div 4) % 64 = a \div 4
    BY <2>3, Shifts
  <2> QED
    BY <2>6, <2>7 DEF a
<1>4. ASSUME 3 * m + 1 <= Len(raw)
      PROVE Six(raw, 4 * m + 1) = 16 * (raw[3 * m + 1] % 4) + next(3 * m + 2) \div 16
  <2> DEFINE a == raw[3 * m + 1]
             b == next(3 * m + 2)
  <2>1. /\ 4 * m + 1 \in Nat /\ 3 * m \in Nat /\ 3 * m = (6 * (4 * m + 1)) \div 8
        /\ 6 = (6 * (4 * m + 1)) % 8 /\ 6 \in Nat
    OBVIOUS
  <2>2. Six(raw, 4 * m + 1) = ((a * 2^6 + (IF 3 * m + 1 < Len(raw) THEN raw[3 * m + 2] \div 2^(8 - 6) ELSE 0)) \div 4) % 64
    <3>1. Six(raw, 4 * m + 1) = From(3 * m, 6)
      BY <1>2, <2>1
    <3> QED
      BY <1>f, <3>1, Zenon
  <2>3. a \in 0 .. 255 /\ b \in 0 .. 255
    BY <1>0, <1>1, <1>4
  <2>4. (IF 3 * m + 1 < Len(raw) THEN raw[3 * m + 2] \div 4 ELSE 0) = b \div 4
    BY <1>0, <1>n
  <2> HIDE DEF a, b
  <2>5. 2^6 = 64 /\ 2^(8 - 6) = 4
    OBVIOUS
  <2>6. Six(raw, 4 * m + 1) = ((a * 64 + b \div 4) \div 4) % 64
    BY <2>2, <2>4, <2>5
  <2>7. ((a * 64 + b \div 4) \div 4) % 64 = 16 * (a % 4) + b \div 16
    <3>1. a \in Octets /\ b \in Octets
      BY <2>3 DEF Octets
    <3>2. Second(a, b)
      BY <3>1, Shifts, Zenon
    <3> QED
      BY <3>2 DEF Second
  <2> QED
    BY <2>6, <2>7 DEF a, b
<1>5. ASSUME 3 * m + 2 <= Len(raw)
      PROVE Six(raw, 4 * m + 2) = 4 * (raw[3 * m + 2] % 16) + next(3 * m + 3) \div 64
  <2> DEFINE a == raw[3 * m + 2]
             b == next(3 * m + 3)
  <2>1. /\ 4 * m + 2 \in Nat /\ 3 * m + 1 \in Nat /\ 3 * m + 1 = (6 * (4 * m + 2)) \div 8
        /\ 4 = (6 * (4 * m + 2)) % 8 /\ 4 \in Nat
        /\ 3 * m + 1 + 1 = 3 * m + 2 /\ 3 * m + 1 + 2 = 3 * m + 3
    OBVIOUS
  <2>2. Six(raw, 4 * m + 2) = ((a * 2^4 + (IF 3 * m + 2 < Len(raw) THEN raw[3 * m + 3] \div 2^(8 - 4) ELSE 0)) \div 4) % 64
    <3>1. Six(raw, 4 * m + 2) = From(3 * m + 1, 4)
      BY <1>2, <2>1
    <3>2. From(3 * m + 1, 4) = ((raw[3 * m + 1 + 1] * 2^4
            + (IF 3 * m + 1 + 1 < Len(raw) THEN raw[3 * m + 1 + 2] \div 2^(8 - 4) ELSE 0)) \div 4) % 64
      BY <1>f, Zenon
    <3> QED
      BY <2>1, <3>1, <3>2, Zenon
  <2>3. a \in 0 .. 255 /\ b \in 0 .. 255
    BY <1>0, <1>1, <1>5
  <2>4. (IF 3 * m + 2 < Len(raw) THEN raw[3 * m + 3] \div 16 ELSE 0) = b \div 16
    BY <1>0, <1>n
  <2> HIDE DEF a, b
  <2>5. 2^4 = 16 /\ 2^(8 - 4) = 16
    OBVIOUS
  <2>6. Six(raw, 4 * m + 2) = ((a * 16 + b \div 16) \div 4) % 64
    BY <2>2, <2>4, <2>5
  <2>7. ((a * 16 + b \div 16) \div 4) % 64 = 4 * (a % 16) + b \div 64
    <3>1. a \in Octets /\ b \in Octets
      BY <2>3 DEF Octets
    <3>2. Third(a, b)
      BY <3>1, Shifts, Zenon
    <3> QED
      BY <3>2 DEF Third
  <2> QED
    BY <2>6, <2>7 DEF a, b
<1>6. ASSUME 3 * m + 3 <= Len(raw)
      PROVE Six(raw, 4 * m + 3) = raw[3 * m + 3] % 64
  <2> DEFINE a == raw[3 * m + 3]
             b == next(3 * m + 4)
  <2>1. /\ 4 * m + 3 \in Nat /\ 3 * m + 2 \in Nat /\ 3 * m + 2 = (6 * (4 * m + 3)) \div 8
        /\ 2 = (6 * (4 * m + 3)) % 8 /\ 2 \in Nat
        /\ 3 * m + 2 + 1 = 3 * m + 3 /\ 3 * m + 2 + 2 = 3 * m + 4
    OBVIOUS
  <2>2. Six(raw, 4 * m + 3) = ((a * 2^2 + (IF 3 * m + 3 < Len(raw) THEN raw[3 * m + 4] \div 2^(8 - 2) ELSE 0)) \div 4) % 64
    <3>1. Six(raw, 4 * m + 3) = From(3 * m + 2, 2)
      BY <1>2, <2>1
    <3>2. From(3 * m + 2, 2) = ((raw[3 * m + 2 + 1] * 2^2
            + (IF 3 * m + 2 + 1 < Len(raw) THEN raw[3 * m + 2 + 2] \div 2^(8 - 2) ELSE 0)) \div 4) % 64
      BY <1>f, Zenon
    <3> QED
      BY <2>1, <3>1, <3>2, Zenon
  <2>3. a \in 0 .. 255 /\ b \in 0 .. 255
    BY <1>0, <1>1, <1>6
  <2>4. (IF 3 * m + 3 < Len(raw) THEN raw[3 * m + 4] \div 64 ELSE 0) = b \div 64
    BY <1>0, <1>n
  <2> HIDE DEF a, b
  <2>5. 2^2 = 4 /\ 2^(8 - 2) = 64
    OBVIOUS
  <2>6. Six(raw, 4 * m + 3) = ((a * 4 + b \div 64) \div 4) % 64
    BY <2>2, <2>4, <2>5
  <2>7. ((a * 4 + b \div 64) \div 4) % 64 = a % 64
    BY <2>3
  <2> QED
    BY <2>6, <2>7 DEF a, b
<1> QED
  BY <1>3, <1>4, <1>5, <1>6, Zenon DEF next

\* A bit of a decoded text, and eight of them.
Bit(text, k) == (Value(text[k \div 6 + 1]) \div 2^(5 - (k % 6))) % 2
Byte(text, k) == 128 * Bit(text, k) + 64 * Bit(text, k + 1) + 32 * Bit(text, k + 2)
                 + 16 * Bit(text, k + 3) + 8 * Bit(text, k + 4) + 4 * Bit(text, k + 5)
                 + 2 * Bit(text, k + 6) + Bit(text, k + 7)

\* Bits of a number put together again.
LEMMA BitsAdd ==
    ASSUME NEW v \in 0 .. 63
    PROVE  /\ 32 * ((v \div 32) % 2) + 16 * ((v \div 16) % 2) + 8 * ((v \div 8) % 2)
              + 4 * ((v \div 4) % 2) + 2 * ((v \div 2) % 2) + ((v \div 1) % 2) = v
           /\ 2 * ((v \div 32) % 2) + ((v \div 16) % 2) = v \div 16
           /\ 8 * ((v \div 32) % 2) + 4 * ((v \div 16) % 2) + 2 * ((v \div 8) % 2)
              + ((v \div 4) % 2) = v \div 4
           /\ 8 * ((v \div 8) % 2) + 4 * ((v \div 4) % 2) + 2 * ((v \div 2) % 2)
              + ((v \div 1) % 2) = v % 16
           /\ 2 * ((v \div 2) % 2) + ((v \div 1) % 2) = v % 4
<1>1. 32 * ((v \div 32) % 2) + 16 * ((v \div 16) % 2) + 8 * ((v \div 8) % 2)
              + 4 * ((v \div 4) % 2) + 2 * ((v \div 2) % 2) + ((v \div 1) % 2) = v
  OBVIOUS
<1>2. 2 * ((v \div 32) % 2) + ((v \div 16) % 2) = v \div 16
  OBVIOUS
<1>3. 8 * ((v \div 32) % 2) + 4 * ((v \div 16) % 2) + 2 * ((v \div 8) % 2)
              + ((v \div 4) % 2) = v \div 4
  OBVIOUS
<1>4. 8 * ((v \div 8) % 2) + 4 * ((v \div 4) % 2) + 2 * ((v \div 2) % 2)
              + ((v \div 1) % 2) = v % 16
  OBVIOUS
<1>5. 2 * ((v \div 2) % 2) + ((v \div 1) % 2) = v % 4
  OBVIOUS
<1> QED
  BY <1>1, <1>2, <1>3, <1>4, <1>5

\* The six bits of one character.
SixBits(text, k, v) ==
    /\ Bit(text, k) = (v \div 32) % 2 /\ Bit(text, k + 1) = (v \div 16) % 2
    /\ Bit(text, k + 2) = (v \div 8) % 2 /\ Bit(text, k + 3) = (v \div 4) % 2
    /\ Bit(text, k + 4) = (v \div 2) % 2 /\ Bit(text, k + 5) = (v \div 1) % 2

LEMMA BitIs ==
    ASSUME NEW text, NEW j \in Nat, NEW v \in Nat, Value(text[j + 1]) = v
    PROVE  SixBits(text, 6 * j, v)
<1>1. \A r \in 0 .. 5 : (6 * j + r) \div 6 + 1 = j + 1 /\ (6 * j + r) % 6 = r
  OBVIOUS
<1>2. 2^5 = 32 /\ 2^4 = 16 /\ 2^3 = 8 /\ 2^2 = 4 /\ 2^1 = 2 /\ 2^0 = 1
  OBVIOUS
<1>3. \A r \in 0 .. 5 : Bit(text, 6 * j + r) = (v \div 2^(5 - r)) % 2
  BY <1>1 DEF Bit
<1>4. 6 * j + 0 = 6 * j
  OBVIOUS
<1>5. /\ Bit(text, 6 * j + 0) = (v \div 2^(5 - 0)) % 2 /\ Bit(text, 6 * j + 1) = (v \div 2^(5 - 1)) % 2
      /\ Bit(text, 6 * j + 2) = (v \div 2^(5 - 2)) % 2 /\ Bit(text, 6 * j + 3) = (v \div 2^(5 - 3)) % 2
      /\ Bit(text, 6 * j + 4) = (v \div 2^(5 - 4)) % 2 /\ Bit(text, 6 * j + 5) = (v \div 2^(5 - 5)) % 2
  BY <1>3
<1> QED
  BY <1>2, <1>4, <1>5 DEF SixBits

\* Every byte comes from two characters.
LEMMA ByteIs ==
    ASSUME NEW raw \in Seq(0 .. 255), NEW text,
           \A j \in 0 .. Steps(raw) - 1 : Value(text[j + 1]) = Six(raw, j)
    PROVE  \A i \in 1 .. Len(raw) : Byte(text, 8 * (i - 1)) = raw[i]
<1> SUFFICES ASSUME NEW i \in 1 .. Len(raw) PROVE Byte(text, 8 * (i - 1)) = raw[i]
  OBVIOUS
<1> DEFINE m == (i - 1) \div 3
           next(k) == IF k <= Len(raw) THEN raw[k] ELSE 0
<1>0. Len(raw) \in Nat /\ \A k \in 1 .. Len(raw) : raw[k] \in 0 .. 255
  BY ElementOfSeq
<1>1. m \in Nat /\ (i = 3 * m + 1 \/ i = 3 * m + 2 \/ i = 3 * m + 3)
  BY <1>0
<1> HIDE DEF m
<1>2. \A k \in Nat \ {0} : next(k) \in 0 .. 255
  BY <1>0
<1>3. /\ 3 * m + 1 <= Len(raw) =>
            /\ Six(raw, 4 * m) = raw[3 * m + 1] \div 4
            /\ Six(raw, 4 * m + 1) = 16 * (raw[3 * m + 1] % 4) + next(3 * m + 2) \div 16
      /\ 3 * m + 2 <= Len(raw) =>
            Six(raw, 4 * m + 2) = 4 * (raw[3 * m + 2] % 16) + next(3 * m + 3) \div 64
      /\ 3 * m + 3 <= Len(raw) =>
            Six(raw, 4 * m + 3) = raw[3 * m + 3] % 64
  BY <1>1, SixIs, Zenon
<1>n. \A k \in 1 .. Len(raw) : next(k) = raw[k]
  BY <1>0
<1> HIDE DEF next
<1>4. CASE i = 3 * m + 1
  <2> DEFINE a == raw[3 * m + 1]
             b == next(3 * m + 2)
             v == a \div 4
             w == 16 * (a % 4) + b \div 16
             x == 6 * (4 * m)
             y == 6 * (4 * m + 1)
  <2>1. a \in 0 .. 255 /\ b \in 0 .. 255
    BY <1>0, <1>1, <1>2, <1>4
  <2>2. /\ v \in 0 .. 63 /\ w \in 0 .. 63
        /\ 4 * v + w \div 16 = a
    <3> HIDE DEF a, b
    <3> QED
      BY <2>1
  <2>3. 4 * m \in 0 .. Steps(raw) - 1 /\ 4 * m + 1 \in 0 .. Steps(raw) - 1
    BY <1>0, <1>1, <1>4 DEF Steps
  <2>4. Value(text[4 * m + 1]) = v /\ Value(text[(4 * m + 1) + 1]) = w
    BY <1>3, <1>4, <2>3
  <2>5. 8 * (i - 1) = x /\ x + 6 = y /\ x + 7 = y + 1
    BY <1>1, <1>4
  <2> HIDE DEF v, w
  <2>6. 4 * m \in Nat /\ 4 * m + 1 \in Nat /\ v \in Nat /\ w \in Nat
    BY <1>1, <2>2
  <2>7. SixBits(text, x, v)
    BY <2>4, <2>6, BitIs, Zenon
  <2>8. SixBits(text, y, w)
    BY <2>4, <2>6, BitIs, Zenon
  <2> HIDE DEF x, y, a, b
  <2>9. /\ 32 * ((v \div 32) % 2) + 16 * ((v \div 16) % 2) + 8 * ((v \div 8) % 2)
           + 4 * ((v \div 4) % 2) + 2 * ((v \div 2) % 2) + ((v \div 1) % 2) = v
        /\ 2 * ((w \div 32) % 2) + ((w \div 16) % 2) = w \div 16
    BY <2>2, BitsAdd, Zenon
  <2>10. Byte(text, x) = 4 * v + w \div 16
    <3>1. Byte(text, x) = 128 * Bit(text, x) + 64 * Bit(text, x + 1) + 32 * Bit(text, x + 2) + 16 * Bit(text, x + 3) +
             8 * Bit(text, x + 4) + 4 * Bit(text, x + 5) + 2 * Bit(text, y) + Bit(text, y + 1)
      BY <2>5, Zenon DEF Byte
    <3>2. Byte(text, x) = 128 * ((v \div 32) % 2) + 64 * ((v \div 16) % 2) + 32 * ((v \div 8) % 2) + 16 * ((v \div 4) % 2) +
             8 * ((v \div 2) % 2) + 4 * ((v \div 1) % 2) + 2 * ((w \div 32) % 2) + ((w \div 16) % 2)
      BY <3>1, <2>7, <2>8, Zenon DEF SixBits
    <3> QED
      BY <3>2, <2>2, <2>9
  <2> QED
    BY <1>4, <2>2, <2>5, <2>10 DEF a
<1>5. CASE i = 3 * m + 2
  <2> DEFINE a == raw[3 * m + 1]
             b == raw[3 * m + 2]
             c == next(3 * m + 3)
             v == 16 * (a % 4) + b \div 16
             w == 4 * (b % 16) + c \div 64
             x == 6 * (4 * m + 1)
             y == 6 * (4 * m + 2)
  <2>1. a \in 0 .. 255 /\ b \in 0 .. 255 /\ c \in 0 .. 255 /\ next(3 * m + 2) = b
    <3>1. 3 * m + 1 \in 1 .. Len(raw) /\ 3 * m + 2 \in 1 .. Len(raw) /\ 3 * m + 3 \in Nat \ {0}
      BY <1>0, <1>1, <1>5
    <3> QED
      BY <1>0, <1>2, <1>n, <3>1, Zenon
  <2>2. /\ v \in 0 .. 63 /\ w \in 0 .. 63
        /\ 16 * (v % 16) + w \div 4 = b
    <3> HIDE DEF a, b, c
    <3>1. v \in 0 .. 63 /\ w \in 0 .. 63
      BY <2>1
    <3>2. v % 16 = b \div 16 /\ w \div 4 = b % 16
      <4>1. a \in Octets /\ b \in Octets /\ c \in Octets
        BY <2>1 DEF Octets
      <4>2. Halves(a, b, c)
        BY <4>1, Shifts, Zenon
      <4> QED
        BY <4>2 DEF Halves
    <3> HIDE DEF v, w
    <3> QED
      BY <2>1, <3>1, <3>2
  <2>3. 4 * m + 1 \in 0 .. Steps(raw) - 1 /\ 4 * m + 2 \in 0 .. Steps(raw) - 1
    BY <1>0, <1>1, <1>5 DEF Steps
  <2>4. Value(text[(4 * m + 1) + 1]) = v /\ Value(text[(4 * m + 2) + 1]) = w
    <3>1. 3 * m + 1 <= Len(raw) /\ 3 * m + 2 <= Len(raw)
      BY <1>0, <1>1, <1>5
    <3>2. Six(raw, 4 * m + 1) = v /\ Six(raw, 4 * m + 2) = w
      BY <1>3, <2>1, <3>1, Zenon
    <3> QED
      BY <2>3, <3>2, Zenon
  <2>5. 8 * (i - 1) = x + 2 /\ x + 2 + 1 = x + 3 /\ x + 2 + 2 = x + 4 /\ x + 2 + 3 = x + 5
        /\ x + 2 + 4 = y /\ x + 2 + 5 = y + 1 /\ x + 2 + 6 = y + 2 /\ x + 2 + 7 = y + 3
    BY <1>1, <1>5
  <2> HIDE DEF v, w
  <2>6. 4 * m + 1 \in Nat /\ 4 * m + 2 \in Nat /\ v \in Nat /\ w \in Nat
    BY <1>1, <2>2
  <2>7. SixBits(text, x, v)
    BY <2>4, <2>6, BitIs, Zenon
  <2>8. SixBits(text, y, w)
    BY <2>4, <2>6, BitIs, Zenon
  <2> HIDE DEF x, y, a, b, c
  <2>9. /\ 8 * ((v \div 8) % 2) + 4 * ((v \div 4) % 2) + 2 * ((v \div 2) % 2)
           + ((v \div 1) % 2) = v % 16
        /\ 8 * ((w \div 32) % 2) + 4 * ((w \div 16) % 2) + 2 * ((w \div 8) % 2)
           + ((w \div 4) % 2) = w \div 4
    BY <2>2, BitsAdd, Zenon
  <2>10. Byte(text, x + 2) = 16 * (v % 16) + w \div 4
    <3>1. Byte(text, x + 2) = 128 * Bit(text, x + 2) + 64 * Bit(text, x + 3) + 32 * Bit(text, x + 4) + 16 * Bit(text, x + 5) +
             8 * Bit(text, y) + 4 * Bit(text, y + 1) + 2 * Bit(text, y + 2) + Bit(text, y + 3)
      BY <2>5, Zenon DEF Byte
    <3>2. Byte(text, x + 2) = 128 * ((v \div 8) % 2) + 64 * ((v \div 4) % 2) + 32 * ((v \div 2) % 2) + 16 * ((v \div 1) % 2) +
             8 * ((w \div 32) % 2) + 4 * ((w \div 16) % 2) + 2 * ((w \div 8) % 2) + ((w \div 4) % 2)
      BY <3>1, <2>7, <2>8, Zenon DEF SixBits
    <3> QED
      BY <3>2, <2>2, <2>9
  <2> QED
    BY <1>5, <2>2, <2>5, <2>10 DEF b
<1>6. CASE i = 3 * m + 3
  <2> DEFINE b == raw[3 * m + 2]
             c == raw[3 * m + 3]
             v == 4 * (b % 16) + c \div 64
             w == c % 64
             x == 6 * (4 * m + 2)
             y == 6 * (4 * m + 3)
  <2>1. b \in 0 .. 255 /\ c \in 0 .. 255 /\ next(3 * m + 3) = c
    BY <1>0, <1>1, <1>6, <1>n
  <2>2. /\ v \in 0 .. 63 /\ w \in 0 .. 63
        /\ 64 * (v % 4) + w = c
    <3> HIDE DEF b, c
    <3>1. v \in 0 .. 63 /\ w \in 0 .. 63
      BY <2>1
    <3>2. v % 4 = c \div 64
      BY <2>1
    <3> HIDE DEF v
    <3> QED
      BY <2>1, <3>1, <3>2
  <2>3. 4 * m + 2 \in 0 .. Steps(raw) - 1 /\ 4 * m + 3 \in 0 .. Steps(raw) - 1
    BY <1>0, <1>1, <1>6 DEF Steps
  <2>4. Value(text[(4 * m + 2) + 1]) = v /\ Value(text[(4 * m + 3) + 1]) = w
    <3>1. 3 * m + 2 <= Len(raw) /\ 3 * m + 3 <= Len(raw)
      BY <1>0, <1>1, <1>6
    <3>2. Six(raw, 4 * m + 2) = v /\ Six(raw, 4 * m + 3) = w
      BY <1>3, <2>1, <3>1, Zenon
    <3> QED
      BY <2>3, <3>2, Zenon
  <2>5. 8 * (i - 1) = x + 4 /\ x + 4 + 1 = x + 5 /\ x + 4 + 2 = y /\ x + 4 + 3 = y + 1
        /\ x + 4 + 4 = y + 2 /\ x + 4 + 5 = y + 3 /\ x + 4 + 6 = y + 4 /\ x + 4 + 7 = y + 5
    BY <1>1, <1>6
  <2> HIDE DEF v, w
  <2>6. 4 * m + 2 \in Nat /\ 4 * m + 3 \in Nat /\ v \in Nat /\ w \in Nat
    BY <1>1, <2>2
  <2>7. SixBits(text, x, v)
    BY <2>4, <2>6, BitIs, Zenon
  <2>8. SixBits(text, y, w)
    BY <2>4, <2>6, BitIs, Zenon
  <2> HIDE DEF x, y, b, c
  <2>9. /\ 2 * ((v \div 2) % 2) + ((v \div 1) % 2) = v % 4
        /\ 32 * ((w \div 32) % 2) + 16 * ((w \div 16) % 2) + 8 * ((w \div 8) % 2)
           + 4 * ((w \div 4) % 2) + 2 * ((w \div 2) % 2) + ((w \div 1) % 2) = w
    BY <2>2, BitsAdd, Zenon
  <2>10. Byte(text, x + 4) = 64 * (v % 4) + w
    <3>1. Byte(text, x + 4) = 128 * Bit(text, x + 4) + 64 * Bit(text, x + 5) + 32 * Bit(text, y) + 16 * Bit(text, y + 1) +
             8 * Bit(text, y + 2) + 4 * Bit(text, y + 3) + 2 * Bit(text, y + 4) + Bit(text, y + 5)
      BY <2>5, Zenon DEF Byte
    <3>2. Byte(text, x + 4) = 128 * ((v \div 2) % 2) + 64 * ((v \div 1) % 2) + 32 * ((w \div 32) % 2) + 16 * ((w \div 16) % 2) +
             8 * ((w \div 8) % 2) + 4 * ((w \div 4) % 2) + 2 * ((w \div 2) % 2) + ((w \div 1) % 2)
      BY <3>1, <2>7, <2>8, Zenon DEF SixBits
    <3> QED
      BY <3>2, <2>2, <2>9
  <2> QED
    BY <1>6, <2>2, <2>5, <2>10 DEF c
<1> QED
  BY <1>1, <1>4, <1>5, <1>6

LEMMA SixFits ==
    ASSUME NEW raw \in Seq(0 .. 255), NEW j \in 0 .. Steps(raw) - 1
    PROVE  Six(raw, j) \in 0 .. 63
<1> DEFINE m == j \div 4
           next(k) == IF k <= Len(raw) THEN raw[k] ELSE 0
<1>0. Len(raw) \in Nat /\ \A k \in 1 .. Len(raw) : raw[k] \in 0 .. 255
  BY ElementOfSeq
<1>1. \A k \in Nat \ {0} : next(k) \in 0 .. 255
  BY <1>0
<1>2. Steps(raw) = (8 * Len(raw) + 5) \div 6 /\ j \in Nat
  BY <1>0 DEF Steps
<1>3. m \in Nat /\ (j = 4 * m \/ j = 4 * m + 1 \/ j = 4 * m + 2 \/ j = 4 * m + 3)
  BY <1>2
<1> HIDE DEF m
<1>4. /\ 3 * m + 1 <= Len(raw) =>
            /\ Six(raw, 4 * m) = raw[3 * m + 1] \div 4
            /\ Six(raw, 4 * m + 1) = 16 * (raw[3 * m + 1] % 4) + next(3 * m + 2) \div 16
      /\ 3 * m + 2 <= Len(raw) =>
            Six(raw, 4 * m + 2) = 4 * (raw[3 * m + 2] % 16) + next(3 * m + 3) \div 64
      /\ 3 * m + 3 <= Len(raw) =>
            Six(raw, 4 * m + 3) = raw[3 * m + 3] % 64
  BY <1>3, SixIs, Zenon
<1> HIDE DEF next
<1>5. CASE j = 4 * m \/ j = 4 * m + 1
  <2>1. 3 * m + 1 \in 1 .. Len(raw) /\ 3 * m + 2 \in Nat \ {0}
    BY <1>0, <1>2, <1>3, <1>5
  <2>2. raw[3 * m + 1] \in 0 .. 255 /\ next(3 * m + 2) \in 0 .. 255
    BY <1>0, <1>1, <2>1
  <2>3. \A a, b \in 0 .. 255 : a \div 4 \in 0 .. 63 /\ 16 * (a % 4) + b \div 16 \in 0 .. 63
    OBVIOUS
  <2>4. raw[3 * m + 1] \div 4 \in 0 .. 63 /\ 16 * (raw[3 * m + 1] % 4) + next(3 * m + 2) \div 16 \in 0 .. 63
    BY <2>2, <2>3
  <2>5. 3 * m + 1 <= Len(raw)
    BY <2>1
  <2>6. Six(raw, 4 * m) \in 0 .. 63 /\ Six(raw, 4 * m + 1) \in 0 .. 63
    BY <1>4, <2>4, <2>5, Zenon
  <2> QED
    BY <1>5, <2>6
<1>6. CASE j = 4 * m + 2
  <2>1. 3 * m + 2 \in 1 .. Len(raw) /\ 3 * m + 3 \in Nat \ {0}
    BY <1>0, <1>2, <1>3, <1>6
  <2>2. raw[3 * m + 2] \in 0 .. 255 /\ next(3 * m + 3) \in 0 .. 255
    BY <1>0, <1>1, <2>1
  <2>3. \A a, b \in 0 .. 255 : 4 * (a % 16) + b \div 64 \in 0 .. 63
    OBVIOUS
  <2>4. 4 * (raw[3 * m + 2] % 16) + next(3 * m + 3) \div 64 \in 0 .. 63
    BY <2>2, <2>3
  <2> QED
    BY <1>4, <1>6, <2>1, <2>4
<1>7. CASE j = 4 * m + 3
  <2>1. 3 * m + 3 \in 1 .. Len(raw)
    BY <1>0, <1>2, <1>3, <1>7
  <2>2. raw[3 * m + 3] % 64 \in 0 .. 63
    <3>1. \A c \in 0 .. 255 : c % 64 \in 0 .. 63
      OBVIOUS
    <3> QED
      BY <1>0, <2>1, <3>1
  <2>3. 3 * m + 3 <= Len(raw)
    BY <2>1
  <2> QED
    BY <1>4, <1>7, <2>2, <2>3
<1> QED
  BY <1>3, <1>5, <1>6, <1>7

\* The text of base64_encode: its letters, and no more pads than needed.
Coded64(text, raw) ==
    /\ \E S : text \in Seq(S)
    /\ Len(text) \in Steps(raw) .. Steps(raw) + 3
    /\ \A j \in 1 .. Steps(raw) : text[j] = Alphabet64[Six(raw, j - 1) + 1]
    /\ \A j \in Steps(raw) + 1 .. Len(text) : text[j] = "="

LEMMA EncodedIs ==
    ASSUME NEW raw \in Seq(0 .. 255)
    PROVE  Coded64(Base64Encode(raw), raw)
<1> DEFINE steps == Steps(raw)
           Fills(n) == (6 * (steps + n)) % 8 = 0 /\ \A m \in 0 .. n - 1 : (6 * (steps + m)) % 8 # 0
           pads == CHOOSE n \in 0 .. 3 : Fills(n)
           f == [j \in 1 .. steps |-> Alphabet64[Six(raw, j - 1) + 1]]
           g == [n \in 1 .. pads |-> "="]
           S == {f[j] : j \in 1 .. steps} \union {"="}
           text == Base64Encode(raw)
<1>1. text = f \o g
  BY Zenon DEF Base64Encode, Six, Steps
<1>2. steps \in Nat
  BY DEF Steps
<1>3. \A j \in 1 .. steps : f[j] = Alphabet64[Six(raw, j - 1) + 1]
  OBVIOUS
<1> HIDE DEF steps
<1>4. f \in Seq(S) /\ Len(f) = steps /\ "=" \in S
  <2>1. f \in [1 .. steps -> S] /\ "=" \in S
    OBVIOUS
  <2> HIDE DEF f, S
  <2> QED
    BY <1>2, <2>1, FunctionIsText
<1>5. \E n \in 0 .. 3 : Fills(n)
  <2>1. CASE steps % 4 = 0
    <3>1. Fills(0)
      BY <1>2, <2>1
    <3> QED
      BY <3>1
  <2>2. CASE steps % 4 = 1
    <3>1. Fills(3)
      BY <1>2, <2>2
    <3> QED
      BY <3>1
  <2>3. CASE steps % 4 = 2
    <3>1. Fills(2)
      BY <1>2, <2>3
    <3> QED
      BY <3>1
  <2>4. CASE steps % 4 = 3
    <3>1. Fills(1)
      BY <1>2, <2>4
    <3> QED
      BY <3>1
  <2> QED
    BY <1>2, <2>1, <2>2, <2>3, <2>4
<1>6. pads \in 0 .. 3
  BY <1>5
<1> HIDE DEF pads, f, S
<1>7. g \in Seq(S) /\ Len(g) = pads /\ \A n \in 1 .. pads : g[n] = "="
  BY <1>4, <1>6
<1> HIDE DEF g
<1>8. /\ f \o g \in Seq(S) /\ Len(f \o g) = Len(f) + Len(g)
      /\ \A k \in 1 .. Len(f) + Len(g) :
            (f \o g)[k] = IF k <= Len(f) THEN f[k] ELSE g[k - Len(f)]
  BY <1>4, <1>7, ConcatProperties, Zenon
<1> HIDE DEF text
<1>9. Len(text) = steps + pads /\ text \in Seq(S)
  BY <1>1, <1>4, <1>7, <1>8
<1>10. ASSUME NEW j \in 1 .. steps PROVE text[j] = Alphabet64[Six(raw, j - 1) + 1]
  <2>1. j \in 1 .. Len(f) + Len(g) /\ j <= Len(f)
    BY <1>2, <1>4, <1>6, <1>7
  <2> QED
    BY <1>1, <1>3, <1>8, <2>1
<1>11. ASSUME NEW j \in steps + 1 .. Len(text) PROVE text[j] = "="
  <2>1. j \in 1 .. Len(f) + Len(g) /\ ~(j <= Len(f)) /\ j - Len(f) \in 1 .. pads
    BY <1>2, <1>4, <1>6, <1>7, <1>9
  <2> QED
    BY <1>1, <1>7, <1>8, <2>1
<1>12. Len(text) \in steps .. steps + 3
  BY <1>2, <1>6, <1>9
<1> QED
  BY <1>9, <1>10, <1>11, <1>12, Zenon DEF Coded64, text, steps

\* What is decoded of an encoded text is what was encoded, for bytes of every
\* value and every number of them.
THEOREM Base64RoundTrip ==
    \A raw \in Seq(0 .. 255) : Decoded(Base64Encode(raw)) = raw
<1> SUFFICES ASSUME NEW raw \in Seq(0 .. 255) PROVE Decoded(Base64Encode(raw)) = raw
  OBVIOUS
<1> DEFINE text == Base64Encode(raw)
           letters == {k \in DOMAIN text : text[k] # "="}
           n == Steps(raw)
<1>1. Coded64(text, raw)
  BY EncodedIs
<1> HIDE DEF text
<1>2. PICK S : text \in Seq(S)
  BY <1>1 DEF Coded64
<1>3. Len(raw) \in Nat /\ n \in Nat /\ n = (8 * Len(raw) + 5) \div 6
  BY DEF Steps
<1>4. Len(text) \in n .. n + 3 /\ \A j \in n + 1 .. Len(text) : text[j] = "="
  BY <1>1 DEF Coded64
<1>5. ASSUME NEW j \in 0 .. n - 1 PROVE text[j + 1] # "=" /\ Value(text[j + 1]) = Six(raw, j)
  <2>1. Six(raw, j) \in 0 .. 63
    BY SixFits
  <2>2. j + 1 \in 1 .. Steps(raw) /\ (j + 1) - 1 = j
    BY <1>3
  <2>3. text[j + 1] = Alphabet64[Six(raw, (j + 1) - 1) + 1]
    BY <1>1, <2>2 DEF Coded64
  <2>4. text[j + 1] = Alphabet64[Six(raw, j) + 1]
    BY <2>2, <2>3
  <2>5. Six(raw, j) + 1 \in 1 .. 64
    <3>1. \A v \in 0 .. 63 : v + 1 \in 1 .. 64
      OBVIOUS
    <3> QED
      BY <2>1, <3>1
  <2>6. text[j + 1] # "="
    BY <2>4, <2>5, Letters
  <2> QED
    BY <2>1, <2>4, <2>6, ValueIs
<1>6. letters = 1 .. n
  <2>1. DOMAIN text = 1 .. Len(text)
    BY <1>2
  <2>2. \A k \in 1 .. n : k \in 1 .. Len(text) /\ text[k] # "="
    <3> SUFFICES ASSUME NEW k \in 1 .. n PROVE k \in 1 .. Len(text) /\ text[k] # "="
      OBVIOUS
    <3>1. k - 1 \in 0 .. n - 1 /\ (k - 1) + 1 = k /\ k \in 1 .. Len(text)
      BY <1>3, <1>4
    <3> QED
      BY <1>5, <3>1
  <2>3. \A k \in 1 .. Len(text) : k \in 1 .. n \/ k \in n + 1 .. Len(text)
    BY <1>3, <1>4
  <2> QED
    BY <1>4, <2>1, <2>2, <2>3
<1>7. Cardinality(letters) = n
  <2>1. n \in Int /\ 1 \in Int /\ n \in Nat
    BY <1>3
  <2> HIDE DEF n
  <2>2. Cardinality(1 .. n) = IF 1 > n THEN 0 ELSE n - 1 + 1
    BY <2>1, FS_Interval, Zenon
  <2>3. Cardinality(1 .. n) = n
    BY <2>1, <2>2
  <2> QED
    BY <1>6, <2>3
<1>8. (6 * n) \div 8 = Len(raw)
  BY <1>3
<1>9. \A i \in 1 .. Len(raw) : Byte(text, 8 * (i - 1)) = raw[i]
  BY <1>5, ByteIs
<1>10. Decoded(text) = [i \in 1 .. (6 * Cardinality(letters)) \div 8 |-> Byte(text, 8 * (i - 1))]
  BY Zenon DEF Decoded, Byte, Bit, Value
<1> HIDE DEF letters, n
<1>11. Decoded(text) = [i \in 1 .. Len(raw) |-> raw[i]]
  <2>1. (6 * Cardinality(letters)) \div 8 = Len(raw)
    BY <1>7, <1>8
  <2> QED
    BY <1>9, <1>10, <2>1
<1>12. [i \in 1 .. Len(raw) |-> raw[i]] = raw
  OBVIOUS
<1> QED
  BY <1>11, <1>12 DEF text

-----------------------------------------------------------------------------
(* Texts joined and cut. *)

Text(x) == \E S : x \in Seq(S)

LEMMA TextIs ==
    \A x : Text(x) => Len(x) \in Nat /\ DOMAIN x = 1 .. Len(x)
BY DEF Text

LEMMA TextIn ==
    ASSUME NEW S, NEW x \in Seq(S), NEW T, S \subseteq T
    PROVE  x \in Seq(T)
OBVIOUS

\* What is needed of x \o y.
Joined(x, y) ==
    /\ Text(x \o y) /\ Len(x \o y) = Len(x) + Len(y)
    /\ \A k \in 1 .. Len(x) : (x \o y)[k] = x[k]
    /\ \A k \in 1 .. Len(y) : (x \o y)[Len(x) + k] = y[k]
    /\ \A k \in 1 .. Len(x) + Len(y) :
          k \in 1 .. Len(x) \/ (k - Len(x) \in 1 .. Len(y) /\ Len(x) + (k - Len(x)) = k)

LEMMA Join ==
    \A x, y : Text(x) /\ Text(y) => Joined(x, y)
<1> SUFFICES ASSUME NEW x, NEW y, Text(x), Text(y) PROVE Joined(x, y)
  OBVIOUS
<1>1. PICK S : x \in Seq(S)
  BY DEF Text
<1>2. PICK T : y \in Seq(T)
  BY DEF Text
<1> DEFINE U == S \union T
<1>3. x \in Seq(U) /\ y \in Seq(U)
  <2>1. S \subseteq U /\ T \subseteq U
    OBVIOUS
  <2> HIDE DEF U
  <2> QED
    BY <1>1, <1>2, <2>1, TextIn
<1> HIDE DEF U
<1>4. /\ x \o y \in Seq(U) /\ Len(x \o y) = Len(x) + Len(y)
      /\ \A k \in 1 .. Len(x) + Len(y) :
            (x \o y)[k] = IF k <= Len(x) THEN x[k] ELSE y[k - Len(x)]
  BY <1>3, ConcatProperties
<1>5. Len(x) \in Nat /\ Len(y) \in Nat
  BY <1>3
<1> DEFINE z == x \o y
<1> HIDE DEF z
<1>6. ASSUME NEW k \in 1 .. Len(x) PROVE z[k] = x[k]
  BY <1>4, <1>5 DEF z
<1>7. ASSUME NEW k \in 1 .. Len(y) PROVE z[Len(x) + k] = y[k]
  <2>1. Len(x) + k \in 1 .. Len(x) + Len(y) /\ ~(Len(x) + k <= Len(x)) /\ Len(x) + k - Len(x) = k
    BY <1>5
  <2> QED
    BY <1>4, <2>1 DEF z
<1>8. \A k \in 1 .. Len(x) + Len(y) :
          k \in 1 .. Len(x) \/ (k - Len(x) \in 1 .. Len(y) /\ Len(x) + (k - Len(x)) = k)
  BY <1>5
<1>9. Text(z)
  BY <1>4 DEF Text, z
<1> QED
  BY <1>4, <1>6, <1>7, <1>8, <1>9 DEF Joined, z

Associates(x, y, z) == (x \o y) \o z = x \o (y \o z)

LEMMA JoinAssoc ==
    \A x, y, z : Text(x) /\ Text(y) /\ Text(z) => Associates(x, y, z)
<1> SUFFICES ASSUME NEW x, NEW y, NEW z, Text(x), Text(y), Text(z)
             PROVE  Associates(x, y, z)
  OBVIOUS
<1>1. PICK S : x \in Seq(S)
  BY DEF Text
<1>2. PICK T : y \in Seq(T)
  BY DEF Text
<1>3. PICK V : z \in Seq(V)
  BY DEF Text
<1> DEFINE U == S \union T \union V
<1>4. x \in Seq(U) /\ y \in Seq(U) /\ z \in Seq(U)
  <2>1. S \subseteq U /\ T \subseteq U /\ V \subseteq U
    OBVIOUS
  <2> HIDE DEF U
  <2> QED
    BY <1>1, <1>2, <1>3, <2>1, TextIn
<1> HIDE DEF U
<1> QED
  BY <1>4, ConcatAssociative DEF Associates

LEMMA JoinText ==
    \A x, y : Text(x) /\ Text(y) => Text(x \o y)
BY Join, Zenon DEF Joined

LEMMA OneWord ==
    \A w : Text(<<w>>) /\ Len(<<w>>) = 1 /\ <<w>>[1] = w
<1> SUFFICES ASSUME NEW w PROVE Text(<<w>>) /\ Len(<<w>>) = 1 /\ <<w>>[1] = w
  OBVIOUS
<1>1. <<w>> \in Seq({w})
  OBVIOUS
<1> QED
  BY <1>1 DEF Text

LEMMA TwoWords ==
    \A v, w : /\ Text(<<v, w>>) /\ Len(<<v, w>>) = 2
              /\ <<v, w>>[1] = v /\ <<v, w>>[2] = w
<1> SUFFICES ASSUME NEW v, NEW w
             PROVE  Text(<<v, w>>) /\ Len(<<v, w>>) = 2 /\ <<v, w>>[1] = v /\ <<v, w>>[2] = w
  OBVIOUS
<1>1. <<v, w>> \in Seq({v, w})
  OBVIOUS
<1> QED
  BY <1>1 DEF Text

LEMMA NoWord ==
    Text(<< >>) /\ Len(<< >>) = 0
<1>1. << >> \in Seq({})
  OBVIOUS
<1> QED
  BY <1>1 DEF Text

LEMMA LineBreak ==
    Text(CRLF) /\ Len(CRLF) = 2 /\ CRLF[1] = "CR" /\ CRLF[2] = "LF"
BY TwoWords DEF CRLF

LEMMA Cut ==
    ASSUME NEW x, Text(x), NEW n \in 0 .. Len(x)
    PROVE  /\ Text(SubSeq(x, 1, n)) /\ Len(SubSeq(x, 1, n)) = n
           /\ \A k \in 1 .. n : SubSeq(x, 1, n)[k] = x[k]
           /\ Text(SubSeq(x, n + 1, Len(x))) /\ Len(SubSeq(x, n + 1, Len(x))) = Len(x) - n
           /\ \A k \in 1 .. Len(x) - n : SubSeq(x, n + 1, Len(x))[k] = x[n + k]
<1>1. PICK S : x \in Seq(S)
  BY DEF Text
<1>2. Len(x) \in Nat /\ n \in Nat /\ n <= Len(x)
  BY <1>1
<1> DEFINE p == SubSeq(x, 1, n)
           q == SubSeq(x, n + 1, Len(x))
<1>3. /\ p \in Seq(S) /\ Len(p) = (IF 1 <= n THEN n - 1 + 1 ELSE 0)
      /\ \A k \in 1 .. n - 1 + 1 : p[k] = x[1 + k - 1]
  <2>1. \A k \in 1 .. n : x[k] \in S
    BY <1>1, <1>2
  <2> QED
    BY <1>1, <1>2, <2>1, SubSeqProperties
<1>4. /\ q \in Seq(S) /\ Len(q) = (IF n + 1 <= Len(x) THEN Len(x) - (n + 1) + 1 ELSE 0)
      /\ \A k \in 1 .. Len(x) - (n + 1) + 1 : q[k] = x[(n + 1) + k - 1]
  <2>1. \A k \in n + 1 .. Len(x) : x[k] \in S
    BY <1>1, <1>2
  <2>2. n + 1 \in Int /\ Len(x) \in Int
    BY <1>2
  <2> QED
    BY <1>1, <2>1, <2>2, SubSeqProperties
<1> HIDE DEF p, q
<1>5. Len(p) = n /\ \A k \in 1 .. n : p[k] = x[k]
  <2>1. \A k \in 1 .. n : k \in 1 .. n - 1 + 1 /\ 1 + k - 1 = k
    BY <1>2
  <2> QED
    BY <1>2, <1>3, <2>1
<1>6. Len(q) = Len(x) - n /\ \A k \in 1 .. Len(x) - n : q[k] = x[n + k]
  <2>1. \A k \in 1 .. Len(x) - n : k \in 1 .. Len(x) - (n + 1) + 1 /\ (n + 1) + k - 1 = n + k
    BY <1>2
  <2> QED
    BY <1>2, <1>4, <2>1
<1>7. Text(p) /\ Text(q)
  BY <1>3, <1>4 DEF Text
<1> QED
  BY <1>5, <1>6, <1>7 DEF p, q

\* A text has a piece at a place.
Holds(x, piece, i) ==
    /\ i \in Nat \ {0} /\ i + Len(piece) <= Len(x) + 1
    /\ \A k \in 1 .. Len(piece) : x[i + k - 1] = piece[k]

LEMMA HoldsIsAt ==
    ASSUME NEW x, Text(x), NEW piece, Text(piece), NEW i \in Nat \ {0},
           i + Len(piece) <= Len(x) + 1
    PROVE  Holds(x, piece, i) <=> At(x, piece, i)
<1>1. PICK S : x \in Seq(S)
  BY DEF Text
<1>2. PICK T : piece \in Seq(T)
  BY DEF Text
<1> DEFINE U == S \union T
<1>3. x \in Seq(U) /\ piece \in Seq(U)
  <2>1. S \subseteq U /\ T \subseteq U
    OBVIOUS
  <2> HIDE DEF U
  <2> QED
    BY <1>1, <1>2, <2>1, TextIn
<1> HIDE DEF U
<1>4. At(x, piece, i) => \A k \in 1 .. Len(piece) : x[i + k - 1] = piece[k]
  BY <1>3, PieceHas, SMTT(20)
<1>5. (\A k \in 1 .. Len(piece) : x[i + k - 1] = piece[k]) => At(x, piece, i)
  BY <1>3, PieceIs, SMTT(20)
<1> QED
  BY <1>4, <1>5 DEF Holds

\* A piece goes on being held when something is put before or behind.
LEMMA HoldsLeft ==
    ASSUME NEW x, Text(x), NEW y, Text(y), NEW piece, Text(piece), NEW i, Holds(x, piece, i)
    PROVE  Holds(x \o y, piece, i)
<1>1. Joined(x, y) /\ Len(x) \in Nat /\ Len(y) \in Nat /\ Len(piece) \in Nat
  BY Join, TextIs
<1>2. \A k \in 1 .. Len(piece) : i + k - 1 \in 1 .. Len(x)
  BY <1>1 DEF Holds
<1>3. \A k \in 1 .. Len(piece) : (x \o y)[i + k - 1] = piece[k]
  BY <1>1, <1>2 DEF Holds, Joined
<1>4. i \in Nat \ {0} /\ i + Len(piece) <= Len(x) + Len(y) + 1
  BY <1>1 DEF Holds
<1> QED
  BY <1>1, <1>3, <1>4 DEF Holds, Joined

LEMMA HoldsRight ==
    ASSUME NEW x, Text(x), NEW y, Text(y), NEW piece, Text(piece), NEW i, Holds(y, piece, i)
    PROVE  Holds(x \o y, piece, Len(x) + i)
<1>1. Joined(x, y) /\ Len(x) \in Nat /\ Len(y) \in Nat /\ Len(piece) \in Nat
  BY Join, TextIs
<1>2. \A k \in 1 .. Len(piece) : i + k - 1 \in 1 .. Len(y) /\ Len(x) + i + k - 1 = Len(x) + (i + k - 1)
  BY <1>1 DEF Holds
<1>3. \A k \in 1 .. Len(piece) : (x \o y)[Len(x) + i + k - 1] = piece[k]
  <2> SUFFICES ASSUME NEW k \in 1 .. Len(piece) PROVE (x \o y)[Len(x) + i + k - 1] = piece[k]
    OBVIOUS
  <2>1. (x \o y)[Len(x) + (i + k - 1)] = y[i + k - 1]
    BY <1>1, <1>2 DEF Joined
  <2>2. y[i + k - 1] = piece[k]
    BY DEF Holds
  <2> QED
    BY <1>2, <2>1, <2>2
<1>4. Len(x) + i \in Nat \ {0} /\ Len(x) + i + Len(piece) <= Len(x) + Len(y) + 1
  BY <1>1 DEF Holds
<1> QED
  BY <1>1, <1>3, <1>4 DEF Holds, Joined

-----------------------------------------------------------------------------
(* Texts with marks: words that stand once, with a piece that they begin.   *)

Pieces(p) == \A w \in DOMAIN p : Text(p[w])

\* Of the words in the domain of p, text x has those of `own', each once, and
\* each begins the piece p gives it.
Marks(x, own, p) ==
    /\ Text(x)
    /\ \A i \in 1 .. Len(x) : x[i] \in DOMAIN p =>
          /\ x[i] \in own /\ Holds(x, p[x[i]], i)
          /\ \A j \in 1 .. Len(x) : x[j] = x[i] => j = i
    /\ \A w \in own : w \in DOMAIN p /\ \E i \in 1 .. Len(x) : x[i] = w

LEMMA MarksJoin ==
    \A x, y, a, b, p :
        Pieces(p) /\ Marks(x, a, p) /\ Marks(y, b, p) /\ a \intersect b = {} =>
            Marks(x \o y, a \union b, p)
<1> SUFFICES ASSUME NEW x, NEW y, NEW a, NEW b, NEW p, Pieces(p),
                    Marks(x, a, p), Marks(y, b, p), a \intersect b = {}
             PROVE  Marks(x \o y, a \union b, p)
  OBVIOUS
<1> DEFINE z == x \o y
<1>1. Text(x) /\ Text(y)
  BY DEF Marks
<1>2. Joined(x, y) /\ Len(x) \in Nat /\ Len(y) \in Nat
  BY <1>1, Join, TextIs
<1>3. /\ Text(z) /\ Len(z) = Len(x) + Len(y)
      /\ \A k \in 1 .. Len(x) : z[k] = x[k]
      /\ \A k \in 1 .. Len(y) : z[Len(x) + k] = y[k]
      /\ \A k \in 1 .. Len(z) :
            k \in 1 .. Len(x) \/ (k - Len(x) \in 1 .. Len(y) /\ Len(x) + (k - Len(x)) = k)
  BY <1>2 DEF Joined
<1>4. /\ \A i \in 1 .. Len(x) : x[i] \in DOMAIN p =>
            /\ x[i] \in a /\ Holds(x, p[x[i]], i)
            /\ \A j \in 1 .. Len(x) : x[j] = x[i] => j = i
      /\ \A w \in a : w \in DOMAIN p /\ \E i \in 1 .. Len(x) : x[i] = w
  BY DEF Marks
<1>5. /\ \A i \in 1 .. Len(y) : y[i] \in DOMAIN p =>
            /\ y[i] \in b /\ Holds(y, p[y[i]], i)
            /\ \A j \in 1 .. Len(y) : y[j] = y[i] => j = i
      /\ \A w \in b : w \in DOMAIN p /\ \E i \in 1 .. Len(y) : y[i] = w
  BY DEF Marks
<1>6. \A piece, i : Text(piece) /\ Holds(x, piece, i) => Holds(z, piece, i)
  BY <1>1, HoldsLeft
<1>7. \A piece, i : Text(piece) /\ Holds(y, piece, i) => Holds(z, piece, Len(x) + i)
  BY <1>1, HoldsRight
<1> HIDE DEF z
<1>8. ASSUME NEW i \in 1 .. Len(z), z[i] \in DOMAIN p
      PROVE  /\ z[i] \in a \union b /\ Holds(z, p[z[i]], i)
             /\ \A j \in 1 .. Len(z) : z[j] = z[i] => j = i
  <2>1. Text(p[z[i]])
    BY <1>8 DEF Pieces
  <2>2. CASE i \in 1 .. Len(x)
    <3>1. z[i] = x[i] /\ x[i] \in a /\ Holds(x, p[x[i]], i)
      BY <1>3, <1>4, <1>8, <2>2
    <3>2. ASSUME NEW j \in 1 .. Len(z), z[j] = z[i] PROVE j = i
      <4>1. CASE j \in 1 .. Len(x)
        BY <1>3, <1>4, <1>8, <2>2, <3>2, <4>1
      <4>2. CASE j - Len(x) \in 1 .. Len(y) /\ Len(x) + (j - Len(x)) = j
        <5>1. y[j - Len(x)] = z[j]
          BY <1>3, <4>2
        <5>2. z[j] \in b
          BY <1>5, <1>8, <3>2, <4>2, <5>1
        <5> QED
          BY <3>1, <3>2, <5>2
      <4> QED
        BY <1>3, <4>1, <4>2
    <3> QED
      BY <1>6, <2>1, <3>1, <3>2
  <2>3. CASE i - Len(x) \in 1 .. Len(y) /\ Len(x) + (i - Len(x)) = i
    <3> DEFINE k == i - Len(x)
    <3>1. z[i] = y[k]
      BY <1>3, <2>3
    <3>2. y[k] \in b /\ Holds(y, p[y[k]], k)
      BY <1>5, <1>8, <2>3, <3>1
    <3>3. Holds(z, p[z[i]], i)
      BY <1>7, <2>1, <2>3, <3>1, <3>2
    <3>4. ASSUME NEW j \in 1 .. Len(z), z[j] = z[i] PROVE j = i
      <4>1. CASE j \in 1 .. Len(x)
        <5>1. x[j] = z[j]
          BY <1>3, <4>1
        <5>2. z[j] \in a
          BY <1>4, <1>8, <3>4, <4>1, <5>1
        <5> QED
          BY <3>1, <3>2, <3>4, <5>2
      <4>2. CASE j - Len(x) \in 1 .. Len(y) /\ Len(x) + (j - Len(x)) = j
        <5>1. y[j - Len(x)] = z[j]
          BY <1>3, <4>2
        <5>2. j - Len(x) = k
          <6> HIDE DEF k
          <6>1. k \in 1 .. Len(y)
            BY <2>3 DEF k
          <6> QED
            BY <1>5, <1>8, <3>1, <3>4, <4>2, <5>1, <6>1
        <5> QED
          BY <2>3, <4>2, <5>2
      <4> QED
        BY <1>3, <4>1, <4>2
    <3> QED
      BY <3>1, <3>2, <3>3, <3>4
  <2> QED
    BY <1>3, <2>2, <2>3
<1>9. ASSUME NEW w \in a \union b
      PROVE  w \in DOMAIN p /\ \E i \in 1 .. Len(z) : z[i] = w
  <2>1. CASE w \in a
    <3>1. PICK i \in 1 .. Len(x) : x[i] = w
      BY <1>4, <2>1
    <3>2. i \in 1 .. Len(z) /\ z[i] = w
      BY <1>2, <1>3, <3>1
    <3> QED
      BY <1>4, <2>1, <3>2
  <2>2. CASE w \in b
    <3>1. PICK i \in 1 .. Len(y) : y[i] = w
      BY <1>5, <2>2
    <3>2. Len(x) + i \in 1 .. Len(z) /\ z[Len(x) + i] = w
      BY <1>2, <1>3, <3>1
    <3> QED
      BY <1>5, <2>2, <3>2
  <2> QED
    BY <2>1, <2>2
<1>10. Marks(z, a \union b, p)
  BY <1>3, <1>8, <1>9, Zenon DEF Marks
<1> QED
  BY <1>10 DEF z

LEMMA MarksNone ==
    \A x, p : Text(x) /\ (\A i \in 1 .. Len(x) : x[i] \notin DOMAIN p) => Marks(x, {}, p)
BY DEF Marks

\* A line that begins with the only mark in it.
LEMMA MarksOne ==
    \A x, w, p : /\ Text(x) /\ Len(x) # 0 /\ x[1] = w /\ w \in DOMAIN p /\ Holds(x, p[w], 1)
                 /\ \A i \in 2 .. Len(x) : x[i] \notin DOMAIN p
                 => Marks(x, {w}, p)
<1> SUFFICES ASSUME NEW x, NEW w, NEW p, Text(x), Len(x) # 0, x[1] = w, w \in DOMAIN p,
                    Holds(x, p[w], 1), \A i \in 2 .. Len(x) : x[i] \notin DOMAIN p
             PROVE  Marks(x, {w}, p)
  OBVIOUS
<1>1. Len(x) \in Nat
  BY TextIs
<1>2. \A i \in 1 .. Len(x) : i = 1 \/ i \in 2 .. Len(x)
  BY <1>1
<1>3. 1 \in 1 .. Len(x)
  BY <1>1
<1>4. ASSUME NEW i \in 1 .. Len(x), x[i] \in DOMAIN p
      PROVE  i = 1 /\ x[i] = w
  BY <1>2, <1>4
<1> QED
  BY <1>3, <1>4 DEF Marks
-----------------------------------------------------------------------------
(* FlattenSeq, a recursive function: the induction over the length of its   *)
(* argument is made by taking the least length that is a counterexample.    *)

\* A set of numbers that is not empty has a least one.
LEMMA Least ==
    ASSUME NEW T \in SUBSET Nat, T # {}
    PROVE  \E x \in T : \A y \in T : x <= y
<1> DEFINE Less == {ss \in Nat \X Nat : ss[1] < ss[2]}
<1>1. IsWellFoundedOn(Less, Nat)
  BY NatLessThanWellFounded DEF OpToRel
<1> HIDE DEF Less
<1>2. PICK x \in T : \A y \in T : ~(<<y, x>> \in Less)
  BY <1>1, WFMin
<1>3. \A y \in T : ~(y < x)
  <2> SUFFICES ASSUME NEW y \in T, y < x PROVE FALSE
    OBVIOUS
  <2>1. <<y, x>> \in Less
    BY DEF Less
  <2> QED
    BY <1>2, <2>1
<1>4. \A y \in T : x <= y
  BY <1>3
<1> QED
  BY <1>4

\* f[i] is the first i sequences of s one behind the other, for i up to k.
Joins(f, s, k) ==
    f = [i \in 1 .. k |-> IF i = 1 THEN s[i] ELSE f[i - 1] \o s[i]]

\* Its elements.
LEMMA JoinsAt ==
    ASSUME NEW s, NEW k \in Nat, NEW f, Joins(f, s, k), NEW i \in 1 .. k
    PROVE  f[i] = IF i = 1 THEN s[i] ELSE f[i - 1] \o s[i]
<1> DEFINE h == [j \in 1 .. k |-> IF j = 1 THEN s[j] ELSE f[j - 1] \o s[j]]
<1>1. f = h
  BY DEF Joins
<1>2. h[i] = IF i = 1 THEN s[i] ELSE f[i - 1] \o s[i]
  OBVIOUS
<1> HIDE DEF h
<1>3. f[i] = h[i]
  BY <1>1
<1> QED
  BY <1>2, <1>3

\* The joined sequences up to k can be continued by one.
LEMMA JoinOne ==
    ASSUME NEW s, NEW k \in Nat, NEW f, Joins(f, s, k)
    PROVE  \E g : Joins(g, s, k + 1)
<1> DEFINE g == [i \in 1 .. k + 1 |->
                    IF i <= k THEN f[i] ELSE IF i = 1 THEN s[i] ELSE f[k] \o s[i]]
           h == [i \in 1 .. k + 1 |-> IF i = 1 THEN s[i] ELSE g[i - 1] \o s[i]]
<1>1. ASSUME NEW i \in 1 .. k + 1
      PROVE  g[i] = h[i]
  <2>1. CASE i = 1 /\ k = 0
    BY <2>1
  <2>2. CASE i <= k
    <3>1. f[i] = IF i = 1 THEN s[i] ELSE f[i - 1] \o s[i]
      BY <2>2, JoinsAt
    <3>2. i # 1 => g[i - 1] = f[i - 1]
      BY <2>2
    <3>3. g[i] = f[i] /\ h[i] = IF i = 1 THEN s[i] ELSE g[i - 1] \o s[i]
      BY <2>2
    <3> HIDE DEF g, h
    <3> QED
      BY <3>1, <3>2, <3>3
  <2>3. CASE i = k + 1 /\ k # 0
    <3>1. i \in 1 .. k + 1 /\ i # 1 /\ ~(i <= k)
      BY <2>3
    <3>2. g[i] = f[k] \o s[i]
      BY <3>1
    <3>3. h[i] = g[i - 1] \o s[i]
      <4> HIDE DEF g
      <4> QED
        BY <3>1
    <3>4. g[i - 1] = f[k]
      BY <2>3
    <3> HIDE DEF g, h
    <3> QED
      BY <3>2, <3>3, <3>4
  <2> QED
    BY <2>1, <2>2, <2>3
<1>2. g = h
  <2>1. DOMAIN g = 1 .. k + 1 /\ DOMAIN h = 1 .. k + 1
    OBVIOUS
  <2>2. g = [i \in 1 .. k + 1 |-> g[i]] /\ h = [i \in 1 .. k + 1 |-> h[i]]
    OBVIOUS
  <2> HIDE DEF g, h
  <2> QED
    BY <1>1, <2>1, <2>2
<1>3. Joins(g, s, k + 1)
  BY <1>2 DEF Joins
<1> QED
  BY <1>3

\* So they exist up to every k.
LEMMA JoinsExist ==
    ASSUME NEW s, NEW k \in Nat
    PROVE  \E f : Joins(f, s, k)
<1> DEFINE Bad == {n \in Nat : ~ \E f : Joins(f, s, n)}
<1>1. ASSUME Bad # {} PROVE FALSE
  <2>1. PICK n \in Bad : \A y \in Bad : n <= y
    BY <1>1, Least
  <2>2. CASE n = 0
    <3>1. Joins([i \in 1 .. 0 |-> s], s, 0)
      BY DEF Joins
    <3> QED
      BY <2>1, <2>2, <3>1
  <2>3. CASE n # 0
    <3>1. n - 1 \in Nat /\ ~(n <= n - 1)
      BY <2>3
    <3>2. n - 1 \notin Bad
      BY <2>1, <3>1
    <3>3. \E f : Joins(f, s, n - 1)
      BY <3>1, <3>2
    <3>4. \E f : Joins(f, s, (n - 1) + 1)
      BY <3>1, <3>3, JoinOne
    <3> QED
      BY <3>4
  <2> QED
    BY <2>2, <2>3
<1> QED
  BY <1>1

\* What FlattenSeq computes: the last of the joined sequences.
LEMMA FlattenIsJoin ==
    ASSUME NEW s, Len(s) \in Nat, Len(s) # 0
    PROVE  \E f : Joins(f, s, Len(s)) /\ FlattenSeq(s) = f[Len(s)]
<1>1. FlattenSeq(s) = (CHOOSE f : Joins(f, s, Len(s)))[Len(s)]
  BY Zenon DEF FlattenSeq, Joins
<1>2. \E f : Joins(f, s, Len(s))
  BY JoinsExist
<1> QED
  BY <1>1, <1>2

\* The marks of sequences one behind the other.
LEMMA FlattenMarks ==
    ASSUME NEW p, Pieces(p), NEW s, NEW n \in Nat, s = [k \in 1 .. n |-> s[k]], NEW o,
           \A k \in 1 .. n : Marks(s[k], o[k], p),
           \A j, k \in 1 .. n : j # k => o[j] \intersect o[k] = {}
    PROVE  Marks(FlattenSeq(s), UNION {o[k] : k \in 1 .. n}, p)
<1>1. Len(s) = n
  <2> DEFINE S == {s[k] : k \in 1 .. n}
  <2>1. s \in [1 .. n -> S]
    OBVIOUS
  <2> HIDE DEF S
  <2> QED
    BY <2>1
<1>2. CASE n = 0
  <2>1. FlattenSeq(s) = s
    BY <1>1, <1>2 DEF FlattenSeq
  <2>2. s \in Seq({}) /\ Len(s) = 0
    BY <1>1, <1>2
  <2>3. UNION {o[k] : k \in 1 .. n} = {}
    BY <1>2
  <2>4. Marks(s, {}, p)
    BY <2>2 DEF Marks, Text
  <2> QED
    BY <2>1, <2>3, <2>4
<1>3. CASE n # 0
  <2>1. PICK f : Joins(f, s, n) /\ FlattenSeq(s) = f[n]
    BY <1>1, <1>3, FlattenIsJoin
  <2> DEFINE Own(k) == UNION {o[j] : j \in 1 .. k}
             Bad == {k \in 1 .. n : ~Marks(f[k], Own(k), p)}
  <2>2. ASSUME Bad # {} PROVE FALSE
    <3>1. PICK k \in Bad : \A y \in Bad : k <= y
      <4>1. Bad \in SUBSET Nat
        OBVIOUS
      <4> HIDE DEF Bad
      <4> QED
        BY <2>2, <4>1, Least
    <3>2. k \in 1 .. n /\ f[k] = IF k = 1 THEN s[k] ELSE f[k - 1] \o s[k]
      BY <2>1, JoinsAt
    <3>3. CASE k = 1
      <4>1. Own(1) = o[1]
        OBVIOUS
      <4> QED
        BY <3>2, <3>3, <4>1
    <3>4. CASE k # 1
      <4>1. k - 1 \in 1 .. n /\ ~(k <= k - 1) /\ 1 .. k = (1 .. k - 1) \union {k}
        BY <3>2, <3>4
      <4>2. Marks(f[k - 1], Own(k - 1), p)
        BY <3>1, <4>1
      <4>3. Own(k) = Own(k - 1) \union o[k]
        BY <4>1
      <4>4. Own(k - 1) \intersect o[k] = {}
        BY <3>2, <4>1
      <4> HIDE DEF Own
      <4>5. Marks(f[k - 1] \o s[k], Own(k - 1) \union o[k], p)
        BY <3>2, <4>2, <4>4, MarksJoin
      <4> QED
        BY <3>2, <3>4, <4>3, <4>5
    <3> QED
      BY <3>3, <3>4
  <2>3. Marks(f[n], Own(n), p)
    <3>1. n \in 1 .. n
      BY <1>3
    <3> HIDE DEF Own
    <3> QED
      BY <2>2, <3>1
  <2> QED
    BY <2>1, <2>3
<1> QED
  BY <1>2, <1>3

-----------------------------------------------------------------------------
(* What the server looks for in a request. *)

CSeqWord == "CSeq: "
TransportWord == "Transport: "
PortWord == "port="

KindSet == {Kinds[k] : k \in DOMAIN Kinds}
FirstWord(kind) == Command[kind][1]
FirstWords == {FirstWord(kind) : kind \in KindSet}

LEMMA KindsAre == KindSet = {"OPTIONS", "DESCRIBE", "SETUP", "PLAY", "TEARDOWN"}
BY DEF KindSet, Kinds

LEMMA CommandsAre ==
    /\ DOMAIN Command = KindSet
    /\ \A kind \in KindSet :
          /\ Text(Command[kind]) /\ Len(Command[kind]) = 2 /\ Command[kind][2] \notin Keywords
          /\ FirstWord(kind) # CSeqWord /\ FirstWord(kind) # TransportWord /\ FirstWord(kind) # PortWord
    /\ \A k, j \in KindSet : FirstWord(k) = FirstWord(j) => k = j
    /\ Keywords = FirstWords \union {CSeqWord, TransportWord, PortWord}
    /\ FirstWords = {"OPT", "DESC", "SET", "PL", "TEAR"}
    /\ CSeqWord # TransportWord /\ CSeqWord # PortWord /\ TransportWord # PortWord
<1> DEFINE Down == "DOWN "
           Named == [OPTIONS |-> <<"OPT", "IONS">>, DESCRIBE |-> <<"DESC", "RIBE">>,
                     SETUP |-> <<"SET", "UP">>, PLAY |-> <<"PL", "AY">>,
                     TEARDOWN |-> <<"TEAR", Down>>]
           seconds == {"IONS", "RIBE", "UP", "AY", Down}
           firsts == {"OPT", "DESC", "SET", "PL", "TEAR"}
           fields == {CSeqWord, TransportWord, PortWord}
<1>1. Command = Named
  BY Zenon DEF Command
<1>2. /\ Down \notin firsts /\ Down \notin fields
      /\ \A w \in {"IONS", "RIBE", "UP", "AY"} : w \notin firsts /\ w \notin fields
      /\ \A w \in firsts : w \notin fields
      /\ CSeqWord # TransportWord /\ CSeqWord # PortWord /\ TransportWord # PortWord
  BY Zenon DEF CSeqWord, TransportWord, PortWord
<1> HIDE DEF Down, Named
<1>3. /\ DOMAIN Command = KindSet
      /\ Command["OPTIONS"] = <<"OPT", "IONS">> /\ Command["DESCRIBE"] = <<"DESC", "RIBE">>
      /\ Command["SETUP"] = <<"SET", "UP">> /\ Command["PLAY"] = <<"PL", "AY">>
      /\ Command["TEARDOWN"] = <<"TEAR", Down>>
  BY <1>1, KindsAre DEF Named
<1>4. /\ FirstWord("OPTIONS") = "OPT" /\ FirstWord("DESCRIBE") = "DESC"
      /\ FirstWord("SETUP") = "SET" /\ FirstWord("PLAY") = "PL" /\ FirstWord("TEARDOWN") = "TEAR"
  BY <1>3, TwoWords DEF FirstWord
<1>5. FirstWords = firsts
  BY <1>4, KindsAre DEF FirstWords
<1>6. Keywords = FirstWords \union fields
  <2>1. Keywords = {Command[kind][1] : kind \in DOMAIN Command} \union fields
    BY Zenon DEF Keywords, CSeqWord, TransportWord, PortWord
  <2> QED
    BY <1>3, <2>1 DEF FirstWords, FirstWord
<1>7. ASSUME NEW kind \in KindSet
      PROVE  /\ Text(Command[kind]) /\ Len(Command[kind]) = 2 /\ Command[kind][2] \in seconds
             /\ FirstWord(kind) \in firsts
  BY <1>3, <1>4, KindsAre, TwoWords
<1>8. \A w \in seconds : w \notin Keywords
  BY <1>2, <1>5, <1>6
<1>9. \A k, j \in KindSet : FirstWord(k) = FirstWord(j) => k = j
  BY <1>4, KindsAre
<1> HIDE DEF seconds, firsts
<1>10. \A kind \in KindSet :
          FirstWord(kind) # CSeqWord /\ FirstWord(kind) # TransportWord /\ FirstWord(kind) # PortWord
  BY <1>2, <1>7
<1> QED
  BY <1>2, <1>3, <1>5, <1>6, <1>7, <1>8, <1>9, <1>10 DEF firsts

-----------------------------------------------------------------------------
(* What a request has of the words the server looks for. *)

LEMMA NotKeywords ==
    /\ DigitWords = {"0", "1", "2", "3", "4", "5", "6", "7", "8", "9"}
    /\ \A w \in DigitWords \union {"CR", "LF", "-", "_", "client", "RTP/AVP;unicast;", " RTSP/1.0",
                                   "User-Agent: ", "LibVLC", "My", "Player"} : w \notin Keywords
<1>1. DigitWords = {"0", "1", "2", "3", "4", "5", "6", "7", "8", "9"}
  BY DEF DigitWords, Digits
<1>2. Keywords = {"OPT", "DESC", "SET", "PL", "TEAR"} \union {CSeqWord, TransportWord, PortWord}
  BY CommandsAre
<1>3. \A w \in {"0", "1", "2", "3", "4", "5", "6", "7", "8", "9"} :
          w \notin {"OPT", "DESC", "SET", "PL", "TEAR"} \union {CSeqWord, TransportWord, PortWord}
  BY Zenon DEF CSeqWord, TransportWord, PortWord
<1>4. \A w \in {"CR", "LF", "-", "_", "client", "RTP/AVP;unicast;", " RTSP/1.0",
                "User-Agent: ", "LibVLC", "My", "Player"} :
          w \notin {"OPT", "DESC", "SET", "PL", "TEAR"} \union {CSeqWord, TransportWord, PortWord}
  BY Zenon DEF CSeqWord, TransportWord, PortWord
<1> QED
  BY <1>1, <1>2, <1>3, <1>4, Zenon

\* What the server looks for in request r, and what stands there.
Fields(r) ==
    [w \in Keywords |-> IF w = CSeqWord THEN Line("cseq", r) \o CRLF
                        ELSE IF w = TransportWord THEN Line("transport", r) \o CRLF
                        ELSE IF w = PortWord THEN <<PortWord>> \o r.port \o <<"-">>
                        ELSE <<w>>]

\* The same without what stands there.
Words == [w \in Keywords |-> <<w>>]

LEMMA WordPieces == Pieces(Words) /\ DOMAIN Words = Keywords
BY OneWord DEF Pieces, Words

\* A word that is no keyword, and one that is.
LEMMA WordMarks ==
    \A w : /\ w \notin Keywords => Marks(<<w>>, {}, Words)
           /\ w \in Keywords => Marks(<<w>>, {w}, Words)
<1> SUFFICES ASSUME NEW w PROVE /\ w \notin Keywords => Marks(<<w>>, {}, Words)
                                /\ w \in Keywords => Marks(<<w>>, {w}, Words)
  OBVIOUS
<1> DEFINE x == <<w>>
<1>1. Text(x) /\ Len(x) = 1 /\ x[1] = w /\ DOMAIN Words = Keywords
  BY OneWord, WordPieces
<1> HIDE DEF x
<1>2. \A i \in 1 .. Len(x) : i = 1
  BY <1>1
<1>3. w \notin Keywords => Marks(x, {}, Words)
  BY <1>1, <1>2, MarksNone
<1>4. ASSUME w \in Keywords PROVE Marks(x, {w}, Words)
  <2>1. Words[w] = x
    BY <1>4 DEF Words, x
  <2>2. Holds(x, Words[w], 1)
    <3>1. Holds(x, x, 1)
      BY <1>1, <1>2 DEF Holds
    <3> QED
      BY <2>1, <3>1
  <2>3. \A i \in 2 .. Len(x) : x[i] \notin DOMAIN Words
    BY <1>1
  <2>4. Text(x) /\ Len(x) # 0 /\ x[1] = w /\ w \in DOMAIN Words
    BY <1>1, <1>4
  <2> QED
    BY <2>2, <2>3, <2>4, MarksOne, Zenon
<1> QED
  BY <1>3, <1>4 DEF x

\* A line of words that are no keywords goes on without marks.
LEMMA PlainMarks ==
    \A S, x : x \in Seq(S) /\ S \intersect Keywords = {} => Marks(x, {}, Words)
<1> SUFFICES ASSUME NEW S, NEW x \in Seq(S), S \intersect Keywords = {} PROVE Marks(x, {}, Words)
  OBVIOUS
<1>1. Text(x) /\ \A i \in 1 .. Len(x) : x[i] \in S
  BY ElementOfSeq DEF Text
<1>2. \A i \in 1 .. Len(x) : x[i] \notin DOMAIN Words
  BY <1>1, WordPieces
<1> QED
  BY <1>1, <1>2, MarksNone

\* The marks of a text are known when what stands there is.
LEMMA MarksWith ==
    \A x, own, q, p : /\ Marks(x, own, q) /\ DOMAIN p = DOMAIN q
                      /\ \A w \in own : \E i \in 1 .. Len(x) : x[i] = w /\ Holds(x, p[w], i)
                      => Marks(x, own, p)
<1> SUFFICES ASSUME NEW x, NEW own, NEW q, NEW p, Marks(x, own, q), DOMAIN p = DOMAIN q,
                    \A w \in own : \E i \in 1 .. Len(x) : x[i] = w /\ Holds(x, p[w], i)
             PROVE  Marks(x, own, p)
  OBVIOUS
<1>1. ASSUME NEW i \in 1 .. Len(x), x[i] \in DOMAIN p
      PROVE  /\ x[i] \in own /\ Holds(x, p[x[i]], i)
             /\ \A j \in 1 .. Len(x) : x[j] = x[i] => j = i
  <2>1. x[i] \in own /\ \A j \in 1 .. Len(x) : x[j] = x[i] => j = i
    BY <1>1 DEF Marks
  <2>2. PICK j \in 1 .. Len(x) : x[j] = x[i] /\ Holds(x, p[x[i]], j)
    BY <2>1
  <2>3. j = i
    BY <2>1, <2>2
  <2> QED
    BY <2>1, <2>2, <2>3
<1>2. \A w \in own : w \in DOMAIN p /\ \E i \in 1 .. Len(x) : x[i] = w
  BY DEF Marks
<1>3. Text(x)
  BY DEF Marks
<1> QED
  BY <1>1, <1>2, <1>3, Zenon DEF Marks

\* The words of the lines.
LEMMA LinesAre ==
    \A r : /\ Line("cseq", r) = <<CSeqWord>> \o r.seq
           /\ Line("agent", r) = <<"User-Agent: ", "LibVLC">>
           /\ Line("agent_", r) = <<"User-Agent: ", "My", "_", "Player">>
           /\ Line("transport", r) =
                 <<TransportWord, "RTP/AVP;unicast;", "client", "_", PortWord>>
                 \o r.port \o <<"-">> \o r.rtcp
BY Zenon DEF Line, CSeqWord, TransportWord, PortWord

LEMMA FieldsAre ==
    \A r : /\ DOMAIN Fields(r) = Keywords
           /\ Fields(r)[CSeqWord] = Line("cseq", r) \o CRLF
           /\ Fields(r)[TransportWord] = Line("transport", r) \o CRLF
           /\ Fields(r)[PortWord] = <<PortWord>> \o r.port \o <<"-">>
           /\ \A w \in FirstWords : Fields(r)[w] = <<w>>
<1> SUFFICES ASSUME NEW r
             PROVE /\ DOMAIN Fields(r) = Keywords
           /\ Fields(r)[CSeqWord] = Line("cseq", r) \o CRLF
           /\ Fields(r)[TransportWord] = Line("transport", r) \o CRLF
           /\ Fields(r)[PortWord] = <<PortWord>> \o r.port \o <<"-">>
           /\ \A w \in FirstWords : Fields(r)[w] = <<w>>
  OBVIOUS
<1> DEFINE c == Line("cseq", r) \o CRLF
           t == Line("transport", r) \o CRLF
           q == <<PortWord>> \o r.port \o <<"-">>
<1>1. Fields(r) = [w \in Keywords |-> IF w = CSeqWord THEN c
                        ELSE IF w = TransportWord THEN t
                        ELSE IF w = PortWord THEN q
                        ELSE <<w>>]
  BY DEF Fields
<1> HIDE DEF c, t, q
<1>2. /\ {CSeqWord, TransportWord, PortWord} \subseteq Keywords /\ FirstWords \subseteq Keywords
      /\ CSeqWord # TransportWord /\ CSeqWord # PortWord /\ TransportWord # PortWord
      /\ \A w \in FirstWords : w # CSeqWord /\ w # TransportWord /\ w # PortWord
  BY CommandsAre DEF FirstWords
<1>3. /\ DOMAIN Fields(r) = Keywords /\ Fields(r)[CSeqWord] = c
      /\ Fields(r)[TransportWord] = t /\ Fields(r)[PortWord] = q
      /\ \A w \in FirstWords : Fields(r)[w] = <<w>>
  BY <1>1, <1>2
<1> QED
  BY <1>3 DEF c, t, q

LEMMA HoldsSelf ==
    \A x : Text(x) => Holds(x, x, 1)
BY TextIs DEF Holds

LEMMA DigitsText ==
    \A x \in Seq(DigitWords) : Text(x) /\ Marks(x, {}, Words)
<1>1. DigitWords \intersect Keywords = {}
  BY NotKeywords
<1> QED
  BY <1>1, PlainMarks DEF Text

LEMMA BreakMarks == Marks(CRLF, {}, Words)
<1>1. Text(CRLF) /\ \A i \in 1 .. Len(CRLF) : CRLF[i] = "CR" \/ CRLF[i] = "LF"
  BY LineBreak
<1>2. \A i \in 1 .. Len(CRLF) : CRLF[i] \notin DOMAIN Words
  BY <1>1, NotKeywords, WordPieces
<1> QED
  BY <1>1, <1>2, MarksNone

LEMMA CSeqMarks ==
    \A r : r.seq \in Seq(DigitWords) => Marks(Line("cseq", r) \o CRLF, {CSeqWord}, Fields(r))
<1> SUFFICES ASSUME NEW r, r.seq \in Seq(DigitWords)
             PROVE  Marks(Line("cseq", r) \o CRLF, {CSeqWord}, Fields(r))
  OBVIOUS
<1> DEFINE head == <<CSeqWord>>
           line == head \o r.seq
           x == line \o CRLF
<1>0. CSeqWord \in Keywords
  BY CommandsAre
<1>1. Marks(head, {CSeqWord}, Words) /\ Marks(r.seq, {}, Words)
  BY <1>0, WordMarks, DigitsText
<1>2. Marks(line, {CSeqWord} \union {}, Words)
  <2>1. {CSeqWord} \intersect {} = {}
    OBVIOUS
  <2> QED
    BY <1>1, <2>1, WordPieces, MarksJoin
<1>3. Marks(x, {CSeqWord}, Words)
  <2>1. {CSeqWord} \union {} \union {} = {CSeqWord} /\ ({CSeqWord} \union {}) \intersect {} = {}
    OBVIOUS
  <2>2. Marks(x, {CSeqWord} \union {} \union {}, Words)
    BY <1>2, <2>1, BreakMarks, WordPieces, MarksJoin
  <2> QED
    BY <2>1, <2>2
<1>4. Text(head) /\ Len(head) = 1 /\ head[1] = CSeqWord /\ Text(r.seq) /\ Text(line) /\ Text(CRLF)
  BY <1>1, <1>2, OneWord, LineBreak DEF Marks
<1>5. 1 \in 1 .. Len(x) /\ x[1] = CSeqWord
  <2>1. Joined(head, r.seq) /\ Joined(line, CRLF) /\ Len(r.seq) \in Nat /\ Len(CRLF) = 2
    BY <1>4, Join, TextIs, LineBreak
  <2> HIDE DEF head, line, x
  <2>2. 1 \in 1 .. Len(line) /\ line[1] = CSeqWord /\ Len(line) \in Nat
    <3>1. Len(head \o r.seq) = 1 + Len(r.seq) /\ (head \o r.seq)[1] = CSeqWord
      BY <1>4, <2>1 DEF Joined
    <3> QED
      BY <2>1, <3>1 DEF line
  <2>3. Len(line \o CRLF) = Len(line) + 2 /\ (line \o CRLF)[1] = CSeqWord
    BY <2>1, <2>2 DEF Joined
  <2> QED
    BY <2>2, <2>3 DEF x
<1>6. Line("cseq", r) \o CRLF = x
  BY LinesAre, Zenon
<1> HIDE DEF x
<1>7. Fields(r)[CSeqWord] = x /\ DOMAIN Fields(r) = DOMAIN Words
  BY <1>6, FieldsAre, WordPieces, Zenon
<1>8. Holds(x, Fields(r)[CSeqWord], 1)
  BY <1>3, <1>7, HoldsSelf DEF Marks
<1>9. Marks(x, {CSeqWord}, Fields(r))
  BY <1>3, <1>5, <1>7, <1>8, MarksWith
<1> QED
  BY <1>6, <1>9

LEMMA KeywordsIn == CSeqWord \in Keywords /\ TransportWord \in Keywords /\ PortWord \in Keywords
BY CommandsAre

\* Marks that a text goes on with, and none behind.
LEMMA MarksThenNone ==
    \A x, y, a : Marks(x, a, Words) /\ Marks(y, {}, Words) => Marks(x \o y, a, Words)
<1> SUFFICES ASSUME NEW x, NEW y, NEW a, Marks(x, a, Words), Marks(y, {}, Words)
             PROVE  Marks(x \o y, a, Words)
  OBVIOUS
<1>1. a \intersect {} = {} /\ a \union {} = a
  OBVIOUS
<1>2. Marks(x \o y, a \union {}, Words)
  BY <1>1, WordPieces, MarksJoin
<1> QED
  BY <1>1, <1>2

LEMMA MarksJoinWords ==
    \A x, y, a, b : Marks(x, a, Words) /\ Marks(y, b, Words) /\ a \intersect b = {}
                    => Marks(x \o y, a \union b, Words)
BY WordPieces, MarksJoin

LEMMA WordThen ==
    \A v, w : <<v>> \o <<w>> = <<v, w>>
<1> SUFFICES ASSUME NEW v, NEW w PROVE <<v>> \o <<w>> = <<v, w>>
  OBVIOUS
<1> DEFINE a == <<v>>
           b == <<w>>
           S == {v, w}
<1>1. a \in Seq(S) /\ b \in Seq(S) /\ Len(a) = 1 /\ Len(b) = 1 /\ a[1] = v /\ b[1] = w
  OBVIOUS
<1>2. <<v, w>> \in Seq(S) /\ Len(<<v, w>>) = 2 /\ <<v, w>>[1] = v /\ <<v, w>>[2] = w
  OBVIOUS
<1> HIDE DEF a, b, S
<1>3. /\ a \o b \in Seq(S) /\ Len(a \o b) = 2
      /\ \A k \in 1 .. 2 : (a \o b)[k] = IF k <= 1 THEN a[k] ELSE b[k - 1]
  <2>1. /\ a \o b \in Seq(S) /\ Len(a \o b) = Len(a) + Len(b)
        /\ \A k \in 1 .. Len(a) + Len(b) : (a \o b)[k] = IF k <= Len(a) THEN a[k] ELSE b[k - Len(a)]
    BY <1>1, ConcatProperties
  <2> QED
    BY <1>1, <2>1
<1>4. \A k \in 1 .. 2 : (a \o b)[k] = <<v, w>>[k]
  <2>1. \A k \in 1 .. 2 : k = 1 \/ (k = 2 /\ ~(k <= 1) /\ k - 1 = 1)
    OBVIOUS
  <2> QED
    BY <1>1, <1>2, <1>3, <2>1
<1>5. a \o b = <<v, w>>
  BY <1>2, <1>3, <1>4, SeqEqual
<1> QED
  BY <1>5 DEF a, b

FiveWords(a, b, c, d, e) == <<a, b, c, d, e>> = (<<a, b>> \o <<c, d>>) \o <<e>>

LEMMA WordsJoined ==
    \A a, b, c, d, e : FiveWords(a, b, c, d, e)
BY DEF FiveWords

Regrouped(a, b, c, d) == ((a \o b) \o c) \o d = a \o ((b \o c) \o d)

LEMMA JoinFour ==
    ASSUME NEW a, NEW b, NEW c, NEW d, Text(a), Text(b), Text(c), Text(d)
    PROVE  Regrouped(a, b, c, d)
<1> DEFINE e == b \o c
           f == a \o b
<1>1. Associates(a, b, c)
  BY JoinAssoc, Zenon
<1>2. Text(e)
  BY JoinText, Zenon
<1>3. Associates(a, e, d)
  BY <1>2, JoinAssoc, Zenon
<1>4. f \o c = a \o e
  BY <1>1, Zenon DEF Associates
<1> HIDE DEF e, f
<1>5. (a \o e) \o d = a \o (e \o d)
  BY <1>3 DEF Associates
<1>6. (f \o c) \o d = a \o (e \o d)
  BY <1>4, <1>5, Zenon
<1> QED
  BY <1>6 DEF e, f, Regrouped

\* The head of a Transport line, in two words each.
LEMMA TransportMarks ==
    \A r : r.port \in Seq(DigitWords) /\ r.rtcp \in Seq(DigitWords)
           => Marks(Line("transport", r) \o CRLF, {TransportWord, PortWord}, Fields(r))
<1> SUFFICES ASSUME NEW r, r.port \in Seq(DigitWords), r.rtcp \in Seq(DigitWords)
             PROVE  Marks(Line("transport", r) \o CRLF, {TransportWord, PortWord}, Fields(r))
  OBVIOUS
<1> DEFINE v == "RTP/AVP;unicast;"
           two == <<TransportWord>> \o <<v>>
           head == two \o <<"client", "_">>
           key == <<PortWord>>
           port == key \o r.port \o <<"-">>
           upto == head \o port
           line == upto \o r.rtcp
           x == line \o CRLF
<1>1. /\ Marks(<<TransportWord>>, {TransportWord}, Words) /\ Marks(<<v>>, {}, Words)
      /\ Marks(<<"client">>, {}, Words) /\ Marks(<<"_">>, {}, Words)
      /\ Marks(key, {PortWord}, Words) /\ Marks(<<"-">>, {}, Words)
      /\ Marks(r.port, {}, Words) /\ Marks(r.rtcp, {}, Words) /\ Marks(CRLF, {}, Words)
  <2>1. v \notin Keywords /\ "client" \notin Keywords /\ "_" \notin Keywords /\ "-" \notin Keywords
    BY NotKeywords, Zenon
  <2> HIDE DEF v
  <2> QED
    BY <2>1, KeywordsIn, WordMarks, DigitsText, BreakMarks, Zenon
<1>2. <<"client", "_">> = <<"client">> \o <<"_">>
  BY WordThen
<1> DEFINE client == <<"client", "_">>
<1>3. Marks(client, {}, Words)
  BY <1>1, <1>2, MarksThenNone
<1>l. Line("transport", r) = line
  <2>1. Line("transport", r) = <<TransportWord, v, "client", "_", PortWord>>
                               \o r.port \o <<"-">> \o r.rtcp
    BY LinesAre, Zenon
  <2>2. <<TransportWord, v, "client", "_", PortWord>> = head \o key
    <3>1. two = <<TransportWord, v>>
      BY WordThen, Zenon
    <3> DEFINE all == <<TransportWord, v, "client", "_", PortWord>>
               pair == <<TransportWord, v>>
    <3>2. all = (pair \o client) \o key
      <4>1. FiveWords(TransportWord, v, "client", "_", PortWord)
        BY WordsJoined, Zenon
      <4> QED
        BY <4>1, Zenon DEF FiveWords
    <3>3. pair = two
      BY <3>1
    <3> HIDE DEF v, two, all, pair, client, key
    <3> QED
      BY <3>2, <3>3 DEF all, client
  <2>3. Text(head) /\ Text(key) /\ Text(r.port) /\ Text(<<"-">>)
    <3>1. Text(two) /\ Text(client)
      BY OneWord, TwoWords, JoinText, Zenon
    <3> QED
      BY <1>1, <3>1, OneWord, JoinText, Zenon DEF Marks
  <2> HIDE DEF head, key
  <2> DEFINE dash == <<"-">>
             digits == r.port
  <2>4. Text(dash) /\ Text(digits)
    BY <2>3
  <2> HIDE DEF dash, digits
  <2>5. Regrouped(head, key, digits, dash)
    BY <2>3, <2>4, JoinFour, Zenon
  <2> QED
    BY <2>1, <2>2, <2>5, Zenon DEF dash, digits, Regrouped
<1> HIDE DEF v, client
<1>4. Marks(two, {TransportWord}, Words)
  BY <1>1, MarksThenNone, Zenon
<1> HIDE DEF two
<1>5. Marks(head, {TransportWord}, Words)
  BY <1>3, <1>4, MarksThenNone, Zenon DEF client
<1>6. Marks(port, {PortWord}, Words)
  BY <1>1, MarksThenNone, Zenon
<1>7. Text(head) /\ Text(port) /\ Text(r.rtcp) /\ Text(CRLF)
  BY <1>1, <1>5, <1>6 DEF Marks
<1> HIDE DEF head, key, port
<1>8. Marks(upto, {TransportWord, PortWord}, Words)
  <2>1. {TransportWord} \intersect {PortWord} = {} /\ {TransportWord} \union {PortWord} = {TransportWord, PortWord}
    BY CommandsAre
  <2> QED
    <3>1. Marks(upto, {TransportWord} \union {PortWord}, Words)
      BY <1>5, <1>6, <2>1, MarksJoinWords, Zenon
    <3> QED
      BY <2>1, <3>1
<1>9. Marks(line, {TransportWord, PortWord}, Words) /\ Marks(x, {TransportWord, PortWord}, Words)
  BY <1>1, <1>8, MarksThenNone, Zenon
<1>10. Text(upto) /\ Text(line) /\ Text(x)
  BY <1>8, <1>9 DEF Marks
\* The port's place.
<1>11. Holds(x, port, Len(head) + 1)
  <2>1. Holds(upto, port, Len(head) + 1)
    BY <1>7, HoldsSelf, HoldsRight
  <2>2. Holds(line, port, Len(head) + 1)
    BY <1>7, <1>10, <2>1, HoldsLeft
  <2> QED
    BY <1>7, <1>10, <2>2, HoldsLeft
<1>12. Len(head) + 1 \in 1 .. Len(x) /\ x[Len(head) + 1] = PortWord
  <2>1. Len(port) \in Nat \ {0} /\ port[1] = PortWord
    <3>1. Joined(key, r.port) /\ Joined(key \o r.port, <<"-">>) /\ Len(r.port) \in Nat
      BY <1>1, Join, JoinText, TextIs, OneWord, Zenon DEF Marks
    <3>2. Len(key) = 1 /\ key[1] = PortWord
      BY OneWord DEF key
    <3>3. Len(key \o r.port) = 1 + Len(r.port) /\ (key \o r.port)[1] = PortWord
      BY <3>1, <3>2 DEF Joined
    <3>4. Len(<<"-">>) = 1
      BY OneWord
    <3> QED
      BY <3>1, <3>3, <3>4 DEF Joined, port
  <2> HIDE DEF x
  <2>2. x[Len(head) + 1 + 1 - 1] = port[1]
    BY <1>11, <2>1 DEF Holds
  <2>3. Len(head) \in Nat /\ Len(x) \in Nat /\ Len(head) + 1 + Len(port) <= Len(x) + 1
    BY <1>7, <1>10, <1>11, TextIs DEF Holds
  <2>4. Len(head) + 1 + 1 - 1 = Len(head) + 1
    BY <2>3
  <2> QED
    BY <2>1, <2>2, <2>3, <2>4
\* The line begins the text.
<1>13. 1 \in 1 .. Len(x) /\ x[1] = TransportWord
  <2>1. Len(head) = 4 /\ head[1] = TransportWord
    <3>1. /\ Joined(<<TransportWord>>, <<v>>) /\ Joined(two, client) /\ Len(client) = 2
          /\ Len(<<TransportWord>>) = 1 /\ Len(<<v>>) = 1 /\ <<TransportWord>>[1] = TransportWord
      BY <1>3, <1>4, Join, OneWord, TwoWords DEF client, Marks
    <3>2. Len(two) = 2 /\ two[1] = TransportWord
      BY <3>1 DEF Joined, two
    <3>3. head = two \o client
      BY DEF head, client
    <3> QED
      BY <3>1, <3>2, <3>3 DEF Joined
  <2>2. Joined(head, port) /\ Joined(upto, r.rtcp) /\ Joined(line, CRLF)
    BY <1>7, <1>10, Join
  <2>3. Len(head) \in Nat /\ Len(port) \in Nat /\ Len(r.rtcp) \in Nat /\ Len(CRLF) \in Nat
    BY <1>7, TextIs
  <2> HIDE DEF upto, line, x
  <2>4. 1 \in 1 .. Len(upto) /\ upto[1] = TransportWord
    BY <2>1, <2>2, <2>3 DEF Joined, upto
  <2>5. 1 \in 1 .. Len(line) /\ line[1] = TransportWord
    BY <2>2, <2>3, <2>4 DEF Joined, line
  <2> QED
    BY <2>2, <2>3, <2>5 DEF Joined, x
<1> HIDE DEF x, line
<1>14. /\ Fields(r)[TransportWord] = x /\ Fields(r)[PortWord] = port
       /\ DOMAIN Fields(r) = DOMAIN Words
  <2>1. Fields(r)[TransportWord] = line \o CRLF
    BY <1>l, FieldsAre, Zenon
  <2>2. Fields(r)[PortWord] = port
    BY FieldsAre, Zenon DEF port, key
  <2> QED
    BY <2>1, <2>2, FieldsAre, WordPieces, Zenon DEF x
<1>15. Holds(x, Fields(r)[TransportWord], 1)
  BY <1>10, <1>14, HoldsSelf
<1>16. Marks(x, {TransportWord, PortWord}, Fields(r))
  <2>1. \A w \in {TransportWord, PortWord} : \E i \in 1 .. Len(x) : x[i] = w /\ Holds(x, Fields(r)[w], i)
    BY <1>11, <1>12, <1>13, <1>14, <1>15
  <2> QED
    BY <1>9, <1>14, <2>1, MarksWith
<1> QED
  BY <1>l, <1>16 DEF x

LEMMA ShapeIs ==
    \A r : WellFormed(r) =>
        /\ r.kind \in KindSet /\ r.uri \in Seq(STRING \ Keywords)
        /\ r.seq \in Seq(DigitWords) /\ r.port \in Seq(DigitWords) /\ r.rtcp \in Seq(DigitWords)
        /\ Number(r.port) \in 0 .. 2^16 - 1
        /\ r.lines \in Seq(LineNames)
        /\ \A j, k \in DOMAIN r.lines :
              r.lines[j] = r.lines[k] /\ r.lines[j] \in {"cseq", "transport"} => j = k
        /\ r.kind # "SETUP" => \A k \in DOMAIN r.lines : r.lines[k] # "transport"
BY DEF WellFormed, KindSet

FourWords(a, b, c, d) == <<a, b, c, d>> = <<a, b>> \o <<c, d>>

LEMMA FourJoined == \A a, b, c, d : FourWords(a, b, c, d)
BY DEF FourWords

LEMMA PlainWords ==
    \A v, w : v \notin Keywords /\ w \notin Keywords => Marks(<<v, w>>, {}, Words)
<1> SUFFICES ASSUME NEW v, NEW w, v \notin Keywords, w \notin Keywords
             PROVE  Marks(<<v, w>>, {}, Words)
  OBVIOUS
<1> DEFINE x == <<v, w>>
<1>1. Text(x) /\ Len(x) = 2 /\ x[1] = v /\ x[2] = w
  BY TwoWords
<1> HIDE DEF x
<1>2. \A i \in 1 .. Len(x) : i = 1 \/ i = 2
  BY <1>1
<1>3. \A i \in 1 .. Len(x) : x[i] \notin DOMAIN Words
  BY <1>1, <1>2, WordPieces
<1>4. Marks(x, {}, Words)
  BY <1>1, <1>3, MarksNone
<1> QED
  BY <1>4 DEF x

\* Texts without marks have none of a request's.
LEMMA NoFields ==
    \A x, r : Marks(x, {}, Words) => Marks(x, {}, Fields(r))
<1> SUFFICES ASSUME NEW x, NEW r, Marks(x, {}, Words) PROVE Marks(x, {}, Fields(r))
  OBVIOUS
<1>1. DOMAIN Fields(r) = DOMAIN Words
  BY FieldsAre, WordPieces
<1>2. \A w \in {} : \E i \in 1 .. Len(x) : x[i] = w /\ Holds(x, Fields(r)[w], i)
  OBVIOUS
<1> QED
  BY <1>1, <1>2, MarksWith

LEMMA AgentMarks ==
    \A r : /\ Marks(Line("agent", r) \o CRLF, {}, Fields(r))
           /\ Marks(Line("agent_", r) \o CRLF, {}, Fields(r))
<1> SUFFICES ASSUME NEW r PROVE /\ Marks(Line("agent", r) \o CRLF, {}, Fields(r))
                                /\ Marks(Line("agent_", r) \o CRLF, {}, Fields(r))
  OBVIOUS
<1> DEFINE agent == "User-Agent: "
<1>1. agent \notin Keywords /\ "LibVLC" \notin Keywords /\ "My" \notin Keywords
      /\ "_" \notin Keywords /\ "Player" \notin Keywords
  BY NotKeywords, Zenon
<1>2. Line("agent", r) = <<agent, "LibVLC">>
  BY LinesAre, Zenon
<1>3. Line("agent_", r) = <<agent, "My">> \o <<"_", "Player">>
  <2>1. FourWords(agent, "My", "_", "Player")
    BY FourJoined, Zenon
  <2> QED
    BY <2>1, LinesAre, Zenon DEF FourWords
<1> HIDE DEF agent
<1>4. /\ Marks(<<agent, "LibVLC">>, {}, Words)
      /\ Marks(<<agent, "My">>, {}, Words) /\ Marks(<<"_", "Player">>, {}, Words)
  BY <1>1, PlainWords, Zenon
<1>5. Marks(<<agent, "My">> \o <<"_", "Player">>, {}, Words)
  BY <1>4, MarksThenNone, Zenon
<1>6. Marks(Line("agent", r), {}, Words) /\ Marks(Line("agent_", r), {}, Words)
  BY <1>2, <1>3, <1>4, <1>5, Zenon
<1>7. Marks(Line("agent", r) \o CRLF, {}, Words) /\ Marks(Line("agent_", r) \o CRLF, {}, Words)
  BY <1>6, BreakMarks, MarksThenNone, Zenon
<1> QED
  BY <1>7, NoFields, Zenon

LEMMA FieldPieces ==
    \A r : WellFormed(r) => Pieces(Fields(r))
<1> SUFFICES ASSUME NEW r, WellFormed(r) PROVE Pieces(Fields(r))
  OBVIOUS
<1>1. r.seq \in Seq(DigitWords) /\ r.port \in Seq(DigitWords) /\ r.rtcp \in Seq(DigitWords)
  BY ShapeIs
<1>2. /\ Text(Line("cseq", r) \o CRLF)
      /\ Text(Line("transport", r) \o CRLF)
  BY <1>1, CSeqMarks, TransportMarks, Zenon DEF Marks
<1>3. Text(<<PortWord>> \o r.port \o <<"-">>)
  BY <1>1, DigitsText, OneWord, JoinText, Zenon
<1>4. \A w \in FirstWords : Text(<<w>>)
  BY OneWord, Zenon
<1>5. \A w \in Keywords : w \in FirstWords \/ w = CSeqWord \/ w = TransportWord \/ w = PortWord
  BY CommandsAre
<1> QED
  BY <1>2, <1>3, <1>4, <1>5, FieldsAre, Zenon DEF Pieces

\* The marks of each line.
Names(name) ==
    IF name = "cseq" THEN {CSeqWord}
    ELSE IF name = "transport" THEN {TransportWord, PortWord} ELSE {}

LEMMA LineMarks ==
    \A r : WellFormed(r) => \A name \in LineNames :
        Marks(Line(name, r) \o CRLF, Names(name), Fields(r))
<1> SUFFICES ASSUME NEW r, WellFormed(r), NEW name \in LineNames
             PROVE  Marks(Line(name, r) \o CRLF, Names(name), Fields(r))
  OBVIOUS
<1>1. r.seq \in Seq(DigitWords) /\ r.port \in Seq(DigitWords) /\ r.rtcp \in Seq(DigitWords)
  BY ShapeIs
<1>2. name = "cseq" \/ name = "agent" \/ name = "agent_" \/ name = "transport"
  BY DEF LineNames
<1>3. /\ Names("cseq") = {CSeqWord} /\ Names("transport") = {TransportWord, PortWord}
      /\ Names("agent") = {} /\ Names("agent_") = {}
  BY DEF Names
<1> QED
  BY <1>1, <1>2, <1>3, CSeqMarks, TransportMarks, AgentMarks, Zenon

\* A request as it lies in the stream, or what is left of it: of the words the
\* server looks for, its own only, each once and with what belongs to it behind it.
Sent(text, r) ==
    \E own :
        /\ Marks(text, own, Fields(r))
        /\ own \intersect FirstWords \subseteq {FirstWord(r.kind)}
        /\ r.kind # "SETUP" => TransportWord \notin own /\ PortWord \notin own

LEMMA FieldsThenNone ==
    \A x, y, a, r : Pieces(Fields(r)) /\ Marks(x, a, Fields(r)) /\ Marks(y, {}, Words)
                    => Marks(x \o y, a, Fields(r))
<1> SUFFICES ASSUME NEW x, NEW y, NEW a, NEW r, Pieces(Fields(r)), Marks(x, a, Fields(r)),
                    Marks(y, {}, Words)
             PROVE  Marks(x \o y, a, Fields(r))
  OBVIOUS
<1>1. Marks(y, {}, Fields(r))
  BY NoFields
<1>2. a \intersect {} = {} /\ a \union {} = a
  OBVIOUS
<1>3. Marks(x \o y, a \union {}, Fields(r))
  BY <1>1, <1>2, MarksJoin
<1> QED
  BY <1>2, <1>3

LEMMA CommandMarks ==
    \A r : WellFormed(r) => Marks(Command[r.kind], {FirstWord(r.kind)}, Fields(r))
<1> SUFFICES ASSUME NEW r, WellFormed(r)
             PROVE  Marks(Command[r.kind], {FirstWord(r.kind)}, Fields(r))
  OBVIOUS
<1> DEFINE x == Command[r.kind]
           w == FirstWord(r.kind)
<1>1. r.kind \in KindSet
  BY ShapeIs
<1>2. /\ Text(x) /\ Len(x) = 2 /\ x[2] \notin Keywords /\ x[1] = w
      /\ w \in FirstWords /\ w \in Keywords
  BY <1>1, CommandsAre DEF FirstWord, FirstWords
<1>3. DOMAIN Fields(r) = Keywords /\ Fields(r)[w] = <<w>>
  BY <1>2, FieldsAre
<1> HIDE DEF x, w
<1>4. Holds(x, <<w>>, 1)
  <2>1. Len(<<w>>) = 1 /\ <<w>>[1] = w
    BY OneWord
  <2> QED
    BY <1>2, <2>1 DEF Holds
<1>5. \A i \in 2 .. Len(x) : x[i] \notin DOMAIN Fields(r)
  <2>1. \A i \in 2 .. Len(x) : i = 2
    BY <1>2
  <2> QED
    BY <1>2, <1>3, <2>1
<1>6. Len(x) # 0 /\ Holds(x, Fields(r)[w], 1)
  BY <1>2, <1>3, <1>4
<1>7. Marks(x, {w}, Fields(r))
  BY <1>2, <1>3, <1>5, <1>6, MarksOne, Zenon
<1> QED
  BY <1>7 DEF x, w

LEMMA RequestIsSent ==
    \A r : WellFormed(r) => Sent(RequestText(r), r)
<1> SUFFICES ASSUME NEW r, WellFormed(r) PROVE Sent(RequestText(r), r)
  OBVIOUS
<1> DEFINE n == Len(r.lines)
           s == [k \in DOMAIN r.lines |-> Line(r.lines[k], r) \o CRLF]
           o == [k \in 1 .. n |-> Names(r.lines[k])]
           version == <<" RTSP/1.0">>
           p == Fields(r)
           first == {FirstWord(r.kind)}
           fields == UNION {o[k] : k \in 1 .. n}
<1>1. /\ r.kind \in KindSet /\ r.uri \in Seq(STRING \ Keywords) /\ r.lines \in Seq(LineNames)
      /\ \A j, k \in DOMAIN r.lines :
            r.lines[j] = r.lines[k] /\ r.lines[j] \in {"cseq", "transport"} => j = k
      /\ r.kind # "SETUP" => \A k \in DOMAIN r.lines : r.lines[k] # "transport"
  BY ShapeIs
<1>2. Pieces(p)
  BY FieldPieces
<1>3. n \in Nat /\ DOMAIN r.lines = 1 .. n /\ \A k \in 1 .. n : r.lines[k] \in LineNames
  BY <1>1, ElementOfSeq
<1>4. Marks(FlattenSeq(s), fields, p)
  <2>1. s = [k \in 1 .. n |-> s[k]]
    BY <1>3
  <2>2. \A k \in 1 .. n : Marks(s[k], o[k], p)
    BY <1>3, LineMarks
  <2>3. \A j, k \in 1 .. n : j # k => o[j] \intersect o[k] = {}
    <3> SUFFICES ASSUME NEW j \in 1 .. n, NEW k \in 1 .. n, j # k
                 PROVE  Names(r.lines[j]) \intersect Names(r.lines[k]) = {}
      OBVIOUS
    <3>1. r.lines[j] \in {"cseq", "transport"} => r.lines[j] # r.lines[k]
      BY <1>1, <1>3
    <3>2. CSeqWord # TransportWord /\ CSeqWord # PortWord
      BY CommandsAre
    <3> QED
      BY <3>1, <3>2 DEF Names
  <2> HIDE DEF s, o, n, p
  <2> QED
    BY <1>2, <1>3, <2>1, <2>2, <2>3, FlattenMarks
<1>5. fields \subseteq {CSeqWord, TransportWord, PortWord}
      /\ (r.kind # "SETUP" => TransportWord \notin fields /\ PortWord \notin fields)
  <2>1. \A k \in 1 .. n : o[k] \subseteq {CSeqWord, TransportWord, PortWord}
    BY DEF Names
  <2>2. ASSUME r.kind # "SETUP", NEW k \in 1 .. n PROVE o[k] \subseteq {CSeqWord}
    BY <1>1, <1>3, <2>2 DEF Names
  <2>3. CSeqWord # TransportWord /\ CSeqWord # PortWord
    BY CommandsAre
  <2> HIDE DEF o
  <2> QED
    BY <2>1, <2>2, <2>3
<1>6. RequestText(r) = ((((Command[r.kind] \o r.uri) \o version) \o CRLF) \o FlattenSeq(s)) \o CRLF
  BY Zenon DEF RequestText
<1>7. Marks(Command[r.kind], first, p)
  BY CommandMarks
<1>8. Marks(r.uri, {}, Words)
  <2>1. (STRING \ Keywords) \intersect Keywords = {}
    OBVIOUS
  <2> QED
    BY <1>1, <2>1, PlainMarks
<1>9. Marks(version, {}, Words)
  <2>1. " RTSP/1.0" \notin Keywords
    BY NotKeywords, Zenon
  <2> QED
    BY <2>1, WordMarks, Zenon
<1> HIDE DEF version, s, fields, first
<1> DEFINE head == ((Command[r.kind] \o r.uri) \o version) \o CRLF
<1>10. Marks(head, first, p)
  BY <1>2, <1>7, <1>8, <1>9, BreakMarks, FieldsThenNone, Zenon
<1> HIDE DEF head, p
<1>11. first \intersect fields = {}
  <2>1. FirstWord(r.kind) \notin {CSeqWord, TransportWord, PortWord}
    BY <1>1, CommandsAre
  <2> QED
    BY <1>5, <2>1 DEF first
<1>12. Marks(head \o FlattenSeq(s), first \union fields, p)
  BY <1>2, <1>4, <1>10, <1>11, MarksJoin, Zenon
<1>13. Marks((head \o FlattenSeq(s)) \o CRLF, first \union fields, p)
  BY <1>2, <1>12, BreakMarks, FieldsThenNone, Zenon DEF p
<1>14. Marks(RequestText(r), first \union fields, p)
  BY <1>6, <1>13, Zenon DEF head
<1>15. (first \union fields) \intersect FirstWords \subseteq {FirstWord(r.kind)}
  <2>1. \A w \in FirstWords : w # CSeqWord /\ w # TransportWord /\ w # PortWord
    BY CommandsAre DEF FirstWords
  <2> QED
    BY <1>5, <2>1 DEF first
<1>16. r.kind # "SETUP" => TransportWord \notin first \union fields /\ PortWord \notin first \union fields
  <2>1. FirstWord(r.kind) \notin {CSeqWord, TransportWord, PortWord}
    BY <1>1, CommandsAre
  <2> QED
    BY <1>5, <2>1 DEF first
<1> QED
  BY <1>14, <1>15, <1>16, Zenon DEF Sent, p

-----------------------------------------------------------------------------
(* What the searches find in what was received. *)

\* The first place of a piece, from a place on.
FirstHeld(x, piece, from, i) ==
    /\ i \in Nat /\ from <= i /\ Holds(x, piece, i)
    /\ \A j \in from .. i - 1 : ~Holds(x, piece, j)

NotHeld(x, piece, from) ==
    \A j \in Nat : from <= j => ~Holds(x, piece, j)

LEMMA FindGives ==
    \A x, piece, from :
        Text(x) /\ Text(piece) /\ from \in Nat \ {0} =>
            /\ Find(x, piece, from) = 0 => NotHeld(x, piece, from)
            /\ Find(x, piece, from) # 0 => FirstHeld(x, piece, from, Find(x, piece, from))
            /\ Find(x, piece, from) \in Nat
<1> SUFFICES ASSUME NEW x, NEW piece, NEW from \in Nat \ {0}, Text(x), Text(piece)
             PROVE  /\ Find(x, piece, from) = 0 => NotHeld(x, piece, from)
                    /\ Find(x, piece, from) # 0 => FirstHeld(x, piece, from, Find(x, piece, from))
                    /\ Find(x, piece, from) \in Nat
  OBVIOUS
<1> DEFINE last == Len(x) - Len(piece) + 1
           hits == {i \in from .. last : At(x, piece, i)}
<1>1. Len(x) \in Nat /\ Len(piece) \in Nat
  BY TextIs
<1>2. PICK S : x \in Seq(S) /\ piece \in Seq(S)
  <2>1. PICK A : x \in Seq(A)
    BY DEF Text
  <2>2. PICK B : piece \in Seq(B)
    BY DEF Text
  <2> DEFINE C == A \union B
  <2>3. A \subseteq C /\ B \subseteq C
    OBVIOUS
  <2> HIDE DEF C
  <2>4. x \in Seq(C) /\ piece \in Seq(C)
    BY <2>1, <2>2, <2>3, TextIn
  <2> QED
    BY <2>4
<1>3. \A i \in Nat : from <= i => (Holds(x, piece, i) <=> i \in hits)
  <2> SUFFICES ASSUME NEW i \in Nat, from <= i PROVE Holds(x, piece, i) <=> i \in hits
    OBVIOUS
  <2>1. i \in Nat \ {0} /\ (i \in from .. last <=> i + Len(piece) <= Len(x) + 1)
    BY <1>1
  <2>2. i + Len(piece) <= Len(x) + 1 => (Holds(x, piece, i) <=> At(x, piece, i))
    BY <2>1, HoldsIsAt
  <2>3. Holds(x, piece, i) => i + Len(piece) <= Len(x) + 1
    BY DEF Holds
  <2> QED
    BY <2>1, <2>2, <2>3
<1>4. CASE hits = {}
  <2>1. Find(x, piece, from) = 0
    BY <1>4 DEF Find, At
  <2>2. NotHeld(x, piece, from)
    BY <1>3, <1>4 DEF NotHeld
  <2> QED
    BY <2>1, <2>2
<1>5. CASE hits # {}
  <2>1. hits \in SUBSET Nat
    BY <1>1
  <2>2. PICK i \in hits : \A j \in hits : i <= j
    <3> HIDE DEF hits
    <3> QED
      BY <1>5, <2>1, Least
  <2>3. i \in from .. last /\ At(x, piece, i) /\ i \in Nat \ {0} /\ from <= i
    BY <1>1
  <2>4. \A j \in from .. i - 1 : ~At(x, piece, j)
    <3> SUFFICES ASSUME NEW j \in from .. i - 1, At(x, piece, j) PROVE FALSE
      OBVIOUS
    <3>1. j \in hits
      BY <1>1, <2>3
    <3> QED
      BY <2>2, <2>3, <3>1
  <2>5. Find(x, piece, from) = i
    BY <1>2, <2>3, <2>4, FindIs
  <2>6. FirstHeld(x, piece, from, i)
    <3>1. \A j \in from .. i - 1 : j \in Nat /\ from <= j /\ j \notin hits
      BY <2>3, <2>4
    <3> HIDE DEF hits
    <3> QED
      BY <1>3, <2>2, <2>3, <3>1 DEF FirstHeld
  <2> QED
    BY <2>3, <2>5, <2>6
<1> QED
  BY <1>4, <1>5

\* What is held where a first place is.
LEMMA FindHeld ==
    \A x, piece, from, i :
        Text(x) /\ Text(piece) /\ from \in Nat \ {0} /\ FirstHeld(x, piece, from, i)
        => Find(x, piece, from) = i
<1> SUFFICES ASSUME NEW x, NEW piece, NEW from \in Nat \ {0}, NEW i,
                    Text(x), Text(piece), FirstHeld(x, piece, from, i)
             PROVE  Find(x, piece, from) = i
  OBVIOUS
<1> DEFINE f == Find(x, piece, from)
<1>1. /\ f = 0 => NotHeld(x, piece, from)
      /\ f # 0 => FirstHeld(x, piece, from, f)
      /\ f \in Nat
  BY FindGives
<1> HIDE DEF f
<1>2. i \in Nat /\ from <= i /\ Holds(x, piece, i) /\ \A j \in from .. i - 1 : ~Holds(x, piece, j)
  BY DEF FirstHeld
<1>3. f # 0
  BY <1>1, <1>2 DEF NotHeld
<1>4. from <= f /\ Holds(x, piece, f) /\ \A j \in from .. f - 1 : ~Holds(x, piece, j)
  BY <1>1, <1>3 DEF FirstHeld
<1>5. ~(f < i) /\ ~(i < f)
  BY <1>1, <1>2, <1>4
<1> QED
  BY <1>1, <1>2, <1>5 DEF f

\* What a text holds is what stands there.
LEMMA HeldIs ==
    \A x, piece, i :
        Text(x) /\ Text(piece) /\ Holds(x, piece, i)
        => SubSeq(x, i, i + Len(piece) - 1) = piece
<1> SUFFICES ASSUME NEW x, NEW piece, NEW i, Text(x), Text(piece), Holds(x, piece, i)
             PROVE  SubSeq(x, i, i + Len(piece) - 1) = piece
  OBVIOUS
<1>1. i \in Nat \ {0} /\ i + Len(piece) <= Len(x) + 1
  BY DEF Holds
<1>2. At(x, piece, i)
  BY <1>1, HoldsIsAt
<1> QED
  BY <1>2 DEF At

LEMMA HoldsBreak ==
    \A x, i : Holds(x, CRLF, i) <=> /\ i \in Nat \ {0} /\ i + 2 <= Len(x) + 1
                                    /\ x[i] = "CR" /\ x[i + 1] = "LF"
<1> SUFFICES ASSUME NEW x, NEW i
             PROVE  Holds(x, CRLF, i) <=> /\ i \in Nat \ {0} /\ i + 2 <= Len(x) + 1
                                          /\ x[i] = "CR" /\ x[i + 1] = "LF"
  OBVIOUS
<1>1. Len(CRLF) = 2 /\ CRLF[1] = "CR" /\ CRLF[2] = "LF" /\ \A k \in 1 .. 2 : k = 1 \/ k = 2
  BY LineBreak
<1>2. i \in Nat => i + 1 - 1 = i /\ i + 2 - 1 = i + 1
  OBVIOUS
<1> QED
  BY <1>1, <1>2 DEF Holds

\* The line that is cut out at a CRLF is the line that was sent.
LEMMA LineTaken ==
    ASSUME NEW x, Text(x), NEW rest, Text(rest), NEW line, Text(line),
           \A k \in 1 .. Len(line) : line[k] # "CR",
           NEW i, Holds(x \o rest, line \o CRLF, i),
           NEW j, FirstHeld(x, CRLF, i, j)
    PROVE  SubSeq(x, i, j - 1) = line /\ Holds(x, line \o CRLF, i)
<1> DEFINE t == x \o rest
           l == line \o CRLF
           n == Len(x)
           m == Len(line)
<1>1. /\ Len(t) = n + Len(rest) /\ n \in Nat /\ Len(rest) \in Nat /\ m \in Nat
      /\ \A k \in 1 .. n : t[k] = x[k]
  BY Join, TextIs DEF Joined
<1>2. /\ Len(l) = m + 2 /\ \A k \in 1 .. m : l[k] = line[k]
      /\ l[m + 1] = "CR" /\ l[m + 2] = "LF"
  <2>1. Joined(line, CRLF)
    BY Join, LineBreak
  <2>2. 1 \in 1 .. Len(CRLF) /\ 2 \in 1 .. Len(CRLF)
    BY LineBreak
  <2> QED
    BY <2>1, <2>2, LineBreak DEF Joined
<1>3. /\ i \in Nat \ {0} /\ i + Len(l) <= Len(t) + 1
      /\ \A k \in 1 .. Len(l) : t[i + k - 1] = l[k]
  BY DEF Holds
<1>4. /\ j \in Nat /\ i <= j /\ j + 2 <= n + 1 /\ x[j] = "CR" /\ x[j + 1] = "LF"
      /\ \A k \in i .. j - 1 : ~Holds(x, CRLF, k)
  BY HoldsBreak DEF FirstHeld
<1> HIDE DEF t, l, n, m
<1>5. \A k \in 1 .. m : t[i + k - 1] = line[k] /\ t[i + k - 1] # "CR"
  <2>1. \A k \in 1 .. m : k \in 1 .. Len(l)
    BY <1>1, <1>2
  <2> QED
    BY <1>2, <1>3, <2>1 DEF m
<1>6. t[i + m] = "CR" /\ t[i + m + 1] = "LF"
  <2>1. m + 1 \in 1 .. Len(l) /\ m + 2 \in 1 .. Len(l)
        /\ i + (m + 1) - 1 = i + m /\ i + (m + 2) - 1 = i + m + 1
    BY <1>1, <1>2, <1>3
  <2> QED
    BY <1>2, <1>3, <2>1
<1>7. ~(j < i + m)
  <2> SUFFICES ASSUME j < i + m PROVE FALSE
    OBVIOUS
  <2>1. j - i + 1 \in 1 .. m /\ i + (j - i + 1) - 1 = j /\ j \in 1 .. n
    BY <1>1, <1>3, <1>4
  <2> QED
    BY <1>1, <1>4, <1>5, <2>1
<1>8. ~(i + m < j)
  <2> SUFFICES ASSUME i + m < j PROVE FALSE
    OBVIOUS
  <2>1. /\ i + m \in i .. j - 1 /\ i + m \in 1 .. n /\ i + m + 1 \in 1 .. n
        /\ i + m \in Nat \ {0} /\ i + m + 2 <= n + 1
    BY <1>1, <1>3, <1>4
  <2>2. x[i + m] = "CR" /\ x[i + m + 1] = "LF"
    BY <1>1, <1>6, <2>1
  <2>3. Holds(x, CRLF, i + m)
    BY <2>1, <2>2, HoldsBreak DEF n
  <2> QED
    BY <1>4, <2>1, <2>3
<1>9. j = i + m
  BY <1>1, <1>3, <1>4, <1>7, <1>8
<1>10. Holds(x, line, i)
  <2>1. i + m <= n + 1 /\ \A k \in 1 .. m : i + k - 1 \in 1 .. n
    BY <1>1, <1>3, <1>4, <1>9
  <2>2. \A k \in 1 .. m : x[i + k - 1] = line[k]
    BY <1>1, <1>5, <2>1
  <2> QED
    BY <1>3, <2>1, <2>2 DEF Holds, n, m
<1>11. SubSeq(x, i, j - 1) = line
  <2>1. SubSeq(x, i, i + Len(line) - 1) = line
    BY <1>10, HeldIs
  <2>2. j - 1 = i + Len(line) - 1
    BY <1>1, <1>3, <1>9 DEF m
  <2> QED
    BY <2>1, <2>2
<1>12. Holds(x, l, i)
  <2>1. i + Len(l) <= n + 1 /\ \A k \in 1 .. Len(l) : i + k - 1 \in 1 .. n
    BY <1>1, <1>2, <1>3, <1>4, <1>9
  <2>2. \A k \in 1 .. Len(l) : x[i + k - 1] = l[k]
    BY <1>1, <1>3, <2>1
  <2> QED
    BY <1>3, <2>1, <2>2 DEF Holds, n
<1> QED
  BY <1>11, <1>12 DEF l

LEMMA SeqOfWords ==
    ASSUME NEW S
    PROVE  /\ \A a, b \in Seq(S) : a \o b \in Seq(S)
           /\ \A a \in S : <<a>> \in Seq(S)
           /\ \A a, b, c, d, e \in S : <<a, b, c, d, e>> \in Seq(S)
OBVIOUS

\* The words of a line that is sent hold no CR.
LineWords == DigitWords \union {"RTP/AVP;unicast;", "client", "_", "-"}
             \union {CSeqWord, TransportWord, PortWord}

LEMMA LineShapes ==
    \A r : WellFormed(r) =>
        /\ Line("cseq", r) \in Seq(LineWords) /\ Line("transport", r) \in Seq(LineWords)
        /\ "CR" \notin LineWords
        /\ Line("cseq", r)[1] = CSeqWord /\ Len(Line("cseq", r)) # 0
<1> SUFFICES ASSUME NEW r, WellFormed(r)
             PROVE  /\ Line("cseq", r) \in Seq(LineWords) /\ Line("transport", r) \in Seq(LineWords)
                    /\ "CR" \notin LineWords
                    /\ Line("cseq", r)[1] = CSeqWord /\ Len(Line("cseq", r)) # 0
  OBVIOUS
<1> DEFINE avp == "RTP/AVP;unicast;"
<1>1. LineWords = DigitWords \union {avp, "client", "_", "-"}
                  \union {CSeqWord, TransportWord, PortWord}
  BY Zenon DEF LineWords
<1>2. /\ Line("cseq", r) = <<CSeqWord>> \o r.seq
      /\ Line("transport", r) = <<TransportWord, avp, "client", "_", PortWord>>
                                \o r.port \o <<"-">> \o r.rtcp
  BY LinesAre, Zenon
<1>3. "CR" # avp /\ "CR" # CSeqWord /\ "CR" # TransportWord /\ "CR" # PortWord
  BY Zenon DEF CSeqWord, TransportWord, PortWord
<1>4. r.seq \in Seq(DigitWords) /\ r.port \in Seq(DigitWords) /\ r.rtcp \in Seq(DigitWords)
  BY ShapeIs
<1> HIDE DEF avp
<1>5. "CR" \notin LineWords
  BY <1>1, <1>3, NotKeywords
<1>6. /\ r.seq \in Seq(LineWords) /\ r.port \in Seq(LineWords) /\ r.rtcp \in Seq(LineWords)
      /\ <<CSeqWord>> \in Seq(LineWords)
      /\ <<TransportWord, avp, "client", "_", PortWord>> \in Seq(LineWords)
      /\ <<"-">> \in Seq(LineWords)
  <2>1. DigitWords \subseteq LineWords
    BY <1>1
  <2>2. r.seq \in Seq(LineWords) /\ r.port \in Seq(LineWords) /\ r.rtcp \in Seq(LineWords)
    BY <1>4, <2>1, TextIn
  <2>3. /\ CSeqWord \in LineWords /\ TransportWord \in LineWords /\ PortWord \in LineWords
        /\ avp \in LineWords /\ "client" \in LineWords /\ "_" \in LineWords /\ "-" \in LineWords
    BY <1>1
  <2> HIDE DEF LineWords
  <2>4. /\ <<CSeqWord>> \in Seq(LineWords) /\ <<"-">> \in Seq(LineWords)
        /\ <<TransportWord, avp, "client", "_", PortWord>> \in Seq(LineWords)
    BY <2>3, SeqOfWords
  <2> QED
    BY <2>2, <2>4
<1>7. Line("cseq", r) \in Seq(LineWords) /\ Line("transport", r) \in Seq(LineWords)
  <2> DEFINE five == <<TransportWord, avp, "client", "_", PortWord>>
             dash == <<"-">>
             own == <<CSeqWord>>
  <2>1. five \in Seq(LineWords) /\ dash \in Seq(LineWords) /\ own \in Seq(LineWords)
    BY <1>6
  <2>2. Line("cseq", r) = own \o r.seq /\ Line("transport", r) = five \o r.port \o dash \o r.rtcp
    BY <1>2
  <2> HIDE DEF five, dash, own
  <2>3. own \o r.seq \in Seq(LineWords)
    BY <1>6, <2>1, SeqOfWords, Zenon
  <2>4. ((five \o r.port) \o dash) \o r.rtcp \in Seq(LineWords)
    BY <1>6, <2>1, SeqOfWords, Zenon
  <2> QED
    BY <2>2, <2>3, <2>4
<1>8. Line("cseq", r)[1] = CSeqWord /\ Len(Line("cseq", r)) # 0
  <2>1. Text(r.seq)
    BY <1>4 DEF Text
  <2>2. Joined(<<CSeqWord>>, r.seq) /\ Len(<<CSeqWord>>) = 1 /\ Len(r.seq) \in Nat
        /\ <<CSeqWord>>[1] = CSeqWord /\ 1 \in 1 .. Len(<<CSeqWord>>)
    BY <2>1, OneWord, Join, TextIs
  <2>3. (<<CSeqWord>> \o r.seq)[1] = CSeqWord /\ Len(<<CSeqWord>> \o r.seq) # 0
    <3> DEFINE own == <<CSeqWord>>
    <3>1. /\ Len(own \o r.seq) = Len(own) + Len(r.seq) /\ \A k \in 1 .. Len(own) : (own \o r.seq)[k] = own[k]
          /\ Len(own) = 1 /\ own[1] = CSeqWord /\ Len(r.seq) \in Nat
      BY <2>2 DEF Joined
    <3> HIDE DEF own
    <3>2. (own \o r.seq)[1] = CSeqWord /\ Len(own \o r.seq) # 0
      BY <3>1
    <3> QED
      BY <3>2 DEF own
  <2> QED
    BY <1>2, <2>3
<1> QED
  BY <1>5, <1>7, <1>8

Harmless(x) == Marks(x, {}, Words)

\* Where a word is held, and where it stands in a longer text.
LEMMA HoldsWord ==
    \A x, w, i : Holds(x, <<w>>, i) <=> i \in Nat \ {0} /\ i <= Len(x) /\ x[i] = w /\ i + 1 <= Len(x) + 1
<1> SUFFICES ASSUME NEW x, NEW w, NEW i
             PROVE  Holds(x, <<w>>, i) <=> i \in Nat \ {0} /\ i <= Len(x) /\ x[i] = w /\ i + 1 <= Len(x) + 1
  OBVIOUS
<1> DEFINE p == <<w>>
<1>1. Len(p) = 1 /\ p[1] = w /\ (\A k \in 1 .. 1 : k = 1) /\ Len(x) \in Nat
  BY OneWord
<1>2. i \in Nat => i + 1 - 1 = i
  OBVIOUS
<1> HIDE DEF p
<1>3. Holds(x, p, i) <=> i \in Nat \ {0} /\ i <= Len(x) /\ x[i] = w /\ i + 1 <= Len(x) + 1
  BY <1>1, <1>2 DEF Holds
<1> QED
  BY <1>3 DEF p

\* What the parts of a sent text hold of the request's fields.
FrontHas(x, rest, r) ==
    \A i \in 1 .. Len(x) : x[i] \in Keywords =>
        /\ Holds(x \o rest, Fields(r)[x[i]], i)
        /\ x[i] \in FirstWords => x[i] = FirstWord(r.kind)
        /\ r.kind # "SETUP" => x[i] # TransportWord /\ x[i] # PortWord
        /\ \A j \in 1 .. Len(rest) : rest[j] # x[i]

RestHas(rest, r) ==
    \A j \in 1 .. Len(rest) : rest[j] \in Keywords =>
        /\ rest[j] \in FirstWords => rest[j] = FirstWord(r.kind)
        /\ r.kind # "SETUP" => rest[j] # TransportWord /\ rest[j] # PortWord

LEMMA SentHas ==
    \A r, x, rest : Text(x) /\ Text(rest) /\ Sent(x \o rest, r) => FrontHas(x, rest, r) /\ RestHas(rest, r)
<1> SUFFICES ASSUME NEW r, NEW x, Text(x), NEW rest, Text(rest), Sent(x \o rest, r)
             PROVE  FrontHas(x, rest, r) /\ RestHas(rest, r)
  OBVIOUS
<1> DEFINE t == x \o rest
<1>1. PICK own : /\ Marks(t, own, Fields(r))
                 /\ own \intersect FirstWords \subseteq {FirstWord(r.kind)}
                 /\ r.kind # "SETUP" => TransportWord \notin own /\ PortWord \notin own
  BY Zenon DEF Sent
<1>2. DOMAIN Fields(r) = Keywords
  BY FieldsAre
<1>3. /\ Len(t) = Len(x) + Len(rest) /\ Len(x) \in Nat /\ Len(rest) \in Nat
      /\ \A k \in 1 .. Len(x) : t[k] = x[k]
      /\ \A k \in 1 .. Len(rest) : t[Len(x) + k] = rest[k]
  BY Join, TextIs DEF Joined
<1>4. \A i \in 1 .. Len(t) : t[i] \in Keywords =>
          /\ t[i] \in own /\ Holds(t, Fields(r)[t[i]], i)
          /\ \A j \in 1 .. Len(t) : t[j] = t[i] => j = i
  BY <1>1, <1>2 DEF Marks
<1>5. /\ \A i \in 1 .. Len(x) : i \in 1 .. Len(t)
      /\ \A j \in 1 .. Len(rest) : Len(x) + j \in 1 .. Len(t)
      /\ \A i \in 1 .. Len(x) : \A j \in 1 .. Len(rest) : Len(x) + j # i
  BY <1>3
<1> HIDE DEF t
<1>6. \A i \in 1 .. Len(x) : x[i] \in Keywords =>
          x[i] \in own /\ Holds(t, Fields(r)[x[i]], i) /\ \A j \in 1 .. Len(rest) : rest[j] # x[i]
  <2> SUFFICES ASSUME NEW i \in 1 .. Len(x), x[i] \in Keywords
               PROVE  x[i] \in own /\ Holds(t, Fields(r)[x[i]], i) /\ \A j \in 1 .. Len(rest) : rest[j] # x[i]
    OBVIOUS
  <2>1. t[i] = x[i] /\ i \in 1 .. Len(t)
    BY <1>3, <1>5
  <2>2. /\ t[i] \in own /\ Holds(t, Fields(r)[t[i]], i)
        /\ \A j \in 1 .. Len(t) : t[j] = t[i] => j = i
    BY <1>4, <2>1
  <2>3. ASSUME NEW j \in 1 .. Len(rest), rest[j] = x[i] PROVE FALSE
    BY <1>3, <1>5, <2>1, <2>2, <2>3
  <2> QED
    BY <2>1, <2>2, <2>3
<1>7. \A j \in 1 .. Len(rest) : rest[j] \in Keywords => rest[j] \in own
  BY <1>3, <1>4, <1>5
<1> QED
  BY <1>1, <1>6, <1>7 DEF t, FrontHas, RestHas

\* What is found behind a word, and is there, is this line.
LineIn(x, w, line) ==
    /\ LineFrom(x, w).words = line
    /\ \E i : Holds(x, line \o CRLF, i) /\ x[i] = w

LEMMA LineIsReceived ==
    ASSUME NEW r, NEW x, Text(x), NEW rest, Text(rest), Sent(x \o rest, r),
           NEW w \in Keywords, NEW line \in Seq(LineWords), Fields(r)[w] = line \o CRLF,
           "CR" \notin LineWords, LineFrom(x, w).ok
    PROVE  LineIn(x, w, line)
<1> DEFINE start == Find(x, <<w>>, 1)
           end == Find(x, CRLF, start)
<1>1. start # 0 /\ end # 0 /\ LineFrom(x, w).words = SubSeq(x, start, end - 1)
  BY DEF LineFrom, None, Some
<1>2. FirstHeld(x, <<w>>, 1, start)
  BY <1>1, OneWord, FindGives
<1>3. start \in Nat \ {0} /\ start \in 1 .. Len(x) /\ x[start] = w
  <2> HIDE DEF start
  <2>1. Len(x) \in Nat /\ Holds(x, <<w>>, start)
    BY <1>2, TextIs DEF FirstHeld
  <2> QED
    BY <2>1, HoldsWord
<1>4. FirstHeld(x, CRLF, start, end)
  <2> HIDE DEF start
  <2> QED
    BY <1>1, <1>3, LineBreak, FindGives
<1> HIDE DEF start, end
<1>5. Holds(x \o rest, line \o CRLF, start)
  <2>1. \A i \in 1 .. Len(x) : x[i] \in Keywords => Holds(x \o rest, Fields(r)[x[i]], i)
    BY SentHas, Zenon DEF FrontHas
  <2> QED
    BY <1>3, <2>1
<1>6. Text(line) /\ \A k \in 1 .. Len(line) : line[k] # "CR"
  <2>1. \A k \in 1 .. Len(line) : line[k] \in LineWords
    OBVIOUS
  <2> QED
    BY <2>1 DEF Text
<1>7. SubSeq(x, start, end - 1) = line /\ Holds(x, line \o CRLF, start)
  BY <1>4, <1>5, <1>6, LineTaken
<1> QED
  BY <1>1, <1>3, <1>7 DEF LineIn

\* Whatever the server takes for the CSeq line or the transport line is whole,
\* and is the one of the request it has got a part of.
LEMMA LinesReceived ==
    ASSUME NEW r, WellFormed(r), NEW x, Text(x), NEW rest, Text(rest), Sent(x \o rest, r)
    PROVE  /\ LineFrom(x, CSeqWord).ok =>
                 LineIn(x, CSeqWord, Line("cseq", r))
           /\ LineFrom(x, TransportWord).ok =>
                 LineIn(x, TransportWord, Line("transport", r))
<1>1. /\ Line("cseq", r) \in Seq(LineWords) /\ Line("transport", r) \in Seq(LineWords)
      /\ "CR" \notin LineWords
  BY LineShapes
<1>2. CSeqWord \in Keywords /\ TransportWord \in Keywords
  BY KeywordsIn
<1>3. /\ Fields(r)[CSeqWord] = Line("cseq", r) \o CRLF
      /\ Fields(r)[TransportWord] = Line("transport", r) \o CRLF
  BY FieldsAre
<1> DEFINE c == Line("cseq", r)
           t == Line("transport", r)
<1> HIDE DEF c, t
<1>4. ASSUME LineFrom(x, CSeqWord).ok
      PROVE  LineIn(x, CSeqWord, Line("cseq", r))
  <2>1. c \in Seq(LineWords) /\ Fields(r)[CSeqWord] = c \o CRLF
    BY <1>1, <1>3 DEF c
  <2>2. LineIn(x, CSeqWord, c)
    BY <1>1, <1>2, <1>4, <2>1, LineIsReceived, Zenon
  <2> QED
    BY <2>2 DEF c
<1>5. ASSUME LineFrom(x, TransportWord).ok
      PROVE  LineIn(x, TransportWord, Line("transport", r))
  <2>1. t \in Seq(LineWords) /\ Fields(r)[TransportWord] = t \o CRLF
    BY <1>1, <1>3 DEF t
  <2>2. LineIn(x, TransportWord, t)
    BY <1>1, <1>2, <1>5, <2>1, LineIsReceived, Zenon
  <2> QED
    BY <2>2 DEF t
<1> QED
  BY <1>4, <1>5

\* The chain of strstr finds a command only where its first word stands.
LEMMA CommandReceived ==
    ASSUME NEW kind, Text(recv_buf), IsCommand(kind)
    PROVE  kind \in KindSet /\ \E i \in 1 .. Len(recv_buf) : recv_buf[i] = FirstWord(kind)
<1>1. PICK k \in DOMAIN Kinds : Kinds[k] = kind /\ Find(recv_buf, Command[Kinds[k]], 1) # 0
  BY Zenon DEF IsCommand
<1>2. kind \in KindSet /\ Find(recv_buf, Command[kind], 1) # 0
  BY <1>1 DEF KindSet
<1> DEFINE c == Command[kind]
           i == Find(recv_buf, c, 1)
<1>3. Text(c) /\ Len(c) = 2 /\ c[1] = FirstWord(kind)
  BY <1>2, CommandsAre DEF FirstWord
<1> HIDE DEF c
<1>4. FirstHeld(recv_buf, c, 1, i)
  BY <1>2, <1>3, FindGives DEF c
<1> HIDE DEF i
<1>5. i \in 1 .. Len(recv_buf) /\ recv_buf[i + 1 - 1] = c[1] /\ i + 1 - 1 = i
  <2>1. i \in Nat \ {0} /\ i + Len(c) <= Len(recv_buf) + 1 /\ Len(recv_buf) \in Nat
    BY <1>4, TextIs DEF FirstHeld, Holds
  <2>2. \A n \in 1 .. Len(c) : recv_buf[i + n - 1] = c[n]
    BY <1>4 DEF FirstHeld, Holds
  <2> QED
    BY <1>3, <2>1, <2>2
<1> QED
  BY <1>2, <1>3, <1>5

\* No command is found in a text without keywords, and of a request's parts
\* only its own.
LEMMA HarmlessIsNoCommand ==
    Harmless(recv_buf) => \A kind : ~IsCommand(kind)
<1> SUFFICES ASSUME Harmless(recv_buf), NEW kind, IsCommand(kind) PROVE FALSE
  OBVIOUS
<1>1. Text(recv_buf) /\ \A i \in 1 .. Len(recv_buf) : recv_buf[i] \notin Keywords
  BY WordPieces DEF Harmless, Marks
<1>2. kind \in KindSet /\ \E i \in 1 .. Len(recv_buf) : recv_buf[i] = FirstWord(kind)
  BY <1>1, CommandReceived
<1>3. FirstWord(kind) \in Keywords
  BY <1>2, CommandsAre DEF FirstWords
<1> QED
  BY <1>1, <1>2, <1>3

LEMMA CommandIsSent ==
    ASSUME NEW r, WellFormed(r), Text(recv_buf), NEW rest, Text(rest), Sent(recv_buf \o rest, r),
           NEW kind, IsCommand(kind)
    PROVE  /\ kind = r.kind
           /\ \A j \in 1 .. Len(rest) : rest[j] \notin FirstWords
<1>1. kind \in KindSet
  BY CommandReceived
<1>2. PICK i \in 1 .. Len(recv_buf) : recv_buf[i] = FirstWord(kind)
  BY CommandReceived
<1>3. FirstWord(kind) \in FirstWords /\ FirstWord(kind) \in Keywords
  BY <1>1, CommandsAre DEF FirstWords
<1>4. FirstWord(kind) = FirstWord(r.kind) /\ \A j \in 1 .. Len(rest) : rest[j] # FirstWord(kind)
  <2>1. \A n \in 1 .. Len(recv_buf) : recv_buf[n] \in Keywords =>
            /\ recv_buf[n] \in FirstWords => recv_buf[n] = FirstWord(r.kind)
            /\ \A j \in 1 .. Len(rest) : rest[j] # recv_buf[n]
    <3>1. FrontHas(recv_buf, rest, r)
      BY SentHas, Zenon
    <3> QED
      BY <3>1 DEF FrontHas
  <2> QED
    BY <1>2, <1>3, <2>1
<1>5. r.kind \in KindSet
  BY ShapeIs
<1>6. kind = r.kind
  BY <1>1, <1>4, <1>5, CommandsAre
<1>7. ASSUME NEW j \in 1 .. Len(rest), rest[j] \in FirstWords PROVE FALSE
  <2>1. rest[j] \in Keywords
    BY <1>7, CommandsAre
  <2>2. rest[j] = FirstWord(r.kind)
    <3>1. \A n \in 1 .. Len(rest) : rest[n] \in Keywords =>
              (rest[n] \in FirstWords => rest[n] = FirstWord(r.kind))
      BY SentHas, Zenon DEF RestHas
    <3> QED
      BY <1>7, <2>1, <3>1
  <2> QED
    BY <1>4, <2>2
<1> QED
  BY <1>6, <1>7

LEMMA TransportLineIs ==
    ASSUME NEW r, WellFormed(r)
    PROVE  LET line == Line("transport", r)
           IN  /\ Text(line) /\ Len(line) = 6 + Len(r.port) + Len(r.rtcp)
               /\ line[5] = PortWord /\ line[6 + Len(r.port)] = "-"
               /\ line[1] = TransportWord
               /\ \A k \in 1 .. Len(r.port) : line[5 + k] = r.port[k]
<1> DEFINE avp == "RTP/AVP;unicast;"
           five == <<TransportWord, avp, "client", "_", PortWord>>
           dash == <<"-">>
           p == r.port
           q == r.rtcp
           a == five \o p
           b == a \o dash
           line == b \o q
<1>1. Line("transport", r) = line
  BY LinesAre, Zenon
<1>2. Text(p) /\ Text(q)
  BY ShapeIs DEF Text
<1>3. Text(five) /\ Len(five) = 5 /\ five[5] = PortWord /\ five[1] = TransportWord
  <2> HIDE DEF avp
  <2> DEFINE S == {TransportWord, avp, "client", "_", PortWord}
  <2>1. five \in Seq(S)
    OBVIOUS
  <2> QED
    BY <2>1 DEF Text
<1>4. Text(dash) /\ Len(dash) = 1 /\ dash[1] = "-"
  BY OneWord
<1> HIDE DEF p, q, five, dash
<1>5. Joined(five, p) /\ Text(a)
  BY <1>2, <1>3, Join, JoinText
<1> HIDE DEF a
<1>6. Joined(a, dash) /\ Text(b)
  BY <1>4, <1>5, Join, JoinText
<1> HIDE DEF b
<1>7. Joined(b, q)
  BY <1>2, <1>6, Join
<1>8. Len(p) \in Nat /\ Len(q) \in Nat
  BY <1>2, TextIs
<1>9. Len(a) = 5 + Len(p) /\ a[5] = PortWord /\ a[1] = TransportWord
      /\ \A k \in 1 .. Len(p) : a[5 + k] = p[k]
  BY <1>3, <1>5, <1>8 DEF Joined, a
<1>10. Len(b) = 6 + Len(p) /\ b[5] = PortWord /\ b[6 + Len(p)] = "-" /\ b[1] = TransportWord
       /\ \A k \in 1 .. Len(p) : b[5 + k] = p[k]
  <2>1. Len(a) + 1 = 6 + Len(p) /\ 5 \in 1 .. Len(a) /\ 1 \in 1 .. Len(dash) /\ 1 \in 1 .. Len(a)
        /\ \A k \in 1 .. Len(p) : 5 + k \in 1 .. Len(a)
    BY <1>4, <1>8, <1>9
  <2>2. /\ Len(b) = Len(a) + Len(dash) /\ \A k \in 1 .. Len(a) : b[k] = a[k]
        /\ \A k \in 1 .. Len(dash) : b[Len(a) + k] = dash[k]
    BY <1>6 DEF Joined, b
  <2> QED
    BY <1>4, <1>9, <2>1, <2>2
<1>11. Text(line) /\ Len(line) = Len(b) + Len(q) /\ \A k \in 1 .. Len(b) : line[k] = b[k]
  BY <1>7 DEF Joined
<1> HIDE DEF line
<1>12. /\ 5 \in 1 .. Len(b) /\ 6 + Len(p) \in 1 .. Len(b) /\ 1 \in 1 .. Len(b)
       /\ \A k \in 1 .. Len(p) : 5 + k \in 1 .. Len(b)
  BY <1>8, <1>10
<1>13. /\ Text(line) /\ Len(line) = 6 + Len(p) + Len(q)
       /\ line[5] = PortWord /\ line[6 + Len(p)] = "-" /\ line[1] = TransportWord
       /\ \A k \in 1 .. Len(p) : line[5 + k] = p[k]
  BY <1>8, <1>10, <1>11, <1>12
<1> QED
  BY <1>1, <1>13 DEF p, q

LowLine == "_"

\* Where the port is named in what was received, once the transport line is.
PortPlace(x, port, i) ==
    /\ i \in Nat /\ 1 < i /\ i + 1 + Len(port) <= Len(x)
    /\ x[i] = PortWord /\ x[i + 1 + Len(port)] = "-"
    /\ \A k \in 1 .. Len(port) : x[i + k] = port[k]

LEMMA PortIsIn ==
    ASSUME NEW r, WellFormed(r), NEW x, Text(x), LineIn(x, TransportWord, Line("transport", r))
    PROVE  \E i : PortPlace(x, r.port, i)
<1> DEFINE line == Line("transport", r)
           port == r.port
           p == Len(port)
           q == Len(r.rtcp)
<1>1. /\ Text(line) /\ Len(line) = 6 + p + q
      /\ line[5] = PortWord /\ line[6 + p] = "-"
      /\ \A k \in 1 .. p : line[5 + k] = port[k]
  BY TransportLineIs
<1>2. p \in Nat /\ q \in Nat /\ Len(x) \in Nat
  BY ShapeIs, TextIs
<1> HIDE DEF line, p, q, port
<1>3. PICK j : Holds(x, line \o CRLF, j)
  BY Zenon DEF LineIn, line
<1>4. Joined(line, CRLF) /\ Len(CRLF) = 2
  BY <1>1, LineBreak, Join
<1> DEFINE l == line \o CRLF
<1>5. Len(l) = 8 + p + q /\ \A k \in 1 .. Len(line) : l[k] = line[k]
  BY <1>1, <1>2, <1>4 DEF Joined
<1> HIDE DEF l
<1>6. j \in Nat \ {0} /\ j + Len(l) <= Len(x) + 1 /\ \A k \in 1 .. Len(l) : x[j + k - 1] = l[k]
  BY <1>3 DEF l, Holds
<1>7. \A k \in 1 .. Len(line) : x[j + k - 1] = line[k]
  BY <1>1, <1>2, <1>5, <1>6
<1>8. /\ 5 \in 1 .. Len(line) /\ 6 + p \in 1 .. Len(line)
      /\ j + 5 - 1 = j + 4 /\ j + (6 + p) - 1 = j + 4 + 1 + p
      /\ \A k \in 1 .. p : 5 + k \in 1 .. Len(line) /\ j + (5 + k) - 1 = j + 4 + k
  BY <1>1, <1>2, <1>6
<1>9. /\ x[j + 4] = PortWord /\ x[j + 4 + 1 + p] = "-"
      /\ \A k \in 1 .. p : x[j + 4 + k] = port[k]
  BY <1>1, <1>7, <1>8
<1>10. j + 4 \in Nat /\ 1 < j + 4 /\ j + 4 + 1 + p <= Len(x)
  BY <1>2, <1>5, <1>6
<1>11. PortPlace(x, port, j + 4)
  BY <1>9, <1>10 DEF PortPlace, p
<1> QED
  BY <1>11 DEF port

LEMMA PortIsCut ==
    ASSUME NEW x, Text(x), NEW port \in Seq(DigitWords),
           NEW u \in Nat, 1 < u, u <= Len(x), x[u] = LowLine, PortPlace(x, port, u + 1)
    PROVE  /\ Find(x, <<"-">>, u) = u + 2 + Len(port)
           /\ SubSeq(x, u + 2, u + 2 + Len(port) - 1) = port
<1> DEFINE p == Len(port)
           dash == <<"-">>
<1>1. Len(x) \in Nat /\ p \in Nat /\ Text(port) /\ \A n \in 1 .. p : port[n] \in DigitWords
  BY TextIs DEF Text
<1> HIDE DEF p, dash
<1>2. /\ u + 2 + p <= Len(x)
      /\ x[u + 1] = PortWord /\ x[u + 2 + p] = "-"
      /\ \A k \in 1 .. p : x[u + 1 + k] = port[k]
  <2>1. u + 1 + 1 + p = u + 2 + p
    BY <1>1
  <2> QED
    BY <2>1 DEF PortPlace, p
<1>3. PortWord # "-" /\ LowLine # "-" /\ "-" \notin DigitWords
  <2>1. PortWord # "-" /\ LowLine # "-"
    BY Zenon DEF PortWord, LowLine
  <2>2. "-" \notin {"0", "1", "2", "3", "4", "5", "6", "7", "8", "9"}
    OBVIOUS
  <2>3. DigitWords = {"0", "1", "2", "3", "4", "5", "6", "7", "8", "9"}
    BY NotKeywords, Zenon
  <2> QED
    BY <2>1, <2>2, <2>3
<1>4. \A k \in u .. u + 1 + p : x[k] # "-"
  <2> SUFFICES ASSUME NEW k \in u .. u + 1 + p PROVE x[k] # "-"
    OBVIOUS
  <2>1. k = u \/ k = u + 1 \/ (k - u - 1 \in 1 .. p /\ u + 1 + (k - u - 1) = k)
    BY <1>1
  <2> QED
    BY <1>1, <1>2, <1>3, <2>1
<1>5. /\ u + 2 + p \in Nat \ {0} /\ u <= u + 2 + p /\ u + 2 + p + 1 <= Len(x) + 1
      /\ u + 2 + p - 1 = u + 1 + p
  BY <1>1, <1>2
<1>6. Holds(x, dash, u + 2 + p)
  BY <1>2, <1>5, HoldsWord DEF dash
<1>7. \A k \in u .. u + 1 + p : ~Holds(x, dash, k)
  BY <1>4, HoldsWord DEF dash
<1>8. FirstHeld(x, dash, u, u + 2 + p)
  <2> DEFINE i == u + 2 + p
  <2>1. i \in Nat /\ u <= i /\ i - 1 = u + 1 + p
    BY <1>1
  <2>2. Holds(x, dash, i)
    BY <1>6
  <2> HIDE DEF i
  <2>3. \A k \in u .. i - 1 : ~Holds(x, dash, k)
    BY <1>7, <2>1
  <2>4. FirstHeld(x, dash, u, i)
    BY <2>1, <2>2, <2>3 DEF FirstHeld
  <2> QED
    BY <2>4 DEF i
<1>9. Find(x, dash, u) = u + 2 + p
  <2>1. u \in Nat \ {0} /\ Text(dash)
    BY OneWord DEF dash
  <2> QED
    BY <1>8, <2>1, FindHeld, Zenon
<1>10. Holds(x, port, u + 2)
  <2>1. u + 2 \in Nat \ {0} /\ u + 2 + p <= Len(x) + 1 /\ \A k \in 1 .. p : u + 2 + k - 1 = u + 1 + k
    BY <1>1, <1>2
  <2> QED
    BY <1>2, <2>1 DEF Holds, p
<1>11. SubSeq(x, u + 2, u + 2 + Len(port) - 1) = port
  BY <1>1, <1>10, HeldIs
<1> QED
  BY <1>9, <1>11 DEF dash, p

\* The first "_" is the one before the port: there is no other "port=".
LEMMA PortWordOnce ==
    ASSUME NEW r, NEW x, Text(x), NEW rest, Text(rest), Sent(x \o rest, r),
           NEW i \in 1 .. Len(x), x[i] = PortWord, NEW j \in 1 .. Len(x), x[j] = PortWord
    PROVE  i = j
<1> DEFINE t == x \o rest
<1>1. PICK own : Marks(t, own, Fields(r))
  BY Zenon DEF Sent
<1>2. /\ Len(t) = Len(x) + Len(rest) /\ Len(rest) \in Nat /\ Len(x) \in Nat
      /\ \A k \in 1 .. Len(x) : t[k] = x[k]
  BY Join, TextIs DEF Joined
<1> HIDE DEF t
<1>3. t[i] = PortWord /\ t[j] = PortWord /\ i \in 1 .. Len(t) /\ j \in 1 .. Len(t)
  BY <1>2
<1>4. PortWord \in DOMAIN Fields(r)
  BY FieldsAre, KeywordsIn
<1> QED
  BY <1>1, <1>3, <1>4 DEF Marks

Underscore(x) == Find(x, <<LowLine>>, 1)

LEMMA PortGot ==
    ASSUME NEW x, Text(x), GetPort(x).ok
    PROVE  \E u \in Nat : /\ u = Underscore(x) /\ 1 < u /\ u + 1 <= Len(x)
                          /\ x[u] = LowLine /\ x[u + 1] = PortWord
                          /\ Find(x, <<"-">>, u) # 0 =>
                                GetPort(x).words = SubSeq(x, u + 2, Find(x, <<"-">>, u) - 1)
<1> DEFINE PortEnd(u, dash) == IF dash = 0 THEN Len(x) ELSE dash - 1
           w == <<LowLine>>
           d == <<"-">>
           u == Underscore(x)
           dash == Find(x, d, u)
           Got == GetPort(x).words = SubSeq(x, u + 2, PortEnd(u, dash))
<1>1. ~(u <= 1) /\ ~(u + 2 > PortEnd(u, dash)) /\ x[u + 1] = PortWord /\ Got
  BY Zenon DEF GetPort, None, Some, PortWord, Underscore, LowLine
<1>2. Text(w) /\ Text(d) /\ Len(x) \in Nat
  BY OneWord, TextIs
<1>3. u \in Nat /\ (u # 0 => FirstHeld(x, w, 1, u))
  <2> HIDE DEF w
  <2>1. Find(x, w, 1) \in Nat /\ (Find(x, w, 1) # 0 => FirstHeld(x, w, 1, Find(x, w, 1)))
    BY <1>2, FindGives
  <2> QED
    BY <2>1 DEF w, Underscore
<1> HIDE DEF u, Got
<1>4. u \in Nat \ {0} /\ Holds(x, w, u)
  BY <1>1, <1>3 DEF FirstHeld
<1>5. x[u] = LowLine
  BY <1>4, HoldsWord
<1>6. /\ dash # 0 => FirstHeld(x, d, u, dash)
      /\ dash \in Nat
  <2> HIDE DEF d
  <2>2. /\ Find(x, d, u) # 0 => FirstHeld(x, d, u, Find(x, d, u))
        /\ Find(x, d, u) \in Nat
    BY <1>2, <1>4, FindGives
  <2> QED
    BY <2>2
<1> HIDE DEF dash
<1>7. dash # 0 => dash <= Len(x)
  <2>1. dash # 0 => Holds(x, d, dash)
    BY <1>6 DEF FirstHeld
  <2> QED
    BY <2>1, HoldsWord
<1>8. u + 1 <= Len(x) /\ 1 < u
  BY <1>1, <1>2, <1>4, <1>6, <1>7
<1>9. dash # 0 => (Got <=> GetPort(x).words = SubSeq(x, u + 2, dash - 1))
  BY DEF Got
<1> QED
  BY <1>1, <1>4, <1>5, <1>8, <1>9 DEF u, dash

\* get_port takes the port the client named, whatever else has come.
LEMMA PortReceived ==
    ASSUME NEW r, WellFormed(r), NEW x, Text(x), NEW rest, Text(rest), Sent(x \o rest, r),
           LineIn(x, TransportWord, Line("transport", r)), GetPort(x).ok
    PROVE  GetPort(x).words = r.port
<1> DEFINE port == r.port
           dash(u) == Find(x, <<"-">>, u)
<1>1. PICK u \in Nat : /\ 1 < u /\ u + 1 <= Len(x) /\ x[u] = LowLine /\ x[u + 1] = PortWord
                       /\ dash(u) # 0 => GetPort(x).words = SubSeq(x, u + 2, dash(u) - 1)
  BY PortGot, Zenon
<1>2. PICK i : PortPlace(x, port, i)
  BY PortIsIn
<1>3. port \in Seq(DigitWords) /\ Len(port) \in Nat /\ Len(x) \in Nat
  BY ShapeIs, TextIs
<1> HIDE DEF port
<1>4. i \in 1 .. Len(x) /\ x[i] = PortWord
  BY <1>2, <1>3 DEF PortPlace
<1>5. u + 1 \in 1 .. Len(x) /\ u <= Len(x)
  BY <1>1, <1>3
<1>6. i = u + 1
  BY <1>1, <1>4, <1>5, PortWordOnce
<1>7. dash(u) = u + 2 + Len(port) /\ SubSeq(x, u + 2, u + 2 + Len(port) - 1) = port
  BY <1>1, <1>2, <1>3, <1>5, <1>6, PortIsCut
<1>8. dash(u) # 0
  BY <1>1, <1>3, <1>7
<1>9. GetPort(x).words = SubSeq(x, u + 2, dash(u) - 1)
  BY <1>1, <1>8
<1>10. SubSeq(x, u + 2, dash(u) - 1) = port
  <2> HIDE DEF dash
  <2> QED
    BY <1>7
<1> HIDE DEF dash
<1> QED
  BY <1>9, <1>10, Zenon DEF port

LEMMA WordIsIn ==
    ASSUME NEW x, Text(x), NEW w, NEW line, Text(line), LineIn(x, w, line)
    PROVE  \E i \in 1 .. Len(x) : x[i] = w
<1> DEFINE l == line \o CRLF
<1>1. PICK i : Holds(x, l, i) /\ x[i] = w
  BY Zenon DEF LineIn
<1>2. Len(l) = Len(line) + 2 /\ Len(line) \in Nat /\ Len(x) \in Nat
  <2>1. Joined(line, CRLF) /\ Len(CRLF) = 2
    BY Join, LineBreak
  <2> QED
    BY <2>1, TextIs DEF Joined
<1> HIDE DEF l
<1>3. i \in 1 .. Len(x)
  BY <1>1, <1>2 DEF Holds
<1> QED
  BY <1>1, <1>3

\* Once a request's command and its fields are taken, what remains of it is
\* neither a command nor a field.
LEMMA RestIsHarmless ==
    ASSUME NEW r, WellFormed(r), NEW x, Text(x), NEW rest, Text(rest), Sent(x \o rest, r),
           \A j \in 1 .. Len(rest) : rest[j] \notin FirstWords,
           LineIn(x, CSeqWord, Line("cseq", r)),
           r.kind = "SETUP" => LineIn(x, TransportWord, Line("transport", r))
    PROVE  Harmless(rest)
<1>1. Text(Line("cseq", r)) /\ Text(Line("transport", r))
  BY LineShapes DEF Text
<1>2. PICK i \in 1 .. Len(x) : x[i] = CSeqWord
  BY <1>1, WordIsIn
<1>3. FrontHas(x, rest, r) /\ RestHas(rest, r)
  BY SentHas, Zenon
<1>4. CSeqWord \in Keywords /\ TransportWord \in Keywords /\ PortWord \in Keywords
  BY KeywordsIn
<1>5. \A n \in 1 .. Len(x) : x[n] \in Keywords => \A j \in 1 .. Len(rest) : rest[j] # x[n]
  BY <1>3 DEF FrontHas
<1>6. \A j \in 1 .. Len(rest) : rest[j] # CSeqWord
  BY <1>2, <1>4, <1>5
<1>7. \A j \in 1 .. Len(rest) : rest[j] # TransportWord /\ rest[j] # PortWord
  <2>1. CASE r.kind = "SETUP"
    <3>1. LineIn(x, TransportWord, Line("transport", r))
      BY <2>1
    <3>2. PICK n \in 1 .. Len(x) : x[n] = TransportWord
      BY <1>1, <3>1, WordIsIn
    <3> DEFINE port == r.port
    <3>3. PICK m : PortPlace(x, port, m)
      BY <3>1, PortIsIn
    <3>4. Len(port) \in Nat /\ Len(x) \in Nat
      BY ShapeIs, TextIs
    <3> HIDE DEF port
    <3>5. m \in 1 .. Len(x) /\ x[m] = PortWord
      BY <3>3, <3>4 DEF PortPlace
    <3> QED
      BY <1>4, <1>5, <3>2, <3>5
  <2>2. CASE r.kind # "SETUP"
    BY <1>3, <1>4, <2>2 DEF RestHas
  <2> QED
    BY <2>1, <2>2
<1>8. \A j \in 1 .. Len(rest) : rest[j] \notin Keywords
  BY <1>6, <1>7, CommandsAre
<1>9. \A j \in 1 .. Len(rest) : rest[j] \notin DOMAIN Words
  BY <1>8, WordPieces
<1> QED
  BY <1>9, MarksNone DEF Harmless

LEMMA EmptyJoin ==
    \A x : Text(x) => << >> \o x = x /\ x \o << >> = x
<1> SUFFICES ASSUME NEW x, Text(x) PROVE << >> \o x = x /\ x \o << >> = x
  OBVIOUS
<1>1. PICK S : x \in Seq(S)
  BY DEF Text
<1> QED
  BY <1>1, ConcatEmptySeq

\* recv cuts a text in two.
LEMMA CutJoins ==
    ASSUME NEW x, Text(x), NEW n \in 0 .. Len(x)
    PROVE  SubSeq(x, 1, n) \o SubSeq(x, n + 1, Len(x)) = x
<1> DEFINE a == SubSeq(x, 1, n)
           b == SubSeq(x, n + 1, Len(x))
           t == a \o b
<1>1. /\ Text(a) /\ Len(a) = n /\ \A k \in 1 .. n : a[k] = x[k]
      /\ Text(b) /\ Len(b) = Len(x) - n /\ \A k \in 1 .. Len(x) - n : b[k] = x[n + k]
  BY Cut
<1>2. Len(x) \in Nat /\ n \in Nat /\ n <= Len(x)
  BY TextIs
<1> HIDE DEF a, b
<1>3. /\ Text(t) /\ Len(t) = Len(a) + Len(b)
      /\ \A k \in 1 .. Len(a) : t[k] = a[k]
      /\ \A k \in 1 .. Len(b) : t[Len(a) + k] = b[k]
  <2>1. Joined(a, b)
    BY <1>1, Join
  <2> QED
    BY <2>1 DEF Joined
<1> HIDE DEF t
<1>4. Len(t) = Len(x)
  BY <1>1, <1>2, <1>3
<1>5. ASSUME NEW k \in 1 .. Len(x) PROVE t[k] = x[k]
  <2>1. CASE k <= n
    BY <1>1, <1>2, <1>3, <2>1
  <2>2. CASE n < k
    <3>1. k - n \in 1 .. Len(x) - n /\ n + (k - n) = k
      BY <1>2, <2>2
    <3>2. t[n + (k - n)] = b[k - n] /\ b[k - n] = x[n + (k - n)]
      BY <1>1, <1>3, <3>1
    <3> QED
      BY <3>1, <3>2
  <2> QED
    BY <1>2, <2>1, <2>2
<1>6. PICK S : t \in Seq(S)
  BY <1>3 DEF Text
<1>7. PICK V : x \in Seq(V)
  BY DEF Text
<1>8. t = x
  <2> DEFINE U == S \union V
  <2>1. S \subseteq U /\ V \subseteq U
    OBVIOUS
  <2> HIDE DEF U
  <2>2. t \in Seq(U) /\ x \in Seq(U)
    BY <1>6, <1>7, <2>1, TextIn
  <2> QED
    BY <1>4, <1>5, <2>2, SeqEqual
<1> QED
  BY <1>8 DEF t, a, b

-----------------------------------------------------------------------------
(* The session: what recv_buf and the stream hold, and what a command answers. *)

\* What recv_buf and the stream hold together: between two requests no word the
\* server looks for, and from a request on what RequestText makes of it.
Waiting == IF request = NoRequest THEN Harmless(recv_buf \o stream)
                                  ELSE Sent(recv_buf \o stream, request)

SessionInv ==
    /\ request = NoRequest \/ request \in Requests
    /\ where = "accept" => request = NoRequest /\ stream = << >>
    /\ where = "recv" => recv_buf = << >>
    /\ where # "accept" => send_buf = << >> /\ Text(recv_buf) /\ Text(stream) /\ Waiting
    /\ request # NoRequest => reply = NoReply

LEMMA OutcomeIs ==
    \A s : ~Failed(s).ok /\ Done(s).ok /\ Done(s).send = s
BY DEF Failed, Done

\* What each handler needs of what was received.
LEMMA HandlersNeed ==
    \A send, recv, sets, info :
        /\ Handle_OPTIONS(send, recv).ok => LineFrom(recv, CSeqWord).ok
        /\ Handle_DESCRIBE(send, recv, sets).ok => LineFrom(recv, CSeqWord).ok
        /\ Handle_SETUP(send, recv, info).ok =>
              LineFrom(recv, CSeqWord).ok /\ LineFrom(recv, TransportWord).ok
        /\ Handle_PLAY(send, recv).ok => LineFrom(recv, CSeqWord).ok
        /\ Handle_TEARDOWN(send, recv).ok => LineFrom(recv, CSeqWord).ok
<1> SUFFICES ASSUME NEW send, NEW recv, NEW sets, NEW info
             PROVE
        /\ Handle_OPTIONS(send, recv).ok => LineFrom(recv, CSeqWord).ok
        /\ Handle_DESCRIBE(send, recv, sets).ok => LineFrom(recv, CSeqWord).ok
        /\ Handle_SETUP(send, recv, info).ok =>
              LineFrom(recv, CSeqWord).ok /\ LineFrom(recv, TransportWord).ok
        /\ Handle_PLAY(send, recv).ok => LineFrom(recv, CSeqWord).ok
        /\ Handle_TEARDOWN(send, recv).ok => LineFrom(recv, CSeqWord).ok
  OBVIOUS
<1>1. Handle_OPTIONS(send, recv).ok => LineFrom(recv, CSeqWord).ok
  BY OutcomeIs, Zenon DEF Handle_OPTIONS, CSeqWord
<1>2. Handle_DESCRIBE(send, recv, sets).ok => LineFrom(recv, CSeqWord).ok
  BY OutcomeIs, Zenon DEF Handle_DESCRIBE, CSeqWord
<1>3. Handle_SETUP(send, recv, info).ok =>
              LineFrom(recv, CSeqWord).ok /\ LineFrom(recv, TransportWord).ok
  BY OutcomeIs, Zenon DEF Handle_SETUP, CSeqWord, TransportWord
<1>4. Handle_PLAY(send, recv).ok => LineFrom(recv, CSeqWord).ok
  BY OutcomeIs, Zenon DEF Handle_PLAY, CSeqWord
<1>5. Handle_TEARDOWN(send, recv).ok => LineFrom(recv, CSeqWord).ok
  BY OutcomeIs, Zenon DEF Handle_TEARDOWN, CSeqWord
<1> QED
  BY <1>1, <1>2, <1>3, <1>4, <1>5, Zenon

LEMMA RequestsAre ==
    \A r \in Requests : WellFormed(r) /\ r.kind \in KindSet /\ r # NoRequest
<1> SUFFICES ASSUME NEW r \in Requests PROVE WellFormed(r) /\ r.kind \in KindSet /\ r # NoRequest
  OBVIOUS
<1>1. WellFormed(r)
  BY RequestAssumption
<1>2. r.kind \in KindSet
  BY <1>1, ShapeIs
<1>3. NoRequest.kind = "none" /\ "none" \notin KindSet
  BY KindsAre DEF NoRequest
<1> QED
  BY <1>1, <1>2, <1>3

\* A command in order: the request that waits is the one it is of.
LEMMA CommandIsRequests ==
    ASSUME SessionInv, where = "dispatch", NEW kind, IsCommand(kind)
    PROVE  /\ request \in Requests /\ request.kind = kind /\ reply = NoReply
           /\ Text(recv_buf) /\ Text(stream) /\ Sent(recv_buf \o stream, request)
           /\ \A j \in 1 .. Len(stream) : stream[j] \notin FirstWords
<1>1. Text(recv_buf) /\ Text(stream) /\ Waiting
  BY DEF SessionInv
<1>2. request # NoRequest
  <2> SUFFICES ASSUME request = NoRequest PROVE FALSE
    OBVIOUS
  <2>1. Harmless(recv_buf \o stream)
    BY <1>1 DEF Waiting
  <2>2. /\ Len(recv_buf \o stream) = Len(recv_buf) + Len(stream)
        /\ \A k \in 1 .. Len(recv_buf) : (recv_buf \o stream)[k] = recv_buf[k]
        /\ Len(recv_buf) \in Nat /\ Len(stream) \in Nat
    <3>1. Joined(recv_buf, stream)
      BY <1>1, Join
    <3> QED
      BY <1>1, <3>1, TextIs DEF Joined
  <2>3. \A k \in 1 .. Len(recv_buf \o stream) : (recv_buf \o stream)[k] \notin DOMAIN Words
    BY <2>1 DEF Harmless, Marks
  <2>4. \A k \in 1 .. Len(recv_buf) : recv_buf[k] \notin DOMAIN Words
    BY <2>2, <2>3
  <2>5. Harmless(recv_buf)
    BY <1>1, <2>4, MarksNone DEF Harmless
  <2> QED
    BY <2>5, HarmlessIsNoCommand
<1>3. request \in Requests /\ reply = NoReply /\ Sent(recv_buf \o stream, request)
  BY <1>1, <1>2 DEF SessionInv, Waiting
<1>4. kind = request.kind /\ \A j \in 1 .. Len(stream) : stream[j] \notin FirstWords
  BY <1>1, <1>3, RequestsAre, CommandIsSent
<1> QED
  BY <1>1, <1>3, <1>4

\* What was received when a command is served.
WholeRequest(kind) ==
    /\ request \in Requests /\ request.kind = kind
    /\ Text(recv_buf) /\ Text(stream) /\ Sent(recv_buf \o stream, request)
    /\ LineIn(recv_buf, CSeqWord, Line("cseq", request))
    /\ kind = "SETUP" => LineIn(recv_buf, TransportWord, Line("transport", request))
    /\ Harmless(stream)

LEMMA ReceivedWhole ==
    ASSUME SessionInv, where = "dispatch", NEW kind, IsCommand(kind),
           LineFrom(recv_buf, CSeqWord).ok,
           kind = "SETUP" => LineFrom(recv_buf, TransportWord).ok
    PROVE  WholeRequest(kind)
<1>1. /\ request \in Requests /\ request.kind = kind
      /\ Text(recv_buf) /\ Text(stream) /\ Sent(recv_buf \o stream, request)
      /\ \A j \in 1 .. Len(stream) : stream[j] \notin FirstWords
  BY CommandIsRequests
<1>2. WellFormed(request)
  BY <1>1, RequestsAre
<1>3. LineIn(recv_buf, CSeqWord, Line("cseq", request))
  BY <1>1, <1>2, LinesReceived
<1>4. kind = "SETUP" => LineIn(recv_buf, TransportWord, Line("transport", request))
  BY <1>1, <1>2, LinesReceived
<1>5. Harmless(stream)
  BY <1>1, <1>2, <1>3, <1>4, RestIsHarmless
<1> QED
  BY <1>1, <1>3, <1>4, <1>5 DEF WholeRequest

LEMMA SessionInit == Init => SessionInv
BY DEF Init, SessionInv, NoReply

LEMMA NoWordIsHarmless == Harmless(<< >>)
<1>1. Text(<< >>) /\ Len(<< >>) = 0
  BY NoWord
<1>2. \A i \in 1 .. 0 : << >>[i] \notin DOMAIN Words
  OBVIOUS
<1> QED
  BY <1>1, <1>2, MarksNone DEF Harmless

LEMMA TextOf == \A x, a, p : Marks(x, a, p) => Text(x)
BY DEF Marks

LEMMA AcceptKeeps == SessionInv /\ Accept => SessionInv'
<1> SUFFICES ASSUME SessionInv, Accept PROVE SessionInv'
  OBVIOUS
<1>1. /\ where = "accept" /\ where' = "recv" /\ send_buf' = << >> /\ recv_buf' = << >>
      /\ reply' = NoReply /\ request' = request /\ stream' = stream
  BY DEF Accept, ToRecv, Cleared
<1>2. request' = NoRequest /\ stream' = << >>
  BY <1>1 DEF SessionInv
<1>3. Text(<< >>) /\ << >> \o << >> = << >>
  BY NoWord, EmptyJoin
<1>4. Harmless(recv_buf' \o stream')
  BY <1>1, <1>2, <1>3, NoWordIsHarmless
<1> QED
  BY <1>1, <1>2, <1>3, <1>4 DEF SessionInv, Waiting

LEMMA ClientSendsKeeps == SessionInv /\ ClientSends => SessionInv'
<1> SUFFICES ASSUME SessionInv, ClientSends PROVE SessionInv'
  OBVIOUS
<1>1. PICK r \in Requests : request' = r /\ stream' = stream \o RequestText(r)
  BY DEF ClientSends
<1>2. /\ where = "recv" /\ where' = "recv" /\ request = NoRequest
      /\ reply' = NoReply /\ recv_buf' = recv_buf /\ send_buf' = send_buf
  BY DEF ClientSends
<1>3. /\ recv_buf = << >> /\ send_buf = << >> /\ Text(stream) /\ Text(recv_buf)
      /\ Harmless(recv_buf \o stream)
  BY <1>2 DEF SessionInv, Waiting
<1>4. Harmless(stream)
  BY <1>3, EmptyJoin
<1>5. WellFormed(r) /\ r # NoRequest
  BY RequestsAre
<1>6. Sent(RequestText(r), r)
  BY <1>5, RequestIsSent
<1>7. PICK own : /\ Marks(RequestText(r), own, Fields(r))
                 /\ own \intersect FirstWords \subseteq {FirstWord(r.kind)}
                 /\ r.kind # "SETUP" => TransportWord \notin own /\ PortWord \notin own
  BY <1>6, Zenon DEF Sent
<1>8. Marks(stream, {}, Fields(r)) /\ Pieces(Fields(r))
  BY <1>4, <1>5, NoFields, FieldPieces DEF Harmless
<1>9. Marks(stream \o RequestText(r), own, Fields(r))
  <2>1. {} \intersect own = {} /\ {} \union own = own
    OBVIOUS
  <2>2. Marks(stream \o RequestText(r), {} \union own, Fields(r))
    BY <1>7, <1>8, <2>1, MarksJoin, Zenon
  <2> QED
    BY <2>1, <2>2
<1>10. Sent(stream', r) /\ Text(stream')
  <2>1. Sent(stream \o RequestText(r), r)
    BY <1>7, <1>9, Zenon DEF Sent
  <2>2. Text(stream \o RequestText(r))
    BY <1>9, TextOf
  <2> QED
    BY <1>1, <2>1, <2>2
<1>11. recv_buf' \o stream' = stream'
  BY <1>2, <1>3, <1>10, EmptyJoin
<1>12. Waiting'
  BY <1>1, <1>5, <1>10, <1>11 DEF Waiting
<1> QED
  BY <1>1, <1>2, <1>3, <1>10, <1>12 DEF SessionInv

LEMMA RecvKeeps == SessionInv /\ Recv => SessionInv'
<1> SUFFICES ASSUME SessionInv, Recv PROVE SessionInv'
  OBVIOUS
<1>1. PICK n \in 1 .. Len(stream) : /\ recv_buf' = SubSeq(stream, 1, n)
                                    /\ stream' = SubSeq(stream, n + 1, Len(stream))
  BY DEF Recv
<1>2. /\ where = "recv" /\ where' = "dispatch" /\ send_buf' = send_buf
      /\ request' = request /\ reply' = reply
  BY DEF Recv
<1>3. recv_buf = << >> /\ send_buf = << >> /\ Text(stream) /\ Waiting
  BY <1>2 DEF SessionInv
<1>4. n \in 0 .. Len(stream)
  BY <1>3, TextIs
<1>5. Text(recv_buf') /\ Text(stream') /\ recv_buf' \o stream' = stream
  BY <1>1, <1>3, <1>4, Cut, CutJoins
<1>6. recv_buf \o stream = stream
  BY <1>3, EmptyJoin
<1>7. Waiting'
  BY <1>2, <1>3, <1>5, <1>6 DEF Waiting
<1> QED
  BY <1>2, <1>3, <1>5, <1>7 DEF SessionInv

LEMMA EndKeeps == SessionEnds => SessionInv'
<1> SUFFICES ASSUME SessionEnds PROVE SessionInv'
  OBVIOUS
<1>1. where' = "accept" /\ request' = NoRequest /\ stream' = << >>
  BY DEF SessionEnds
<1> QED
  BY <1>1 DEF SessionInv

\* A reply goes to the request that waits, and to nothing else.
LEMMA RepliedTo ==
    ASSUME SessionInv, NEW kind, NEW handled, Replied(kind, handled),
           LineFrom(recv_buf, CSeqWord).ok,
           kind = "SETUP" => LineFrom(recv_buf, TransportWord).ok
    PROVE  WholeRequest(kind) /\ send_buf = << >>
<1>1. where = "dispatch" /\ IsCommand(kind)
  BY DEF Replied
<1>2. send_buf = << >>
  BY <1>1 DEF SessionInv
<1> QED
  BY <1>1, <1>2, ReceivedWhole

LEMMA ServedKeeps ==
    ASSUME SessionInv, NEW kind, NEW handled, Served(kind, handled),
           LineFrom(recv_buf, CSeqWord).ok,
           kind = "SETUP" => LineFrom(recv_buf, TransportWord).ok
    PROVE  SessionInv' /\ WholeRequest(kind) /\ send_buf = << >>
<1>1. WholeRequest(kind) /\ send_buf = << >>
  BY RepliedTo DEF Served
<1>2. /\ where' = "recv" /\ send_buf' = << >> /\ recv_buf' = << >>
      /\ request' = NoRequest /\ stream' = stream
  BY DEF Served, ToRecv, Cleared
<1>3. Harmless(stream) /\ Text(stream)
  BY <1>1 DEF WholeRequest
<1>4. Text(<< >>) /\ recv_buf' \o stream' = stream
  BY <1>2, <1>3, NoWord, EmptyJoin
<1>5. Harmless(recv_buf' \o stream')
  BY <1>3, <1>4
<1>6. Waiting'
  BY <1>2, <1>5 DEF Waiting
<1>7. SessionInv'
  BY <1>2, <1>3, <1>4, <1>6 DEF SessionInv
<1> QED
  BY <1>1, <1>7

\* A handler answers the whole of the request that waits.
Replies(kind, handled) ==
    /\ WholeRequest(kind) /\ handled.ok
    /\ reply' = [to |-> request, text |-> handled.send]
    /\ header' = header /\ session_id' = session_id

LEMMA ServedReplies ==
    ASSUME SessionInv, NEW kind, NEW handled, Served(kind, handled),
           LineFrom(recv_buf, CSeqWord).ok,
           kind = "SETUP" => LineFrom(recv_buf, TransportWord).ok
    PROVE  SessionInv' /\ Replies(kind, handled) /\ send_buf = << >> /\ mask = Before(kind)
<1>1. SessionInv' /\ WholeRequest(kind) /\ send_buf = << >>
  BY ServedKeeps
<1>2. /\ handled.ok /\ reply' = [to |-> request, text |-> handled.send] /\ mask = Before(kind)
      /\ header' = header /\ session_id' = session_id
  BY DEF Served, Replied
<1> QED
  BY <1>1, <1>2 DEF Replies

LEMMA OptionsStep ==
    SessionInv /\ Options =>
        SessionInv' /\ Replies("OPTIONS", Handle_OPTIONS(<< >>, recv_buf)) /\ client_port' = client_port
<1> SUFFICES ASSUME SessionInv, Options
             PROVE  SessionInv' /\ Replies("OPTIONS", Handle_OPTIONS(<< >>, recv_buf))
                    /\ client_port' = client_port
  OBVIOUS
<1> DEFINE h == Handle_OPTIONS(send_buf, recv_buf)
<1>1. Served("OPTIONS", h) /\ client_port' = client_port
  BY DEF Options
<1>2. h.ok => LineFrom(recv_buf, CSeqWord).ok
  BY HandlersNeed, Zenon
<1> HIDE DEF h
<1>3. h.ok
  BY <1>1 DEF Served, Replied
<1>4. SessionInv' /\ Replies("OPTIONS", h) /\ send_buf = << >>
  BY <1>1, <1>2, <1>3, ServedReplies
<1> QED
  BY <1>1, <1>4 DEF h

LEMMA DescribeStep ==
    SessionInv /\ Describe =>
        SessionInv' /\ Replies("DESCRIBE", Handle_DESCRIBE(<< >>, recv_buf, ParameterSets(header)))
        /\ client_port' = client_port
<1> SUFFICES ASSUME SessionInv, Describe
             PROVE  SessionInv' /\ Replies("DESCRIBE", Handle_DESCRIBE(<< >>, recv_buf, ParameterSets(header)))
                    /\ client_port' = client_port
  OBVIOUS
<1> DEFINE h == Handle_DESCRIBE(send_buf, recv_buf, ParameterSets(header))
<1>1. Served("DESCRIBE", h) /\ client_port' = client_port
  BY DEF Describe
<1>2. h.ok => LineFrom(recv_buf, CSeqWord).ok
  BY HandlersNeed, Zenon
<1> HIDE DEF h
<1>3. h.ok
  BY <1>1 DEF Served, Replied
<1>4. SessionInv' /\ Replies("DESCRIBE", h) /\ send_buf = << >>
  BY <1>1, <1>2, <1>3, ServedReplies
<1> QED
  BY <1>1, <1>4 DEF h

LEMMA PlayStep ==
    SessionInv /\ Play =>
        SessionInv' /\ Replies("PLAY", Handle_PLAY(<< >>, recv_buf)) /\ client_port' = client_port
<1> SUFFICES ASSUME SessionInv, Play
             PROVE  SessionInv' /\ Replies("PLAY", Handle_PLAY(<< >>, recv_buf))
                    /\ client_port' = client_port
  OBVIOUS
<1> DEFINE h == Handle_PLAY(send_buf, recv_buf)
<1>1. Served("PLAY", h) /\ client_port' = client_port
  BY DEF Play
<1>2. h.ok => LineFrom(recv_buf, CSeqWord).ok
  BY HandlersNeed, Zenon
<1> HIDE DEF h
<1>3. h.ok
  BY <1>1 DEF Served, Replied
<1>4. SessionInv' /\ Replies("PLAY", h) /\ send_buf = << >>
  BY <1>1, <1>2, <1>3, ServedReplies
<1> QED
  BY <1>1, <1>4 DEF h

LEMMA TeardownStep ==
    SessionInv /\ Teardown =>
        SessionInv' /\ Replies("TEARDOWN", Handle_TEARDOWN(<< >>, recv_buf)) /\ client_port' = client_port
<1> SUFFICES ASSUME SessionInv, Teardown
             PROVE  SessionInv' /\ Replies("TEARDOWN", Handle_TEARDOWN(<< >>, recv_buf))
                    /\ client_port' = client_port
  OBVIOUS
<1> DEFINE h == Handle_TEARDOWN(send_buf, recv_buf)
<1>1. Replied("TEARDOWN", h) /\ SessionEnds /\ client_port' = client_port
  BY DEF Teardown
<1>2. h.ok => LineFrom(recv_buf, CSeqWord).ok
  BY HandlersNeed, Zenon
<1> HIDE DEF h
<1>3. h.ok /\ reply' = [to |-> request, text |-> h.send]
  BY <1>1 DEF Replied
<1>4. WholeRequest("TEARDOWN") /\ send_buf = << >>
  BY <1>1, <1>2, <1>3, RepliedTo
<1>5. SessionInv' /\ header' = header /\ session_id' = session_id
  BY <1>1, EndKeeps DEF SessionEnds
<1>6. Replies("TEARDOWN", h)
  BY <1>3, <1>4, <1>5 DEF Replies
<1> QED
  BY <1>1, <1>4, <1>5, <1>6 DEF h

\* The port a served SETUP stores.
LEMMA SetupStep ==
    SessionInv /\ Setup =>
        /\ SessionInv'
        /\ \E info \in TransportInfos(Line("transport", request)) :
              Replies("SETUP", Handle_SETUP(<< >>, recv_buf, info))
        /\ client_port' = Number(request.port)
        /\ mask = Before("SETUP")
<1> SUFFICES ASSUME SessionInv, Setup
             PROVE
        /\ SessionInv'
        /\ \E info \in TransportInfos(Line("transport", request)) :
              Replies("SETUP", Handle_SETUP(<< >>, recv_buf, info))
        /\ client_port' = Number(request.port)
        /\ mask = Before("SETUP")
  OBVIOUS
<1>1. PICK info \in TransportInfos(LineFrom(recv_buf, TransportWord).words) :
          Served("SETUP", Handle_SETUP(send_buf, recv_buf, info))
  BY Zenon DEF Setup, TransportWord
<1>2. GetPort(recv_buf).ok /\ client_port' = PortStored("SETUP")
  BY Zenon DEF Setup
<1> DEFINE h == Handle_SETUP(send_buf, recv_buf, info)
<1>3. h.ok => LineFrom(recv_buf, CSeqWord).ok /\ LineFrom(recv_buf, TransportWord).ok
  BY HandlersNeed, Zenon
<1>4. Served("SETUP", h)
  BY <1>1
<1> HIDE DEF h
<1>5. h.ok
  BY <1>4 DEF Served, Replied
<1>6. SessionInv' /\ Replies("SETUP", h) /\ send_buf = << >> /\ mask = Before("SETUP")
  BY <1>3, <1>4, <1>5, ServedReplies
<1>7. WholeRequest("SETUP")
  BY <1>6 DEF Replies
<1>8. /\ request \in Requests /\ Text(recv_buf) /\ Text(stream) /\ Sent(recv_buf \o stream, request)
      /\ LineIn(recv_buf, TransportWord, Line("transport", request))
  BY <1>7 DEF WholeRequest
<1>9. LineFrom(recv_buf, TransportWord).words = Line("transport", request)
  BY <1>8, Zenon DEF LineIn
<1>10. info \in TransportInfos(Line("transport", request))
  BY <1>1, <1>9
<1>11. Replies("SETUP", Handle_SETUP(<< >>, recv_buf, info))
  BY <1>6 DEF h
<1>12. WellFormed(request)
  BY <1>8, RequestsAre
<1>13. GetPort(recv_buf).words = request.port
  BY <1>2, <1>8, <1>12, PortReceived
<1>14. client_port' = Number(request.port) % 2^16
  <2>1. PortStored("SETUP") = Number(GetPort(recv_buf).words) % 65536
    BY <1>2, <1>6 DEF PortStored
  <2>2. 65536 = 2^16
    OBVIOUS
  <2> QED
    BY <1>2, <1>13, <2>1, <2>2
<1>15. Number(request.port) \in 0 .. 2^16 - 1
  BY <1>12, ShapeIs
<1>16. \A n \in 0 .. 2^16 - 1 : n % 2^16 = n
  OBVIOUS
<1>17. client_port' = Number(request.port)
  BY <1>14, <1>15, <1>16
<1> QED
  BY <1>6, <1>10, <1>11, <1>17

LEMMA RefuseStep ==
    SessionInv /\ Refuse =>
        /\ SessionInv'
        /\ reply' = reply /\ header' = header /\ session_id' = session_id /\ mask' = mask
        /\ reply # NoReply => client_port' = client_port
        /\ "SETUP" \in mask => client_port' = client_port
<1> SUFFICES ASSUME SessionInv, Refuse
             PROVE
        /\ SessionInv'
        /\ reply' = reply /\ header' = header /\ session_id' = session_id /\ mask' = mask
        /\ reply # NoReply => client_port' = client_port
        /\ "SETUP" \in mask => client_port' = client_port
  OBVIOUS
<1>1. SessionEnds /\ reply' = reply /\ where = "dispatch"
  BY DEF Refuse, NotServed
<1>2. SessionInv' /\ header' = header /\ session_id' = session_id /\ mask' = mask
  BY <1>1, EndKeeps DEF SessionEnds
<1>3. CASE \E k \in DOMAIN Kinds : NotServed(Kinds[k])
  <2>1. PICK kind : IsCommand(kind) /\ client_port' = PortStored(kind)
    BY <1>3, Zenon DEF NotServed
  <2>2. reply = NoReply
    BY <1>1, <2>1, CommandIsRequests
  <2>3. "SETUP" \notin Before("SETUP")
    BY DEF Before, Kinds
  <2>4. "SETUP" \in mask => client_port' = client_port
    <3>1. "SETUP" \in mask => mask # Before("SETUP")
      BY <2>3
    <3>2. "SETUP" \in mask => PortStored(kind) = client_port
      BY <3>1 DEF PortStored
    <3> QED
      BY <2>1, <3>2
  <2> QED
    BY <1>1, <1>2, <2>2, <2>4
<1>4. CASE \A k \in DOMAIN Kinds : ~NotServed(Kinds[k])
  <2>1. client_port' = client_port
    BY <1>4 DEF Refuse
  <2> QED
    BY <1>1, <1>2, <2>1
<1> QED
  BY <1>3, <1>4

\* Where the packets of an answered SETUP go.
PortInv ==
    reply # NoReply =>
        /\ reply.to \in Requests
        /\ reply.to.kind = "SETUP" => client_port = Number(reply.to.port)

LEMMA ReplyIs ==
    ASSUME NEW kind, NEW handled, Replies(kind, handled)
    PROVE  reply'.to = request /\ request \in Requests /\ request.kind = kind
BY DEF Replies, WholeRequest

LEMMA NoReplyIsToNone ==
    NoReply.to.kind # "SETUP" /\ \A r \in Requests : NoReply.to # r
<1>1. NoReply.to = NoRequest /\ NoRequest.kind = "none"
  BY DEF NoReply, NoRequest
<1> QED
  BY <1>1, RequestsAre

\* What the two conjuncts of PortIsClients say of a step.
PortStep ==
    /\ \A r \in Requests :
          reply'.to = r /\ r.kind = "SETUP" => client_port' = Number(r.port)
    /\ "SETUP" \in mask \intersect mask' => client_port' = client_port

LEMMA PortKept ==
    ASSUME PortInv, reply' = reply \/ reply' = NoReply,
           reply' # NoReply => client_port' = client_port,
           "SETUP" \in mask \intersect mask' => client_port' = client_port
    PROVE  PortInv' /\ PortStep
<1>1. CASE reply' = NoReply
  <2>1. PortInv'
    BY <1>1 DEF PortInv
  <2>2. \A r \in Requests : reply'.to # r
    BY <1>1, NoReplyIsToNone
  <2> QED
    BY <2>1, <2>2 DEF PortStep
<1>2. CASE reply' # NoReply
  <2>1. reply' = reply /\ reply # NoReply /\ client_port' = client_port
    BY <1>2
  <2> QED
    BY <2>1 DEF PortInv, PortStep
<1> QED
  BY <1>1, <1>2

LEMMA PortOther ==
    ASSUME NEW kind, NEW handled, Replies(kind, handled), kind # "SETUP", client_port' = client_port
    PROVE  PortInv' /\ PortStep
<1>1. reply'.to = request /\ request \in Requests /\ request.kind = kind
  BY ReplyIs
<1> QED
  BY <1>1 DEF PortInv, PortStep

LEMMA PortSetup ==
    ASSUME NEW handled, Replies("SETUP", handled), client_port' = Number(request.port),
           mask = Before("SETUP")
    PROVE  PortInv' /\ PortStep
<1>1. reply'.to = request /\ request \in Requests /\ request.kind = "SETUP"
  BY ReplyIs
<1>2. "SETUP" \notin mask
  BY DEF Before, Kinds
<1> QED
  BY <1>1, <1>2 DEF PortInv, PortStep

LEMMA SessionStep ==
    SessionInv /\ PortInv /\ [Next]_vars => SessionInv' /\ PortInv' /\ (PortStep \/ UNCHANGED vars)
<1> SUFFICES ASSUME SessionInv, PortInv, [Next]_vars
             PROVE  SessionInv' /\ PortInv' /\ (PortStep \/ UNCHANGED vars)
  OBVIOUS
<1>1. CASE Accept
  <2>1. reply' = NoReply /\ mask' = {}
    BY <1>1 DEF Accept
  <2> QED
    BY <1>1, <2>1, AcceptKeeps, PortKept
<1>2. CASE ClientSends
  <2>1. reply' = NoReply /\ client_port' = client_port
    BY <1>2 DEF ClientSends
  <2> QED
    BY <1>2, <2>1, ClientSendsKeeps, PortKept
<1>3. CASE Recv
  <2>1. reply' = reply /\ client_port' = client_port
    BY <1>3 DEF Recv
  <2> QED
    BY <1>3, <2>1, RecvKeeps, PortKept
<1>4. CASE Options
  BY <1>4, OptionsStep, PortOther
<1>5. CASE Describe
  BY <1>5, DescribeStep, PortOther
<1>6. CASE Setup
  BY <1>6, SetupStep, PortSetup
<1>7. CASE Play
  BY <1>7, PlayStep, PortOther
<1>8. CASE Teardown
  BY <1>8, TeardownStep, PortOther
<1>9. CASE Refuse
  BY <1>9, RefuseStep, PortKept
<1>10. CASE UNCHANGED vars
  <2>1. /\ where' = where /\ recv_buf' = recv_buf /\ send_buf' = send_buf /\ request' = request
        /\ stream' = stream /\ reply' = reply /\ client_port' = client_port
    BY <1>10 DEF vars
  <2> QED
    BY <1>10, <2>1 DEF SessionInv, Waiting, PortInv
<1> QED
  BY <1>1, <1>2, <1>3, <1>4, <1>5, <1>6, <1>7, <1>8, <1>9, <1>10 DEF Next

\* Between two requests the server has received no word it looks for, and from
\* a request on it has received, of the rest, a part of that request only: so a
\* served command is the whole of the one that waits, and its port is stored.
THEOREM SessionInvariant == Spec => [](SessionInv /\ PortInv)
<1>1. Init => SessionInv /\ PortInv
  BY SessionInit DEF Init, PortInv
<1>2. SessionInv /\ PortInv /\ [Next]_vars => (SessionInv /\ PortInv)'
  BY SessionStep
<1> QED
  BY <1>1, <1>2, PTL DEF Spec

\* Behind an answered SETUP the RTP packets go to the port the client named:
\* get_port reads it from whatever recv gave, and nothing stores another one
\* while the session lasts.
THEOREM PortIsTheClients == Spec => PortIsClients
<1>1. SessionInv /\ PortInv /\ [Next]_vars =>
          [/\ \A r \in Requests :
                 reply'.to = r /\ r.kind = "SETUP" => client_port' = Number(r.port)
           /\ "SETUP" \in mask \intersect mask' => client_port' = client_port]_vars
  BY SessionStep DEF PortStep
<1> QED
  BY <1>1, SessionInvariant, PTL DEF PortIsClients, Spec

-----------------------------------------------------------------------------
(* Replies: the tracked words, each of which a reply has once or not at all. *)

\* The words that a reply has once, or has not.
StatusWord == "RTSP/1.0 200 OK "
SessionWord == "Session: "
PublicWord == "Public: "
TypeWord == "Content-Type: "
LengthWord == "Content-Length: "
InfoWord == "RTP-Info: url="
CloseWord == "Connection: Close "
ProfileWord == "profile-level-id="
SetsWord == "sprop-parameter-sets="
Tracked == {StatusWord, CSeqWord, TransportWord, SessionWord, PublicWord, TypeWord, LengthWord,
            InfoWord, CloseWord, ProfileWord, SetsWord, Comma}
Tracks == [w \in Tracked |-> <<w>>]

LEMMA TracksAre == DOMAIN Tracks = Tracked /\ Pieces(Tracks) /\ \A w \in Tracked : Tracks[w] = <<w>>
BY OneWord DEF Tracks, Pieces

\* Other words, no CR among them; and behind one of the tracked words.
Plain(x) == Text(x) /\ \A k \in 1 .. Len(x) : x[k] \notin Tracked /\ x[k] # "CR"

Headed(x, w) ==
    /\ Text(x) /\ Len(x) # 0 /\ x[1] = w
    /\ \A k \in 2 .. Len(x) : x[k] \notin Tracked /\ x[k] # "CR"

LEMMA PlainJoin ==
    \A x, y : Plain(x) /\ Plain(y) => Plain(x \o y)
<1> SUFFICES ASSUME NEW x, NEW y, Plain(x), Plain(y) PROVE Plain(x \o y)
  OBVIOUS
<1> DEFINE t == x \o y
<1>1. /\ Text(t) /\ Len(t) = Len(x) + Len(y) /\ Len(x) \in Nat /\ Len(y) \in Nat
      /\ \A k \in 1 .. Len(x) : t[k] = x[k]
      /\ \A k \in 1 .. Len(y) : t[Len(x) + k] = y[k]
  <2>1. Joined(x, y)
    BY Join DEF Plain
  <2> QED
    BY <2>1, TextIs DEF Joined, Plain
<1> HIDE DEF t
<1>2. ASSUME NEW k \in 1 .. Len(t) PROVE t[k] \notin Tracked /\ t[k] # "CR"
  <2>1. CASE k <= Len(x)
    BY <1>1, <2>1 DEF Plain
  <2>2. CASE Len(x) < k
    <3>1. k - Len(x) \in 1 .. Len(y) /\ Len(x) + (k - Len(x)) = k
      BY <1>1, <2>2
    <3>2. t[k] = y[k - Len(x)]
      BY <1>1, <3>1
    <3> QED
      BY <3>1, <3>2 DEF Plain
  <2> QED
    BY <1>1, <2>1, <2>2
<1> QED
  BY <1>1, <1>2 DEF Plain, t

LEMMA HeadedJoin ==
    \A x, y, w : Headed(x, w) /\ Plain(y) => Headed(x \o y, w)
<1> SUFFICES ASSUME NEW x, NEW y, NEW w, Headed(x, w), Plain(y) PROVE Headed(x \o y, w)
  OBVIOUS
<1> DEFINE t == x \o y
<1>0. Text(x) /\ Text(y)
  BY DEF Headed, Plain
<1>1. /\ Text(t) /\ Len(t) = Len(x) + Len(y) /\ Len(x) \in Nat /\ Len(y) \in Nat
      /\ \A k \in 1 .. Len(x) : t[k] = x[k]
      /\ \A k \in 1 .. Len(y) : t[Len(x) + k] = y[k]
  <2>1. Joined(x, y)
    BY <1>0, Join
  <2> QED
    BY <1>0, <2>1, TextIs DEF Joined
<1> HIDE DEF t
<1>2. Len(x) # 0 /\ x[1] = w
  BY DEF Headed
<1>3. Len(t) # 0 /\ t[1] = w
  BY <1>1, <1>2
<1>4. ASSUME NEW k \in 2 .. Len(t) PROVE t[k] \notin Tracked /\ t[k] # "CR"
  <2>1. CASE k <= Len(x)
    BY <1>1, <2>1 DEF Headed
  <2>2. CASE Len(x) < k
    <3>1. k - Len(x) \in 1 .. Len(y) /\ Len(x) + (k - Len(x)) = k
      BY <1>1, <2>2
    <3>2. t[k] = y[k - Len(x)]
      BY <1>1, <3>1
    <3> QED
      BY <3>1, <3>2 DEF Plain
  <2> QED
    BY <1>1, <2>1, <2>2
<1> QED
  BY <1>1, <1>3, <1>4 DEF Headed, t

LEMMA PlainWord ==
    \A w : /\ w \notin Tracked /\ w # "CR" => Plain(<<w>>)
           /\ Headed(<<w>>, w)
<1> SUFFICES ASSUME NEW w PROVE /\ w \notin Tracked /\ w # "CR" => Plain(<<w>>)
                                /\ Headed(<<w>>, w)
  OBVIOUS
<1> DEFINE x == <<w>>
<1>1. Text(x) /\ Len(x) = 1 /\ x[1] = w
  BY OneWord
<1> HIDE DEF x
<1>2. \A k \in 1 .. Len(x) : k = 1
  BY <1>1
<1>3. \A k \in 2 .. Len(x) : FALSE
  BY <1>1
<1>4. Headed(x, w)
  BY <1>1, <1>3 DEF Headed
<1>5. w \notin Tracked /\ w # "CR" => Plain(x)
  BY <1>1, <1>2 DEF Plain
<1> QED
  BY <1>4, <1>5 DEF x

\* Lines, each ended by its CRLF, and none of them empty.
Lined(x) ==
    /\ Text(x) /\ Len(x) >= 3
    /\ x[1] # "CR" /\ x[Len(x) - 1] = "CR" /\ x[Len(x)] = "LF"
    /\ \A k \in 1 .. Len(x) - 2 : x[k] = "CR" => x[k + 2] # "CR"

LEMMA LinedJoin ==
    \A x, y : Lined(x) /\ Lined(y) => Lined(x \o y)
<1> SUFFICES ASSUME NEW x, NEW y, Lined(x), Lined(y) PROVE Lined(x \o y)
  OBVIOUS
<1> DEFINE t == x \o y
           n == Len(x)
           m == Len(y)
<1>0. Text(x) /\ Text(y)
  BY DEF Lined
<1>1. /\ Text(t) /\ Len(t) = n + m /\ n \in Nat /\ m \in Nat
      /\ \A k \in 1 .. n : t[k] = x[k]
      /\ \A k \in 1 .. m : t[n + k] = y[k]
  <2>1. Joined(x, y)
    BY <1>0, Join
  <2> QED
    BY <1>0, <2>1, TextIs DEF Joined
<1>2. /\ n >= 3 /\ m >= 3 /\ x[1] # "CR" /\ y[1] # "CR"
      /\ x[n - 1] = "CR" /\ x[n] = "LF" /\ y[m - 1] = "CR" /\ y[m] = "LF"
      /\ \A k \in 1 .. n - 2 : x[k] = "CR" => x[k + 2] # "CR"
      /\ \A k \in 1 .. m - 2 : y[k] = "CR" => y[k + 2] # "CR"
  BY DEF Lined
<1> HIDE DEF t, n, m
<1>3. /\ n + (m - 1) = Len(t) - 1 /\ n + m = Len(t) /\ m - 1 \in 1 .. m /\ m \in 1 .. m
      /\ 1 \in 1 .. n /\ n \in 1 .. n /\ n - 1 \in 1 .. n /\ 1 \in 1 .. m /\ Len(t) >= 3
  BY <1>1, <1>2
<1>4. t[1] # "CR" /\ t[Len(t) - 1] = "CR" /\ t[Len(t)] = "LF"
  <2>1. t[n + (m - 1)] = y[m - 1] /\ t[n + m] = y[m] /\ t[1] = x[1]
    BY <1>1, <1>3
  <2> QED
    BY <1>2, <1>3, <2>1
<1>5. ASSUME NEW k \in 1 .. Len(t) - 2, t[k] = "CR", t[k + 2] = "CR" PROVE FALSE
  <2>1. CASE k + 2 <= n
    <3>1. k \in 1 .. n /\ k + 2 \in 1 .. n /\ k \in 1 .. n - 2
      BY <1>1, <2>1
    <3> QED
      BY <1>1, <1>2, <1>5, <3>1
  <2>2. CASE k = n
    <3>1. t[n] = x[n]
      BY <1>1, <1>3
    <3> QED
      BY <1>2, <1>5, <2>2, <3>1
  <2>3. CASE k = n - 1
    <3>1. k + 2 = n + 1
      BY <1>1, <2>3
    <3>2. t[n + 1] = y[1]
      BY <1>1, <1>3
    <3> QED
      BY <1>2, <1>5, <3>1, <3>2
  <2>4. CASE n < k
    <3>1. k - n \in 1 .. m - 2 /\ k - n \in 1 .. m /\ (k - n) + 2 \in 1 .. m
          /\ n + (k - n) = k /\ n + ((k - n) + 2) = k + 2
      BY <1>1, <2>4
    <3>2. t[n + (k - n)] = y[k - n] /\ t[n + ((k - n) + 2)] = y[(k - n) + 2]
      BY <1>1, <3>1
    <3> QED
      BY <1>2, <1>5, <3>1, <3>2
  <2> QED
    BY <1>1, <2>1, <2>2, <2>3, <2>4
<1> QED
  BY <1>1, <1>3, <1>4, <1>5 DEF Lined, t

\* One line.
LEMMA LinedLine ==
    \A l : Text(l) /\ Len(l) # 0 /\ (\A k \in 1 .. Len(l) : l[k] # "CR") => Lined(l \o CRLF)
<1> SUFFICES ASSUME NEW l, Text(l), Len(l) # 0, \A k \in 1 .. Len(l) : l[k] # "CR"
             PROVE  Lined(l \o CRLF)
  OBVIOUS
<1> DEFINE t == l \o CRLF
           n == Len(l)
<1>1. /\ Text(t) /\ Len(t) = n + 2 /\ n \in Nat
      /\ \A k \in 1 .. n : t[k] = l[k]
      /\ t[n + 1] = "CR" /\ t[n + 2] = "LF"
  <2>1. Joined(l, CRLF) /\ n \in Nat
    BY Join, LineBreak, TextIs
  <2>2. /\ Text(t) /\ Len(t) = n + Len(CRLF) /\ \A k \in 1 .. n : t[k] = l[k]
        /\ \A k \in 1 .. Len(CRLF) : t[n + k] = CRLF[k]
    BY <2>1 DEF Joined
  <2>3. 1 \in 1 .. Len(CRLF) /\ 2 \in 1 .. Len(CRLF)
    BY LineBreak
  <2> HIDE DEF t, n
  <2> QED
    BY <2>1, <2>2, <2>3, LineBreak
<1> HIDE DEF t
<1>2. n >= 1 /\ Len(t) - 1 = n + 1 /\ Len(t) >= 3 /\ \A k \in 1 .. Len(t) - 2 : k \in 1 .. n
  BY <1>1
<1>3. t[1] # "CR" /\ t[Len(t) - 1] = "CR" /\ t[Len(t)] = "LF"
      /\ \A k \in 1 .. Len(t) - 2 : t[k] # "CR"
  BY <1>1, <1>2
<1> QED
  BY <1>1, <1>2, <1>3 DEF Lined, t

Has(x, piece) == \E i : Holds(x, piece, i)

LEMMA HasJoin ==
    \A x, y, piece : Text(x) /\ Text(y) /\ Text(piece) /\ (Has(x, piece) \/ Has(y, piece))
                     => Has(x \o y, piece)
<1> SUFFICES ASSUME NEW x, NEW y, NEW piece, Text(x), Text(y), Text(piece),
                    Has(x, piece) \/ Has(y, piece)
             PROVE  Has(x \o y, piece)
  OBVIOUS
<1>1. ASSUME NEW i, Holds(x, piece, i) PROVE Has(x \o y, piece)
  BY <1>1, HoldsLeft DEF Has
<1>2. ASSUME NEW i, Holds(y, piece, i) PROVE Has(x \o y, piece)
  BY <1>2, HoldsRight DEF Has
<1> QED
  BY <1>1, <1>2 DEF Has

\* Lines with the tracked words in `own', each once, and the pieces in `held'.
Lines(x, own, held) ==
    /\ Marks(x, own, Tracks) /\ Lined(x)
    /\ \A h \in held : Text(h) /\ Has(x, h)

LEMMA LinesJoin ==
    \A x, y, a, b, g, h : Lines(x, a, g) /\ Lines(y, b, h) /\ a \intersect b = {}
                          => Lines(x \o y, a \union b, g \union h)
<1> SUFFICES ASSUME NEW x, NEW y, NEW a, NEW b, NEW g, NEW h, Lines(x, a, g), Lines(y, b, h),
                    a \intersect b = {}
             PROVE  Lines(x \o y, a \union b, g \union h)
  OBVIOUS
<1>1. Marks(x \o y, a \union b, Tracks)
  BY TracksAre, MarksJoin, Zenon DEF Lines
<1>2. Lined(x \o y)
  BY LinedJoin DEF Lines
<1>3. Text(x) /\ Text(y)
  BY DEF Lines, Marks
<1>4. ASSUME NEW p \in g \union h PROVE Text(p) /\ Has(x \o y, p)
  <2>1. Text(p) /\ (Has(x, p) \/ Has(y, p))
    BY DEF Lines
  <2> QED
    BY <1>3, <2>1, HasJoin
<1> QED
  BY <1>1, <1>2, <1>4 DEF Lines

\* A further line.
LEMMA AddLine ==
    \A x, l, a, b, g, h : Lines(x, a, g) /\ Text(l) /\ Lines(l \o CRLF, b, h) /\ a \intersect b = {}
                          => Lines((x \o l) \o CRLF, a \union b, g \union h)
<1> SUFFICES ASSUME NEW x, NEW l, NEW a, NEW b, NEW g, NEW h, Lines(x, a, g), Text(l),
                    Lines(l \o CRLF, b, h), a \intersect b = {}
             PROVE  Lines((x \o l) \o CRLF, a \union b, g \union h)
  OBVIOUS
<1>1. Text(x) /\ Text(CRLF)
  BY LineBreak DEF Lines, Marks
<1>2. Associates(x, l, CRLF)
  BY <1>1, JoinAssoc, Zenon
<1>3. (x \o l) \o CRLF = x \o (l \o CRLF)
  BY <1>2, Zenon DEF Associates
<1>4. Lines(x \o (l \o CRLF), a \union b, g \union h)
  BY LinesJoin, Zenon
<1> QED
  BY <1>3, <1>4

LEMMA BreakPlain == CRLF[1] \notin Tracked /\ CRLF[2] \notin Tracked
<1>1. "CR" \notin Tracked /\ "LF" \notin Tracked
  BY Zenon DEF Tracked, StatusWord, CSeqWord, TransportWord, SessionWord, PublicWord, TypeWord,
     LengthWord, InfoWord, CloseWord, ProfileWord, SetsWord, Comma
<1> QED
  BY <1>1, LineBreak

LEMMA LineParts ==
    \A l : Text(l) => /\ Text(l \o CRLF) /\ Len(l \o CRLF) = Len(l) + 2
                      /\ \A k \in 1 .. Len(l) : (l \o CRLF)[k] = l[k]
                      /\ \A k \in 1 .. Len(l) + 2 :
                            k \in 1 .. Len(l) \/ (l \o CRLF)[k] \notin Tracked
<1> SUFFICES ASSUME NEW l, Text(l)
             PROVE    /\ Text(l \o CRLF) /\ Len(l \o CRLF) = Len(l) + 2
                      /\ \A k \in 1 .. Len(l) : (l \o CRLF)[k] = l[k]
                      /\ \A k \in 1 .. Len(l) + 2 :
                            k \in 1 .. Len(l) \/ (l \o CRLF)[k] \notin Tracked
  OBVIOUS
<1> DEFINE t == l \o CRLF
           n == Len(l)
<1>1. Joined(l, CRLF) /\ n \in Nat /\ Len(CRLF) = 2
  BY Join, LineBreak, TextIs
<1>2. /\ Text(t) /\ Len(t) = n + 2 /\ \A k \in 1 .. n : t[k] = l[k]
      /\ \A k \in 1 .. 2 : t[n + k] = CRLF[k]
  BY <1>1 DEF Joined
<1> HIDE DEF t, n
<1>3. \A k \in 1 .. n + 2 : k \in 1 .. n \/ k = n + 1 \/ k = n + 2
  BY <1>1
<1>4. t[n + 1] \notin Tracked /\ t[n + 2] \notin Tracked
  <2>1. 1 \in 1 .. 2 /\ 2 \in 1 .. 2
    OBVIOUS
  <2> QED
    BY <1>2, <2>1, BreakPlain
<1>5. \A k \in 1 .. n + 2 : k \in 1 .. n \/ t[k] \notin Tracked
  BY <1>3, <1>4
<1> QED
  BY <1>2, <1>5 DEF t, n

LEMMA PlainLine ==
    \A l : Plain(l) /\ Len(l) # 0 => Lines(l \o CRLF, {}, {})
<1> SUFFICES ASSUME NEW l, Plain(l), Len(l) # 0 PROVE Lines(l \o CRLF, {}, {})
  OBVIOUS
<1> DEFINE t == l \o CRLF
<1>1. /\ Text(t) /\ Len(t) = Len(l) + 2 /\ \A k \in 1 .. Len(l) : t[k] = l[k]
      /\ \A k \in 1 .. Len(l) + 2 : k \in 1 .. Len(l) \/ t[k] \notin Tracked
  BY LineParts DEF Plain
<1>2. Lined(t)
  BY LinedLine DEF Plain
<1> HIDE DEF t
<1>3. \A k \in 1 .. Len(t) : t[k] \notin DOMAIN Tracks
  BY <1>1, TracksAre DEF Plain
<1>4. Marks(t, {}, Tracks)
  BY <1>1, <1>3, MarksNone
<1> QED
  BY <1>2, <1>4 DEF Lines, t

LEMMA HeadedLine ==
    \A l, w : Headed(l, w) /\ w \in Tracked => Lines(l \o CRLF, {w}, {l \o CRLF})
<1> SUFFICES ASSUME NEW l, NEW w \in Tracked, Headed(l, w) PROVE Lines(l \o CRLF, {w}, {l \o CRLF})
  OBVIOUS
<1> DEFINE t == l \o CRLF
<1>0. Text(l) /\ Len(l) # 0 /\ l[1] = w /\ Len(l) \in Nat
  BY TextIs DEF Headed
<1>1. /\ Text(t) /\ Len(t) = Len(l) + 2 /\ \A k \in 1 .. Len(l) : t[k] = l[k]
      /\ \A k \in 1 .. Len(l) + 2 : k \in 1 .. Len(l) \/ t[k] \notin Tracked
  BY <1>0, LineParts
<1>2. w # "CR"
  BY BreakPlain, LineBreak
<1>3. Lined(t)
  <2>1. \A k \in 1 .. Len(l) : l[k] # "CR"
    <3>1. \A k \in 1 .. Len(l) : k = 1 \/ k \in 2 .. Len(l)
      BY <1>0
    <3> QED
      BY <1>0, <1>2, <3>1 DEF Headed
  <2> QED
    BY <1>0, <2>1, LinedLine
<1> HIDE DEF t
<1>4. Len(t) # 0 /\ t[1] = w
  BY <1>0, <1>1
<1>5. ASSUME NEW k \in 2 .. Len(t) PROVE t[k] \notin DOMAIN Tracks
  <2>1. k \in 1 .. Len(l) + 2 /\ (k \in 1 .. Len(l) => k \in 2 .. Len(l))
    BY <1>0, <1>1
  <2> QED
    BY <1>1, <2>1, TracksAre DEF Headed
<1>6. Holds(t, Tracks[w], 1)
  <2>1. Tracks[w] = <<w>>
    BY TracksAre
  <2>2. Holds(t, <<w>>, 1)
    <3>1. 1 \in Nat \ {0} /\ 1 <= Len(t) /\ 1 + 1 <= Len(t) + 1
      BY <1>0, <1>1
    <3> QED
      BY <1>4, <3>1, HoldsWord
  <2> QED
    BY <2>1, <2>2
<1>7. Marks(t, {w}, Tracks)
  BY <1>1, <1>4, <1>5, <1>6, TracksAre, MarksOne, Zenon
<1>8. Has(t, t)
  BY <1>1, HoldsSelf DEF Has
<1> QED
  BY <1>1, <1>3, <1>7, <1>8 DEF Lines, t

\* What is held at one place only is there once.
LEMMA OnceIs ==
    ASSUME NEW x, Text(x), NEW piece, Text(piece), NEW i, Holds(x, piece, i),
           \A j : Holds(x, piece, j) => j = i
    PROVE  Once(x, piece)
<1> DEFINE places == {j \in 1 .. Len(x) - Len(piece) + 1 : At(x, piece, j)}
<1>1. Len(x) \in Nat /\ Len(piece) \in Nat
  BY TextIs
<1>2. \A j \in 1 .. Len(x) - Len(piece) + 1 : Holds(x, piece, j) <=> At(x, piece, j)
  <2> SUFFICES ASSUME NEW j \in 1 .. Len(x) - Len(piece) + 1
               PROVE  Holds(x, piece, j) <=> At(x, piece, j)
    OBVIOUS
  <2>1. j \in Nat \ {0} /\ j + Len(piece) <= Len(x) + 1
    BY <1>1
  <2> QED
    BY <2>1, HoldsIsAt
<1>3. i \in 1 .. Len(x) - Len(piece) + 1
  BY <1>1 DEF Holds
<1>4. places = {i}
  BY <1>2, <1>3
<1>5. Cardinality(places) = 1
  BY <1>4, FS_Singleton
<1> QED
  BY <1>5 DEF Once, At, places

LEMMA PieceOnce ==
    ASSUME NEW t, NEW own, Marks(t, own, Tracks), NEW piece, Text(piece), Has(t, piece),
           Len(piece) # 0, piece[1] \in Tracked
    PROVE  Once(t, piece)
<1>1. PICK i : Holds(t, piece, i)
  BY DEF Has
<1>2. \A j : Holds(t, piece, j) => j \in 1 .. Len(t) /\ t[j] = piece[1]
  <2> SUFFICES ASSUME NEW j, Holds(t, piece, j) PROVE j \in 1 .. Len(t) /\ t[j] = piece[1]
    OBVIOUS
  <2>1. Len(piece) \in Nat /\ Len(t) \in Nat
    BY TextIs DEF Marks
  <2>2. /\ j \in Nat \ {0} /\ j + Len(piece) <= Len(t) + 1 /\ 1 \in 1 .. Len(piece) /\ j + 1 - 1 = j
        /\ \A k \in 1 .. Len(piece) : t[j + k - 1] = piece[k]
    BY <2>1 DEF Holds
  <2>3. t[j + 1 - 1] = piece[1]
    BY <2>2
  <2> QED
    BY <2>1, <2>2, <2>3
<1>3. \A j : Holds(t, piece, j) => j = i
  BY <1>1, <1>2, TracksAre DEF Marks
<1> QED
  BY <1>1, <1>3, OnceIs DEF Marks

LEMMA WordOnce ==
    ASSUME NEW t, NEW own, Marks(t, own, Tracks), NEW w \in own
    PROVE  Once(t, <<w>>)
<1> DEFINE p == <<w>>
<1>1. Text(p) /\ Len(p) = 1 /\ p[1] = w
  BY OneWord
<1>2. PICK i \in 1 .. Len(t) : t[i] = w
  BY DEF Marks
<1>3. w \in Tracked /\ Text(t) /\ Len(t) \in Nat
  BY TracksAre, TextIs DEF Marks
<1>4. Holds(t, p, i)
  BY <1>2, <1>3, HoldsWord
<1> HIDE DEF p
<1>5. Once(t, p)
  BY <1>1, <1>3, <1>4, PieceOnce DEF Has
<1> QED
  BY <1>5 DEF p

\* What stands between a tracked word and what follows it.
LEMMA BetweenIs ==
    ASSUME NEW t, NEW own, Marks(t, own, Tracks), NEW w \in Tracked, NEW inner, Text(inner),
           NEW end, Text(end), Len(end) # 0, \A k \in 1 .. Len(inner) : inner[k] # end[1],
           Has(t, (<<w>> \o inner) \o end)
    PROVE  Between(t, <<w>>, end) = inner
<1> DEFINE p == <<w>>
           a == p \o inner
           piece == a \o end
           n == Len(inner)
<1>1. Text(p) /\ Len(p) = 1 /\ p[1] = w
  BY OneWord
<1>2. PICK i : Holds(t, piece, i)
  BY DEF Has
<1> HIDE DEF p
<1>3. /\ Text(a) /\ Len(a) = 1 + n /\ n \in Nat /\ a[1] = w /\ \A k \in 1 .. n : a[1 + k] = inner[k]
  <2>1. Joined(p, inner) /\ n \in Nat /\ 1 \in 1 .. Len(p)
    BY <1>1, Join, TextIs
  <2> HIDE DEF n
  <2> QED
    BY <1>1, <2>1 DEF Joined, n
<1> HIDE DEF a, n
<1>4. /\ Text(piece) /\ Len(piece) = 1 + n + Len(end) /\ Len(end) \in Nat
      /\ \A k \in 1 .. 1 + n : piece[k] = a[k]
      /\ \A k \in 1 .. Len(end) : piece[1 + n + k] = end[k]
  <2>1. Joined(a, end) /\ Len(end) \in Nat
    BY <1>3, Join, TextIs
  <2> QED
    BY <1>3, <2>1 DEF Joined
<1> HIDE DEF piece
<1>5. /\ i \in Nat \ {0} /\ i + Len(piece) <= Len(t) + 1
      /\ \A k \in 1 .. Len(piece) : t[i + k - 1] = piece[k]
  BY <1>2 DEF Holds
<1>6. t[i] = w /\ \A k \in 1 .. n : t[i + k] = inner[k]
  <2>1. /\ 1 \in 1 .. Len(piece) /\ i + 1 - 1 = i /\ 1 \in 1 .. 1 + n
        /\ \A k \in 1 .. n : 1 + k \in 1 .. Len(piece) /\ i + (1 + k) - 1 = i + k /\ 1 + k \in 1 .. 1 + n
    BY <1>3, <1>4, <1>5
  <2>2. \A k \in 1 .. n : t[i + (1 + k) - 1] = piece[1 + k] /\ piece[1 + k] = a[1 + k]
    BY <1>4, <1>5, <2>1
  <2>3. t[i + 1 - 1] = piece[1] /\ piece[1] = a[1]
    BY <1>4, <1>5, <2>1
  <2> QED
    BY <1>3, <2>1, <2>2, <2>3
<1>7. \A k \in 1 .. Len(end) : t[i + n + k] = end[k]
  <2>1. \A k \in 1 .. Len(end) : 1 + n + k \in 1 .. Len(piece) /\ i + (1 + n + k) - 1 = i + n + k
    BY <1>3, <1>4, <1>5
  <2>2. \A k \in 1 .. Len(end) : t[i + (1 + n + k) - 1] = piece[1 + n + k]
    BY <1>5, <2>1
  <2> QED
    BY <1>4, <2>1, <2>2
<1>8. Text(t) /\ Len(t) \in Nat
  BY TextIs DEF Marks
<1>9. i \in 1 .. Len(t)
  BY <1>3, <1>4, <1>5, <1>8
<1>10. \A j \in 1 .. Len(t) : t[j] = w => j = i
  BY <1>6, <1>9, TracksAre DEF Marks
<1>11. FirstHeld(t, p, 1, i)
  <2>1. Holds(t, p, i)
    BY <1>6, <1>8, <1>9, HoldsWord DEF p
  <2>2. \A j \in 1 .. i - 1 : ~Holds(t, p, j)
    <3> SUFFICES ASSUME NEW j \in 1 .. i - 1, Holds(t, p, j) PROVE FALSE
      OBVIOUS
    <3>1. j \in Nat \ {0} /\ j <= Len(t) /\ t[j] = w
      BY HoldsWord DEF p
    <3> QED
      BY <1>8, <1>9, <1>10, <3>1
  <2> QED
    BY <1>5, <2>1, <2>2 DEF FirstHeld
<1>12. Find(t, p, 1) = i
  BY <1>1, <1>8, <1>11, FindHeld
<1> DEFINE j == i + 1 + n
<1>13. j \in Nat /\ i + 1 \in Nat \ {0} /\ i + 1 <= j
  BY <1>3, <1>5
<1>14. Holds(t, end, j)
  <2>1. j \in Nat \ {0} /\ j + Len(end) <= Len(t) + 1 /\ \A k \in 1 .. Len(end) : j + k - 1 = i + n + k
    BY <1>3, <1>4, <1>5, <1>8
  <2> HIDE DEF j
  <2> QED
    BY <1>7, <2>1 DEF Holds
<1>15. \A k \in i + 1 .. j - 1 : ~Holds(t, end, k)
  <2> SUFFICES ASSUME NEW k \in i + 1 .. j - 1, Holds(t, end, k) PROVE FALSE
    OBVIOUS
  <2>1. k - i \in 1 .. n /\ i + (k - i) = k /\ k + 1 - 1 = k /\ 1 \in 1 .. Len(end)
    BY <1>3, <1>4, <1>5
  <2>2. t[k] = inner[k - i]
    BY <1>6, <2>1
  <2>3. t[k + 1 - 1] = end[1]
    BY <2>1 DEF Holds
  <2> QED
    BY <2>1, <2>2, <2>3 DEF n
<1>16. Find(t, end, i + 1) = j
  <2> HIDE DEF j
  <2>1. FirstHeld(t, end, i + 1, j)
    BY <1>13, <1>14, <1>15 DEF FirstHeld
  <2> QED
    BY <1>8, <1>13, <2>1, FindHeld
<1>17. Holds(t, inner, i + 1)
  <2>1. i + 1 \in Nat \ {0} /\ i + 1 + n <= Len(t) + 1 /\ \A k \in 1 .. n : i + 1 + k - 1 = i + k
    BY <1>3, <1>4, <1>5, <1>8
  <2> QED
    BY <1>6, <2>1 DEF Holds, n
<1>18. SubSeq(t, i + 1, i + 1 + n - 1) = inner
  BY <1>8, <1>17, HeldIs DEF n
<1>19. Between(t, p, end) = SubSeq(t, i + 1, j - 1)
  <2>1. Find(t, p, 1) + Len(p) = i + 1
    BY <1>1, <1>12
  <2> HIDE DEF j
  <2> QED
    BY <1>16, <2>1 DEF Between
<1>20. j - 1 = i + 1 + n - 1
  BY <1>3, <1>5
<1> QED
  BY <1>18, <1>19, <1>20 DEF p

-----------------------------------------------------------------------------
(* Where the head of a reply ends. *)

\* A text of lines, the empty line behind them at n + 1, and a body behind that.
HeadIs(t, n, body) ==
    /\ Text(t) /\ Len(t) = n + 2 + Len(body) /\ n \in Nat /\ Len(body) \in Nat /\ n >= 3
    /\ t[n - 1] = "CR" /\ t[n] = "LF" /\ t[n + 1] = "CR" /\ t[n + 2] = "LF"
    /\ \A k \in 1 .. Len(body) : t[n + 2 + k] = body[k]
    /\ \A k \in 1 .. Len(t) - 2 : t[k] = "CR" /\ t[k + 2] = "CR" => k = n - 1

LEMMA EmptyLineAt ==
    ASSUME NEW x, Lined(x), NEW body, Text(body), body = << >> \/ Lined(body)
    PROVE  HeadIs((x \o CRLF) \o body, Len(x), body)
<1> DEFINE h == x \o CRLF
           t == h \o body
           n == Len(x)
           m == Len(body)
<1>1. /\ Text(x) /\ n \in Nat /\ m \in Nat /\ n >= 3
      /\ x[n - 1] = "CR" /\ x[n] = "LF"
      /\ \A k \in 1 .. n - 2 : x[k] = "CR" => x[k + 2] # "CR"
  BY TextIs DEF Lined
<1>2. /\ Text(h) /\ Len(h) = n + 2 /\ \A k \in 1 .. n : h[k] = x[k]
      /\ h[n + 1] = "CR" /\ h[n + 2] = "LF"
  <2>1. Joined(x, CRLF) /\ Len(CRLF) = 2 /\ CRLF[1] = "CR" /\ CRLF[2] = "LF"
    BY <1>1, Join, LineBreak
  <2>2. /\ Text(h) /\ Len(h) = n + 2 /\ \A k \in 1 .. n : h[k] = x[k]
        /\ \A k \in 1 .. 2 : h[n + k] = CRLF[k]
    BY <2>1 DEF Joined
  <2> HIDE DEF h, n
  <2>3. 1 \in 1 .. 2 /\ 2 \in 1 .. 2
    OBVIOUS
  <2> QED
    BY <2>1, <2>2, <2>3
<1>3. /\ Text(t) /\ Len(t) = n + 2 + m /\ \A k \in 1 .. n + 2 : t[k] = h[k]
      /\ \A k \in 1 .. m : t[n + 2 + k] = body[k]
  <2>1. Joined(h, body)
    BY <1>2, Join
  <2> HIDE DEF h, n, m
  <2> QED
    BY <1>2, <2>1 DEF Joined, m
<1>4. m # 0 => m >= 3 /\ body[1] # "CR" /\ \A k \in 1 .. m - 2 : body[k] = "CR" => body[k + 2] # "CR"
  <2>1. body = << >> => m = 0
    BY NoWord
  <2> QED
    BY <2>1 DEF Lined
<1> HIDE DEF h, t, n, m
<1>5. \A k \in 1 .. n : k \in 1 .. n + 2 /\ t[k] = x[k]
  <2>1. \A k \in 1 .. n : k \in 1 .. n + 2
    BY <1>1
  <2> QED
    BY <1>2, <1>3, <2>1
<1>6. t[n - 1] = "CR" /\ t[n] = "LF" /\ t[n + 1] = "CR" /\ t[n + 2] = "LF"
  <2>1. n - 1 \in 1 .. n /\ n \in 1 .. n /\ n + 1 \in 1 .. n + 2 /\ n + 2 \in 1 .. n + 2
    BY <1>1
  <2> QED
    BY <1>1, <1>2, <1>3, <1>5, <2>1
<1>7. ASSUME NEW k \in 1 .. Len(t) - 2, t[k] = "CR", t[k + 2] = "CR", k # n - 1 PROVE FALSE
  <2>1. CASE k + 2 <= n
    <3>1. k \in 1 .. n - 2 /\ k \in 1 .. n /\ k + 2 \in 1 .. n
      BY <1>1, <2>1
    <3> QED
      BY <1>1, <1>5, <1>7, <3>1
  <2>2. CASE k = n
    BY <1>6, <1>7, <2>2
  <2>3. CASE k = n + 1
    <3>1. k + 2 = n + 2 + 1 /\ m >= 1
      BY <1>1, <1>3, <2>3
    <3>2. t[n + 2 + 1] = body[1]
      BY <1>1, <1>3, <3>1
    <3> QED
      BY <1>1, <1>4, <1>7, <3>1, <3>2
  <2>4. CASE k = n + 2
    BY <1>6, <1>7, <2>4
  <2>5. CASE n + 2 < k
    <3> DEFINE j == k - (n + 2)
    <3>1. j \in 1 .. m - 2 /\ j \in 1 .. m /\ j + 2 \in 1 .. m
          /\ n + 2 + j = k /\ n + 2 + (j + 2) = k + 2 /\ m # 0
      BY <1>1, <1>3, <2>5
    <3> HIDE DEF j
    <3>2. t[n + 2 + j] = body[j] /\ t[n + 2 + (j + 2)] = body[j + 2]
      BY <1>3, <3>1
    <3> QED
      BY <1>4, <1>7, <3>1, <3>2
  <2> QED
    BY <1>1, <1>3, <1>7, <2>1, <2>2, <2>3, <2>4, <2>5
<1> QED
  <2>1. \A k \in 1 .. Len(t) - 2 : t[k] = "CR" /\ t[k + 2] = "CR" => k = n - 1
    BY <1>7
  <2> QED
    BY <1>1, <1>3, <1>6, <2>1 DEF t, h, n, m, HeadIs

LEMMA BreakBreak ==
    LET e == CRLF \o CRLF
    IN  Text(e) /\ Len(e) = 4 /\ e[1] = "CR" /\ e[2] = "LF" /\ e[3] = "CR" /\ e[4] = "LF"
<1> DEFINE e == CRLF \o CRLF
<1>1. Joined(CRLF, CRLF) /\ Len(CRLF) = 2 /\ CRLF[1] = "CR" /\ CRLF[2] = "LF"
  BY Join, LineBreak
<1>2. /\ Text(e) /\ Len(e) = 2 + 2 /\ \A k \in 1 .. 2 : e[k] = CRLF[k]
      /\ \A k \in 1 .. 2 : e[2 + k] = CRLF[k]
  BY <1>1 DEF Joined
<1> HIDE DEF e
<1>3. 1 \in 1 .. 2 /\ 2 \in 1 .. 2
  OBVIOUS
<1> QED
  BY <1>1, <1>2, <1>3 DEF e

\* Where the head of a text ends.
HeadEnds(t, body) ==
    /\ Once(t, CRLF \o CRLF)
    /\ LET head == Find(t, CRLF \o CRLF, 1) + Len(CRLF \o CRLF) - 1
       IN  SubSeq(t, head + 1, Len(t)) = body

LEMMA HeadEndsThere ==
    ASSUME NEW x, Lined(x), NEW body, Text(body), body = << >> \/ Lined(body)
    PROVE  HeadEnds((x \o CRLF) \o body, body)
<1> DEFINE t == (x \o CRLF) \o body
           n == Len(x)
           m == Len(body)
           e == CRLF \o CRLF
<1>0. HeadIs(t, n, body)
  BY EmptyLineAt, Zenon
<1>2. Text(e) /\ Len(e) = 4 /\ e[1] = "CR" /\ e[2] = "LF" /\ e[3] = "CR" /\ e[4] = "LF"
  BY BreakBreak
<1> HIDE DEF t, n, e
<1>1. /\ Text(t) /\ Len(t) = n + 2 + m /\ n \in Nat /\ m \in Nat /\ n >= 3
      /\ t[n - 1] = "CR" /\ t[n] = "LF" /\ t[n + 1] = "CR" /\ t[n + 2] = "LF"
      /\ \A k \in 1 .. m : t[n + 2 + k] = body[k]
      /\ \A k \in 1 .. Len(t) - 2 : t[k] = "CR" /\ t[k + 2] = "CR" => k = n - 1
  BY <1>0 DEF HeadIs
<1> HIDE DEF m
<1>3. Holds(t, e, n - 1)
  <2>1. n - 1 \in Nat \ {0} /\ n - 1 + Len(e) <= Len(t) + 1
    BY <1>1, <1>2
  <2>2. \A k \in 1 .. Len(e) : k = 1 \/ k = 2 \/ k = 3 \/ k = 4
    BY <1>2
  <2>3. /\ n - 1 + 1 - 1 = n - 1 /\ n - 1 + 2 - 1 = n /\ n - 1 + 3 - 1 = n + 1
        /\ n - 1 + 4 - 1 = n + 2
    BY <1>1
  <2>4. \A k \in 1 .. Len(e) : t[n - 1 + k - 1] = e[k]
    BY <1>1, <1>2, <2>2, <2>3
  <2> QED
    BY <2>1, <2>4 DEF Holds
<1>4. ASSUME NEW j, Holds(t, e, j) PROVE j = n - 1
  <2>1. j \in Nat \ {0} /\ j + 4 <= Len(t) + 1 /\ \A k \in 1 .. 4 : t[j + k - 1] = e[k]
    BY <1>2, <1>4 DEF Holds
  <2>2. j \in 1 .. Len(t) - 2 /\ 1 \in 1 .. 4 /\ 3 \in 1 .. 4 /\ j + 1 - 1 = j /\ j + 3 - 1 = j + 2
    BY <1>1, <2>1
  <2>3. t[j] = "CR" /\ t[j + 2] = "CR"
    BY <1>2, <2>1, <2>2
  <2> QED
    BY <1>1, <2>2, <2>3
<1>5. Once(t, e)
  BY <1>1, <1>2, <1>3, <1>4, OnceIs
<1>6. Find(t, e, 1) = n - 1
  <2>1. n - 1 \in Nat /\ 1 <= n - 1 /\ 1 \in Nat \ {0}
    BY <1>1
  <2>2. \A j \in 1 .. n - 1 - 1 : ~Holds(t, e, j)
    BY <1>1, <1>4
  <2>3. FirstHeld(t, e, 1, n - 1)
    BY <1>3, <2>1, <2>2 DEF FirstHeld
  <2> QED
    BY <1>1, <1>2, <2>1, <2>3, FindHeld
<1>7. SubSeq(t, n + 2 + 1, Len(t)) = body
  <2>1. n + 2 \in 0 .. Len(t)
    BY <1>1
  <2> DEFINE q == SubSeq(t, n + 2 + 1, Len(t))
             c == n + 2
  <2>2. /\ Text(q) /\ Len(q) = Len(t) - c
        /\ \A k \in 1 .. Len(t) - c : q[k] = t[c + k]
    BY <1>1, <2>1, Cut
  <2> HIDE DEF q, c
  <2>3. Len(t) - c = m
    BY <1>1 DEF c
  <2>4. Len(q) = m /\ \A k \in 1 .. m : q[k] = body[k]
    BY <1>1, <2>2, <2>3 DEF c
  <2>5. PICK S : q \in Seq(S)
    BY <2>2 DEF Text
  <2>6. PICK T : body \in Seq(T)
    BY DEF Text
  <2>7. q = body
    BY <2>4, <2>5, <2>6 DEF m
  <2> QED
    BY <2>7 DEF q
<1>8. Find(t, e, 1) + Len(e) - 1 = n + 2
  BY <1>1, <1>2, <1>6
<1>9. HeadEnds(t, body)
  BY <1>5, <1>7, <1>8 DEF HeadEnds, e
<1> QED
  BY <1>9 DEF t

-----------------------------------------------------------------------------
(* The other words of a reply. *)

ServerWord == "Server: "
DateWord == "Date: "
NowWord == "now"
BaseWord == "Content-Base: "
SlashWord == "/"
ExpriesWord == "Expries: "
PortsWord == ";server-port=5004-5005"
PlayedWord == "/trackID=1;seq=0;rtptime=0"
OriginWord == "o=NVRStream "
NetWord == "IN IP4 "
MediaWord == "m=video "
ModeWord == ";packetization-mode=1;"
ControlWord == "a=control:streamid=0"
UnicastWord == "RTP/AVP;unicast;"
QuestionWord == "?"
Others == {ServerWord, DateWord, NowWord, BaseWord, SlashWord, ExpriesWord, PortsWord, PlayedWord,
           OriginWord, NetWord, MediaWord, ModeWord, ControlWord, UnicastWord, QuestionWord,
           LowLine, PortWord, "client", "-", "none", "one", "other", "rtsp://", "192.168.1.9", ":8554",
           "0", "1", "2", "3", "4", "5", "6", "7", "8", "9", "a", "b", "c", "d", "e", "f"}

LEMMA OthersAre == \A w \in Others : w \notin Tracked /\ w # "CR"
<1> SUFFICES ASSUME NEW w \in Others PROVE w \notin Tracked /\ w # "CR"
  OBVIOUS
<1>1. /\ w # StatusWord /\ w # CSeqWord /\ w # TransportWord
  BY Zenon DEF Others, StatusWord, CSeqWord, TransportWord, ServerWord, DateWord, NowWord, BaseWord,
     SlashWord, ExpriesWord, PortsWord, PlayedWord, OriginWord, NetWord, MediaWord, ModeWord,
     ControlWord, UnicastWord, QuestionWord, LowLine, PortWord
<1>2. /\ w # SessionWord /\ w # PublicWord /\ w # TypeWord
  BY Zenon DEF Others, SessionWord, PublicWord, TypeWord, ServerWord, DateWord, NowWord, BaseWord,
     SlashWord, ExpriesWord, PortsWord, PlayedWord, OriginWord, NetWord, MediaWord, ModeWord,
     ControlWord, UnicastWord, QuestionWord, LowLine, PortWord
<1>3. /\ w # LengthWord /\ w # InfoWord /\ w # CloseWord
  BY Zenon DEF Others, LengthWord, InfoWord, CloseWord, ServerWord, DateWord, NowWord, BaseWord,
     SlashWord, ExpriesWord, PortsWord, PlayedWord, OriginWord, NetWord, MediaWord, ModeWord,
     ControlWord, UnicastWord, QuestionWord, LowLine, PortWord
<1>4. /\ w # ProfileWord /\ w # SetsWord /\ w # Comma /\ w # "CR"
  BY Zenon DEF Others, ProfileWord, SetsWord, Comma, ServerWord, DateWord, NowWord, BaseWord,
     SlashWord, ExpriesWord, PortsWord, PlayedWord, OriginWord, NetWord, MediaWord, ModeWord,
     ControlWord, UnicastWord, QuestionWord, LowLine, PortWord
<1> HIDE DEF Others
<1> QED
  BY <1>1, <1>2, <1>3, <1>4, Zenon DEF Tracked

Chars == {Alphabet64[i] : i \in 1 .. 64} \union {"="}

LEMMA CharsAre == \A w \in Chars : w \notin Tracked /\ w # "CR"
<1> DEFINE p == {"A", "B", "C", "D", "E", "F", "G", "H", "I", "J", "K", "L", "M", "N", "O", "P", "="}
           q == {"Q", "R", "S", "T", "U", "V", "W", "X", "Y", "Z", "a", "b", "c", "d", "e", "f"}
           r == {"g", "h", "i", "j", "k", "l", "m", "n", "o", "p", "q", "r", "s", "t", "u", "v"}
           s == {"w", "x", "y", "z", "0", "1", "2", "3", "4", "5", "6", "7", "8", "9", "+", "/"}
<1>1. \A w \in p : w \notin Tracked /\ w # "CR"
  BY Zenon DEF Tracked, StatusWord, CSeqWord, TransportWord, SessionWord, PublicWord, TypeWord,
     LengthWord, InfoWord, CloseWord, ProfileWord, SetsWord, Comma
<1>2. \A w \in q : w \notin Tracked /\ w # "CR"
  BY Zenon DEF Tracked, StatusWord, CSeqWord, TransportWord, SessionWord, PublicWord, TypeWord,
     LengthWord, InfoWord, CloseWord, ProfileWord, SetsWord, Comma
<1>3. \A w \in r : w \notin Tracked /\ w # "CR"
  BY Zenon DEF Tracked, StatusWord, CSeqWord, TransportWord, SessionWord, PublicWord, TypeWord,
     LengthWord, InfoWord, CloseWord, ProfileWord, SetsWord, Comma
<1>4. \A w \in s : w \notin Tracked /\ w # "CR"
  BY Zenon DEF Tracked, StatusWord, CSeqWord, TransportWord, SessionWord, PublicWord, TypeWord,
     LengthWord, InfoWord, CloseWord, ProfileWord, SetsWord, Comma
<1>5. ASSUME NEW i \in 1 .. 64 PROVE Alphabet64[i] \in p \union q \union r \union s
  <2>1. CASE i <= 16
    BY <2>1, AlphabetAt
  <2>2. CASE 16 < i /\ i <= 32
    BY <2>2, AlphabetAt
  <2>3. CASE 32 < i /\ i <= 48
    BY <2>3, AlphabetAt
  <2>4. CASE 48 < i
    BY <2>4, AlphabetAt
  <2> QED
    BY <2>1, <2>2, <2>3, <2>4
<1>6. "=" \in p
  OBVIOUS
<1> HIDE DEF p, q, r, s
<1> QED
  BY <1>1, <1>2, <1>3, <1>4, <1>5, <1>6 DEF Chars

\* What is made of such words.
LEMMA PlainOf ==
    ASSUME NEW S, \A w \in S : w \notin Tracked /\ w # "CR", NEW x \in Seq(S)
    PROVE  Plain(x)
<1>1. \A k \in 1 .. Len(x) : x[k] \in S
  BY ElementOfSeq
<1> QED
  BY <1>1 DEF Plain, Text

-----------------------------------------------------------------------------
(* A reply, line by line. *)

LEMMA TrackedDiffer ==
    /\ StatusWord \notin {CSeqWord, TransportWord, SessionWord, PublicWord, TypeWord, LengthWord,
                          InfoWord, CloseWord, ProfileWord, SetsWord, Comma}
    /\ CSeqWord \notin {TransportWord, SessionWord, PublicWord, TypeWord, LengthWord,
                        InfoWord, CloseWord, ProfileWord, SetsWord, Comma}
    /\ SessionWord \notin {TransportWord, InfoWord, CloseWord}
    /\ TypeWord \notin {LengthWord, ProfileWord, SetsWord, Comma}
    /\ LengthWord \notin {ProfileWord, SetsWord, Comma}
    /\ ProfileWord \notin {SetsWord, Comma}
    /\ SetsWord # Comma
BY Zenon DEF StatusWord, CSeqWord, TransportWord, SessionWord, PublicWord, TypeWord,
     LengthWord, InfoWord, CloseWord, ProfileWord, SetsWord, Comma

LEMMA AllTracked ==
    /\ StatusWord \in Tracked /\ CSeqWord \in Tracked /\ TransportWord \in Tracked
    /\ SessionWord \in Tracked /\ PublicWord \in Tracked /\ TypeWord \in Tracked
    /\ LengthWord \in Tracked /\ InfoWord \in Tracked /\ CloseWord \in Tracked
    /\ ProfileWord \in Tracked /\ SetsWord \in Tracked /\ Comma \in Tracked
BY Zenon DEF Tracked

\* The lines of a reply so far.
Opens(x, own, held) == Lines(x, own, held) /\ x[1] = StatusWord

StartsAs(t, x) == t[1] = x[1]

LEMMA FirstStays ==
    \A x, y : Lined(x) /\ Text(y) => StartsAs(x \o y, x)
<1> SUFFICES ASSUME NEW x, NEW y, Lined(x), Text(y) PROVE StartsAs(x \o y, x)
  OBVIOUS
<1>1. Text(x) /\ Len(x) \in Nat /\ 1 \in 1 .. Len(x)
  BY TextIs DEF Lined
<1>2. Joined(x, y)
  BY <1>1, Join
<1> DEFINE t == x \o y
<1>3. t[1] = x[1]
  BY <1>1, <1>2 DEF Joined
<1> HIDE DEF t
<1>4. StartsAs(t, x)
  BY <1>3 DEF StartsAs
<1> QED
  BY <1>4 DEF t

LEMMA OpenJoins ==
    \A x, y, a, b, g, h : Opens(x, a, g) /\ Lines(y, b, h) /\ a \intersect b = {}
                          => Opens(x \o y, a \union b, g \union h)
<1> SUFFICES ASSUME NEW x, NEW y, NEW a, NEW b, NEW g, NEW h, Opens(x, a, g), Lines(y, b, h),
                    a \intersect b = {}
             PROVE  Opens(x \o y, a \union b, g \union h)
  OBVIOUS
<1>1. Lines(x, a, g) /\ x[1] = StatusWord
  BY DEF Opens
<1>2. Lines(x \o y, a \union b, g \union h)
  BY <1>1, LinesJoin, Zenon
<1>3. Lined(x) /\ Text(y)
  BY <1>1 DEF Lines, Lined
<1>4. StartsAs(x \o y, x)
  BY <1>3, FirstStays, Zenon
<1> QED
  <2> DEFINE t == x \o y
  <2>1. Lines(t, a \union b, g \union h) /\ StartsAs(t, x)
    BY <1>2, <1>4
  <2> HIDE DEF t
  <2>2. Opens(t, a \union b, g \union h)
    BY <1>1, <2>1 DEF Opens, StartsAs
  <2> QED
    BY <2>2 DEF t

LEMMA OpenAdds ==
    \A x, l, a, b, g, h : Opens(x, a, g) /\ Text(l) /\ Lines(l \o CRLF, b, h) /\ a \intersect b = {}
                          => Opens((x \o l) \o CRLF, a \union b, g \union h)
<1> SUFFICES ASSUME NEW x, NEW l, NEW a, NEW b, NEW g, NEW h, Opens(x, a, g), Text(l),
                    Lines(l \o CRLF, b, h), a \intersect b = {}
             PROVE  Opens((x \o l) \o CRLF, a \union b, g \union h)
  OBVIOUS
<1>1. Text(x) /\ Text(CRLF)
  BY LineBreak DEF Opens, Lines, Marks
<1>2. Associates(x, l, CRLF)
  BY <1>1, JoinAssoc, Zenon
<1>3. (x \o l) \o CRLF = x \o (l \o CRLF)
  BY <1>2, Zenon DEF Associates
<1>4. Opens(x \o (l \o CRLF), a \union b, g \union h)
  BY OpenJoins, Zenon
<1> QED
  BY <1>3, <1>4

\* A whole reply: its first word, the tracked words in it, each once, pieces it
\* holds, and the body behind its only empty line.
Shaped(t, own, held, body) ==
    /\ t[1] = StatusWord /\ Marks(t, own, Tracks) /\ HeadEnds(t, body)
    /\ \A h \in held : Text(h) /\ Has(t, h)

LEMMA HeadMarks ==
    \A x, a, g : Opens(x, a, g) =>
        /\ Marks(x \o CRLF, a, Tracks) /\ (x \o CRLF)[1] = StatusWord
        /\ \A h \in g : Text(h) /\ Has(x \o CRLF, h)
<1> SUFFICES ASSUME NEW x, NEW a, NEW g, Opens(x, a, g)
             PROVE  /\ Marks(x \o CRLF, a, Tracks) /\ (x \o CRLF)[1] = StatusWord
                    /\ \A h \in g : Text(h) /\ Has(x \o CRLF, h)
  OBVIOUS
<1>1. /\ Marks(x, a, Tracks) /\ Lined(x) /\ x[1] = StatusWord
      /\ \A h \in g : Text(h) /\ Has(x, h)
  BY DEF Opens, Lines
<1>2. Marks(CRLF, {}, Tracks)
  <2>1. \A k \in 1 .. Len(CRLF) : CRLF[k] \notin DOMAIN Tracks
    BY LineBreak, BreakPlain, TracksAre
  <2> QED
    BY <2>1, LineBreak, MarksNone
<1>3. Marks(x \o CRLF, a, Tracks)
  <2>1. a \intersect {} = {} /\ a \union {} = a
    OBVIOUS
  <2>2. Marks(x \o CRLF, a \union {}, Tracks)
    BY <1>1, <1>2, <2>1, TracksAre, MarksJoin, Zenon
  <2> QED
    BY <2>1, <2>2
<1>4. (x \o CRLF)[1] = StatusWord
  BY <1>1, LineBreak, FirstStays DEF StartsAs
<1>5. \A h \in g : Has(x \o CRLF, h)
  <2>1. Text(x) /\ Text(CRLF)
    BY <1>1, LineBreak DEF Lined
  <2> QED
    BY <1>1, <2>1, HasJoin
<1> QED
  BY <1>1, <1>3, <1>4, <1>5

LEMMA HeadOnly ==
    \A x, a, g : Opens(x, a, g) => Shaped(x \o CRLF, a, g, << >>)
<1> SUFFICES ASSUME NEW x, NEW a, NEW g, Opens(x, a, g)
             PROVE  Shaped(x \o CRLF, a, g, << >>)
  OBVIOUS
<1> DEFINE t == x \o CRLF
<1>1. /\ Marks(t, a, Tracks) /\ t[1] = StatusWord
      /\ \A h \in g : Text(h) /\ Has(t, h)
  BY HeadMarks
<1>2. HeadEnds(t \o << >>, << >>)
  <2>1. Lined(x) /\ Text(<< >>)
    BY NoWord DEF Opens, Lines
  <2> QED
    BY <2>1, HeadEndsThere
<1> HIDE DEF t
<1>3. t \o << >> = t
  BY <1>1, EmptyJoin DEF Marks
<1>4. HeadEnds(t, << >>)
  BY <1>2, <1>3
<1>5. Shaped(t, a, g, << >>)
  BY <1>1, <1>4 DEF Shaped
<1> QED
  BY <1>5 DEF t

LEMMA HeadAndBody ==
    \A x, body, a, b, g, h :
        Opens(x, a, g) /\ Lines(body, b, h) /\ a \intersect b = {}
        => Shaped((x \o CRLF) \o body, a \union b, g \union h, body)
<1> SUFFICES ASSUME NEW x, NEW body, NEW a, NEW b, NEW g, NEW h,
                    Opens(x, a, g), Lines(body, b, h), a \intersect b = {}
             PROVE  Shaped((x \o CRLF) \o body, a \union b, g \union h, body)
  OBVIOUS
<1> DEFINE u == x \o CRLF
           t == u \o body
<1>1. /\ Marks(u, a, Tracks) /\ u[1] = StatusWord
      /\ \A p \in g : Text(p) /\ Has(u, p)
  BY HeadMarks
<1>2. /\ Marks(body, b, Tracks) /\ Lined(body) /\ Text(body)
      /\ \A p \in h : Text(p) /\ Has(body, p)
  BY DEF Lines, Lined
<1>3. HeadEnds(t, body)
  <2>1. Lined(x)
    BY DEF Opens, Lines
  <2> QED
    BY <1>2, <2>1, HeadEndsThere
<1>4. Len(u) \in Nat /\ 1 \in 1 .. Len(u)
  <2>1. Joined(x, CRLF) /\ Len(x) \in Nat /\ Len(x) >= 3
    BY LineBreak, Join, TextIs DEF Opens, Lines, Lined
  <2>2. Len(u) = Len(x) + 2
    BY <2>1, LineBreak DEF Joined
  <2> QED
    BY <2>1, <2>2
<1> HIDE DEF u
<1>5. t[1] = StatusWord
  <2>1. Joined(u, body)
    BY <1>1, <1>2, Join DEF Marks
  <2> QED
    BY <1>1, <1>4, <2>1 DEF Joined
<1>6. Marks(t, a \union b, Tracks)
  BY <1>1, <1>2, TracksAre, MarksJoin, Zenon
<1>7. ASSUME NEW p \in g \union h PROVE Text(p) /\ Has(t, p)
  <2>1. Text(p) /\ (Has(u, p) \/ Has(body, p)) /\ Text(u)
    BY <1>1, <1>2 DEF Marks
  <2> QED
    BY <1>2, <2>1, HasJoin
<1> HIDE DEF t
<1>8. Shaped(t, a \union b, g \union h, body)
  BY <1>3, <1>5, <1>6, <1>7 DEF Shaped
<1> QED
  BY <1>8 DEF t, u

LEMMA PlainTwo ==
    \A v, w : v \notin Tracked /\ v # "CR" /\ w \notin Tracked /\ w # "CR" => Plain(<<v, w>>)
<1> SUFFICES ASSUME NEW v, NEW w, v \notin Tracked, v # "CR", w \notin Tracked, w # "CR"
             PROVE  Plain(<<v, w>>)
  OBVIOUS
<1> DEFINE x == <<v, w>>
<1>1. Text(x) /\ Len(x) = 2 /\ x[1] = v /\ x[2] = w
  BY TwoWords
<1> HIDE DEF x
<1>2. \A k \in 1 .. Len(x) : k = 1 \/ k = 2
  BY <1>1
<1>3. Plain(x)
  BY <1>1, <1>2 DEF Plain
<1> QED
  BY <1>3 DEF x

LEMMA HeadedTwo ==
    \A v, w : w \notin Tracked /\ w # "CR" => Headed(<<v, w>>, v)
<1> SUFFICES ASSUME NEW v, NEW w, w \notin Tracked, w # "CR"
             PROVE  Headed(<<v, w>>, v)
  OBVIOUS
<1>1. Headed(<<v>>, v) /\ Plain(<<w>>)
  BY PlainWord
<1>2. Headed(<<v>> \o <<w>>, v)
  BY <1>1, HeadedJoin, Zenon
<1> QED
  BY <1>2, WordThen, Zenon

LEMMA DigitsPlain ==
    \A x \in Seq(DigitWords) : Plain(x)
<1>1. DigitWords \subseteq Others
  <2>1. \A w \in {"0", "1", "2", "3", "4", "5", "6", "7", "8", "9"} : w \in Others
    BY Zenon DEF Others
  <2> QED
    BY <2>1, NotKeywords, Zenon
<1>2. \A w \in DigitWords : w \notin Tracked /\ w # "CR"
  BY <1>1, OthersAre
<1> QED
  BY <1>2, PlainOf

\* The line of a request that goes back.
LEMMA CSeqLine ==
    \A r : WellFormed(r) => Headed(Line("cseq", r), CSeqWord)
<1> SUFFICES ASSUME NEW r, WellFormed(r) PROVE Headed(Line("cseq", r), CSeqWord)
  OBVIOUS
<1>1. Line("cseq", r) = <<CSeqWord>> \o r.seq /\ r.seq \in Seq(DigitWords)
  BY LinesAre, ShapeIs, Zenon
<1>2. Headed(<<CSeqWord>>, CSeqWord) /\ Plain(r.seq)
  BY <1>1, PlainWord, DigitsPlain, Zenon
<1>3. Headed(<<CSeqWord>> \o r.seq, CSeqWord)
  BY <1>2, HeadedJoin, Zenon
<1> QED
  BY <1>1, <1>3, Zenon

LEMMA TransportLine ==
    \A r : WellFormed(r) => Headed(Line("transport", r), TransportWord)
<1> SUFFICES ASSUME NEW r, WellFormed(r) PROVE Headed(Line("transport", r), TransportWord)
  OBVIOUS
<1> DEFINE five == <<TransportWord, UnicastWord, "client", LowLine, PortWord>>
           two == <<TransportWord, UnicastWord>>
           side == <<"client", LowLine>>
           key == <<PortWord>>
           dash == <<"-">>
<1>1. r.port \in Seq(DigitWords) /\ r.rtcp \in Seq(DigitWords)
  BY ShapeIs, Zenon
<1>2. Line("transport", r) = ((five \o r.port) \o dash) \o r.rtcp
  BY LinesAre, Zenon DEF UnicastWord, LowLine
<1>3. /\ UnicastWord \in Others /\ "client" \in Others /\ LowLine \in Others /\ PortWord \in Others
      /\ "-" \in Others
  BY Zenon DEF Others
<1>4. five = (two \o side) \o key
  <2>1. FiveWords(TransportWord, UnicastWord, "client", LowLine, PortWord)
    BY WordsJoined, Zenon
  <2> QED
    BY <2>1, Zenon DEF FiveWords
<1>5. Headed(two, TransportWord) /\ Plain(side) /\ Plain(key) /\ Plain(dash)
  BY <1>3, OthersAre, HeadedTwo, PlainTwo, PlainWord, Zenon
<1>6. Plain(r.port) /\ Plain(r.rtcp)
  BY <1>1, DigitsPlain, Zenon
<1> HIDE DEF five, two, side, key, dash
<1>7. Headed((two \o side) \o key, TransportWord)
  BY <1>5, HeadedJoin, Zenon
<1>8. Headed(((five \o r.port) \o dash) \o r.rtcp, TransportWord)
  BY <1>4, <1>5, <1>6, <1>7, HeadedJoin, Zenon
<1> QED
  BY <1>2, <1>8, Zenon

LEMMA ShapesText ==
    \A x, w : (Headed(x, w) => Text(x)) /\ (Plain(x) => Text(x))
BY DEF Headed, Plain

\* The words behind which the CSeq line stands.
LEMMA Greeting ==
    \A l : Headed(l, CSeqWord) =>
        Opens(((<< >> \o StatusAndServer) \o l) \o CRLF, {StatusWord, CSeqWord}, {l \o CRLF})
<1> SUFFICES ASSUME NEW l, Headed(l, CSeqWord)
             PROVE  Opens(((<< >> \o StatusAndServer) \o l) \o CRLF, {StatusWord, CSeqWord}, {l \o CRLF})
  OBVIOUS
<1> DEFINE status == <<StatusWord>>
           server == <<ServerWord>>
           first == status \o CRLF
           x == (first \o server) \o CRLF
<1>1. StatusAndServer = x
  BY Zenon DEF StatusAndServer, StatusWord, ServerWord
<1>2. Headed(status, StatusWord)
  BY PlainWord, Zenon
<1>3. Plain(server) /\ Len(server) # 0
  <2>1. ServerWord \in Others
    BY Zenon DEF Others
  <2>2. Plain(server)
    BY <2>1, OthersAre, PlainWord, Zenon
  <2>3. Len(server) = 1
    BY OneWord
  <2> QED
    BY <2>2, <2>3
<1>4. first[1] = StatusWord
  <2>1. Joined(status, CRLF) /\ Len(status) = 1 /\ status[1] = StatusWord
    BY OneWord, LineBreak, Join
  <2> HIDE DEF status
  <2> QED
    BY <2>1 DEF Joined
<1> HIDE DEF status, server
<1>5. Lines(first, {StatusWord}, {first})
  BY <1>2, AllTracked, HeadedLine, Zenon
<1>6. Opens(first, {StatusWord}, {first})
  BY <1>4, <1>5 DEF Opens
<1> HIDE DEF first
<1>7. Lines(server \o CRLF, {}, {}) /\ Text(server)
  BY <1>3, PlainLine, ShapesText, Zenon
<1>8. Opens(x, {StatusWord} \union {}, {first} \union {})
  <2>1. {StatusWord} \intersect {} = {}
    OBVIOUS
  <2> QED
    BY <1>6, <1>7, <2>1, OpenAdds, Zenon
<1>9. Lines(l \o CRLF, {CSeqWord}, {l \o CRLF}) /\ Text(l)
  BY AllTracked, HeadedLine, ShapesText, Zenon
<1>10. Opens((x \o l) \o CRLF, ({StatusWord} \union {}) \union {CSeqWord}, ({first} \union {}) \union {l \o CRLF})
  <2>1. ({StatusWord} \union {}) \intersect {CSeqWord} = {}
    BY TrackedDiffer
  <2> QED
    BY <1>8, <1>9, <2>1, OpenAdds, Zenon
<1> DEFINE line == l \o CRLF
           t == (x \o l) \o CRLF
<1>11. << >> \o StatusAndServer = x
  <2>1. Text(x)
    BY <1>8 DEF Opens, Lines, Lined
  <2> QED
    BY <1>1, <2>1, EmptyJoin
<1> HIDE DEF line, t, x
<1>12. Opens(t, ({StatusWord} \union {}) \union {CSeqWord}, ({first} \union {}) \union {line})
  BY <1>10 DEF line, t
<1>13. Opens(t, {StatusWord, CSeqWord}, {line})
  <2>1. ({StatusWord} \union {}) \union {CSeqWord} = {StatusWord, CSeqWord}
    OBVIOUS
  <2>2. Opens(t, {StatusWord, CSeqWord}, ({first} \union {}) \union {line})
    BY <1>12, <2>1
  <2> QED
    BY <2>2 DEF Opens, Lines
<1> QED
  BY <1>11, <1>13, Zenon DEF t, line

-----------------------------------------------------------------------------
(* What the handlers take from elsewhere: addresses and numbers. *)

LEMMA LeastIs ==
    ASSUME NEW T \in SUBSET Nat, T # {}
    PROVE  Min(T) \in T
<1>1. \E x \in T : \A y \in T : x <= y
  BY Least
<1> QED
  BY <1>1 DEF Min

UriPlaces(text) ==
    {i \in 1 .. Len(text) - 2 :
        /\ text[i] = "rtsp://"
        /\ text[i + 1] \in DottedQuads
        /\ text[i + 2] \in PortSuffixes}

LEMMA UriPlain ==
    \A x : Text(x) /\ Uri(x).ok => Plain(Uri(x).words)
<1> SUFFICES ASSUME NEW x, Text(x), Uri(x).ok PROVE Plain(Uri(x).words)
  OBVIOUS
<1> DEFINE hits == UriPlaces(x)
           i == Min(hits)
           q == SubSeq(x, i, i + 2)
<1>1. Uri(x) = IF hits = {} THEN None ELSE Some(q)
  BY Zenon DEF Uri, UriPlaces
<1> HIDE DEF hits, q
<1>2. hits # {} /\ Uri(x).words = q
  BY <1>1 DEF None, Some
<1>3. i \in hits
  <2>1. hits \in SUBSET Nat
    BY DEF hits, UriPlaces
  <2> QED
    BY <1>2, <2>1, LeastIs
<1>4. /\ x[i] \in Others /\ x[i + 1] \in Others /\ x[i + 2] \in Others
      /\ i \in 1 .. Len(x) - 2
  <2>1. /\ i \in 1 .. Len(x) - 2 /\ x[i] = "rtsp://"
        /\ x[i + 1] = "192.168.1.9" /\ x[i + 2] = ":8554"
    BY <1>3 DEF hits, UriPlaces, DottedQuads, PortSuffixes
  <2>2. "rtsp://" \in Others /\ "192.168.1.9" \in Others /\ ":8554" \in Others
    BY Zenon DEF Others
  <2> QED
    BY <2>1, <2>2
<1> HIDE DEF i
<1>5. PICK S : x \in Seq(S)
  BY DEF Text
<1>6. Len(x) \in Nat
  BY <1>5
<1>7. /\ q \in Seq(S) /\ Len(q) = 3
      /\ \A k \in 1 .. 3 : q[k] = x[i + k - 1]
  <2>1. \A k \in i .. i + 2 : x[k] \in S
    BY <1>4, <1>5, <1>6
  <2>2. i \in Int /\ i + 2 \in Int /\ i <= i + 2 /\ i + 2 - i + 1 = 3
    BY <1>4
  <2>3. /\ q \in Seq(S) /\ Len(q) = (IF i <= i + 2 THEN i + 2 - i + 1 ELSE 0)
        /\ \A k \in 1 .. i + 2 - i + 1 : q[k] = x[i + k - 1]
    BY <1>5, <2>1, <2>2, SubSeqProperties DEF q
  <2> QED
    BY <2>2, <2>3
<1>8. \A k \in 1 .. 3 : i + k - 1 = i \/ i + k - 1 = i + 1 \/ i + k - 1 = i + 2
  BY <1>4
<1>9. \A k \in 1 .. Len(q) : q[k] \in Others
  BY <1>4, <1>7, <1>8
<1>10. Plain(q)
  BY <1>7, <1>9, OthersAre DEF Plain, Text
<1> QED
  BY <1>2, <1>10

LEMMA IpPlain ==
    \A x : Text(x) /\ ServerIp(x).ok => Plain(ServerIp(x).words)
<1> SUFFICES ASSUME NEW x, Text(x), ServerIp(x).ok PROVE Plain(ServerIp(x).words)
  OBVIOUS
<1> DEFINE hits == {i \in DOMAIN x : x[i] \in DottedQuads}
           q == <<x[Min(hits)]>>
<1>1. ServerIp(x) = IF hits = {} THEN None ELSE Some(q)
  BY Zenon DEF ServerIp
<1>2. hits \in SUBSET Nat
  BY TextIs
<1> HIDE DEF hits, q
<1>3. hits # {} /\ ServerIp(x).words = q
  BY <1>1 DEF None, Some
<1>4. Min(hits) \in hits
  BY <1>2, <1>3, LeastIs
<1>5. x[Min(hits)] = "192.168.1.9"
  BY <1>4 DEF hits, DottedQuads
<1>6. "192.168.1.9" \in Others
  BY Zenon DEF Others
<1>7. Plain(q)
  BY <1>5, <1>6, OthersAre, PlainWord, Zenon DEF q
<1> QED
  BY <1>3, <1>7

LEMMA DecimalPlain ==
    \A n \in Nat : Plain(Decimal(n))
<1> SUFFICES ASSUME NEW n \in Nat PROVE Plain(Decimal(n))
  OBVIOUS
<1> DEFINE tens == <<1, 10, 100, 1000, 10000, 100000, 1000000, 10000000, 100000000>>
           Enough(k) == (k = 1 \/ n >= tens[k]) /\ (k = 9 \/ n < tens[k + 1])
           places == CHOOSE k \in 1 .. 9 : Enough(k)
           d == [j \in 1 .. places |-> Digits[((n \div tens[places - j + 1]) % 10) + 1]]
<1>1. Decimal(n) = d
  BY SMT DEF Decimal
<1>2. \A k \in 1 .. 9 : tens[k] \in Nat \ {0}
  BY SMT
<1> HIDE DEF tens
<1>3. \E k \in 1 .. 9 : Enough(k)
  <2> SUFFICES ASSUME \A k \in 1 .. 9 : ~Enough(k) PROVE FALSE
    OBVIOUS
  <2>1. \A k \in 1 .. 8 : k + 1 \in 2 .. 9 /\ (k + 1 # 1) /\ (k # 9)
    BY SMT
  <2>2. /\ ~Enough(1) /\ ~Enough(2) /\ ~Enough(3) /\ ~Enough(4) /\ ~Enough(5)
        /\ ~Enough(6) /\ ~Enough(7) /\ ~Enough(8) /\ ~Enough(9)
    BY SMT
  <2> QED
    BY <1>2, <2>2, SMT
<1>4. places \in 1 .. 9
  BY <1>3
<1> HIDE DEF places
<1>5. \A v \in 1 .. 10 : Digits[v] \in DigitWords
  BY DEF DigitWords, Digits
<1>6. ASSUME NEW j \in 1 .. places PROVE d[j] \in DigitWords
  <2>1. places - j + 1 \in 1 .. 9
    BY <1>4
  <2> DEFINE ten == tens[places - j + 1]
  <2>2. ten \in Nat \ {0}
    BY <1>2, <2>1
  <2>3. d[j] = Digits[((n \div ten) % 10) + 1]
    BY <1>4
  <2> HIDE DEF ten, d
  <2>4. n \div ten \in Nat
    BY <2>2
  <2>5. ((n \div ten) % 10) + 1 \in 1 .. 10
    BY <2>4
  <2> QED
    BY <1>5, <2>3, <2>5
<1>7. d \in [1 .. places -> DigitWords]
  BY <1>6
<1> HIDE DEF d
<1>8. d \in Seq(DigitWords)
  BY <1>4, <1>7, FunctionIsText
<1> QED
  BY <1>1, <1>8, DigitsPlain

-----------------------------------------------------------------------------
(* The description. *)

LEMMA EncodedPlain ==
    \A raw \in Seq(0 .. 255) : Plain(Base64Encode(raw)) /\ \A k \in 1 .. Len(Base64Encode(raw)) :
                                                              Base64Encode(raw)[k] # Comma
<1> SUFFICES ASSUME NEW raw \in Seq(0 .. 255)
             PROVE  Plain(Base64Encode(raw)) /\ \A k \in 1 .. Len(Base64Encode(raw)) :
                                                              Base64Encode(raw)[k] # Comma
  OBVIOUS
<1> DEFINE x == Base64Encode(raw)
<1>1. Coded64(x, raw)
  BY EncodedIs
<1> HIDE DEF x
<1>2. x \in Seq(Chars)
  <2>1. PICK S : x \in Seq(S)
    BY <1>1 DEF Coded64
  <2>2. Steps(raw) \in Nat
    BY DEF Steps
  <2>3. ASSUME NEW k \in 1 .. Len(x) PROVE x[k] \in Chars
    <3>1. CASE k <= Steps(raw)
      <4>1. k - 1 \in 0 .. Steps(raw) - 1 /\ k \in 1 .. Steps(raw)
        BY <2>1, <2>2, <3>1
      <4>2. Six(raw, k - 1) + 1 \in 1 .. 64
        <5>1. Six(raw, k - 1) \in 0 .. 63
          BY <4>1, SixFits
        <5> DEFINE v == Six(raw, k - 1)
        <5> HIDE DEF v
        <5>2. v \in 0 .. 63
          BY <5>1 DEF v
        <5>3. v + 1 \in 1 .. 64
          BY <5>2
        <5> QED
          BY <5>3 DEF v
      <4>3. x[k] = Alphabet64[Six(raw, k - 1) + 1]
        BY <1>1, <4>1 DEF Coded64
      <4> QED
        BY <4>2, <4>3, Zenon DEF Chars
    <3>2. CASE Steps(raw) < k
      <4>1. x[k] = "="
        BY <1>1, <2>1, <2>2, <3>2 DEF Coded64
      <4> QED
        BY <4>1, Zenon DEF Chars
    <3> QED
      BY <2>1, <2>2, <3>1, <3>2
  <2> QED
    BY <2>1, <2>3
<1>3. Plain(x)
  BY <1>2, CharsAre, PlainOf
<1>4. \A k \in 1 .. Len(x) : x[k] # Comma
  BY <1>3, AllTracked DEF Plain
<1> QED
  BY <1>3, <1>4 DEF x

\* What stands behind a prefix.
Behind(a, t) == SubSeq(t, Len(a) + 1, Len(t))

LEMMA BehindIs ==
    \A a, x : Text(a) /\ Text(x) => Behind(a, a \o x) = x
<1> SUFFICES ASSUME NEW a, NEW x, Text(a), Text(x) PROVE Behind(a, a \o x) = x
  OBVIOUS
<1> DEFINE t == a \o x
           n == Len(a)
           q == SubSeq(t, n + 1, Len(t))
<1>1. Joined(a, x) /\ Len(a) \in Nat /\ Len(x) \in Nat
  BY Join, TextIs
<1>2. /\ Text(t) /\ Len(t) = n + Len(x) /\ \A k \in 1 .. Len(x) : t[n + k] = x[k]
  BY <1>1 DEF Joined
<1> HIDE DEF t
<1>3. n \in 0 .. Len(t) /\ Len(t) - n = Len(x)
  BY <1>1, <1>2
<1>4. Text(q) /\ Len(q) = Len(x) /\ \A k \in 1 .. Len(x) : q[k] = t[n + k]
  <2> HIDE DEF n
  <2>1. /\ Text(q) /\ Len(q) = Len(t) - n /\ \A k \in 1 .. Len(t) - n : q[k] = t[n + k]
    BY <1>2, <1>3, Cut
  <2> HIDE DEF q
  <2> QED
    BY <1>3, <2>1
<1> HIDE DEF q
<1>5. PICK S : q \in Seq(S)
  BY <1>4 DEF Text
<1>6. PICK T : x \in Seq(T)
  BY DEF Text
<1>7. q = x
  BY <1>2, <1>4, <1>5, <1>6
<1> QED
  BY <1>7 DEF Behind, q, t, n

Hex(b) == <<Alphabet16[b \div 16 + 1], Alphabet16[(b % 16) + 1]>>

LEMMA HexIs ==
    \A b \in 0 .. 255 : /\ Plain(Hex(b)) /\ Len(Hex(b)) = 2
                        /\ Hex(b)[1] = Alphabet16[b \div 16 + 1]
                        /\ Hex(b)[2] = Alphabet16[(b % 16) + 1]
<1> SUFFICES ASSUME NEW b \in 0 .. 255
             PROVE  /\ Plain(Hex(b)) /\ Len(Hex(b)) = 2
                    /\ Hex(b)[1] = Alphabet16[b \div 16 + 1]
                    /\ Hex(b)[2] = Alphabet16[(b % 16) + 1]
  OBVIOUS
<1> DEFINE high == b \div 16 + 1
           low == (b % 16) + 1
           v == Alphabet16[high]
           w == Alphabet16[low]
<1>1. high \in 1 .. 16 /\ low \in 1 .. 16
  OBVIOUS
<1> HIDE DEF high, low
<1>2. \A i \in 1 .. 16 : Alphabet16[i] \in {"0", "1", "2", "3", "4", "5", "6", "7", "8", "9",
                                           "a", "b", "c", "d", "e", "f"}
  <2> DEFINE S == {"0", "1", "2", "3", "4", "5", "6", "7", "8", "9", "a", "b", "c", "d", "e", "f"}
             t == <<"a", "b", "c", "d", "e", "f">>
  <2>1. Digits \in Seq(S) /\ Len(Digits) = 10 /\ t \in Seq(S) /\ Len(t) = 6
    BY DEF Digits
  <2>2. Alphabet16 = Digits \o t
    BY DEF Alphabet16
  <2> HIDE DEF S, t
  <2>3. Alphabet16 \in Seq(S) /\ Len(Alphabet16) = 16
    <3>1. Digits \o t \in Seq(S) /\ Len(Digits \o t) = Len(Digits) + Len(t)
      BY <2>1, ConcatProperties
    <3> QED
      BY <2>1, <2>2, <3>1
  <2>4. \A i \in 1 .. 16 : Alphabet16[i] \in S
    BY <2>3, ElementOfSeq
  <2> QED
    BY <2>4 DEF S
<1>3. {"0", "1", "2", "3", "4", "5", "6", "7", "8", "9", "a", "b", "c", "d", "e", "f"} \subseteq Others
  BY Zenon DEF Others
<1>4. v \in Others /\ w \in Others
  BY <1>1, <1>2, <1>3
<1>5. v \notin Tracked /\ v # "CR" /\ w \notin Tracked /\ w # "CR"
  BY <1>4, OthersAre
<1> HIDE DEF v, w
<1>6. Plain(<<v, w>>)
  BY <1>5, PlainTwo, Zenon
<1>7. Len(<<v, w>>) = 2 /\ <<v, w>>[1] = v /\ <<v, w>>[2] = w
  BY TwoWords
<1> QED
  BY <1>6, <1>7 DEF Hex, v, w, high, low

Follows(f, s, j, i) == f[i] = f[j] \o s[i]

LEMMA JoinsFollow ==
    ASSUME NEW s, NEW k \in Nat, NEW f, Joins(f, s, k), NEW i \in 1 .. k
    PROVE  /\ i = 1 => f[i] = s[i]
           /\ \A j \in Nat \ {0} : i = j + 1 => Follows(f, s, j, i)
<1>1. f[i] = IF i = 1 THEN s[i] ELSE f[i - 1] \o s[i]
  BY JoinsAt
<1>2. ASSUME NEW j \in Nat \ {0}, i = j + 1 PROVE Follows(f, s, j, i)
  <2>1. i # 1 /\ i - 1 = j
    BY <1>2
  <2>2. f[i] = f[i - 1] \o s[i]
    BY <1>1, <2>1
  <2> QED
    BY <2>1, <2>2 DEF Follows
<1> QED
  BY <1>1, <1>2

LEMMA ThreeHex ==
    ASSUME NEW raw \in Seq(0 .. 255), Len(raw) = 3
    PROVE  Base16Encode(raw) = (Hex(raw[1]) \o Hex(raw[2])) \o Hex(raw[3])
<1> DEFINE s == [k \in DOMAIN raw |-> Hex(raw[k])]
<1>1. Base16Encode(raw) = FlattenSeq(s)
  BY Zenon DEF Base16Encode, Hex
<1>2. DOMAIN raw = 1 .. 3
  BY SMT
<1>3. Len(s) = 3 /\ s[1] = Hex(raw[1]) /\ s[2] = Hex(raw[2]) /\ s[3] = Hex(raw[3])
  BY <1>2
<1> HIDE DEF s
<1>4. PICK f : Joins(f, s, Len(s)) /\ FlattenSeq(s) = f[Len(s)]
  <2>1. Len(s) \in Nat /\ Len(s) # 0
    BY <1>3
  <2> QED
    BY <2>1, FlattenIsJoin, Zenon
<1>5. f[1] = s[1] /\ f[2] = f[1] \o s[2] /\ f[3] = f[2] \o s[3]
  <2>1. Joins(f, s, 3)
    BY <1>3, <1>4
  <2>2. 1 \in 1 .. 3 /\ 2 \in 1 .. 3 /\ 3 \in 1 .. 3 /\ 3 \in Nat /\ 2 = 1 + 1 /\ 3 = 2 + 1
        /\ 1 \in Nat \ {0} /\ 2 \in Nat \ {0}
    OBVIOUS
  <2>3. f[1] = s[1]
    BY <2>1, <2>2, JoinsFollow
  <2>4. Follows(f, s, 1, 2)
    BY <2>1, <2>2, JoinsFollow
  <2>5. Follows(f, s, 2, 3)
    BY <2>1, <2>2, JoinsFollow
  <2> QED
    BY <2>3, <2>4, <2>5, Zenon DEF Follows
<1> QED
  BY <1>1, <1>3, <1>4, <1>5, Zenon

NoBreak(x) == Text(x) /\ Len(x) # 0 /\ \A k \in 1 .. Len(x) : x[k] # "CR"

LEMMA NoBreakJoin ==
    \A x, y : NoBreak(x) /\ NoBreak(y) => NoBreak(x \o y)
<1> SUFFICES ASSUME NEW x, NEW y, NoBreak(x), NoBreak(y) PROVE NoBreak(x \o y)
  OBVIOUS
<1> DEFINE t == x \o y
           n == Len(x)
           m == Len(y)
<1>1. /\ Text(t) /\ Len(t) = n + m /\ n \in Nat \ {0} /\ m \in Nat
      /\ \A k \in 1 .. n : t[k] = x[k]
      /\ \A k \in 1 .. m : t[n + k] = y[k]
      /\ \A k \in 1 .. n + m : k \in 1 .. n \/ (k - n \in 1 .. m /\ n + (k - n) = k)
  <2>1. Joined(x, y) /\ n \in Nat \ {0} /\ m \in Nat
    BY Join, TextIs DEF NoBreak
  <2> QED
    BY <2>1 DEF Joined
<1> HIDE DEF t, n, m
<1>2. ASSUME NEW k \in 1 .. Len(t) PROVE t[k] # "CR"
  <2>1. CASE k \in 1 .. n
    BY <1>1, <2>1 DEF NoBreak, n
  <2>2. CASE k \notin 1 .. n
    <3>1. k - n \in 1 .. m /\ n + (k - n) = k
      BY <1>1, <2>2
    <3>2. t[k] = y[k - n]
      BY <1>1, <3>1
    <3> QED
      BY <3>1, <3>2 DEF NoBreak, m
  <2> QED
    BY <2>1, <2>2
<1>3. Len(t) # 0
  BY <1>1
<1> QED
  BY <1>1, <1>2, <1>3 DEF NoBreak, t

LEMMA HeadedMarks ==
    \A x, w : Headed(x, w) /\ w \in Tracked => Marks(x, {w}, Tracks) /\ NoBreak(x)
<1> SUFFICES ASSUME NEW x, NEW w \in Tracked, Headed(x, w)
             PROVE  Marks(x, {w}, Tracks) /\ NoBreak(x)
  OBVIOUS
<1>1. /\ Text(x) /\ Len(x) # 0 /\ x[1] = w /\ Len(x) \in Nat
      /\ \A k \in 2 .. Len(x) : x[k] \notin DOMAIN Tracks /\ x[k] # "CR"
  BY TextIs, TracksAre DEF Headed
<1>2. w # "CR"
  BY BreakPlain, LineBreak
<1>3. \A k \in 1 .. Len(x) : k = 1 \/ k \in 2 .. Len(x)
  BY <1>1
<1>4. NoBreak(x)
  BY <1>1, <1>2, <1>3 DEF NoBreak
<1>5. Holds(x, Tracks[w], 1)
  <2>1. Tracks[w] = <<w>>
    BY TracksAre
  <2>2. 1 \in Nat \ {0} /\ 1 <= Len(x) /\ 1 + 1 <= Len(x) + 1
    BY <1>1
  <2>3. Holds(x, <<w>>, 1)
    BY <1>1, <2>2, HoldsWord
  <2> QED
    BY <2>1, <2>3
<1>6. Marks(x, {w}, Tracks)
  BY <1>1, <1>5, TracksAre, MarksOne, Zenon
<1> QED
  BY <1>4, <1>6

\* The line with the profile and the parameter sets.
SetsLine(hex, sps, pps) ==
    ((((<<ProfileWord>> \o hex) \o <<ModeWord, SetsWord>>) \o sps) \o <<Comma>>) \o pps

SetsPieces(hex, sps, pps) ==
    {(<<ProfileWord>> \o hex) \o <<ModeWord>>, (<<SetsWord>> \o sps) \o <<Comma>>,
     (<<Comma>> \o pps) \o CRLF}

LEMMA SetsLineIs ==
    ASSUME NEW hex, NEW sps, NEW pps, Plain(hex), Plain(sps), Plain(pps)
    PROVE  /\ Text(SetsLine(hex, sps, pps))
           /\ Lines(SetsLine(hex, sps, pps) \o CRLF, {ProfileWord, SetsWord, Comma},
                    SetsPieces(hex, sps, pps))
<1> DEFINE p == <<ProfileWord>>
           m == <<ModeWord>>
           s == <<SetsWord>>
           c == <<Comma>>
           k1 == (p \o hex) \o m
           k2 == s \o sps
           k3 == c \o pps
           line == (k1 \o k2) \o k3
           t == line \o CRLF
<1>1. Text(p) /\ Text(m) /\ Text(s) /\ Text(c) /\ Text(CRLF) /\ Text(hex) /\ Text(sps) /\ Text(pps)
  BY OneWord, LineBreak, ShapesText, Zenon
<1>2. ModeWord \in Others
  BY Zenon DEF Others
<1>3. Plain(m) /\ Headed(p, ProfileWord) /\ Headed(s, SetsWord) /\ Headed(c, Comma)
  BY <1>2, OthersAre, PlainWord, Zenon
<1>4. <<ModeWord, SetsWord>> = m \o s
  BY WordThen, Zenon
<1> HIDE DEF p, m, s, c
<1>5. Headed(k1, ProfileWord) /\ Headed(k2, SetsWord) /\ Headed(k3, Comma)
  BY <1>3, HeadedJoin, Zenon
<1>6. Text(k1) /\ Text(k2) /\ Text(k3)
  BY <1>5, ShapesText, Zenon
<1>7. SetsLine(hex, sps, pps) = line
  <2>1. Text(p \o hex) /\ Text(k1 \o k2)
    BY <1>1, <1>6, JoinText, Zenon
  <2>2. Associates(p \o hex, m, s) /\ Associates(k1, s, sps) /\ Associates(k1 \o k2, c, pps)
    BY <1>1, <1>6, <2>1, JoinAssoc, Zenon
  <2>3. (p \o hex) \o (m \o s) = k1 \o s /\ (k1 \o s) \o sps = k1 \o k2
    BY <2>2, Zenon DEF Associates
  <2>4. ((k1 \o k2) \o c) \o pps = line
    BY <2>2, Zenon DEF Associates
  <2>5. SetsLine(hex, sps, pps) = ((((p \o hex) \o (m \o s)) \o sps) \o c) \o pps
    BY <1>4, Zenon DEF SetsLine, p, c
  <2> QED
    BY <2>3, <2>4, <2>5, Zenon
<1>8. Marks(k1, {ProfileWord}, Tracks) /\ Marks(k2, {SetsWord}, Tracks) /\ Marks(k3, {Comma}, Tracks)
      /\ NoBreak(k1) /\ NoBreak(k2) /\ NoBreak(k3)
  BY <1>5, AllTracked, HeadedMarks, Zenon
<1> DEFINE k12 == k1 \o k2
<1>9. Has(t, k1)
  <2>1. Has(k1, k1)
    BY <1>6, HoldsSelf DEF Has
  <2>2. Text(k12) /\ Text(line)
    BY <1>6, JoinText, Zenon
  <2>3. Has(k12, k1)
    BY <1>6, <2>1, HasJoin, Zenon
  <2>4. Has(line, k1)
    BY <1>6, <2>2, <2>3, HasJoin, Zenon
  <2> QED
    BY <1>1, <1>6, <2>2, <2>4, HasJoin, Zenon
<1>10. Text(k2 \o c) /\ Has(t, k2 \o c)
  <2> DEFINE x == k2 \o c
  <2>1. Text(x) /\ Text(k12) /\ Text(k12 \o c) /\ Text(line)
    BY <1>1, <1>6, JoinText, Zenon
  <2>2. Has(x, x)
    BY <2>1, HoldsSelf DEF Has
  <2>3. line = (k12 \o c) \o pps /\ k12 \o c = k1 \o x
    <3>1. Associates(k12, c, pps) /\ Associates(k1, k2, c)
      BY <1>1, <1>6, <2>1, JoinAssoc, Zenon
    <3> QED
      BY <3>1, Zenon DEF Associates
  <2>4. Has(k1 \o x, x)
    BY <1>6, <2>1, <2>2, HasJoin, Zenon
  <2>5. Has((k12 \o c) \o pps, x)
    BY <1>1, <2>1, <2>3, <2>4, HasJoin, Zenon
  <2>6. Has(line, x)
    BY <2>3, <2>5, Zenon
  <2>7. Has(t, x)
    BY <1>1, <2>1, <2>6, HasJoin, Zenon
  <2> QED
    BY <2>1, <2>7, Zenon
<1>11. Text(k3 \o CRLF) /\ Has(t, k3 \o CRLF)
  <2> DEFINE x == k3 \o CRLF
  <2>1. Text(x) /\ Text(k12)
    BY <1>1, <1>6, JoinText, Zenon
  <2>2. Has(x, x)
    BY <2>1, HoldsSelf DEF Has
  <2>3. t = k12 \o x
    <3>1. Associates(k12, k3, CRLF)
      BY <1>1, <1>6, <2>1, JoinAssoc, Zenon
    <3> QED
      BY <3>1, Zenon DEF Associates
  <2>4. Has(k12 \o x, x)
    BY <2>1, <2>2, HasJoin, Zenon
  <2> QED
    BY <2>1, <2>3, <2>4, Zenon
<1> HIDE DEF k1, k2, k3
<1>12. Lined(t)
  <2>1. NoBreak(k12)
    BY <1>8, NoBreakJoin, Zenon
  <2>2. NoBreak(line)
    BY <1>8, <2>1, NoBreakJoin, Zenon
  <2> HIDE DEF line
  <2> QED
    BY <2>2, LinedLine, Zenon DEF NoBreak
<1>13. Marks(t, (({ProfileWord} \union {SetsWord}) \union {Comma}) \union {}, Tracks)
  <2>1. {ProfileWord} \intersect {SetsWord} = {}
        /\ ({ProfileWord} \union {SetsWord}) \intersect {Comma} = {}
        /\ (({ProfileWord} \union {SetsWord}) \union {Comma}) \intersect {} = {}
    BY TrackedDiffer
  <2>2. Marks(k12, {ProfileWord} \union {SetsWord}, Tracks)
    BY <1>8, <2>1, TracksAre, MarksJoin, Zenon
  <2>3. Marks(line, ({ProfileWord} \union {SetsWord}) \union {Comma}, Tracks)
    BY <1>8, <2>1, <2>2, TracksAre, MarksJoin, Zenon
  <2>4. Marks(CRLF, {}, Tracks)
    <3>1. \A k \in 1 .. Len(CRLF) : CRLF[k] \notin DOMAIN Tracks
      BY LineBreak, BreakPlain, TracksAre
    <3> QED
      BY <3>1, LineBreak, MarksNone
  <2> QED
    BY <2>1, <2>3, <2>4, TracksAre, MarksJoin, Zenon
<1>14. Text(line)
  BY <1>6, JoinText, Zenon
<1> HIDE DEF line, t
<1>15. Marks(t, {ProfileWord, SetsWord, Comma}, Tracks)
  <2>1. (({ProfileWord} \union {SetsWord}) \union {Comma}) \union {} = {ProfileWord, SetsWord, Comma}
    OBVIOUS
  <2> QED
    BY <1>13, <2>1
<1>16. \A h \in SetsPieces(hex, sps, pps) : Text(h) /\ Has(t, h)
  <2>1. SetsPieces(hex, sps, pps) = {k1, k2 \o c, k3 \o CRLF}
    BY Zenon DEF SetsPieces, k1, k2, k3, p, m, s, c
  <2>2. ASSUME NEW h \in {k1, k2 \o c, k3 \o CRLF} PROVE Text(h) /\ Has(t, h)
    BY <1>6, <1>9, <1>10, <1>11, Zenon
  <2> QED
    BY <2>1, <2>2, Zenon
<1>17. Lines(t, {ProfileWord, SetsWord, Comma}, SetsPieces(hex, sps, pps))
  BY <1>12, <1>15, <1>16, Zenon DEF Lines
<1> QED
  BY <1>7, <1>14, <1>17, Zenon DEF t

LEMMA PlainLong ==
    \A x, y : Plain(x) /\ Len(x) # 0 /\ Plain(y) => Plain(x \o y) /\ Len(x \o y) # 0
<1> SUFFICES ASSUME NEW x, NEW y, Plain(x), Len(x) # 0, Plain(y)
             PROVE  Plain(x \o y) /\ Len(x \o y) # 0
  OBVIOUS
<1>1. Plain(x \o y)
  BY PlainJoin, Zenon
<1>2. Joined(x, y) /\ Len(x) \in Nat /\ Len(y) \in Nat
  BY Join, TextIs DEF Plain
<1>3. Len(x \o y) # 0
  <2> DEFINE n == Len(x \o y)
  <2>1. n = Len(x) + Len(y)
    BY <1>2 DEF Joined
  <2> HIDE DEF n
  <2>2. n # 0
    BY <1>2, <2>1
  <2> QED
    BY <2>2 DEF n
<1> QED
  BY <1>1, <1>3

\* The three bytes of the profile and the level.
Level(sps) == (Hex(sps[2]) \o Hex(sps[3])) \o Hex(sps[4])

LEMMA LevelIs ==
    ASSUME NEW sps \in Seq(0 .. 255), Len(sps) >= 4
    PROVE  /\ Base16Encode(SubSeq(sps, 2, 4)) = Level(sps)
           /\ Plain(Level(sps))
<1> DEFINE raw == SubSeq(sps, 2, 4)
<1>1. /\ raw \in Seq(0 .. 255) /\ Len(raw) = 3
      /\ raw[1] = sps[2] /\ raw[2] = sps[3] /\ raw[3] = sps[4]
      /\ sps[2] \in 0 .. 255 /\ sps[3] \in 0 .. 255 /\ sps[4] \in 0 .. 255
  <2>1. \A k \in 2 .. 4 : k \in 1 .. Len(sps) /\ sps[k] \in 0 .. 255
    <3>1. Len(sps) \in Nat
      OBVIOUS
    <3>2. \A k \in 2 .. 4 : k \in 1 .. Len(sps)
      BY <3>1
    <3>3. \A k \in 1 .. Len(sps) : sps[k] \in 0 .. 255
      BY ElementOfSeq
    <3> QED
      BY <3>2, <3>3
  <2>2. /\ raw \in Seq(0 .. 255) /\ Len(raw) = (IF 2 <= 4 THEN 4 - 2 + 1 ELSE 0)
        /\ \A k \in 1 .. 4 - 2 + 1 : raw[k] = sps[2 + k - 1]
    BY <2>1, SubSeqProperties
  <2> HIDE DEF raw
  <2>3. /\ 2 \in 2 .. 4 /\ 3 \in 2 .. 4 /\ 4 \in 2 .. 4 /\ 2 + 1 - 1 = 2 /\ 2 + 2 - 1 = 3 /\ 2 + 3 - 1 = 4
        /\ 4 - 2 + 1 = 3 /\ 1 \in 1 .. 3 /\ 2 \in 1 .. 3 /\ 3 \in 1 .. 3
    OBVIOUS
  <2> QED
    BY <2>1, <2>2, <2>3
<1> HIDE DEF raw
<1>2. Base16Encode(raw) = (Hex(raw[1]) \o Hex(raw[2])) \o Hex(raw[3])
  BY <1>1, ThreeHex
<1>3. Base16Encode(raw) = Level(sps)
  BY <1>1, <1>2, Zenon DEF Level
<1>4. Plain(Hex(sps[2])) /\ Plain(Hex(sps[3])) /\ Plain(Hex(sps[4]))
  BY <1>1, HexIs
<1>5. Plain(Level(sps))
  BY <1>4, PlainJoin, Zenon DEF Level
<1> QED
  BY <1>3, <1>5 DEF raw

OriginWords == <<OriginWord, NowWord, NetWord>>

\* The words of the description.
LEMMA SdpWords ==
    \A ip, sets :
        LET sps == Behind(START_CODE, sets.sps)
            pps == Behind(START_CODE, sets.pps)
            top == ((((OriginWords \o ip) \o CRLF) \o <<MediaWord>>) \o CRLF)
            hex == Base16Encode(SubSeq(sps, 2, 4))
        IN  Sdp(ip, sets) =
                (((((((((top \o <<ProfileWord>>) \o hex) \o <<ModeWord, SetsWord>>)
                \o Base64Encode(sps)) \o <<Comma>>) \o Base64Encode(pps)) \o CRLF)
                \o <<ControlWord>>) \o CRLF)
BY Zenon DEF Sdp, Behind, OriginWords, OriginWord, NowWord, NetWord, MediaWord, ProfileWord, ModeWord,
   SetsWord, Comma, ControlWord

SixJoined(x, a, b, c, d, e, f) ==
    (((((x \o a) \o b) \o c) \o d) \o e) \o f = x \o (((((a \o b) \o c) \o d) \o e) \o f)

LEMMA JoinSix ==
    ASSUME NEW x, NEW a, NEW b, NEW c, NEW d, NEW e, NEW f,
           Text(x), Text(a), Text(b), Text(c), Text(d), Text(e), Text(f)
    PROVE  SixJoined(x, a, b, c, d, e, f)
<1> DEFINE y1 == a \o b
           y2 == y1 \o c
           y3 == y2 \o d
           y4 == y3 \o e
<1>1. Text(y1) /\ Text(y2) /\ Text(y3) /\ Text(y4)
  <2>1. Text(y1)
    BY JoinText, Zenon
  <2>2. Text(y2)
    BY <2>1, JoinText, Zenon
  <2>3. Text(y3)
    BY <2>2, JoinText, Zenon
  <2>4. Text(y4)
    BY <2>3, JoinText, Zenon
  <2> QED
    BY <2>1, <2>2, <2>3, <2>4
<1>2. /\ Associates(x, a, b) /\ Associates(x, y1, c) /\ Associates(x, y2, d)
      /\ Associates(x, y3, e) /\ Associates(x, y4, f)
  BY <1>1, JoinAssoc, Zenon
<1>3. /\ (x \o a) \o b = x \o y1 /\ (x \o y1) \o c = x \o y2 /\ (x \o y2) \o d = x \o y3
      /\ (x \o y3) \o e = x \o y4 /\ (x \o y4) \o f = x \o (y4 \o f)
  BY <1>2, Zenon DEF Associates
<1> QED
  BY <1>3, Zenon DEF SixJoined

LEMMA SdpIs ==
    ASSUME NEW ip, Plain(ip), NEW sps \in Seq(0 .. 255), Len(sps) >= 4, NEW pps \in Seq(0 .. 255)
    PROVE  Lines(Sdp(ip, [sps |-> START_CODE \o sps, pps |-> START_CODE \o pps]),
                 {ProfileWord, SetsWord, Comma},
                 SetsPieces(Level(sps), Base64Encode(sps), Base64Encode(pps)))
<1> DEFINE sets == [sps |-> START_CODE \o sps, pps |-> START_CODE \o pps]
           hex == Level(sps)
           a == Base64Encode(sps)
           b == Base64Encode(pps)
           media == <<MediaWord>>
           control == <<ControlWord>>
           origin == OriginWords \o ip
           top == ((origin \o CRLF) \o media) \o CRLF
           line == SetsLine(hex, a, b)
           own == {ProfileWord, SetsWord, Comma}
           held == SetsPieces(hex, a, b)
<1>1. Behind(START_CODE, sets.sps) = sps /\ Behind(START_CODE, sets.pps) = pps
  <2>1. Text(START_CODE) /\ Text(sps) /\ Text(pps)
    <3>1. START_CODE \in Seq(Nat)
      BY DEF START_CODE
    <3> QED
      BY <3>1 DEF Text
  <2>2. sets.sps = START_CODE \o sps /\ sets.pps = START_CODE \o pps
    BY Zenon
  <2> QED
    BY <2>1, <2>2, BehindIs, Zenon
<1>2. Base16Encode(SubSeq(sps, 2, 4)) = hex /\ Plain(hex)
  BY LevelIs
<1>3. Plain(a) /\ Plain(b)
  BY EncodedPlain, Zenon
<1> HIDE DEF a, b, hex
<1>4. Sdp(ip, sets) =
          ((((((((top \o <<ProfileWord>>) \o hex) \o <<ModeWord, SetsWord>>) \o a) \o <<Comma>>)
          \o b) \o CRLF) \o control) \o CRLF
  BY <1>1, <1>2, SdpWords, Zenon DEF a, b
<1>5. /\ OriginWord \in Others /\ NowWord \in Others /\ NetWord \in Others
      /\ MediaWord \in Others /\ ControlWord \in Others
  BY Zenon DEF Others
<1>6. Plain(OriginWords) /\ Len(OriginWords) # 0
  <2>1. OriginWords \in Seq(Others) /\ Len(OriginWords) = 3
    <3>1. \A u, v, w \in Others : <<u, v, w>> \in Seq(Others) /\ Len(<<u, v, w>>) = 3
      OBVIOUS
    <3> QED
      BY <1>5, <3>1, Zenon DEF OriginWords
  <2> QED
    BY <2>1, OthersAre, PlainOf
<1>7. Plain(media) /\ Plain(control) /\ Len(media) # 0 /\ Len(control) # 0
  <2>1. Plain(media) /\ Plain(control)
    BY <1>5, OthersAre, PlainWord, Zenon
  <2>2. Len(media) = 1 /\ Len(control) = 1
    BY OneWord
  <2> QED
    BY <2>1, <2>2
<1>8. Plain(origin) /\ Len(origin) # 0
  BY <1>6, PlainLong, Zenon
<1> HIDE DEF media, control, origin
<1>9. Lines(origin \o CRLF, {}, {}) /\ Lines(media \o CRLF, {}, {}) /\ Lines(control \o CRLF, {}, {})
  BY <1>7, <1>8, PlainLine, Zenon
<1>10. Lines(top, {} \union {}, {} \union {})
  <2>1. {} \intersect {} = {} /\ Text(media)
    BY <1>7, ShapesText, Zenon
  <2> QED
    BY <1>9, <2>1, AddLine, Zenon
<1>11. Text(line) /\ Lines(line \o CRLF, own, held)
  BY <1>2, <1>3, SetsLineIs
<1>12. (((((top \o <<ProfileWord>>) \o hex) \o <<ModeWord, SetsWord>>) \o a) \o <<Comma>>) \o b
           = top \o line
  <2>1. Text(<<ProfileWord>>) /\ Text(<<ModeWord, SetsWord>>) /\ Text(<<Comma>>)
    BY OneWord, TwoWords, Zenon
  <2>2. Text(top) /\ Text(hex) /\ Text(a) /\ Text(b)
    BY <1>2, <1>3, <1>10, ShapesText, Zenon DEF Lines, Lined
  <2>3. SixJoined(top, <<ProfileWord>>, hex, <<ModeWord, SetsWord>>, a, <<Comma>>, b)
    BY <2>1, <2>2, JoinSix, Zenon
  <2> QED
    BY <2>3, Zenon DEF SixJoined, SetsLine
<1> HIDE DEF line, own, held, top
<1>13. Lines((top \o line) \o CRLF, ({} \union {}) \union own, ({} \union {}) \union held)
  <2>1. ({} \union {}) \intersect own = {}
    OBVIOUS
  <2> QED
    BY <1>10, <1>11, <2>1, AddLine, Zenon
<1>14. Lines((((top \o line) \o CRLF) \o control) \o CRLF,
             (({} \union {}) \union own) \union {}, (({} \union {}) \union held) \union {})
  <2>1. (({} \union {}) \union own) \intersect {} = {} /\ Text(control)
    BY <1>7, ShapesText, Zenon
  <2> QED
    BY <1>9, <1>13, <2>1, AddLine, Zenon
<1>15. (({} \union {}) \union own) \union {} = own /\ (({} \union {}) \union held) \union {} = held
  OBVIOUS
<1>16. Lines((((top \o line) \o CRLF) \o control) \o CRLF, own, held)
  BY <1>14, <1>15, Zenon
<1>17. Sdp(ip, sets) = (((top \o line) \o CRLF) \o control) \o CRLF
  BY <1>4, <1>12, Zenon
<1>18. Lines(Sdp(ip, sets), own, held)
  BY <1>16, <1>17, Zenon
<1> QED
  BY <1>18, Zenon DEF own, held, hex, a, b

-----------------------------------------------------------------------------
(* The texts of the handlers. *)

Start(l) == ((<< >> \o StatusAndServer) \o l) \o CRLF

LEMMA Starts ==
    \A l : Headed(l, CSeqWord) => Opens(Start(l), {StatusWord, CSeqWord}, {l \o CRLF})
BY Greeting, Zenon DEF Start

LEMMA OneHeadedLine ==
    \A w \in Tracked : Text(<<w>>) /\ Lines(<<w>> \o CRLF, {w}, {<<w>> \o CRLF})
<1> SUFFICES ASSUME NEW w \in Tracked PROVE Text(<<w>>) /\ Lines(<<w>> \o CRLF, {w}, {<<w>> \o CRLF})
  OBVIOUS
<1>1. Text(<<w>>)
  BY OneWord
<1>2. Headed(<<w>>, w)
  BY PlainWord, Zenon
<1> QED
  BY <1>1, <1>2, HeadedLine, Zenon

LEMMA DateLine == Lines(Date, {}, {})
<1>1. Date = <<DateWord, NowWord>> \o CRLF
  BY Zenon DEF Date, DateWord, NowWord
<1>2. DateWord \in Others /\ NowWord \in Others
  BY Zenon DEF Others
<1>3. Plain(<<DateWord, NowWord>>)
  BY <1>2, OthersAre, PlainTwo, Zenon
<1>4. Len(<<DateWord, NowWord>>) = 2
  BY TwoWords
<1>5. Len(<<DateWord, NowWord>>) # 0
  BY <1>4
<1> QED
  BY <1>1, <1>3, <1>5, PlainLine, Zenon

LEMMA SessionLine ==
    ASSUME session_id \in Others
    PROVE  Lines(Session, {SessionWord}, {Session}) /\ Session = <<SessionWord, session_id>> \o CRLF
<1>1. Session = <<SessionWord, session_id>> \o CRLF
  BY Zenon DEF Session, SessionWord
<1>2. Headed(<<SessionWord, session_id>>, SessionWord)
  BY OthersAre, HeadedTwo, Zenon
<1>3. Lines(<<SessionWord, session_id>> \o CRLF, {SessionWord}, {<<SessionWord, session_id>> \o CRLF})
  BY <1>2, AllTracked, HeadedLine, Zenon
<1> QED
  BY <1>1, <1>3, Zenon

LEMMA OptionsText ==
    \A recv : Handle_OPTIONS(<< >>, recv).ok =>
        Handle_OPTIONS(<< >>, recv).send =
            ((Start(LineFrom(recv, CSeqWord).words) \o <<PublicWord>>) \o CRLF) \o CRLF
BY OutcomeIs, Zenon DEF Handle_OPTIONS, Start, CSeqWord, PublicWord

LEMMA DescribeText ==
    \A recv, sets : Handle_DESCRIBE(<< >>, recv, sets).ok =>
        /\ Uri(recv).ok /\ ServerIp(recv).ok
        /\ LET sdp == Sdp(ServerIp(recv).words, sets)
           IN  Handle_DESCRIBE(<< >>, recv, sets).send =
                 (((((((((((Start(LineFrom(recv, CSeqWord).words) \o Date)
                 \o <<BaseWord>>) \o Uri(recv).words) \o <<SlashWord>>) \o CRLF)
                 \o <<TypeWord>>) \o CRLF)
                 \o <<LengthWord>>) \o Decimal(Len(sdp))) \o CRLF) \o CRLF)
                 \o sdp
BY OutcomeIs, Zenon DEF Handle_DESCRIBE, Start, CSeqWord, BaseWord, SlashWord, TypeWord, LengthWord

LEMMA SetupText ==
    \A recv, transport : Handle_SETUP(<< >>, recv, transport).ok =>
        Handle_SETUP(<< >>, recv, transport).send =
            (((((((Start(LineFrom(recv, CSeqWord).words) \o Session) \o Date)
            \o <<ExpriesWord, NowWord>>) \o CRLF)
            \o transport) \o <<PortsWord>>) \o CRLF) \o CRLF
BY OutcomeIs, Zenon DEF Handle_SETUP, Start, CSeqWord, ExpriesWord, NowWord, PortsWord

LEMMA PlayText ==
    \A recv : Handle_PLAY(<< >>, recv).ok =>
        /\ Uri(recv).ok
        /\ Handle_PLAY(<< >>, recv).send =
              (((((Start(LineFrom(recv, CSeqWord).words) \o Session)
              \o <<InfoWord>>) \o Uri(recv).words) \o <<PlayedWord>>) \o CRLF) \o CRLF
BY OutcomeIs, Zenon DEF Handle_PLAY, Start, CSeqWord, InfoWord, PlayedWord

LEMMA TeardownText ==
    \A recv : Handle_TEARDOWN(<< >>, recv).ok =>
        Handle_TEARDOWN(<< >>, recv).send =
            (((Start(LineFrom(recv, CSeqWord).words) \o Session)
            \o <<CloseWord>>) \o CRLF) \o CRLF
BY OutcomeIs, Zenon DEF Handle_TEARDOWN, Start, CSeqWord, CloseWord

Greeted == {StatusWord, CSeqWord}

LEMMA OptionsShape ==
    ASSUME NEW recv, NEW l, Headed(l, CSeqWord), LineFrom(recv, CSeqWord).words = l,
           Handle_OPTIONS(<< >>, recv).ok
    PROVE  Shaped(Handle_OPTIONS(<< >>, recv).send, Greeted \union {PublicWord},
                  {l \o CRLF} \union {<<PublicWord>> \o CRLF}, << >>)
<1> DEFINE x == Start(l)
           p == <<PublicWord>>
<1>1. Opens(x, Greeted, {l \o CRLF})
  BY Starts, Zenon DEF Greeted
<1>2. Text(p) /\ Lines(p \o CRLF, {PublicWord}, {p \o CRLF})
  BY AllTracked, OneHeadedLine, Zenon
<1>3. Greeted \intersect {PublicWord} = {}
  BY TrackedDiffer DEF Greeted
<1> HIDE DEF x, p
<1>4. Opens((x \o p) \o CRLF, Greeted \union {PublicWord}, {l \o CRLF} \union {p \o CRLF})
  BY <1>1, <1>2, <1>3, OpenAdds, Zenon
<1>5. Shaped(((x \o p) \o CRLF) \o CRLF, Greeted \union {PublicWord},
             {l \o CRLF} \union {p \o CRLF}, << >>)
  BY <1>4, HeadOnly, Zenon
<1>6. Handle_OPTIONS(<< >>, recv).send = ((x \o p) \o CRLF) \o CRLF
  BY OptionsText, Zenon DEF x, p
<1> QED
  BY <1>5, <1>6, Zenon DEF p

LEMMA TeardownShape ==
    ASSUME NEW recv, NEW l, Headed(l, CSeqWord), LineFrom(recv, CSeqWord).words = l,
           Handle_TEARDOWN(<< >>, recv).ok, session_id \in Others
    PROVE  Shaped(Handle_TEARDOWN(<< >>, recv).send, (Greeted \union {SessionWord}) \union {CloseWord},
                  ({l \o CRLF} \union {Session}) \union {<<CloseWord>> \o CRLF}, << >>)
<1> DEFINE x == Start(l)
           p == <<CloseWord>>
<1>1. Opens(x, Greeted, {l \o CRLF})
  BY Starts, Zenon DEF Greeted
<1>2. Text(p) /\ Lines(p \o CRLF, {CloseWord}, {p \o CRLF})
  BY AllTracked, OneHeadedLine, Zenon
<1>3. Lines(Session, {SessionWord}, {Session})
  BY SessionLine
<1>4. /\ Greeted \intersect {SessionWord} = {}
      /\ (Greeted \union {SessionWord}) \intersect {CloseWord} = {}
  BY TrackedDiffer DEF Greeted
<1> HIDE DEF x, p
<1>5. Opens(x \o Session, Greeted \union {SessionWord}, {l \o CRLF} \union {Session})
  BY <1>1, <1>3, <1>4, OpenJoins, Zenon
<1>6. Opens(((x \o Session) \o p) \o CRLF, (Greeted \union {SessionWord}) \union {CloseWord},
            ({l \o CRLF} \union {Session}) \union {p \o CRLF})
  BY <1>2, <1>4, <1>5, OpenAdds, Zenon
<1>7. Shaped((((x \o Session) \o p) \o CRLF) \o CRLF, (Greeted \union {SessionWord}) \union {CloseWord},
             ({l \o CRLF} \union {Session}) \union {p \o CRLF}, << >>)
  BY <1>6, HeadOnly, Zenon
<1>8. Handle_TEARDOWN(<< >>, recv).send = (((x \o Session) \o p) \o CRLF) \o CRLF
  BY TeardownText, Zenon DEF x, p
<1> QED
  BY <1>7, <1>8, Zenon DEF p

\* A field whose value stands between two words.
LEMMA FieldLine ==
    ASSUME NEW x, Text(x), NEW v, NEW uri, Plain(uri), NEW w \in Others, v \in Tracked \union Others
    PROVE  /\ Regrouped(x, <<v>>, uri, <<w>>)
           /\ Text((<<v>> \o uri) \o <<w>>)
           /\ v \in Tracked => Lines(((<<v>> \o uri) \o <<w>>) \o CRLF, {v}, {((<<v>> \o uri) \o <<w>>) \o CRLF})
           /\ v \in Others => Lines(((<<v>> \o uri) \o <<w>>) \o CRLF, {}, {})
<1> DEFINE a == <<v>>
           c == <<w>>
           line == (a \o uri) \o c
<1>1. Text(a) /\ Text(c) /\ Len(a) = 1
  BY OneWord
<1>2. Plain(c) /\ Headed(a, v) /\ (v \in Others => Plain(a))
  BY OthersAre, PlainWord, Zenon
<1>3. Len(a) # 0
  BY <1>1
<1> HIDE DEF a, c
<1>4. Regrouped(x, a, uri, c)
  BY <1>1, JoinFour, ShapesText, Zenon
<1>5. Headed(line, v)
  BY <1>2, HeadedJoin, Zenon
<1>6. v \in Others => Plain(line) /\ Len(line) # 0
  BY <1>2, <1>3, PlainLong, Zenon
<1>7. Text(line)
  BY <1>5, ShapesText, Zenon
<1> HIDE DEF line
<1>8. v \in Tracked => Lines(line \o CRLF, {v}, {line \o CRLF})
  BY <1>5, HeadedLine, Zenon
<1>9. v \in Others => Lines(line \o CRLF, {}, {})
  BY <1>6, PlainLine, Zenon
<1> QED
  BY <1>4, <1>7, <1>8, <1>9, Zenon DEF line, a, c

LEMMA PlayShape ==
    ASSUME NEW recv, Text(recv), NEW l, Headed(l, CSeqWord), LineFrom(recv, CSeqWord).words = l,
           Handle_PLAY(<< >>, recv).ok, session_id \in Others
    PROVE  \E held : Shaped(Handle_PLAY(<< >>, recv).send, (Greeted \union {SessionWord}) \union {InfoWord},
                            ({l \o CRLF} \union {Session}) \union held, << >>)
<1> DEFINE x == Start(l)
           y == x \o Session
           uri == Uri(recv).words
           line == (<<InfoWord>> \o uri) \o <<PlayedWord>>
<1>1. Opens(x, Greeted, {l \o CRLF})
  BY Starts, Zenon DEF Greeted
<1>2. Lines(Session, {SessionWord}, {Session})
  BY SessionLine
<1>3. /\ Greeted \intersect {SessionWord} = {}
      /\ (Greeted \union {SessionWord}) \intersect {InfoWord} = {}
  BY TrackedDiffer DEF Greeted
<1>4. Plain(uri)
  BY PlayText, UriPlain, Zenon
<1>5. PlayedWord \in Others
  BY Zenon DEF Others
<1>6. Handle_PLAY(<< >>, recv).send =
          ((((y \o <<InfoWord>>) \o uri) \o <<PlayedWord>>) \o CRLF) \o CRLF
  BY PlayText, Zenon
<1> HIDE DEF x, uri
<1>7. Opens(y, Greeted \union {SessionWord}, {l \o CRLF} \union {Session})
  BY <1>1, <1>2, <1>3, OpenJoins, Zenon
<1>8. Text(y)
  BY <1>7 DEF Opens, Lines, Lined
<1> HIDE DEF y
<1>9. Regrouped(y, <<InfoWord>>, uri, <<PlayedWord>>) /\ Text(line) /\ Lines(line \o CRLF, {InfoWord}, {line \o CRLF})
  BY <1>4, <1>5, <1>8, AllTracked, FieldLine, Zenon
<1>10. ((y \o <<InfoWord>>) \o uri) \o <<PlayedWord>> = y \o line
  BY <1>9, Zenon DEF Regrouped
<1> HIDE DEF line
<1>11. Opens((y \o line) \o CRLF, (Greeted \union {SessionWord}) \union {InfoWord},
             ({l \o CRLF} \union {Session}) \union {line \o CRLF})
  BY <1>3, <1>7, <1>9, OpenAdds, Zenon
<1>12. Shaped(((y \o line) \o CRLF) \o CRLF, (Greeted \union {SessionWord}) \union {InfoWord},
              ({l \o CRLF} \union {Session}) \union {line \o CRLF}, << >>)
  BY <1>11, HeadOnly, Zenon
<1>13. Handle_PLAY(<< >>, recv).send = ((y \o line) \o CRLF) \o CRLF
  BY <1>6, <1>10, Zenon
<1> QED
  BY <1>12, <1>13, Zenon

LEMMA SetupShape ==
    ASSUME NEW recv, NEW l, Headed(l, CSeqWord), LineFrom(recv, CSeqWord).words = l,
           NEW transport, Headed(transport, TransportWord),
           Handle_SETUP(<< >>, recv, transport).ok, session_id \in Others
    PROVE  Shaped(Handle_SETUP(<< >>, recv, transport).send,
                  ((Greeted \union {SessionWord}) \union {}) \union {TransportWord},
                  (({l \o CRLF} \union {Session}) \union {}) \union {(transport \o <<PortsWord>>) \o CRLF},
                  << >>)
<1> DEFINE x == Start(l)
           y == x \o Session
           z == y \o Date
           e == <<ExpriesWord, NowWord>>
           w == (z \o e) \o CRLF
           p == <<PortsWord>>
           line == transport \o p
           own2 == (Greeted \union {SessionWord}) \union {}
           held2 == ({l \o CRLF} \union {Session}) \union {}
<1>1. Opens(x, Greeted, {l \o CRLF})
  BY Starts, Zenon DEF Greeted
<1>2. Lines(Session, {SessionWord}, {Session})
  BY SessionLine
<1>3. /\ Greeted \intersect {SessionWord} = {}
      /\ (Greeted \union {SessionWord}) \intersect {} = {}
      /\ own2 = Greeted \union {SessionWord}
      /\ held2 = {l \o CRLF} \union {Session}
      /\ own2 \intersect {TransportWord} = {}
  BY TrackedDiffer DEF Greeted
<1>4. ExpriesWord \in Others /\ NowWord \in Others /\ PortsWord \in Others
  BY Zenon DEF Others
<1>5. Lines(e \o CRLF, {}, {}) /\ Text(e)
  <2>1. Plain(e)
    BY <1>4, OthersAre, PlainTwo, Zenon
  <2>2. Len(e) = 2
    BY TwoWords
  <2>3. Len(e) # 0
    BY <2>2
  <2> QED
    BY <2>1, <2>3, PlainLine, ShapesText, Zenon
<1>6. Headed(line, TransportWord) /\ Text(p)
  <2>1. Plain(p)
    BY <1>4, OthersAre, PlainWord, Zenon
  <2> QED
    BY <2>1, HeadedJoin, ShapesText, Zenon
<1>7. Handle_SETUP(<< >>, recv, transport).send =
          (((w \o transport) \o p) \o CRLF) \o CRLF
  BY SetupText, Zenon
<1> HIDE DEF x, e, p
<1>8. Opens(y, Greeted \union {SessionWord}, {l \o CRLF} \union {Session})
  BY <1>1, <1>2, <1>3, OpenJoins, Zenon
<1>9. Opens(z, own2, held2)
  BY <1>3, <1>8, DateLine, OpenJoins, Zenon
<1> HIDE DEF z
<1>10. Opens(w, own2 \union {}, held2 \union {})
  <2>1. own2 \intersect {} = {}
    OBVIOUS
  <2> HIDE DEF own2, held2
  <2> QED
    BY <1>5, <1>9, <2>1, OpenAdds, Zenon
<1>11. own2 \union {} = own2 /\ held2 \union {} = held2
  OBVIOUS
<1>12. Opens(w, own2, held2)
  BY <1>10, <1>11, Zenon
<1> HIDE DEF w
<1>13. (w \o transport) \o p = w \o line
  <2>1. Text(w) /\ Text(transport)
    BY <1>12, ShapesText DEF Opens, Lines, Lined
  <2>2. Associates(w, transport, p)
    BY <1>6, <2>1, JoinAssoc, Zenon
  <2> QED
    BY <2>2, Zenon DEF Associates
<1>14. Lines(line \o CRLF, {TransportWord}, {line \o CRLF}) /\ Text(line)
  BY <1>6, AllTracked, HeadedLine, ShapesText, Zenon
<1>15. Handle_SETUP(<< >>, recv, transport).send = ((w \o line) \o CRLF) \o CRLF
  BY <1>7, <1>13, Zenon
<1> HIDE DEF line
<1>16. Opens((w \o line) \o CRLF, own2 \union {TransportWord}, held2 \union {line \o CRLF})
  BY <1>3, <1>12, <1>14, OpenAdds, Zenon
<1>17. Shaped(((w \o line) \o CRLF) \o CRLF, own2 \union {TransportWord}, held2 \union {line \o CRLF}, << >>)
  BY <1>16, HeadOnly, Zenon
<1> QED
  BY <1>15, <1>17, Zenon DEF line, p

\* The description of an encoder.
Described(ip, h) == Sdp(ip, [sps |-> START_CODE \o h.sps, pps |-> START_CODE \o h.pps])

HeaderIs(h) ==
    /\ h.sps \in Seq(0 .. 255) /\ h.pps \in Seq(0 .. 255) /\ Len(h.sps) >= 4
    /\ \A k \in 1 .. Len(h.sps) - 3 : SubSeq(h.sps, k, k + 3) # START_CODE

LEMMA HeadersAre == \A h \in Headers : HeaderIs(h) /\ ParameterSets(h) =
                        [sps |-> START_CODE \o h.sps, pps |-> START_CODE \o h.pps]
<1> SUFFICES ASSUME NEW h \in Headers
             PROVE  HeaderIs(h) /\ ParameterSets(h) =
                        [sps |-> START_CODE \o h.sps, pps |-> START_CODE \o h.pps]
  OBVIOUS
<1>1. HeaderIs(h)
  BY HeaderAssumption DEF HeaderIs
<1>2. h.sps \in Seq(Nat) /\ h.pps \in Seq(Nat)
  <2>1. h.sps \in Seq(0 .. 255) /\ h.pps \in Seq(0 .. 255) /\ 0 .. 255 \subseteq Nat
    BY <1>1 DEF HeaderIs
  <2> QED
    BY <2>1, TextIn
<1>3. \A k \in 1 .. Len(h.sps) - 3 : SubSeq(h.sps, k, k + 3) # START_CODE
  BY <1>1 DEF HeaderIs
<1>4. ParameterSets(h) = [sps |-> START_CODE \o h.sps, pps |-> START_CODE \o h.pps]
  BY <1>2, <1>3, SetsAreSplit, Zenon
<1> QED
  BY <1>1, <1>4

DescribeOwn == ((Greeted \union {TypeWord}) \union {LengthWord}) \union {ProfileWord, SetsWord, Comma}

\* The tracked words of a description's reply and the pieces it holds.
DescribeHeld(l, h, body) ==
    (({l \o CRLF} \union {<<TypeWord>> \o CRLF}) \union {(<<LengthWord>> \o Decimal(Len(body))) \o CRLF})
    \union SetsPieces(Level(h.sps), Base64Encode(h.sps), Base64Encode(h.pps))

LEMMA DescribeShape ==
    ASSUME NEW recv, Text(recv), NEW l, Headed(l, CSeqWord), LineFrom(recv, CSeqWord).words = l,
           NEW h \in Headers, Handle_DESCRIBE(<< >>, recv, ParameterSets(h)).ok
    PROVE  \E body : Text(body) /\
              Shaped(Handle_DESCRIBE(<< >>, recv, ParameterSets(h)).send, DescribeOwn,
                     DescribeHeld(l, h, body), body)
<1> DEFINE ip == ServerIp(recv).words
           sdp == Described(ip, h)
           uri == Uri(recv).words
           dec == Decimal(Len(sdp))
           x == Start(l)
           y == x \o Date
           base == (<<BaseWord>> \o uri) \o <<SlashWord>>
           x2 == (y \o base) \o CRLF
           type == <<TypeWord>>
           x3 == (x2 \o type) \o CRLF
           length == <<LengthWord>>
           field == length \o dec
           x4 == (x3 \o field) \o CRLF
           reps == Handle_DESCRIBE(<< >>, recv, ParameterSets(h))
           pieces == SetsPieces(Level(h.sps), Base64Encode(h.sps), Base64Encode(h.pps))
           held3 == {l \o CRLF} \union {type \o CRLF}
<1>1. HeaderIs(h) /\ ParameterSets(h) = [sps |-> START_CODE \o h.sps, pps |-> START_CODE \o h.pps]
  BY HeadersAre, Zenon
<1>2. Uri(recv).ok /\ ServerIp(recv).ok
  BY DescribeText, Zenon
<1>3. Sdp(ip, ParameterSets(h)) = sdp
  BY <1>1, Zenon DEF Described
<1>4. reps.send = (((((((((((y \o <<BaseWord>>) \o uri) \o <<SlashWord>>) \o CRLF)
                 \o type) \o CRLF) \o length) \o dec) \o CRLF) \o CRLF) \o sdp)
  BY <1>3, DescribeText, Zenon
<1>5. Plain(uri) /\ Plain(ip)
  BY <1>2, UriPlain, IpPlain, Zenon
<1>6. Lines(sdp, {ProfileWord, SetsWord, Comma}, pieces)
  <2>1. h.sps \in Seq(0 .. 255) /\ h.pps \in Seq(0 .. 255) /\ Len(h.sps) >= 4
    BY <1>1 DEF HeaderIs
  <2> QED
    BY <1>5, <2>1, SdpIs, Zenon DEF Described
<1> HIDE DEF sdp, uri, ip
<1>7. Plain(dec)
  <2>1. Len(sdp) \in Nat
    BY <1>6, TextIs DEF Lines, Lined
  <2> QED
    BY <2>1, DecimalPlain, Zenon
<1> HIDE DEF dec
<1>8. Headed(field, LengthWord) /\ Text(length)
  <2>1. Headed(length, LengthWord)
    BY PlainWord, Zenon
  <2> QED
    BY <1>7, <2>1, HeadedJoin, ShapesText, Zenon
<1>9. Text(type) /\ Lines(type \o CRLF, {TypeWord}, {type \o CRLF})
  BY AllTracked, OneHeadedLine, Zenon
<1>10. Opens(x, Greeted, {l \o CRLF})
  BY Starts, Zenon DEF Greeted
<1> HIDE DEF x, type, length, reps, pieces
<1>11. Opens(y, Greeted, {l \o CRLF})
  <2>1. Greeted \intersect {} = {} /\ Greeted \union {} = Greeted /\ {l \o CRLF} \union {} = {l \o CRLF}
    OBVIOUS
  <2>2. Opens(y, Greeted \union {}, {l \o CRLF} \union {})
    BY <1>10, <2>1, DateLine, OpenJoins, Zenon
  <2> QED
    BY <2>1, <2>2, Zenon
<1> HIDE DEF y
<1>12. /\ ((y \o <<BaseWord>>) \o uri) \o <<SlashWord>> = y \o base
       /\ Text(base) /\ Lines(base \o CRLF, {}, {})
  <2>1. Text(y)
    BY <1>11 DEF Opens, Lines, Lined
  <2>2. BaseWord \in Others /\ SlashWord \in Others
    BY Zenon DEF Others
  <2>3. Regrouped(y, <<BaseWord>>, uri, <<SlashWord>>) /\ Text(base) /\ Lines(base \o CRLF, {}, {})
    BY <1>5, <2>1, <2>2, FieldLine, Zenon
  <2> QED
    BY <2>3, Zenon DEF Regrouped
<1> HIDE DEF base
<1>13. Opens(x2, Greeted, {l \o CRLF})
  <2>1. Greeted \intersect {} = {} /\ Greeted \union {} = Greeted /\ {l \o CRLF} \union {} = {l \o CRLF}
    OBVIOUS
  <2>2. Opens(x2, Greeted \union {}, {l \o CRLF} \union {})
    BY <1>11, <1>12, <2>1, OpenAdds, Zenon
  <2> QED
    BY <2>1, <2>2, Zenon
<1> HIDE DEF x2
<1>14. /\ Greeted \intersect {TypeWord} = {}
       /\ (Greeted \union {TypeWord}) \intersect {LengthWord} = {}
       /\ ((Greeted \union {TypeWord}) \union {LengthWord}) \intersect {ProfileWord, SetsWord, Comma} = {}
  BY TrackedDiffer DEF Greeted
<1>15. Opens(x3, Greeted \union {TypeWord}, held3)
  BY <1>9, <1>13, <1>14, OpenAdds, Zenon
<1> HIDE DEF x3, held3
<1>16. /\ (x3 \o length) \o dec = x3 \o field
       /\ Text(field) /\ Lines(field \o CRLF, {LengthWord}, {field \o CRLF})
  <2>1. Text(x3) /\ Text(dec)
    BY <1>7, <1>15, ShapesText DEF Opens, Lines, Lined
  <2>2. Associates(x3, length, dec)
    BY <1>8, <2>1, JoinAssoc, Zenon
  <2>3. (x3 \o length) \o dec = x3 \o field
    BY <2>2, Zenon DEF Associates
  <2> QED
    BY <1>8, <2>3, AllTracked, HeadedLine, ShapesText, Zenon
<1> DEFINE own4 == (Greeted \union {TypeWord}) \union {LengthWord}
           held4 == held3 \union {field \o CRLF}
<1>17. Opens(x4, own4, held4)
  BY <1>14, <1>15, <1>16, OpenAdds, Zenon
<1>18. Shaped((x4 \o CRLF) \o sdp, own4 \union {ProfileWord, SetsWord, Comma}, held4 \union pieces, sdp)
  BY <1>6, <1>14, <1>17, HeadAndBody, Zenon
<1>19. reps.send = (x4 \o CRLF) \o sdp
  BY <1>4, <1>12, <1>16, Zenon DEF x2, x3
<1>20. Shaped(reps.send, DescribeOwn, DescribeHeld(l, h, sdp), sdp)
  BY <1>18, <1>19, Zenon DEF DescribeOwn, DescribeHeld, held3, pieces, type, length, dec
<1>21. Text(sdp)
  BY <1>6 DEF Lines, Lined
<1> QED
  BY <1>20, <1>21, Zenon DEF reps

-----------------------------------------------------------------------------
(* A reply and its request. *)

BodyOf(text) ==
    LET head == Find(text, CRLF \o CRLF, 1) + Len(CRLF \o CRLF) - 1
    IN  SubSeq(text, head + 1, Len(text))

\* What ReplyFitsRequest says of a reply.
Fitting(r, text, id) ==
    /\ text[1] = StatusWord /\ Once(text, <<text[1]>>)
    /\ Once(text, <<Mark[r.kind]>>)
    /\ Once(text, <<CSeqWord>>) /\ Once(text, <<CSeqWord>> \o r.seq \o CRLF)
    /\ Once(text, CRLF \o CRLF)
    /\ r.kind \in {"SETUP", "PLAY", "TEARDOWN"} => Once(text, <<SessionWord, id>> \o CRLF)
    /\ IF r.kind = "DESCRIBE"
       THEN Between(text, <<LengthWord>>, CRLF) = Decimal(Len(BodyOf(text)))
       ELSE BodyOf(text) = << >>
    /\ r.kind = "SETUP" /\ Fits(Line("transport", r)) =>
          Once(text, Line("transport", r) \o <<PortsWord>> \o CRLF)

ReplyInv == reply # NoReply => Fitting(reply.to, reply.text, session_id)

LEMMA ReplyInvIs == ReplyInv => ReplyFitsRequest
BY Zenon DEF ReplyInv, ReplyFitsRequest, Fitting, BodyOf, StatusWord, CSeqWord, SessionWord,
   LengthWord, PortsWord

LEMMA MarksOf ==
    /\ Mark["OPTIONS"] = PublicWord /\ Mark["DESCRIBE"] = TypeWord /\ Mark["SETUP"] = TransportWord
    /\ Mark["PLAY"] = InfoWord /\ Mark["TEARDOWN"] = CloseWord
<1>1. Mark = [OPTIONS |-> PublicWord, DESCRIBE |-> TypeWord, SETUP |-> TransportWord,
              PLAY |-> InfoWord, TEARDOWN |-> CloseWord]
  BY Zenon DEF Mark, PublicWord, TypeWord, TransportWord, InfoWord, CloseWord
<1> QED
  BY <1>1

LEMMA HeadedOnce ==
    ASSUME NEW text, NEW own, NEW held, NEW body, Shaped(text, own, held, body),
           NEW l, NEW w \in Tracked, Headed(l, w), l \o CRLF \in held
    PROVE  Once(text, l \o CRLF)
<1> DEFINE p == l \o CRLF
<1>1. Text(p) /\ Len(p) = Len(l) + 2 /\ \A k \in 1 .. Len(l) : p[k] = l[k]
  BY LineParts DEF Headed
<1>2. Len(l) \in Nat /\ 1 \in 1 .. Len(l) /\ l[1] = w
  BY TextIs DEF Headed
<1>3. p \in held
  OBVIOUS
<1> HIDE DEF p
<1>4. Len(p) # 0 /\ p[1] \in Tracked
  BY <1>1, <1>2
<1>5. Marks(text, own, Tracks) /\ Has(text, p)
  BY <1>3 DEF Shaped
<1>6. Once(text, p)
  BY <1>1, <1>4, <1>5, PieceOnce, Zenon
<1> QED
  BY <1>6 DEF p

\* What a reply of that shape still has to have.
LEMMA FittingIs ==
    ASSUME NEW r, NEW text, NEW id \in Others, NEW own, NEW held, NEW body, Shaped(text, own, held, body),
           Line("cseq", r) = <<CSeqWord>> \o r.seq, Headed(Line("cseq", r), CSeqWord),
           StatusWord \in own, CSeqWord \in own, Mark[r.kind] \in own,
           Line("cseq", r) \o CRLF \in held,
           r.kind \in {"SETUP", "PLAY", "TEARDOWN"} => <<SessionWord, id>> \o CRLF \in held,
           r.kind = "DESCRIBE" => Between(text, <<LengthWord>>, CRLF) = Decimal(Len(body)),
           r.kind # "DESCRIBE" => body = << >>,
           r.kind = "SETUP" /\ Fits(Line("transport", r)) =>
               /\ Headed(Line("transport", r), TransportWord)
               /\ (Line("transport", r) \o <<PortsWord>>) \o CRLF \in held
    PROVE  Fitting(r, text, id)
<1>1. text[1] = StatusWord /\ Marks(text, own, Tracks) /\ HeadEnds(text, body)
  BY DEF Shaped
<1>2. Once(text, <<StatusWord>>) /\ Once(text, <<CSeqWord>>) /\ Once(text, <<Mark[r.kind]>>)
  BY <1>1, WordOnce, Zenon
<1>3. Once(text, Line("cseq", r) \o CRLF)
  BY AllTracked, HeadedOnce, Zenon
<1>4. Once(text, CRLF \o CRLF) /\ BodyOf(text) = body
  BY <1>1, Zenon DEF HeadEnds, BodyOf
<1>5. r.kind \in {"SETUP", "PLAY", "TEARDOWN"} => Once(text, <<SessionWord, id>> \o CRLF)
  <2>1. Headed(<<SessionWord, id>>, SessionWord)
    BY OthersAre, HeadedTwo, Zenon
  <2> QED
    BY <2>1, AllTracked, HeadedOnce, Zenon
<1>6. r.kind = "SETUP" /\ Fits(Line("transport", r)) =>
          Once(text, (Line("transport", r) \o <<PortsWord>>) \o CRLF)
  <2> SUFFICES ASSUME r.kind = "SETUP", Fits(Line("transport", r))
               PROVE  Once(text, (Line("transport", r) \o <<PortsWord>>) \o CRLF)
    BY Zenon
  <2>1. PortsWord \in Others
    BY Zenon DEF Others
  <2>2. Plain(<<PortsWord>>)
    BY <2>1, OthersAre, PlainWord, Zenon
  <2>3. Headed(Line("transport", r) \o <<PortsWord>>, TransportWord)
    BY <2>2, HeadedJoin, Zenon
  <2> QED
    BY <2>3, AllTracked, HeadedOnce, Zenon
<1>7. /\ r.kind = "DESCRIBE" => Between(text, <<LengthWord>>, CRLF) = Decimal(Len(BodyOf(text)))
      /\ r.kind # "DESCRIBE" => BodyOf(text) = << >>
  BY <1>4, Zenon
<1>8. Once(text, <<text[1]>>)
  BY <1>1, <1>2, Zenon
<1>9. Once(text, (<<CSeqWord>> \o r.seq) \o CRLF)
  BY <1>3, Zenon
<1> QED
  BY <1>1, <1>2, <1>4, <1>5, <1>6, <1>7, <1>8, <1>9, Zenon DEF Fitting

NamesInv == header \in Headers /\ session_id \in {"none", "one", "other"}

LEMMA IdsAre == {"none", "one", "other"} \subseteq Others
BY Zenon DEF Others

LEMMA RepliedWith ==
    ASSUME NamesInv, NEW kind, NEW handled, Replies(kind, handled)
    PROVE  /\ reply'.to = request /\ reply'.text = handled.send /\ session_id' = session_id
           /\ header' = header
           /\ request \in Requests /\ request.kind = kind /\ handled.ok
           /\ Text(recv_buf) /\ session_id \in Others /\ header \in Headers
           /\ LineFrom(recv_buf, CSeqWord).words = Line("cseq", request)
           /\ Headed(Line("cseq", request), CSeqWord)
           /\ Line("cseq", request) = <<CSeqWord>> \o request.seq
<1>1. /\ WholeRequest(kind) /\ handled.ok
      /\ reply' = [to |-> request, text |-> handled.send]
      /\ header' = header /\ session_id' = session_id
  BY DEF Replies
<1>2. /\ request \in Requests /\ request.kind = kind /\ Text(recv_buf)
      /\ LineIn(recv_buf, CSeqWord, Line("cseq", request))
  BY <1>1 DEF WholeRequest
<1>3. LineFrom(recv_buf, CSeqWord).words = Line("cseq", request)
  BY <1>2, Zenon DEF LineIn
<1>4. Headed(Line("cseq", request), CSeqWord)
  BY <1>2, RequestsAre, CSeqLine
<1>5. Line("cseq", request) = <<CSeqWord>> \o request.seq
  BY LinesAre, Zenon
<1>6. session_id \in Others /\ header \in Headers
  BY IdsAre DEF NamesInv
<1> QED
  BY <1>1, <1>2, <1>3, <1>4, <1>5, <1>6, Zenon

LEMMA OptionsFits ==
    ASSUME NamesInv, Replies("OPTIONS", Handle_OPTIONS(<< >>, recv_buf))
    PROVE  Fitting(reply'.to, reply'.text, session_id')
<1> DEFINE h == Handle_OPTIONS(<< >>, recv_buf)
           l == Line("cseq", request)
           own == Greeted \union {PublicWord}
           held == {l \o CRLF} \union {<<PublicWord>> \o CRLF}
<1>1. /\ reply'.to = request /\ reply'.text = h.send /\ session_id' = session_id
      /\ request.kind = "OPTIONS" /\ h.ok /\ session_id \in Others
      /\ LineFrom(recv_buf, CSeqWord).words = l
      /\ Headed(l, CSeqWord) /\ l = <<CSeqWord>> \o request.seq
  BY RepliedWith, Zenon
<1>2. Shaped(h.send, own, held, << >>)
  BY <1>1, OptionsShape, Zenon
<1>3. StatusWord \in own /\ CSeqWord \in own /\ Mark[request.kind] \in own
  BY <1>1, MarksOf DEF Greeted
<1>4. l \o CRLF \in held /\ request.kind # "DESCRIBE" /\ request.kind # "SETUP"
      /\ request.kind \notin {"SETUP", "PLAY", "TEARDOWN"}
  BY <1>1
<1> HIDE DEF h, own, held
<1>5. Fitting(request, h.send, session_id)
  BY <1>1, <1>2, <1>3, <1>4, FittingIs, Zenon
<1> QED
  BY <1>1, <1>5, Zenon

LEMMA TeardownFits ==
    ASSUME NamesInv, Replies("TEARDOWN", Handle_TEARDOWN(<< >>, recv_buf))
    PROVE  Fitting(reply'.to, reply'.text, session_id')
<1> DEFINE h == Handle_TEARDOWN(<< >>, recv_buf)
           l == Line("cseq", request)
           own == (Greeted \union {SessionWord}) \union {CloseWord}
           held == ({l \o CRLF} \union {Session}) \union {<<CloseWord>> \o CRLF}
<1>1. /\ reply'.to = request /\ reply'.text = h.send /\ session_id' = session_id
      /\ request.kind = "TEARDOWN" /\ h.ok /\ session_id \in Others
      /\ LineFrom(recv_buf, CSeqWord).words = l
      /\ Headed(l, CSeqWord) /\ l = <<CSeqWord>> \o request.seq
  BY RepliedWith, Zenon
<1>2. Shaped(h.send, own, held, << >>)
  BY <1>1, TeardownShape, Zenon
<1>3. StatusWord \in own /\ CSeqWord \in own /\ Mark[request.kind] \in own
  BY <1>1, MarksOf DEF Greeted
<1>4. l \o CRLF \in held /\ Session \in held /\ request.kind # "DESCRIBE" /\ request.kind # "SETUP"
  BY <1>1
<1>5. <<SessionWord, session_id>> \o CRLF \in held
  BY <1>1, <1>4, SessionLine, Zenon
<1> HIDE DEF h, own, held
<1>6. Fitting(request, h.send, session_id)
  BY <1>1, <1>2, <1>3, <1>4, <1>5, FittingIs, Zenon
<1> QED
  BY <1>1, <1>6, Zenon

LEMMA PlayFits ==
    ASSUME NamesInv, Replies("PLAY", Handle_PLAY(<< >>, recv_buf))
    PROVE  Fitting(reply'.to, reply'.text, session_id')
<1> DEFINE h == Handle_PLAY(<< >>, recv_buf)
           l == Line("cseq", request)
           own == (Greeted \union {SessionWord}) \union {InfoWord}
           some == {l \o CRLF} \union {Session}
<1>1. /\ reply'.to = request /\ reply'.text = h.send /\ session_id' = session_id
      /\ request.kind = "PLAY" /\ h.ok /\ session_id \in Others /\ Text(recv_buf)
      /\ LineFrom(recv_buf, CSeqWord).words = l
      /\ Headed(l, CSeqWord) /\ l = <<CSeqWord>> \o request.seq
  BY RepliedWith, Zenon
<1>2. PICK more : Shaped(h.send, own, some \union more, << >>)
  BY <1>1, PlayShape, Zenon
<1> DEFINE held == some \union more
<1>3. StatusWord \in own /\ CSeqWord \in own /\ Mark[request.kind] \in own
  BY <1>1, MarksOf DEF Greeted
<1>4. l \o CRLF \in held /\ Session \in held /\ request.kind # "DESCRIBE" /\ request.kind # "SETUP"
  BY <1>1
<1>5. <<SessionWord, session_id>> \o CRLF \in held
  BY <1>1, <1>4, SessionLine, Zenon
<1> HIDE DEF h, own, some
<1>6. Shaped(h.send, own, held, << >>)
  BY <1>2
<1> HIDE DEF held
<1>7. Fitting(request, h.send, session_id)
  BY <1>1, <1>3, <1>4, <1>5, <1>6, FittingIs, Zenon
<1> QED
  BY <1>1, <1>7, Zenon

LEMMA SetupFits ==
    ASSUME NamesInv, NEW info \in TransportInfos(Line("transport", request)),
           Replies("SETUP", Handle_SETUP(<< >>, recv_buf, info))
    PROVE  Fitting(reply'.to, reply'.text, session_id')
<1> DEFINE h == Handle_SETUP(<< >>, recv_buf, info)
           l == Line("cseq", request)
           t == Line("transport", request)
           own == ((Greeted \union {SessionWord}) \union {}) \union {TransportWord}
           piece == (info \o <<PortsWord>>) \o CRLF
           held == (({l \o CRLF} \union {Session}) \union {}) \union {piece}
<1>1. /\ reply'.to = request /\ reply'.text = h.send /\ session_id' = session_id
      /\ request \in Requests
      /\ request.kind = "SETUP" /\ h.ok /\ session_id \in Others
      /\ LineFrom(recv_buf, CSeqWord).words = l
      /\ Headed(l, CSeqWord) /\ l = <<CSeqWord>> \o request.seq
  BY RepliedWith, Zenon
<1>2. Headed(t, TransportWord)
  BY <1>1, RequestsAre, TransportLine
<1>3. info = t \/ info = t \o <<QuestionWord>>
  BY Zenon DEF TransportInfos, QuestionWord
<1>4. Fits(t) => info = t
  BY Zenon DEF TransportInfos
<1>5. Headed(info, TransportWord)
  <2>1. QuestionWord \in Others
    BY Zenon DEF Others
  <2>2. Plain(<<QuestionWord>>)
    BY <2>1, OthersAre, PlainWord, Zenon
  <2> QED
    BY <1>2, <1>3, <2>2, HeadedJoin, Zenon
<1>6. Shaped(h.send, own, held, << >>)
  BY <1>1, <1>5, SetupShape, Zenon
<1>7. StatusWord \in own /\ CSeqWord \in own /\ Mark[request.kind] \in own
  BY <1>1, MarksOf DEF Greeted
<1>8. l \o CRLF \in held /\ Session \in held /\ piece \in held /\ request.kind # "DESCRIBE"
  <2> HIDE DEF piece
  <2> QED
    BY <1>1
<1>9. <<SessionWord, session_id>> \o CRLF \in held
  BY <1>1, <1>8, SessionLine, Zenon
<1>10. Fits(t) => (t \o <<PortsWord>>) \o CRLF \in held
  BY <1>4, <1>8, Zenon
<1> HIDE DEF h, own, held
<1>11. Fitting(request, h.send, session_id)
  BY <1>1, <1>2, <1>6, <1>7, <1>8, <1>9, <1>10, FittingIs, Zenon
<1> QED
  BY <1>1, <1>11, Zenon

\* What a piece of a text stands between, as BetweenIs wants it.
Framed(t, own, w, inner, end) ==
    /\ Marks(t, own, Tracks) /\ w \in Tracked
    /\ Text(inner) /\ Text(end) /\ Len(end) # 0
    /\ \A k \in 1 .. Len(inner) : inner[k] # end[1]
    /\ Has(t, (<<w>> \o inner) \o end)

LEMMA BetweenFramed ==
    ASSUME NEW t, NEW own, NEW w, NEW inner, NEW end, Framed(t, own, w, inner, end)
    PROVE  Between(t, <<w>>, end) = inner
<1>1. /\ Marks(t, own, Tracks) /\ w \in Tracked
      /\ Text(inner) /\ Text(end) /\ Len(end) # 0
      /\ Has(t, (<<w>> \o inner) \o end)
  BY DEF Framed
<1>2. \A k \in 1 .. Len(inner) : inner[k] # end[1]
  BY DEF Framed
<1> QED
  BY <1>1, <1>2, BetweenIs

LEMMA DescribeFits ==
    ASSUME NamesInv, Replies("DESCRIBE", Handle_DESCRIBE(<< >>, recv_buf, ParameterSets(header)))
    PROVE  Fitting(reply'.to, reply'.text, session_id')
<1> DEFINE h == Handle_DESCRIBE(<< >>, recv_buf, ParameterSets(header))
           l == Line("cseq", request)
           dec(b) == Decimal(Len(b))
<1>1. /\ reply'.to = request /\ reply'.text = h.send /\ session_id' = session_id
      /\ request.kind = "DESCRIBE" /\ h.ok /\ session_id \in Others /\ Text(recv_buf)
      /\ header \in Headers
      /\ LineFrom(recv_buf, CSeqWord).words = l
      /\ Headed(l, CSeqWord) /\ l = <<CSeqWord>> \o request.seq
  BY RepliedWith, Zenon
<1>2. PICK body : Text(body) /\ Shaped(h.send, DescribeOwn, DescribeHeld(l, header, body), body)
  BY <1>1, DescribeShape, Zenon
<1> DEFINE held == DescribeHeld(l, header, body)
<1>3. StatusWord \in DescribeOwn /\ CSeqWord \in DescribeOwn /\ Mark[request.kind] \in DescribeOwn
  BY <1>1, MarksOf DEF Greeted, DescribeOwn
<1>4. l \o CRLF \in held /\ (<<LengthWord>> \o dec(body)) \o CRLF \in held
  BY Zenon DEF DescribeHeld
<1>5. request.kind # "SETUP" /\ request.kind \notin {"SETUP", "PLAY", "TEARDOWN"}
  BY <1>1
<1> HIDE DEF h, held
<1>6. Between(h.send, <<LengthWord>>, CRLF) = dec(body)
  <2>1. Plain(dec(body))
    BY <1>2, TextIs, DecimalPlain, Zenon
  <2>2. \A k \in 1 .. Len(dec(body)) : dec(body)[k] # CRLF[1]
    BY <2>1, LineBreak DEF Plain
  <2>3. Marks(h.send, DescribeOwn, Tracks) /\ Has(h.send, (<<LengthWord>> \o dec(body)) \o CRLF)
    BY <1>2, <1>4, Zenon DEF Shaped, held
  <2>4. Text(dec(body)) /\ Text(CRLF) /\ Len(CRLF) # 0
    BY <2>1, ShapesText, LineBreak
  <2> HIDE DEF dec
  <2>5. Framed(h.send, DescribeOwn, LengthWord, dec(body), CRLF)
    BY <2>2, <2>3, <2>4, AllTracked, Zenon DEF Framed
  <2> QED
    BY <2>5, BetweenFramed, Zenon
<1>7. Fitting(request, h.send, session_id)
  BY <1>1, <1>2, <1>3, <1>4, <1>5, <1>6, FittingIs, Zenon DEF held
<1> QED
  BY <1>1, <1>7, Zenon

-----------------------------------------------------------------------------
(* The last reply fits its request. *)

\* What a step does to the reply, its session and its encoder.
Outcome ==
    \/ reply' = NoReply
    \/ reply' = reply /\ header' = header /\ session_id' = session_id
    \/ Replies("OPTIONS", Handle_OPTIONS(<< >>, recv_buf))
    \/ Replies("DESCRIBE", Handle_DESCRIBE(<< >>, recv_buf, ParameterSets(header)))
    \/ \E info \in TransportInfos(Line("transport", request)) :
          Replies("SETUP", Handle_SETUP(<< >>, recv_buf, info))
    \/ Replies("PLAY", Handle_PLAY(<< >>, recv_buf))
    \/ Replies("TEARDOWN", Handle_TEARDOWN(<< >>, recv_buf))

LEMMA Outcomes == SessionInv /\ [Next]_vars => Outcome
<1> SUFFICES ASSUME SessionInv, [Next]_vars
             PROVE  Outcome
  OBVIOUS
<1>1. CASE Accept \/ ClientSends
  <2>1. reply' = NoReply
    BY <1>1, Zenon DEF Accept, ClientSends
  <2> QED
    BY <2>1, Zenon DEF Outcome
<1>2. CASE Recv
  <2>1. reply' = reply /\ header' = header /\ session_id' = session_id
    BY <1>2, Zenon DEF Recv
  <2> QED
    BY <2>1, Zenon DEF Outcome
<1>3. CASE Options
  BY <1>3, OptionsStep, Zenon DEF Outcome
<1>4. CASE Describe
  BY <1>4, DescribeStep, Zenon DEF Outcome
<1>5. CASE Setup
  BY <1>5, SetupStep, Zenon DEF Outcome
<1>6. CASE Play
  BY <1>6, PlayStep, Zenon DEF Outcome
<1>7. CASE Teardown
  BY <1>7, TeardownStep, Zenon DEF Outcome
<1>8. CASE Refuse
  BY <1>8, RefuseStep, Zenon DEF Outcome
<1>9. CASE UNCHANGED vars
  <2>1. reply' = reply /\ header' = header /\ session_id' = session_id
    BY <1>9 DEF vars
  <2> QED
    BY <2>1, Zenon DEF Outcome
<1> QED
  BY <1>1, <1>2, <1>3, <1>4, <1>5, <1>6, <1>7, <1>8, <1>9, Zenon DEF Next

LEMMA NamesStep == NamesInv /\ [Next]_vars => NamesInv'
<1> SUFFICES ASSUME NamesInv, [Next]_vars
             PROVE  NamesInv'
  OBVIOUS
<1>1. CASE Accept
  <2>1. header' \in Headers /\ session_id' \in {"one", "other"}
    BY <1>1, Zenon DEF Accept
  <2> QED
    BY <2>1, Zenon DEF NamesInv
<1>2. header' = header /\ session_id' = session_id => NamesInv'
  BY Zenon DEF NamesInv
<1>3. CASE ClientSends \/ Recv
  BY <1>2, <1>3, Zenon DEF ClientSends, Recv
<1>4. CASE Options \/ Describe \/ Setup \/ Play
  BY <1>2, <1>4, Zenon DEF Options, Describe, Setup, Play, Served
<1>5. CASE Teardown \/ Refuse
  BY <1>2, <1>5, Zenon DEF Teardown, Refuse, NotServed, SessionEnds
<1>6. CASE UNCHANGED vars
  <2>1. header' = header /\ session_id' = session_id
    BY <1>6 DEF vars
  <2> QED
    BY <1>2, <2>1, Zenon
<1> QED
  BY <1>1, <1>3, <1>4, <1>5, <1>6, Zenon DEF Next

LEMMA ReplyStep == SessionInv /\ NamesInv /\ ReplyInv /\ [Next]_vars => ReplyInv'
<1> SUFFICES ASSUME SessionInv, NamesInv, ReplyInv, [Next]_vars
             PROVE  ReplyInv'
  OBVIOUS
<1>1. Outcome
  BY Outcomes, Zenon
<1>2. CASE reply' = NoReply
  BY <1>2, Zenon DEF ReplyInv, NoReply, NoRequest
<1>3. CASE reply' = reply /\ header' = header /\ session_id' = session_id
  BY <1>3, Zenon DEF ReplyInv
<1>4. Fitting(reply'.to, reply'.text, session_id') => ReplyInv'
  BY Zenon DEF ReplyInv
<1> QED
  BY <1>1, <1>2, <1>3, <1>4, OptionsFits, DescribeFits, SetupFits, PlayFits, TeardownFits, Zenon
     DEF Outcome

\* A reply is one reply and it answers the request the client waits with:
\* what rtsp.c's handlers write into the cleared send_buf, from a recv_buf
\* that TCP may have cut anywhere, has that request's CSeq, this session and a
\* head that ends in the only empty line, before as much as Content-Length says.
THEOREM RepliesFitRequests == Spec => []ReplyFitsRequest
<1>1. Init => NamesInv /\ ReplyInv
  BY Zenon DEF Init, NamesInv, ReplyInv
<1>2. SessionInv /\ (NamesInv /\ ReplyInv) /\ [Next]_vars => (NamesInv /\ ReplyInv)'
  BY NamesStep, ReplyStep
<1>3. NamesInv /\ ReplyInv => ReplyFitsRequest
  BY ReplyInvIs
<1> QED
  BY <1>1, <1>2, <1>3, SessionInvariant, PTL DEF Spec

-----------------------------------------------------------------------------
(* The parameter sets of the last description. *)

HexSigns == {"0", "1", "2", "3", "4", "5", "6", "7", "8", "9", "a", "b", "c", "d", "e", "f"}

LEMMA HexSignsAre == ModeWord \notin HexSigns /\ \A i \in 1 .. 16 : Alphabet16[i] \in HexSigns
<1>1. ModeWord \notin HexSigns
  BY Zenon DEF ModeWord, HexSigns
<1> DEFINE t == <<"a", "b", "c", "d", "e", "f">>
<1>2. Digits \in Seq(HexSigns) /\ Len(Digits) = 10 /\ t \in Seq(HexSigns) /\ Len(t) = 6
  BY DEF Digits, HexSigns
<1>3. Alphabet16 = Digits \o t
  BY DEF Alphabet16
<1> HIDE DEF t
<1>4. Alphabet16 \in Seq(HexSigns) /\ Len(Alphabet16) = 16
  <2>1. Digits \o t \in Seq(HexSigns) /\ Len(Digits \o t) = Len(Digits) + Len(t)
    BY <1>2, ConcatProperties
  <2> QED
    BY <1>2, <1>3, <2>1
<1>5. \A i \in 1 .. 16 : Alphabet16[i] \in HexSigns
  BY <1>4, ElementOfSeq
<1> QED
  BY <1>1, <1>5

\* The six characters of the profile and the level.
SixWords(t, x, y, z) ==
    /\ Text(t) /\ Len(t) = 6
    /\ t[1] = x[1] /\ t[2] = x[2] /\ t[3] = y[1] /\ t[4] = y[2] /\ t[5] = z[1] /\ t[6] = z[2]

LEMMA SixJoin ==
    ASSUME NEW x, NEW y, NEW z, Text(x), Text(y), Text(z), Len(x) = 2, Len(y) = 2, Len(z) = 2
    PROVE  SixWords((x \o y) \o z, x, y, z)
<1> DEFINE u == x \o y
           t == u \o z
<1>1. Joined(x, y)
  BY Join
<1>2. Text(u) /\ Len(u) = 4 /\ u[1] = x[1] /\ u[2] = x[2] /\ u[3] = y[1] /\ u[4] = y[2]
  <2>1. /\ Text(u) /\ Len(u) = 2 + 2 /\ \A k \in 1 .. 2 : u[k] = x[k]
        /\ \A k \in 1 .. 2 : u[2 + k] = y[k]
    BY <1>1 DEF Joined
  <2> HIDE DEF u
  <2> QED
    BY <2>1
<1> HIDE DEF u
<1>3. Joined(u, z)
  BY <1>2, Join
<1>4. /\ Text(t) /\ Len(t) = 6
      /\ t[1] = u[1] /\ t[2] = u[2] /\ t[3] = u[3] /\ t[4] = u[4] /\ t[5] = z[1] /\ t[6] = z[2]
  <2>1. /\ Text(t) /\ Len(t) = 4 + 2 /\ \A k \in 1 .. 4 : t[k] = u[k]
        /\ \A k \in 1 .. 2 : t[4 + k] = z[k]
    BY <1>2, <1>3 DEF Joined
  <2> HIDE DEF t
  <2> QED
    BY <2>1
<1> HIDE DEF t
<1>5. /\ Text(t) /\ Len(t) = 6
      /\ t[1] = x[1] /\ t[2] = x[2] /\ t[3] = y[1] /\ t[4] = y[2] /\ t[5] = z[1] /\ t[6] = z[2]
  BY <1>2, <1>4
<1> QED
  BY <1>5, Zenon DEF SixWords, t, u

LevelWords(level, sps) ==
    /\ Len(level) = 6
    /\ \A k \in 1 .. 3 : level[2 * k - 1] = Alphabet16[sps[k + 1] \div 16 + 1]
                      /\ level[2 * k] = Alphabet16[(sps[k + 1] % 16) + 1]

LEMMA LevelSays ==
    ASSUME NEW sps \in Seq(0 .. 255), Len(sps) >= 4
    PROVE  /\ LevelWords(Level(sps), sps)
           /\ \A k \in 1 .. Len(Level(sps)) : Level(sps)[k] # ModeWord
<1> DEFINE t == Level(sps)
           x == Hex(sps[2])
           y == Hex(sps[3])
           z == Hex(sps[4])
<1>1. sps[2] \in 0 .. 255 /\ sps[3] \in 0 .. 255 /\ sps[4] \in 0 .. 255
  <2>1. Len(sps) \in Nat
    OBVIOUS
  <2>2. 2 \in 1 .. Len(sps) /\ 3 \in 1 .. Len(sps) /\ 4 \in 1 .. Len(sps)
    BY <2>1
  <2> QED
    BY <2>2, ElementOfSeq
<1>2. /\ Plain(x) /\ Len(x) = 2 /\ x[1] = Alphabet16[sps[2] \div 16 + 1] /\ x[2] = Alphabet16[(sps[2] % 16) + 1]
      /\ Plain(y) /\ Len(y) = 2 /\ y[1] = Alphabet16[sps[3] \div 16 + 1] /\ y[2] = Alphabet16[(sps[3] % 16) + 1]
      /\ Plain(z) /\ Len(z) = 2 /\ z[1] = Alphabet16[sps[4] \div 16 + 1] /\ z[2] = Alphabet16[(sps[4] % 16) + 1]
  BY <1>1, HexIs
<1> HIDE DEF x, y, z
<1>3. /\ Len(t) = 6
      /\ t[1] = x[1] /\ t[2] = x[2] /\ t[3] = y[1] /\ t[4] = y[2] /\ t[5] = z[1] /\ t[6] = z[2]
  <2>1. Text(x) /\ Text(y) /\ Text(z)
    BY <1>2, ShapesText
  <2> QED
    <3>1. SixWords((x \o y) \o z, x, y, z)
      BY <1>2, <2>1, SixJoin
    <3>2. t = (x \o y) \o z
      BY Zenon DEF Level, t, x, y, z
    <3> HIDE DEF t
    <3>3. SixWords(t, x, y, z)
      BY <3>1, <3>2, Zenon
    <3> QED
      BY <3>3, Zenon DEF SixWords
<1> HIDE DEF t
<1>4. LevelWords(t, sps)
  <2>1. ASSUME NEW k \in 1 .. 3
        PROVE  /\ t[2 * k - 1] = Alphabet16[sps[k + 1] \div 16 + 1]
               /\ t[2 * k] = Alphabet16[(sps[k + 1] % 16) + 1]
    <3>1. CASE k = 1
      <4>1. 2 * k - 1 = 1 /\ 2 * k = 2 /\ k + 1 = 2
        BY <3>1
      <4> QED
        BY <1>2, <1>3, <4>1, Zenon
    <3>2. CASE k = 2
      <4>1. 2 * k - 1 = 3 /\ 2 * k = 4 /\ k + 1 = 3
        BY <3>2
      <4> QED
        BY <1>2, <1>3, <4>1, Zenon
    <3>3. CASE k = 3
      <4>1. 2 * k - 1 = 5 /\ 2 * k = 6 /\ k + 1 = 4
        BY <3>3
      <4> QED
        BY <1>2, <1>3, <4>1, Zenon
    <3>4. k = 1 \/ k = 2 \/ k = 3
      OBVIOUS
    <3> QED
      BY <3>1, <3>2, <3>3, <3>4
  <2> QED
    BY <1>3, <2>1, Zenon DEF LevelWords
<1>5. \A b \in 0 .. 255 : Alphabet16[b \div 16 + 1] # ModeWord /\ Alphabet16[(b % 16) + 1] # ModeWord
  <2>1. \A b \in 0 .. 255 : b \div 16 + 1 \in 1 .. 16 /\ (b % 16) + 1 \in 1 .. 16
    OBVIOUS
  <2>2. \A i \in 1 .. 16 : Alphabet16[i] # ModeWord
    BY HexSignsAre
  <2> QED
    BY <2>1, <2>2, Zenon
<1>6. /\ x[1] # ModeWord /\ x[2] # ModeWord /\ y[1] # ModeWord /\ y[2] # ModeWord
      /\ z[1] # ModeWord /\ z[2] # ModeWord
  BY <1>1, <1>2, <1>5, Zenon
<1>7. ASSUME NEW k \in 1 .. Len(t) PROVE t[k] # ModeWord
  <2>1. k = 1 \/ k = 2 \/ k = 3 \/ k = 4 \/ k = 5 \/ k = 6
    BY <1>3
  <2> QED
    BY <1>3, <1>6, <2>1
<1> QED
  BY <1>4, <1>7 DEF t

\* What a description says of its encoder.
Describes(text, h) ==
    /\ Between(text, <<SetsWord>>, <<Comma>>) = Base64Encode(h.sps)
    /\ Between(text, <<Comma>>, CRLF) = Base64Encode(h.pps)
    /\ Between(text, <<ProfileWord>>, <<ModeWord>>) = Level(h.sps)

LEMMA DescribeSays ==
    ASSUME NamesInv, Replies("DESCRIBE", Handle_DESCRIBE(<< >>, recv_buf, ParameterSets(header)))
    PROVE  Describes(reply'.text, header')
<1> DEFINE h == Handle_DESCRIBE(<< >>, recv_buf, ParameterSets(header))
           l == Line("cseq", request)
           own == DescribeOwn
           raw == header.sps
           a == Base64Encode(header.sps)
           b == Base64Encode(header.pps)
           hex == Level(raw)
<1>1. /\ reply'.text = h.send /\ header' = header /\ h.ok /\ Text(recv_buf) /\ header \in Headers
      /\ LineFrom(recv_buf, CSeqWord).words = l /\ Headed(l, CSeqWord)
  BY RepliedWith, Zenon
<1>2. PICK body : Shaped(h.send, DescribeOwn, DescribeHeld(l, header, body), body)
  BY <1>1, DescribeShape, Zenon
<1>3. raw \in Seq(0 .. 255) /\ header.pps \in Seq(0 .. 255) /\ Len(raw) >= 4
  BY <1>1, HeadersAre, Zenon DEF HeaderIs
<1>4. /\ Text(a) /\ \A k \in 1 .. Len(a) : a[k] # Comma
      /\ Text(b) /\ \A k \in 1 .. Len(b) : b[k] # CRLF[1]
  <2>1. Plain(a) /\ Plain(b) /\ \A k \in 1 .. Len(a) : a[k] # Comma
    BY <1>3, EncodedPlain, Zenon
  <2> HIDE DEF a, b
  <2>2. \A k \in 1 .. Len(b) : b[k] # CRLF[1]
    BY <2>1, LineBreak DEF Plain
  <2> QED
    BY <2>1, <2>2, ShapesText
<1>5. Text(hex) /\ \A k \in 1 .. Len(hex) : hex[k] # ModeWord
  <2> HIDE DEF raw
  <2>1. Plain(hex)
    BY <1>3, LevelIs
  <2>2. \A k \in 1 .. Len(hex) : hex[k] # ModeWord
    BY <1>3, LevelSays
  <2> QED
    BY <2>1, <2>2, ShapesText, Zenon
<1>6. /\ (<<ProfileWord>> \o hex) \o <<ModeWord>> \in DescribeHeld(l, header, body)
      /\ (<<SetsWord>> \o a) \o <<Comma>> \in DescribeHeld(l, header, body)
      /\ (<<Comma>> \o b) \o CRLF \in DescribeHeld(l, header, body)
  BY Zenon DEF DescribeHeld, SetsPieces
<1> HIDE DEF h, own, raw, a, b, hex
<1>7. /\ Marks(h.send, own, Tracks)
      /\ Has(h.send, (<<ProfileWord>> \o hex) \o <<ModeWord>>)
      /\ Has(h.send, (<<SetsWord>> \o a) \o <<Comma>>)
      /\ Has(h.send, (<<Comma>> \o b) \o CRLF)
  BY <1>2, <1>6, Zenon DEF Shaped, own
<1> DEFINE comma == <<Comma>>
           mode == <<ModeWord>>
<1>8. /\ Text(comma) /\ Len(comma) # 0 /\ comma[1] = Comma
      /\ Text(mode) /\ Len(mode) # 0 /\ mode[1] = ModeWord
      /\ Text(CRLF) /\ Len(CRLF) # 0
  <2>1. /\ Text(comma) /\ Len(comma) = 1 /\ comma[1] = Comma
        /\ Text(mode) /\ Len(mode) = 1 /\ mode[1] = ModeWord
    BY OneWord
  <2> HIDE DEF comma, mode
  <2>2. Len(CRLF) # 0
    BY LineBreak
  <2> QED
    BY <2>1, <2>2, LineBreak
<1> HIDE DEF comma, mode
<1>9. /\ Framed(h.send, own, ProfileWord, hex, mode)
      /\ Framed(h.send, own, SetsWord, a, comma)
      /\ Framed(h.send, own, Comma, b, CRLF)
  <2>1. /\ \A k \in 1 .. Len(hex) : hex[k] # mode[1]
        /\ \A k \in 1 .. Len(a) : a[k] # comma[1]
    BY <1>4, <1>5, <1>8
  <2> QED
    BY <1>4, <1>5, <1>7, <1>8, <2>1, AllTracked, Zenon DEF Framed, comma, mode
<1>10. /\ Between(h.send, <<ProfileWord>>, mode) = hex
       /\ Between(h.send, <<SetsWord>>, comma) = a
       /\ Between(h.send, <<Comma>>, CRLF) = b
  BY <1>9, BetweenFramed, Zenon
<1> QED
  BY <1>1, <1>10, Zenon DEF Describes, comma, mode, a, b, hex, raw

SetsInv == reply.to.kind = "DESCRIBE" => Describes(reply.text, header)

LEMMA SetsStep == SessionInv /\ NamesInv /\ SetsInv /\ [Next]_vars => SetsInv'
<1> SUFFICES ASSUME SessionInv, NamesInv, SetsInv, [Next]_vars
             PROVE  SetsInv'
  OBVIOUS
<1>1. Outcome
  BY Outcomes, Zenon
<1>2. CASE reply' = NoReply
  <2>1. NoReply.to.kind = "none"
    BY DEF NoReply, NoRequest
  <2> QED
    BY <1>2, <2>1, Zenon DEF SetsInv
<1>3. CASE reply' = reply /\ header' = header /\ session_id' = session_id
  BY <1>3, Zenon DEF SetsInv
<1>4. ASSUME NEW kind, NEW handled, Replies(kind, handled), kind # "DESCRIBE"
      PROVE  SetsInv'
  <2>1. reply'.to.kind = kind
    BY <1>4, ReplyIs, Zenon
  <2> QED
    BY <1>4, <2>1, Zenon DEF SetsInv
<1>5. Describes(reply'.text, header') => SetsInv'
  BY Zenon DEF SetsInv
<1>6. "OPTIONS" # "DESCRIBE" /\ "SETUP" # "DESCRIBE" /\ "PLAY" # "DESCRIBE" /\ "TEARDOWN" # "DESCRIBE"
  OBVIOUS
<1> QED
  BY <1>1, <1>2, <1>3, <1>4, <1>5, <1>6, DescribeSays, Zenon DEF Outcome

LEMMA SetsInvIs == NamesInv /\ SetsInv => SetsAreEncoders
<1> SUFFICES ASSUME NamesInv, SetsInv, reply.to.kind = "DESCRIBE"
             PROVE  SetsAreEncoders
  BY Zenon DEF SetsAreEncoders
<1> DEFINE sps == Between(reply.text, <<SetsWord>>, <<Comma>>)
           pps == Between(reply.text, <<Comma>>, CRLF)
           level == Between(reply.text, <<ProfileWord>>, <<ModeWord>>)
<1>1. header \in Headers
  BY DEF NamesInv
<1>2. header.sps \in Seq(0 .. 255) /\ header.pps \in Seq(0 .. 255) /\ Len(header.sps) >= 4
  BY <1>1, HeadersAre, Zenon DEF HeaderIs
<1>3. sps = Base64Encode(header.sps) /\ pps = Base64Encode(header.pps) /\ level = Level(header.sps)
  BY Zenon DEF SetsInv, Describes
<1>4. Decoded(sps) = header.sps /\ Decoded(pps) = header.pps
  BY <1>2, <1>3, Base64RoundTrip, Zenon
<1>5. Len(sps) % 4 = 0 /\ Len(pps) % 4 = 0
  <2>1. header.sps \in Seq(Nat) /\ header.pps \in Seq(Nat)
    <3>1. 0 .. 255 \subseteq Nat
      OBVIOUS
    <3> QED
      BY <1>2, <3>1, TextIn
  <2>2. Len(Base64Encode(header.sps)) % 4 = 0 /\ Len(Base64Encode(header.pps)) % 4 = 0
    BY <2>1, GroupsAreWhole, Zenon
  <2> QED
    BY <1>3, <2>2, Zenon
<1>6. LevelWords(level, header.sps)
  <2>1. LevelWords(Level(header.sps), header.sps)
    BY <1>2, LevelSays, Zenon
  <2> QED
    BY <1>3, <2>1, Zenon
<1> QED
  BY <1>4, <1>5, <1>6, Zenon DEF SetsAreEncoders, LevelWords, SetsWord, Comma, ProfileWord, ModeWord

\* The description lets a player set up its decoder: what create_sdp writes
\* decodes, byte for byte, to the SPS and the PPS that video.c took from this
\* session's encoder, and the profile and level are the SPS's.
THEOREM SetsAreTheEncoders == Spec => []SetsAreEncoders
<1>1. Init => NamesInv /\ SetsInv
  <2>1. NoReply.to.kind = "none"
    BY DEF NoReply, NoRequest
  <2> QED
    BY <2>1, Zenon DEF Init, NamesInv, SetsInv
<1>2. SessionInv /\ (NamesInv /\ SetsInv) /\ [Next]_vars => (NamesInv /\ SetsInv)'
  BY NamesStep, SetsStep
<1>3. NamesInv /\ SetsInv => SetsAreEncoders
  BY SetsInvIs
<1> QED
  BY <1>1, <1>2, <1>3, SessionInvariant, PTL DEF Spec
=============================================================================
