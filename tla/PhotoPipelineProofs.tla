------------------------- MODULE PhotoPipelineProofs -------------------------
(***************************************************************************)
(* Proofs about the way of a photo, for every number of photos and phones  *)
(* and every size of the queues.  A request moves through stages, one      *)
(* direction only: asked, queued, in the video thread, answered in the     *)
(* queue, echoed, answered; a photo to be sent moves through others.  The  *)
(* invariant says that each stage is ahead of the next: its photos were    *)
(* asked for earlier.  A request taken from the middle of a queue, or two  *)
(* results that overtake each other, would break it.                       *)
(***************************************************************************)
EXTENDS PhotoPipeline, FiniteSetTheorems, SequenceTheorems, WellFoundedInduction,
        TLAPS

(* What a queue holds. *)
Messages(q) == {q[k] : k \in 1 .. Len(q)}
PhotosOf(q, type) == {q[k].photo : k \in OfType(q, type)}
Sorted(q, type) ==
    \A j, k \in OfType(q, type) : j < k => q[j].photo < q[k].photo
Behind(q, type, p) == \A y \in PhotosOf(q, type) : y < p
Firsts(s) == {s[k][1] : k \in 1 .. Len(s)}

(* The stages of a request, the one asked for first at the front. *)
Echoing == IF cmd \in {"echoTrue", "echoFalse"} THEN {inHand} ELSE {}
Shooting == IF vt \in {"take", "sayTrue", "sayFalse"} THEN {vtPhoto} ELSE {}
Posting == IF cmd = "post" THEN {inHand} ELSE {}

(* The stages of a file. *)
Begun == Firsts(delivered) \union (IF pt = "connect" THEN {} ELSE {ptPhoto} \ {NoPhoto})
Connecting == IF pt = "connect" THEN {ptPhoto} ELSE {}
Queueing == IF vt = "queue" THEN {vtPhoto} ELSE {}

\* Every photo of a stage was asked for before those of the stages behind it.
Chain(a, b, c, d, e, f) ==
    /\ \A x \in a, y \in b \union c \union d \union e \union f : x < y
    /\ \A x \in b, y \in c \union d \union e \union f : x < y
    /\ \A x \in c, y \in d \union e \union f : x < y
    /\ \A x \in d, y \in e \union f : x < y
    /\ \A x \in e, y \in f : x < y

AnswerChain ==
    Chain(Firsts(answered), Echoing, PhotosOf(takeq, "TAKE_OVER"), Shooting,
          PhotosOf(takeq, "TAKE"), Posting)

SendChain ==
    Chain(Begun, Connecting, PhotosOf(sendq, "TRANS"), Shooting \union Queueing,
          PhotosOf(takeq, "TAKE"), Posting)

InPlay ==
    Firsts(answered) \union Echoing \union PhotosOf(takeq, "TAKE_OVER")
    \union Shooting \union PhotosOf(takeq, "TAKE") \union Posting

Sending == Begun \union Connecting \union PhotosOf(sendq, "TRANS")

\* What the three processes hold at their places.
ControlInv ==
    /\ cmd = "post" => inHand = asked /\ asked # 0
    /\ cmd \in {"echoTrue", "echoFalse"} => inHand \in Photos
    /\ cmd \notin {"post", "echoTrue", "echoFalse"} => inHand = NoPhoto
    /\ vt \in {"take", "sayTrue", "sayFalse", "queue"} => vtPhoto \in Photos
    /\ pt \in {"connect", "send", "sayTrue", "sayFalse"} => ptPhoto \in Photos
    /\ pt = "send" => delivered # << >>
    /\ removed => cmd = "dead" /\ takeq = << >> /\ sendq = << >>
    /\ cmd \notin {"accept", "dead"} \/ asked # 0 => globalAddr # 0
    /\ \A m \in Messages(takeq) : m.type \in {"TAKE", "TAKE_OVER"}

\* Every queue, and every list of what is done, is in the order of asking.
OrderInv ==
    /\ Sorted(takeq, "TAKE") /\ Sorted(takeq, "TAKE_OVER") /\ Sorted(sendq, "TRANS")
    /\ Increasing(answered) /\ Increasing(delivered)
    /\ AnswerChain /\ SendChain

\* Requests are neither forgotten nor invented.
PlayInv ==
    /\ InPlay \union lost = 1 .. asked
    /\ InPlay \intersect lost = {}
    /\ Sending \union Queueing \subseteq 1 .. asked

\* What is said to be on the disk is.
DiskInv ==
    /\ \A k \in 1 .. Len(answered) : answered[k][2] => answered[k][1] \in disk
    /\ \A m \in Messages(takeq) : m.type = "TAKE_OVER" /\ m.ok => m.photo \in disk
    /\ cmd = "echoTrue" => inHand \in disk
    /\ vt \in {"sayTrue", "queue"} => vtPhoto \in disk
    /\ Sending \subseteq disk

\* Nothing says, or will say, that taking p failed.
NoFailure(p) ==
    /\ \A k \in 1 .. Len(answered) : answered[k][1] = p => answered[k][2]
    /\ \A m \in Messages(takeq) : m.type = "TAKE_OVER" /\ m.photo = p => m.ok
    /\ cmd = "echoFalse" => inHand # p

FailInv == \A p \in Sending \union Queueing : NoFailure(p)

Inv == TypeOK /\ ControlInv /\ OrderInv /\ PlayInv /\ DiskInv /\ FailInv

-----------------------------------------------------------------------------
(* Sequences and queues. *)

LEMMA Least ==
    ASSUME NEW T \in SUBSET Nat, T # {}
    PROVE  \E x \in T : \A y \in T : x <= y
<1> DEFINE Less == {ss \in Nat \X Nat : ss[1] < ss[2]}
<1>1. IsWellFoundedOn(Less, Nat)
  BY NatLessThanWellFounded DEF OpToRel
<1> HIDE DEF Less
<1>2. PICK x \in T : \A y \in T : ~(<<y, x>> \in Less)
  BY <1>1, WFMin
<1>3. \A y \in T : ~(y < x)
  <2> SUFFICES ASSUME NEW y \in T, y < x PROVE FALSE
    OBVIOUS
  <2>1. <<y, x>> \in Less
    BY DEF Less
  <2> QED
    BY <1>2, <2>1
<1>4. \A y \in T : x <= y
  BY <1>3
<1> QED
  BY <1>4

\* What RemoveAt leaves, and where.
LEMMA RemovedAt ==
    ASSUME NEW S, NEW q \in Seq(S), NEW n \in 1 .. Len(q)
    PROVE  /\ RemoveAt(q, n) \in Seq(S)
           /\ Len(RemoveAt(q, n)) = Len(q) - 1
           /\ \A j \in 1 .. n - 1 : RemoveAt(q, n)[j] = q[j]
           /\ \A j \in n .. Len(q) - 1 : RemoveAt(q, n)[j] = q[j + 1]
<1> DEFINE a == SubSeq(q, 1, n - 1)
           b == SubSeq(q, n + 1, Len(q))
<1>1. Len(q) \in Nat /\ n \in Nat \ {0} /\ n <= Len(q)
  OBVIOUS
<1>2. /\ a \in Seq(S) /\ Len(a) = n - 1
      /\ \A j \in 1 .. n - 1 : a[j] = q[j]
  BY <1>1, SMTT(20)
<1>3. /\ b \in Seq(S) /\ Len(b) = Len(q) - n
      /\ \A j \in 1 .. Len(q) - n : b[j] = q[n + j]
  BY <1>1, SMTT(20)
<1> HIDE DEF a, b
<1>4. /\ a \o b \in Seq(S) /\ Len(a \o b) = Len(a) + Len(b)
      /\ \A j \in 1 .. Len(a) + Len(b) :
            (a \o b)[j] = IF j <= Len(a) THEN a[j] ELSE b[j - Len(a)]
  BY <1>2, <1>3, ConcatProperties
<1>5. Len(a) + Len(b) = Len(q) - 1
  BY <1>1, <1>2, <1>3
<1>6. ASSUME NEW j \in 1 .. n - 1
      PROVE  (a \o b)[j] = q[j]
  <2>1. j \in 1 .. Len(a) + Len(b) /\ j <= Len(a)
    BY <1>1, <1>2, <1>5
  <2> QED
    BY <1>2, <1>4, <2>1
<1>7. ASSUME NEW j \in n .. Len(q) - 1
      PROVE  (a \o b)[j] = q[j + 1]
  <2>1. /\ j \in 1 .. Len(a) + Len(b) /\ ~(j <= Len(a))
        /\ j - Len(a) \in 1 .. Len(q) - n /\ n + (j - Len(a)) = j + 1
    BY <1>1, <1>2, <1>5
  <2> QED
    BY <1>3, <1>4, <2>1
<1>8. RemoveAt(q, n) = a \o b
  BY DEF RemoveAt, a, b
<1> QED
  BY <1>4, <1>5, <1>6, <1>7, <1>8

\* msgrcv finds the first message of its type.
LEMMA OldestIs ==
    ASSUME NEW q \in Seq(Message), NEW type, OfType(q, type) # {}
    PROVE  /\ Oldest(q, type) \in OfType(q, type)
           /\ \A j \in OfType(q, type) : Oldest(q, type) <= j
<1>1. OfType(q, type) \in SUBSET Nat
  BY DEF OfType
<1>2. \E n \in OfType(q, type) : \A j \in OfType(q, type) : n <= j
  BY <1>1, Least
<1> QED
  BY <1>2 DEF Oldest

\* Taking the oldest message of a type from a queue in order: its photo was the
\* first of them, the rest stay in order and other types are left alone.
LEMMA TakeOldest ==
    ASSUME NEW q \in Seq(Message), NEW type, OfType(q, type) # {}, Sorted(q, type),
           NEW r, r = RemoveAt(q, Oldest(q, type)),
           NEW m, m = q[Oldest(q, type)]
    PROVE  /\ m \in Message /\ m.type = type /\ m \in Messages(q)
           /\ r \in Seq(Message) /\ Len(r) = Len(q) - 1
           /\ Messages(r) \subseteq Messages(q)
           /\ m.photo \in PhotosOf(q, type)
           /\ \A y \in PhotosOf(q, type) : y = m.photo \/ m.photo < y
           /\ PhotosOf(r, type) = PhotosOf(q, type) \ {m.photo}
           /\ \A u : u # type => PhotosOf(r, u) = PhotosOf(q, u)
           /\ \A u : Sorted(q, u) => Sorted(r, u)
<1> DEFINE n == Oldest(q, type)
           old(k) == IF k < n THEN k ELSE k + 1
<1>1. /\ n \in OfType(q, type) /\ \A j \in OfType(q, type) : n <= j
      /\ n \in 1 .. Len(q) /\ n \in Nat /\ Len(q) \in Nat
  BY OldestIs DEF OfType
<1> HIDE DEF n
<1>2. m = q[n] /\ r = RemoveAt(q, n)
  BY DEF n
<1>3. /\ r \in Seq(Message) /\ Len(r) = Len(q) - 1
      /\ \A k \in 1 .. n - 1 : r[k] = q[k]
      /\ \A k \in n .. Len(q) - 1 : r[k] = q[k + 1]
  BY <1>1, <1>2, RemovedAt
<1>4. \A k \in 1 .. Len(r) : /\ old(k) \in 1 .. Len(q) /\ old(k) # n
                             /\ r[k] = q[old(k)]
  <2> SUFFICES ASSUME NEW k \in 1 .. Len(r)
               PROVE  old(k) \in 1 .. Len(q) /\ old(k) # n /\ r[k] = q[old(k)]
    OBVIOUS
  <2>1. k \in Nat /\ 1 <= k /\ k <= Len(q) - 1
    BY <1>1, <1>3
  <2>2. CASE k < n
    <3>1. k \in 1 .. n - 1 /\ k \in 1 .. Len(q) /\ k # n /\ old(k) = k
      BY <1>1, <2>1, <2>2
    <3> QED
      BY <1>3, <3>1
  <2>3. CASE ~(k < n)
    <3>1. k \in n .. Len(q) - 1 /\ k + 1 \in 1 .. Len(q) /\ k + 1 # n /\ old(k) = k + 1
      BY <1>1, <2>1, <2>3
    <3> QED
      BY <1>3, <3>1
  <2> QED
    BY <2>2, <2>3
<1>5. \A j \in 1 .. Len(q) : j # n => \E k \in 1 .. Len(r) : old(k) = j
  <2> SUFFICES ASSUME NEW j \in 1 .. Len(q), j # n
               PROVE  \E k \in 1 .. Len(r) : old(k) = j
    OBVIOUS
  <2>1. CASE j < n
    <3>1. j \in 1 .. Len(r) /\ old(j) = j
      BY <1>1, <1>3, <2>1
    <3> QED
      BY <3>1
  <2>2. CASE ~(j < n)
    <3>1. j - 1 \in 1 .. Len(r) /\ old(j - 1) = j
      BY <1>1, <1>3, <2>2
    <3> QED
      BY <3>1
  <2> QED
    BY <2>1, <2>2
<1>6. \A j, k \in 1 .. Len(r) : j < k => old(j) < old(k)
  <2>1. \A j, k \in Nat : j < k => old(j) < old(k)
    BY <1>1
  <2> QED
    BY <2>1
<1> HIDE DEF old
<1>7. m \in Message /\ m.type = type /\ m \in Messages(q) /\ m.photo \in PhotosOf(q, type)
  BY <1>1, <1>2 DEF OfType, Messages, PhotosOf
<1>8. Messages(r) \subseteq Messages(q)
  BY <1>4 DEF Messages
<1>9. \A j \in OfType(q, type) : j # n => m.photo < q[j].photo
  <2> SUFFICES ASSUME NEW j \in OfType(q, type), j # n
               PROVE  m.photo < q[j].photo
    OBVIOUS
  <2>1. n < j
    <3>1. n <= j /\ j \in Nat
      BY <1>1 DEF OfType
    <3> QED
      BY <1>1, <3>1
  <2> QED
    BY <1>1, <1>2, <2>1 DEF Sorted
<1>10. \A y \in PhotosOf(q, type) : y = m.photo \/ m.photo < y
  BY <1>2, <1>9 DEF PhotosOf
<1>11. \A j \in OfType(q, type) : j # n => q[j].photo # m.photo
  <2>1. \A j \in OfType(q, type) : q[j].photo \in Nat
    <3>1. \A j \in 1 .. Len(q) : q[j] \in Message
      OBVIOUS
    <3>2. \A p \in Message : p.photo \in Nat
      BY DEF Message, Photos
    <3> QED
      BY <3>1, <3>2 DEF OfType
  <2>2. m.photo \in Nat
    BY <1>7 DEF Message, Photos
  <2> QED
    BY <1>9, <2>1, <2>2
<1>12. ASSUME NEW u
       PROVE  /\ \A k \in OfType(r, u) : old(k) \in OfType(q, u) /\ old(k) # n
              /\ \A j \in OfType(q, u) : j # n => \E k \in OfType(r, u) : old(k) = j
              /\ \A k \in OfType(r, u) : r[k] = q[old(k)] /\ k \in 1 .. Len(r)
  BY <1>4, <1>5 DEF OfType
<1>13. PhotosOf(r, type) = PhotosOf(q, type) \ {m.photo}
  <2>1. \A k \in OfType(r, type) : r[k].photo \in PhotosOf(q, type) \ {m.photo}
    BY <1>11, <1>12 DEF PhotosOf
  <2>2. \A j \in OfType(q, type) : q[j].photo # m.photo => q[j].photo \in PhotosOf(r, type)
    BY <1>2, <1>12 DEF PhotosOf
  <2> QED
    BY <2>1, <2>2 DEF PhotosOf
<1>14. ASSUME NEW u, u # type
       PROVE  PhotosOf(r, u) = PhotosOf(q, u)
  <2>1. n \notin OfType(q, u)
    BY <1>2, <1>7, <1>14 DEF OfType
  <2> QED
    BY <1>12, <2>1 DEF PhotosOf
<1>15. ASSUME NEW u, Sorted(q, u)
       PROVE  Sorted(r, u)
  BY <1>6, <1>12, <1>15 DEF Sorted
<1> QED
  BY <1>3, <1>7, <1>8, <1>10, <1>13, <1>14, <1>15

\* What a queue is after msgsnd of m, whose photo is behind all of its type.
Put(q, type, m, r) ==
    /\ r \in Seq(Message) /\ Len(r) = Len(q) + 1
    /\ Messages(r) = Messages(q) \union {m}
    /\ PhotosOf(r, type) = PhotosOf(q, type) \union {m.photo}
    /\ \A u : u # type => PhotosOf(r, u) = PhotosOf(q, u)
    /\ \A u : Sorted(q, u) /\ u # type => Sorted(r, u)
    /\ Sorted(r, type)

LEMMA PutLast ==
    ASSUME NEW q \in Seq(Message), NEW m \in Message, NEW type, m.type = type,
           NEW r, r = Append(q, m),
           Sorted(q, type), Behind(q, type, m.photo)
    PROVE  Put(q, type, m, r)
<1> DEFINE n == Len(q) + 1
<1>1. /\ r \in Seq(Message) /\ Len(r) = n /\ Len(q) \in Nat /\ r[n] = m
      /\ \A k \in 1 .. Len(q) : r[k] = q[k]
  BY AppendProperties
<1>2. 1 .. Len(r) = (1 .. Len(q)) \union {n} /\ n \notin 1 .. Len(q)
      /\ \A k \in 1 .. Len(q) : k < n /\ ~(n < k)
  BY <1>1
<1> HIDE DEF n
<1>3. Messages(r) = Messages(q) \union {m}
  BY <1>1, <1>2 DEF Messages
<1>4. OfType(r, type) = OfType(q, type) \union {n}
  BY <1>1, <1>2 DEF OfType
<1>5. \A u : u # type => OfType(r, u) = OfType(q, u)
  BY <1>1, <1>2 DEF OfType
<1>6. \A u : OfType(q, u) \subseteq 1 .. Len(q)
  BY DEF OfType
<1>7. PhotosOf(r, type) = PhotosOf(q, type) \union {m.photo}
  BY <1>1, <1>4, <1>6 DEF PhotosOf
<1>8. ASSUME NEW u, u # type
      PROVE  PhotosOf(r, u) = PhotosOf(q, u) /\ (Sorted(q, u) => Sorted(r, u))
  <2>1. OfType(r, u) = OfType(q, u) /\ \A k \in OfType(q, u) : r[k] = q[k]
    BY <1>1, <1>5, <1>6, <1>8
  <2>2. PhotosOf(r, u) = PhotosOf(q, u)
    BY <2>1 DEF PhotosOf
  <2>3. ASSUME Sorted(q, u) PROVE Sorted(r, u)
    <3> SUFFICES ASSUME NEW j \in OfType(r, u), NEW k \in OfType(r, u), j < k
                 PROVE  r[j].photo < r[k].photo
      BY DEF Sorted
    <3>1. j \in OfType(q, u) /\ k \in OfType(q, u) /\ r[j] = q[j] /\ r[k] = q[k]
      BY <2>1
    <3> QED
      BY <2>3, <3>1 DEF Sorted
  <2> QED
    BY <2>2, <2>3
<1>9. Sorted(r, type)
  <2> SUFFICES ASSUME NEW j \in OfType(r, type), NEW k \in OfType(r, type), j < k
               PROVE  r[j].photo < r[k].photo
    BY DEF Sorted
  <2>1. j \in OfType(q, type) /\ r[j] = q[j]
    <3>1. k \in 1 .. Len(q) \/ k = n
      BY <1>4, <1>6
    <3>2. j # n
      BY <1>1, <1>2, <3>1
    <3> QED
      BY <1>1, <1>4, <1>6, <3>2
  <2>2. CASE k = n
    BY <1>1, <2>1, <2>2 DEF PhotosOf, Behind
  <2>3. CASE k # n
    <3>1. k \in OfType(q, type) /\ r[k] = q[k]
      BY <1>1, <1>4, <1>6, <2>3
    <3> QED
      BY <2>1, <3>1 DEF Sorted
  <2> QED
    BY <2>2, <2>3
<1> QED
  BY <1>1, <1>3, <1>7, <1>8, <1>9 DEF n, Put

\* A list of what is done, one longer.
Grown(S, s, e, t) ==
    /\ t \in Seq(S) /\ Len(t) = Len(s) + 1 /\ t[Len(s) + 1] = e
    /\ \A k \in 1 .. Len(s) : t[k] = s[k]
    /\ Firsts(t) = Firsts(s) \union {e[1]}
    /\ Increasing(t)

LEMMA ListGrows ==
    ASSUME NEW S, NEW s \in Seq(S), NEW e \in S, NEW t, t = Append(s, e),
           Increasing(s), \A x \in Firsts(s) : x < e[1]
    PROVE  Grown(S, s, e, t)
<1> DEFINE n == Len(s) + 1
<1>1. /\ t \in Seq(S) /\ Len(t) = n /\ Len(s) \in Nat /\ t[n] = e
      /\ \A k \in 1 .. Len(s) : t[k] = s[k]
  BY AppendProperties
<1>2. 1 .. Len(t) = (1 .. Len(s)) \union {n} /\ n \notin 1 .. Len(s)
      /\ \A k \in 1 .. Len(s) : k < n /\ ~(n < k)
      /\ ~(n < n)
  BY <1>1
<1>3. t[Len(s) + 1] = e
  BY <1>1
<1> HIDE DEF n
<1>4. Firsts(t) = Firsts(s) \union {e[1]}
  BY <1>1, <1>2 DEF Firsts
<1>5. Increasing(t)
  <2> SUFFICES ASSUME NEW j \in 1 .. Len(t), NEW k \in 1 .. Len(t), j < k
               PROVE  t[j][1] < t[k][1]
    BY DEF Increasing
  <2>1. j \in 1 .. Len(s) /\ t[j] = s[j]
    BY <1>1, <1>2
  <2>2. CASE k = n
    BY <1>1, <2>1, <2>2 DEF Firsts
  <2>3. CASE k # n
    BY <1>1, <1>2, <2>1, <2>3 DEF Increasing
  <2> QED
    BY <2>2, <2>3
<1> QED
  BY <1>1, <1>3, <1>4, <1>5 DEF n, Grown

-----------------------------------------------------------------------------
(* Chains of stages. *)

\* Fewer photos in any stage.
LEMMA ChainShrinks ==
    ASSUME NEW a, NEW b, NEW c, NEW d, NEW e, NEW f, Chain(a, b, c, d, e, f),
           NEW a2 \in SUBSET a, NEW b2 \in SUBSET b, NEW c2 \in SUBSET c,
           NEW d2 \in SUBSET d, NEW e2 \in SUBSET e, NEW f2 \in SUBSET f
    PROVE  Chain(a2, b2, c2, d2, e2, f2)
BY DEF Chain

\* The first photo of a stage goes on to the stage ahead of it.
LEMMA MoveB ==
    ASSUME NEW a, NEW b, NEW c, NEW d, NEW e, NEW f, Chain(a, b, c, d, e, f),
           NEW x \in b, \A y \in b : y = x \/ x < y
    PROVE  Chain(a \union {x}, b \ {x}, c, d, e, f)
BY DEF Chain

LEMMA MoveC ==
    ASSUME NEW a, NEW b, NEW c, NEW d, NEW e, NEW f, Chain(a, b, c, d, e, f),
           NEW x \in c, \A y \in c : y = x \/ x < y
    PROVE  Chain(a, b \union {x}, c \ {x}, d, e, f)
BY DEF Chain

LEMMA MoveD ==
    ASSUME NEW a, NEW b, NEW c, NEW d, NEW e, NEW f, Chain(a, b, c, d, e, f),
           NEW x \in d, \A y \in d : y = x \/ x < y
    PROVE  Chain(a, b, c \union {x}, d \ {x}, e, f)
BY DEF Chain

LEMMA MoveE ==
    ASSUME NEW a, NEW b, NEW c, NEW d, NEW e, NEW f, Chain(a, b, c, d, e, f),
           NEW x \in e, \A y \in e : y = x \/ x < y
    PROVE  Chain(a, b, c, d \union {x}, e \ {x}, f)
BY DEF Chain

LEMMA MoveF ==
    ASSUME NEW a, NEW b, NEW c, NEW d, NEW e, NEW f, Chain(a, b, c, d, e, f),
           NEW x \in f, \A y \in f : y = x \/ x < y
    PROVE  Chain(a, b, c, d, e \union {x}, f \ {x})
BY DEF Chain

\* A new photo joins at the end.
LEMMA ChainGrows ==
    ASSUME NEW a, NEW b, NEW c, NEW d, NEW e, Chain(a, b, c, d, e, {}),
           NEW x, \A y \in a \union b \union c \union d \union e : y < x
    PROVE  Chain(a, b, c, d, e, {x})
BY DEF Chain

\* No photo is in two stages.
Apart(a, b, c, d, e, f) ==
    /\ a \intersect (b \union c \union d \union e \union f) = {}
    /\ b \intersect (c \union d \union e \union f) = {}
    /\ c \intersect (d \union e \union f) = {}
    /\ d \intersect (e \union f) = {}
    /\ e \intersect f = {}

LEMMA ChainDisjoint ==
    ASSUME NEW a \in SUBSET Nat, NEW b \in SUBSET Nat, NEW c \in SUBSET Nat,
           NEW d \in SUBSET Nat, NEW e \in SUBSET Nat, NEW f \in SUBSET Nat,
           Chain(a, b, c, d, e, f)
    PROVE  Apart(a, b, c, d, e, f)
<1>1. \A x, y \in Nat : x < y => x # y
  OBVIOUS
<1> QED
  BY <1>1 DEF Chain, Apart

-----------------------------------------------------------------------------
(* The processes' steps: first the types, then what each does to a stage. *)

LEMMA Typed ==
    ASSUME Inv
    PROVE  /\ takeq \in Seq(Message) /\ sendq \in Seq(Message)
           /\ answered \in Seq(Photos \X BOOLEAN)
           /\ delivered \in Seq(Photos \X Clients \X BOOLEAN)
           /\ asked \in Nat /\ Photos \subseteq Nat \ {0} /\ disk \subseteq Photos
           /\ InPlay \subseteq Nat /\ Sending \union Queueing \subseteq Nat
           /\ InPlay \subseteq 1 .. asked /\ 1 .. asked \subseteq Photos
<1>1. /\ takeq \in Seq(Message) /\ sendq \in Seq(Message)
      /\ answered \in Seq(Photos \X BOOLEAN)
      /\ delivered \in Seq(Photos \X Clients \X BOOLEAN)
      /\ asked \in 0 .. MaxPhotos /\ disk \subseteq Photos
  BY DEF Inv, TypeOK
<1>2. asked \in Nat /\ Photos \subseteq Nat \ {0} /\ 1 .. asked \subseteq Photos
  BY <1>1, PipelineAssumption DEF Photos
<1>3. InPlay \subseteq 1 .. asked /\ Sending \union Queueing \subseteq 1 .. asked
  BY DEF Inv, PlayInv
<1>4. 1 .. asked \subseteq Nat
  BY <1>2
<1> QED
  BY <1>1, <1>2, <1>3, <1>4

\* A stage depends on the process that holds it.
LEMMA CmdFrame ==
    ASSUME UNCHANGED <<cmd, inHand>>
    PROVE  Echoing' = Echoing /\ Posting' = Posting
BY DEF Echoing, Posting

LEMMA VidFrame ==
    ASSUME UNCHANGED <<vt, vtPhoto>>
    PROVE  Shooting' = Shooting /\ Queueing' = Queueing
BY DEF Shooting, Queueing

LEMMA PtFrame ==
    ASSUME UNCHANGED <<pt, ptPhoto, delivered>>
    PROVE  Begun' = Begun /\ Connecting' = Connecting
BY DEF Begun, Connecting

\* A step that says no new result keeps what is said about photos: no answer
\* joins the queue or the phone's, and no photo starts to be sent that was not
\* about to be.
LEMMA NothingSaid ==
    ASSUME Inv, disk \subseteq disk', answered' = answered,
           \A m \in Messages(takeq') : m.type = "TAKE_OVER" => m \in Messages(takeq),
           cmd' \in {"echoTrue", "echoFalse"} => cmd' = cmd /\ inHand' = inHand,
           vt' \in {"sayTrue", "queue"} => vtPhoto' \in disk',
           Sending' \subseteq disk',
           Sending' \union Queueing' \subseteq Sending \union Queueing
    PROVE  DiskInv' /\ FailInv'
<1>1. DiskInv'
  BY DEF Inv, DiskInv
<1>2. ASSUME NEW p \in Sending \union Queueing
      PROVE  NoFailure(p)'
  <2>1. NoFailure(p)
    BY DEF Inv, FailInv
  <2> QED
    BY <2>1 DEF NoFailure
<1>3. FailInv'
  BY <1>2 DEF FailInv
<1> QED
  BY <1>1, <1>3

\* A step that moves no photo from a stage to another.
LEMMA StagesStay ==
    ASSUME Inv, UNCHANGED <<takeq, answered, asked, lost>>,
           Echoing' = Echoing, Posting' = Posting, Shooting' = Shooting,
           Queueing' = Queueing, Begun' = Begun, Connecting' = Connecting,
           PhotosOf(sendq', "TRANS") = PhotosOf(sendq, "TRANS"),
           Sorted(sendq', "TRANS"), Increasing(delivered'),
           disk \subseteq disk',
           cmd' \in {"echoTrue", "echoFalse"} => cmd' = cmd /\ inHand' = inHand,
           vt' \in {"sayTrue", "queue"} => vtPhoto' \in disk'
    PROVE  OrderInv' /\ PlayInv' /\ DiskInv' /\ FailInv'
<1>1. OrderInv'
  BY DEF Inv, OrderInv, AnswerChain, SendChain
<1>2. PlayInv'
  BY DEF Inv, PlayInv, InPlay, Sending
<1>3. Sending' = Sending /\ Sending \subseteq disk
  BY DEF Sending, Inv, DiskInv
<1>4. DiskInv' /\ FailInv'
  BY <1>3, NothingSaid
<1> QED
  BY <1>1, <1>2, <1>4

-----------------------------------------------------------------------------
(* cmd_server. *)

\* Steps that only move cmd_server on, or are the phone's.
LEMMA CmdQuietStep ==
    ASSUME Inv, Connect \/ PhoneCloses \/ NoCommand \/ SynTime \/ SeesClose \/ CheckNone
    PROVE  Inv'
<1>1. /\ UNCHANGED <<takeq, sendq, removed, inHand, asked, answered, lost>>
      /\ UNCHANGED <<vt, vtQueue, vtPhoto, disk, pt, ptPhoto, delivered>>
      /\ \/ cmd' = cmd
         \/ cmd \in {"accept", "recv", "check"}
            /\ cmd' \in {"accept", "recv", "check", "echoTime"}
  BY DEF Connect, PhoneCloses, NoCommand, SynTime, SeesClose, CheckNone, vidVars, ptVars
<1>2. TypeOK'
  <2>1. /\ globalAddr' \in 0 .. MaxClients
        /\ phone' \in {"none", "open", "closed"}
    BY PipelineAssumption DEF Inv, TypeOK, Connect, PhoneCloses, NoCommand, SynTime,
       SeesClose, CheckNone
  <2>2. cmd' \in {"accept", "recv", "post", "check", "echoTrue", "echoFalse",
                  "echoTime", "dead", "killed"}
    BY <1>1 DEF Inv, TypeOK
  <2> QED
    BY <1>1, <2>1, <2>2 DEF Inv, TypeOK
<1>3. cmd' \notin {"accept", "dead"} \/ asked' # 0 => globalAddr' # 0
  BY PipelineAssumption DEF Inv, TypeOK, ControlInv, Connect, PhoneCloses, NoCommand,
     SynTime, SeesClose, CheckNone
<1>4. ControlInv'
  BY <1>1, <1>3 DEF Inv, ControlInv
<1>5. Echoing' = Echoing /\ Posting' = Posting
  BY <1>1 DEF Echoing, Posting
<1>6. OrderInv' /\ PlayInv' /\ DiskInv' /\ FailInv'
  BY <1>1, <1>5, VidFrame, PtFrame, StagesStay DEF Inv, OrderInv, DiskInv
<1> QED
  BY <1>2, <1>4, <1>6 DEF Inv

\* A new request is behind all there are.
LEMMA TakeCommandStep ==
    ASSUME Inv, TakeCommand
    PROVE  Inv'
<1>1. /\ UNCHANGED <<takeq, sendq, removed, globalAddr, phone, answered, lost>>
      /\ UNCHANGED <<vt, vtQueue, vtPhoto, disk, pt, ptPhoto, delivered>>
      /\ cmd = "recv" /\ cmd' = "post" /\ asked' = asked + 1 /\ inHand' = asked + 1
      /\ asked < MaxPhotos
  BY DEF TakeCommand, vidVars, ptVars
<1>2. asked \in Nat /\ InPlay \subseteq 1 .. asked /\ lost \subseteq 1 .. asked
      /\ Sending \union Queueing \subseteq 1 .. asked
  BY Typed DEF Inv, PlayInv
<1>3. 1 .. asked' = (1 .. asked) \union {asked + 1} /\ asked + 1 \notin 1 .. asked
      /\ \A y \in 1 .. asked : y < asked + 1
  BY <1>1, <1>2
<1>4. TypeOK'
  BY <1>1, <1>2, PipelineAssumption DEF Inv, TypeOK
<1>5. ControlInv'
  BY <1>1, <1>2 DEF Inv, ControlInv
<1>6. /\ Echoing' = {} /\ Echoing = {} /\ Posting = {} /\ Posting' = {asked + 1}
      /\ Shooting' = Shooting /\ Queueing' = Queueing
      /\ Begun' = Begun /\ Connecting' = Connecting
  BY <1>1, VidFrame, PtFrame DEF Echoing, Posting
<1>7. Firsts(answered) \union PhotosOf(takeq, "TAKE_OVER") \union Shooting
      \union PhotosOf(takeq, "TAKE") \subseteq 1 .. asked
  BY <1>2 DEF InPlay
<1>8. Begun \union Connecting \union PhotosOf(sendq, "TRANS")
      \union (Shooting \union Queueing) \subseteq 1 .. asked
  BY <1>2 DEF InPlay, Sending
<1>9. AnswerChain'
  <2>1. Chain(Firsts(answered), {}, PhotosOf(takeq, "TAKE_OVER"), Shooting,
              PhotosOf(takeq, "TAKE"), {})
    BY <1>6 DEF Inv, OrderInv, AnswerChain
  <2>2. Chain(Firsts(answered), {}, PhotosOf(takeq, "TAKE_OVER"), Shooting,
              PhotosOf(takeq, "TAKE"), {asked + 1})
    BY <1>3, <1>7, <2>1, ChainGrows
  <2> QED
    BY <1>1, <1>6, <2>2 DEF AnswerChain
<1>10. SendChain'
  <2>1. Chain(Begun, Connecting, PhotosOf(sendq, "TRANS"), Shooting \union Queueing,
              PhotosOf(takeq, "TAKE"), {})
    BY <1>6 DEF Inv, OrderInv, SendChain
  <2>2. Chain(Begun, Connecting, PhotosOf(sendq, "TRANS"), Shooting \union Queueing,
              PhotosOf(takeq, "TAKE"), {asked + 1})
    BY <1>3, <1>7, <1>8, <2>1, ChainGrows
  <2> QED
    BY <1>1, <1>6, <2>2 DEF SendChain
<1>11. OrderInv'
  BY <1>1, <1>9, <1>10 DEF Inv, OrderInv
<1>12. PlayInv'
  <2>1. InPlay' = InPlay \union {asked + 1} /\ Sending' = Sending
    BY <1>1, <1>6 DEF InPlay, Sending
  <2> QED
    BY <1>1, <1>2, <1>3, <1>6, <2>1 DEF Inv, PlayInv
<1>13. DiskInv' /\ FailInv'
  <2>1. Sending' = Sending
    BY <1>1, <1>6 DEF Sending
  <2> QED
    BY <1>1, <1>6, <2>1, NothingSaid DEF Inv, DiskInv
<1> QED
  BY <1>4, <1>5, <1>11, <1>12, <1>13 DEF Inv

\* The request goes to the queue, behind those that are in it.
LEMMA PostTakeStep ==
    ASSUME Inv, PostTake
    PROVE  Inv'
<1> DEFINE m == Msg("TAKE", inHand, FALSE)
<1>1. /\ UNCHANGED <<sendq, removed, globalAddr, phone, asked, answered, lost>>
      /\ UNCHANGED <<vt, vtQueue, vtPhoto, disk, pt, ptPhoto, delivered>>
      /\ cmd = "post" /\ cmd' = "check" /\ inHand' = NoPhoto
      /\ Len(takeq) < Room /\ takeq' = Append(takeq, m)
  BY DEF PostTake, HasRoom, vidVars, ptVars
<1>2. inHand = asked /\ inHand \in Photos
  BY <1>1, PipelineAssumption DEF Inv, ControlInv, TypeOK, Photos
<1>3. m \in Message /\ m.type = "TAKE" /\ m.photo = inHand
  BY <1>2 DEF Msg, Message
<1> HIDE DEF m
<1>4. /\ Echoing' = {} /\ Echoing = {} /\ Posting = {inHand} /\ Posting' = {}
      /\ Shooting' = Shooting /\ Queueing' = Queueing
      /\ Begun' = Begun /\ Connecting' = Connecting
  BY <1>1, VidFrame, PtFrame DEF Echoing, Posting
<1>5. \A y \in PhotosOf(takeq, "TAKE") : y < inHand
  BY <1>4 DEF Inv, OrderInv, AnswerChain, Chain
<1>6. /\ takeq' \in Seq(Message) /\ Len(takeq') = Len(takeq) + 1
      /\ Messages(takeq') = Messages(takeq) \union {m}
      /\ PhotosOf(takeq', "TAKE") = PhotosOf(takeq, "TAKE") \union {inHand}
      /\ PhotosOf(takeq', "TAKE_OVER") = PhotosOf(takeq, "TAKE_OVER")
      /\ Sorted(takeq', "TAKE") /\ Sorted(takeq', "TAKE_OVER")
  <2>1. takeq \in Seq(Message)
    BY Typed
  <2>2. Sorted(takeq, "TAKE") /\ Sorted(takeq, "TAKE_OVER")
    BY DEF Inv, OrderInv
  <2>3. m \in Message /\ m.type = "TAKE" /\ takeq' = Append(takeq, m)
        /\ Behind(takeq, "TAKE", m.photo)
    BY <1>1, <1>3, <1>5 DEF Behind
  <2>4. Put(takeq, "TAKE", m, takeq')
    BY <2>1, <2>2, <2>3, PutLast
  <2> QED
    BY <1>3, <2>2, <2>4 DEF Put
<1>7. TypeOK'
  <2>1. Len(takeq') <= Room
    BY <1>1, <1>6, Typed, PipelineAssumption
  <2> QED
    BY <1>1, <1>6, <2>1, PipelineAssumption DEF Inv, TypeOK, NoPhoto
<1>8. ControlInv'
  BY <1>1, <1>3, <1>6 DEF Inv, ControlInv
<1>9. AnswerChain'
  <2>1. Chain(Firsts(answered), {}, PhotosOf(takeq, "TAKE_OVER"), Shooting,
              PhotosOf(takeq, "TAKE"), {inHand})
    BY <1>4 DEF Inv, OrderInv, AnswerChain
  <2>2. Chain(Firsts(answered), {}, PhotosOf(takeq, "TAKE_OVER"), Shooting,
              PhotosOf(takeq, "TAKE") \union {inHand}, {inHand} \ {inHand})
    BY <2>1, MoveF
  <2>3. {inHand} \ {inHand} = {}
    OBVIOUS
  <2> QED
    BY <1>1, <1>4, <1>6, <2>2, <2>3 DEF AnswerChain
<1>10. SendChain'
  <2>1. Chain(Begun, Connecting, PhotosOf(sendq, "TRANS"), Shooting \union Queueing,
              PhotosOf(takeq, "TAKE"), {inHand})
    BY <1>4 DEF Inv, OrderInv, SendChain
  <2>2. Chain(Begun, Connecting, PhotosOf(sendq, "TRANS"), Shooting \union Queueing,
              PhotosOf(takeq, "TAKE") \union {inHand}, {inHand} \ {inHand})
    BY <2>1, MoveF
  <2>3. {inHand} \ {inHand} = {}
    OBVIOUS
  <2> QED
    BY <1>1, <1>4, <1>6, <2>2, <2>3 DEF SendChain
<1>11. OrderInv'
  BY <1>1, <1>6, <1>9, <1>10 DEF Inv, OrderInv
<1>12. InPlay' = InPlay /\ Sending' = Sending
  BY <1>1, <1>4, <1>6 DEF InPlay, Sending
<1>13. PlayInv'
  BY <1>1, <1>4, <1>12 DEF Inv, PlayInv
<1>14. DiskInv' /\ FailInv'
  BY <1>1, <1>3, <1>4, <1>6, <1>12, NothingSaid DEF Inv, DiskInv
<1> QED
  BY <1>7, <1>8, <1>11, <1>13, <1>14 DEF Inv

\* The first of the results is taken in hand.
LEMMA CheckOneStep ==
    ASSUME Inv, CheckOne
    PROVE  Inv'
<1> DEFINE m == takeq[Oldest(takeq, "TAKE_OVER")]
<1>1. /\ UNCHANGED <<sendq, removed, globalAddr, phone, asked, answered, lost>>
      /\ UNCHANGED <<vt, vtQueue, vtPhoto, disk, pt, ptPhoto, delivered>>
      /\ OfType(takeq, "TAKE_OVER") # {}
      /\ cmd = "check" /\ cmd' = (IF m.ok THEN "echoTrue" ELSE "echoFalse")
      /\ inHand' = m.photo
      /\ takeq' = RemoveAt(takeq, Oldest(takeq, "TAKE_OVER"))
  BY DEF CheckOne, vidVars, ptVars
<1>2. m = takeq[Oldest(takeq, "TAKE_OVER")]
  OBVIOUS
<1> HIDE DEF m
<1>3. /\ m \in Message /\ m.type = "TAKE_OVER" /\ m \in Messages(takeq)
      /\ takeq' \in Seq(Message) /\ Len(takeq') = Len(takeq) - 1
      /\ Messages(takeq') \subseteq Messages(takeq)
      /\ m.photo \in PhotosOf(takeq, "TAKE_OVER")
      /\ \A y \in PhotosOf(takeq, "TAKE_OVER") : y = m.photo \/ m.photo < y
      /\ PhotosOf(takeq', "TAKE_OVER") = PhotosOf(takeq, "TAKE_OVER") \ {m.photo}
      /\ PhotosOf(takeq', "TAKE") = PhotosOf(takeq, "TAKE")
      /\ Sorted(takeq', "TAKE") /\ Sorted(takeq', "TAKE_OVER")
  <2>1. takeq \in Seq(Message)
    BY Typed
  <2>2. Sorted(takeq, "TAKE") /\ Sorted(takeq, "TAKE_OVER")
    BY DEF Inv, OrderInv
  <2> QED
    BY <1>1, <1>2, <2>1, <2>2, TakeOldest
<1>4. m.photo \in Photos /\ m.ok \in BOOLEAN
  BY <1>3 DEF Message
<1>5. /\ Echoing' = {m.photo} /\ Echoing = {} /\ Posting = {} /\ Posting' = {}
      /\ Shooting' = Shooting /\ Queueing' = Queueing
      /\ Begun' = Begun /\ Connecting' = Connecting
  BY <1>1, VidFrame, PtFrame DEF Echoing, Posting
<1>6. TypeOK'
  <2>1. Len(takeq') <= Room
    BY <1>3, Typed, PipelineAssumption DEF Inv, TypeOK
  <2>2. inHand' \in 0 .. MaxPhotos
    BY <1>1, <1>4, PipelineAssumption DEF Photos
  <2> QED
    BY <1>1, <1>3, <2>1, <2>2 DEF Inv, TypeOK
<1>7. ControlInv'
  BY <1>1, <1>3, <1>4 DEF Inv, ControlInv
<1>8. AnswerChain'
  <2>1. Chain(Firsts(answered), {}, PhotosOf(takeq, "TAKE_OVER"), Shooting,
              PhotosOf(takeq, "TAKE"), {})
    BY <1>5 DEF Inv, OrderInv, AnswerChain
  <2>2. Chain(Firsts(answered), {} \union {m.photo},
              PhotosOf(takeq, "TAKE_OVER") \ {m.photo}, Shooting,
              PhotosOf(takeq, "TAKE"), {})
    BY <1>3, <2>1, MoveC
  <2>3. {} \union {m.photo} = {m.photo}
    OBVIOUS
  <2> QED
    BY <1>1, <1>3, <1>5, <2>2, <2>3 DEF AnswerChain
<1>9. SendChain'
  BY <1>1, <1>3, <1>5 DEF Inv, OrderInv, SendChain
<1>10. OrderInv'
  BY <1>1, <1>3, <1>8, <1>9 DEF Inv, OrderInv
<1>11. InPlay' = InPlay /\ Sending' = Sending
  BY <1>1, <1>3, <1>5 DEF InPlay, Sending
<1>12. PlayInv'
  BY <1>1, <1>5, <1>11 DEF Inv, PlayInv
<1>13. DiskInv'
  BY <1>1, <1>3, <1>11 DEF Inv, DiskInv
<1>14. FailInv'
  <2>1. ASSUME NEW p \in Sending \union Queueing
        PROVE  NoFailure(p)'
    <3>1. NoFailure(p)
      BY DEF Inv, FailInv
    <3>2. cmd' = "echoFalse" => inHand' # p
      BY <1>1, <1>3, <3>1 DEF NoFailure
    <3> QED
      BY <1>1, <1>3, <3>1, <3>2 DEF NoFailure
  <2> QED
    BY <1>5, <1>11, <2>1 DEF FailInv
<1> QED
  BY <1>6, <1>7, <1>10, <1>12, <1>13, <1>14 DEF Inv

\* A request is in one stage only.
LEMMA OneStage ==
    ASSUME Inv
    PROVE  Apart(Firsts(answered), Echoing, PhotosOf(takeq, "TAKE_OVER"), Shooting,
                 PhotosOf(takeq, "TAKE"), Posting)
<1>1. /\ Firsts(answered) \in SUBSET Nat /\ Echoing \in SUBSET Nat
      /\ PhotosOf(takeq, "TAKE_OVER") \in SUBSET Nat /\ Shooting \in SUBSET Nat
      /\ PhotosOf(takeq, "TAKE") \in SUBSET Nat /\ Posting \in SUBSET Nat
  BY Typed DEF InPlay
<1>2. AnswerChain
  BY DEF Inv, OrderInv
<1> QED
  BY <1>1, <1>2, ChainDisjoint DEF AnswerChain

\* Requests given up, from any stages, with what the queues lose of files.
LEMMA RequestsLost ==
    ASSUME Inv, answered' = answered, asked' = asked, disk' = disk,
           Begun' = Begun, Connecting' = Connecting, delivered' = delivered,
           Echoing' \subseteq Echoing, Posting' \subseteq Posting,
           Shooting' \subseteq Shooting, Queueing' \subseteq Queueing,
           PhotosOf(takeq', "TAKE") \subseteq PhotosOf(takeq, "TAKE"),
           PhotosOf(takeq', "TAKE_OVER") \subseteq PhotosOf(takeq, "TAKE_OVER"),
           PhotosOf(sendq', "TRANS") \subseteq PhotosOf(sendq, "TRANS"),
           Sorted(takeq', "TAKE"), Sorted(takeq', "TAKE_OVER"), Sorted(sendq', "TRANS"),
           Messages(takeq') \subseteq Messages(takeq),
           lost' = lost \union (InPlay \ InPlay'),
           cmd' \in {"echoTrue", "echoFalse"} => cmd' = cmd /\ inHand' = inHand,
           vt' \in {"sayTrue", "queue"} => vtPhoto' \in disk'
    PROVE  OrderInv' /\ PlayInv' /\ DiskInv' /\ FailInv'
<1>1. AnswerChain'
  <2>1. AnswerChain
    BY DEF Inv, OrderInv
  <2>2. Chain(Firsts(answered), Echoing', PhotosOf(takeq', "TAKE_OVER"), Shooting',
              PhotosOf(takeq', "TAKE"), Posting')
    BY <2>1, ChainShrinks DEF AnswerChain
  <2> QED
    BY <2>2 DEF AnswerChain
<1>2. SendChain'
  <2>1. SendChain
    BY DEF Inv, OrderInv
  <2>2. Shooting' \union Queueing' \subseteq Shooting \union Queueing
    OBVIOUS
  <2>3. Chain(Begun, Connecting, PhotosOf(sendq', "TRANS"), Shooting' \union Queueing',
              PhotosOf(takeq', "TAKE"), Posting')
    BY <2>1, <2>2, ChainShrinks DEF SendChain
  <2> QED
    BY <2>3 DEF SendChain
<1>3. OrderInv'
  BY <1>1, <1>2 DEF Inv, OrderInv
<1>4. InPlay' \subseteq InPlay /\ Sending' \subseteq Sending
  BY DEF InPlay, Sending
<1>5. PlayInv'
  BY <1>4 DEF Inv, PlayInv
<1>6. Sending' \subseteq disk' /\ Sending' \union Queueing' \subseteq Sending \union Queueing
  BY <1>4 DEF Inv, DiskInv
<1>7. DiskInv' /\ FailInv'
  BY <1>6, NothingSaid
<1> QED
  BY <1>3, <1>5, <1>7

\* The answer is sent, or its phone is no longer there.
LEMMA EchoStep ==
    ASSUME Inv, Echo
    PROVE  Inv'
<1>1. /\ UNCHANGED <<takeq, sendq, removed, globalAddr, phone, asked>>
      /\ UNCHANGED <<vt, vtQueue, vtPhoto, disk, pt, ptPhoto, delivered>>
      /\ cmd \in {"echoTrue", "echoFalse", "echoTime"} /\ cmd' = "check"
      /\ inHand' = NoPhoto
      /\ IF cmd = "echoTime" \/ phone = "closed" THEN answered' = answered
         ELSE answered' = Append(answered, <<inHand, cmd = "echoTrue">>)
      /\ lost' = IF phone = "closed" THEN lost \union ({inHand} \ {NoPhoto}) ELSE lost
  BY DEF Echo, EchoPlaces, vidVars, ptVars
<1>2. ControlInv'
  BY <1>1 DEF Inv, ControlInv
<1>3. /\ Posting = {} /\ Posting' = {} /\ Echoing' = {}
      /\ Shooting' = Shooting /\ Queueing' = Queueing
      /\ Begun' = Begun /\ Connecting' = Connecting
  BY <1>1, VidFrame, PtFrame DEF Posting, Echoing
<1>4. lost \subseteq Photos /\ inHand \in 0 .. MaxPhotos
      /\ ({inHand} \ {NoPhoto}) \subseteq Photos /\ NoPhoto \in 0 .. MaxPhotos
  BY PipelineAssumption DEF Inv, TypeOK, Photos, NoPhoto
<1>5. CASE cmd = "echoTime" \/ phone = "closed"
  <2>1. answered' = answered /\ lost' = lost \union Echoing
    BY <1>1, <1>5 DEF Inv, ControlInv, Echoing, Photos, NoPhoto
  <2>2. lost' \subseteq Photos
    BY <1>1, <1>4
  <2>3. TypeOK'
    BY <1>1, <1>4, <2>1, <2>2 DEF Inv, TypeOK
  <2>4. InPlay \ InPlay' = Echoing
    BY <1>1, <1>3, <2>1, OneStage DEF InPlay, Apart
  <2>5. OrderInv' /\ PlayInv' /\ DiskInv' /\ FailInv'
    BY <1>1, <1>3, <2>1, <2>4, RequestsLost DEF Inv, OrderInv, DiskInv
  <2> QED
    BY <1>2, <2>3, <2>5 DEF Inv
<1>6. CASE ~(cmd = "echoTime" \/ phone = "closed")
  <2> DEFINE e == <<inHand, cmd = "echoTrue">>
  <2>1. /\ answered' = Append(answered, e) /\ lost' = lost
        /\ cmd \in {"echoTrue", "echoFalse"} /\ Echoing = {inHand}
    BY <1>1, <1>6 DEF Echoing
  <2>2. e \in Photos \X BOOLEAN /\ e[1] = inHand /\ e[2] = (cmd = "echoTrue")
    BY <2>1 DEF Inv, ControlInv
  <2> HIDE DEF e
  <2>3. \A x \in Firsts(answered) : x < e[1]
    BY <2>1, <2>2 DEF Inv, OrderInv, AnswerChain, Chain
  <2>4. /\ answered' \in Seq(Photos \X BOOLEAN)
        /\ Len(answered') = Len(answered) + 1 /\ answered'[Len(answered) + 1] = e
        /\ \A k \in 1 .. Len(answered) : answered'[k] = answered[k]
        /\ Firsts(answered') = Firsts(answered) \union {inHand}
        /\ Increasing(answered')
    <3>1. answered \in Seq(Photos \X BOOLEAN) /\ Increasing(answered)
      BY Typed DEF Inv, OrderInv
    <3>2. Grown(Photos \X BOOLEAN, answered, e, answered')
      BY <2>1, <2>2, <2>3, <3>1, ListGrows
    <3> QED
      BY <2>2, <3>2 DEF Grown
  <2>5. \A k \in 1 .. Len(answered') : k \in 1 .. Len(answered) \/ k = Len(answered) + 1
    BY <2>4, Typed
  <2>6. TypeOK'
    BY <1>1, <1>4, <2>1, <2>4 DEF Inv, TypeOK
  <2>7. AnswerChain'
    <3>1. Chain(Firsts(answered), {inHand}, PhotosOf(takeq, "TAKE_OVER"), Shooting,
                PhotosOf(takeq, "TAKE"), Posting)
      BY <2>1 DEF Inv, OrderInv, AnswerChain
    <3>2. Chain(Firsts(answered) \union {inHand}, {inHand} \ {inHand},
                PhotosOf(takeq, "TAKE_OVER"), Shooting, PhotosOf(takeq, "TAKE"), Posting)
      BY <3>1, MoveB
    <3>3. {inHand} \ {inHand} = {}
      OBVIOUS
    <3> QED
      BY <1>1, <1>3, <2>4, <3>2, <3>3 DEF AnswerChain
  <2>8. OrderInv'
    BY <1>1, <1>3, <2>4, <2>7 DEF Inv, OrderInv, SendChain
  <2>9. InPlay' = InPlay /\ Sending' = Sending
    BY <1>1, <1>3, <2>1, <2>4 DEF InPlay, Sending
  <2>10. PlayInv'
    BY <1>1, <1>3, <2>1, <2>9 DEF Inv, PlayInv
  <2>11. DiskInv'
    <3>1. \A k \in 1 .. Len(answered') : answered'[k][2] => answered'[k][1] \in disk
      <4>1. \A k \in 1 .. Len(answered) : answered[k][2] => answered[k][1] \in disk
        BY DEF Inv, DiskInv
      <4>2. e[2] => e[1] \in disk
        BY <2>2 DEF Inv, DiskInv
      <4> QED
        BY <2>4, <2>5, <4>1, <4>2
    <3> QED
      BY <1>1, <2>9, <3>1 DEF Inv, DiskInv
  <2>12. FailInv'
    <3>1. ASSUME NEW p \in Sending \union Queueing
          PROVE  NoFailure(p)'
      <4>1. NoFailure(p)
        BY DEF Inv, FailInv
      <4>2. e[1] = p => e[2]
        BY <2>1, <2>2, <4>1 DEF NoFailure
      <4>3. \A k \in 1 .. Len(answered') : answered'[k][1] = p => answered'[k][2]
        BY <2>4, <2>5, <4>1, <4>2 DEF NoFailure
      <4> QED
        BY <1>1, <4>1, <4>3 DEF NoFailure
    <3> QED
      BY <1>3, <2>9, <3>1 DEF FailInv
  <2> QED
    BY <1>2, <2>6, <2>8, <2>10, <2>11, <2>12 DEF Inv
<1> QED
  BY <1>5, <1>6

\* cmd_server ends with an error: the queues go, and what they hold.
LEMMA QuitStep ==
    ASSUME Inv, Quit
    PROVE  Inv'
<1>1. /\ UNCHANGED <<globalAddr, phone, asked, answered>>
      /\ UNCHANGED <<vt, vtQueue, vtPhoto, disk, pt, ptPhoto, delivered>>
      /\ cmd' = "dead" /\ removed' = TRUE /\ takeq' = << >> /\ sendq' = << >>
      /\ inHand' = NoPhoto
      /\ lost' = lost \union {takeq[i].photo : i \in 1 .. Len(takeq)}
                 \union ({inHand} \ {NoPhoto})
  BY DEF Quit, vidVars, ptVars
<1>2. /\ Posting' = {} /\ Echoing' = {}
      /\ Shooting' = Shooting /\ Queueing' = Queueing
      /\ Begun' = Begun /\ Connecting' = Connecting
  BY <1>1, VidFrame, PtFrame DEF Posting, Echoing
<1>3. ({inHand} \ {NoPhoto}) = Echoing \union Posting
  BY PipelineAssumption DEF Inv, TypeOK, ControlInv, Echoing, Posting, Photos, NoPhoto
<1>4. {takeq[i].photo : i \in 1 .. Len(takeq)}
         = PhotosOf(takeq, "TAKE") \union PhotosOf(takeq, "TAKE_OVER")
  <2>1. \A k \in 1 .. Len(takeq) : takeq[k].type \in {"TAKE", "TAKE_OVER"}
    BY DEF Inv, ControlInv, Messages
  <2> QED
    BY <2>1 DEF PhotosOf, OfType
<1>5. /\ Len(takeq') = 0 /\ Len(sendq') = 0
      /\ Messages(takeq') = {}
      /\ \A u : OfType(takeq', u) = {} /\ OfType(sendq', u) = {}
  BY <1>1 DEF Messages, OfType
<1>6. /\ PhotosOf(takeq', "TAKE") = {} /\ PhotosOf(takeq', "TAKE_OVER") = {}
      /\ PhotosOf(sendq', "TRANS") = {}
      /\ Sorted(takeq', "TAKE") /\ Sorted(takeq', "TAKE_OVER") /\ Sorted(sendq', "TRANS")
  BY <1>5 DEF PhotosOf, Sorted
<1>7. InPlay \ InPlay' = Echoing \union Posting \union PhotosOf(takeq, "TAKE")
                         \union PhotosOf(takeq, "TAKE_OVER")
  BY <1>1, <1>2, <1>6, OneStage DEF InPlay, Apart
<1>8. lost' = lost \union (InPlay \ InPlay')
  BY <1>1, <1>3, <1>4, <1>7
<1>9. OrderInv' /\ PlayInv' /\ DiskInv' /\ FailInv'
  BY <1>1, <1>2, <1>5, <1>6, <1>8, RequestsLost DEF Inv, OrderInv, DiskInv
<1>10. TypeOK'
  <2>1. lost' \subseteq Photos
    BY <1>8, Typed DEF Inv, TypeOK
  <2>2. takeq' \in Seq(Message) /\ sendq' \in Seq(Message) /\ 0 <= Room /\ NoPhoto \in 0 .. MaxPhotos
    BY <1>1, PipelineAssumption DEF NoPhoto
  <2> QED
    BY <1>1, <1>5, <2>1, <2>2 DEF Inv, TypeOK
<1>11. ControlInv'
  BY <1>1, <1>5 DEF Inv, ControlInv
<1> QED
  BY <1>9, <1>10, <1>11 DEF Inv

LEMMA KilledStep ==
    ASSUME Inv, Killed
    PROVE  Inv'
<1>1. /\ UNCHANGED <<takeq, sendq, removed, globalAddr, phone, asked, answered>>
      /\ UNCHANGED <<vt, vtQueue, vtPhoto, disk, pt, ptPhoto, delivered>>
      /\ cmd \in {"echoTrue", "echoFalse", "echoTime"} /\ cmd' = "killed"
      /\ inHand' = NoPhoto /\ lost' = lost \union ({inHand} \ {NoPhoto})
  BY DEF Killed, EchoPlaces, vidVars, ptVars
<1>2. /\ Posting' = {} /\ Posting = {} /\ Echoing' = {}
      /\ Shooting' = Shooting /\ Queueing' = Queueing
      /\ Begun' = Begun /\ Connecting' = Connecting
  BY <1>1, VidFrame, PtFrame DEF Posting, Echoing
<1>3. ({inHand} \ {NoPhoto}) = Echoing
  BY <1>1, PipelineAssumption DEF Inv, TypeOK, ControlInv, Echoing, Photos, NoPhoto
<1>4. InPlay \ InPlay' = Echoing
  BY <1>1, <1>2, OneStage DEF InPlay, Apart
<1>5. OrderInv' /\ PlayInv' /\ DiskInv' /\ FailInv'
  BY <1>1, <1>2, <1>3, <1>4, RequestsLost DEF Inv, OrderInv, DiskInv
<1>6. TypeOK'
  <2>1. lost' \subseteq Photos
    BY <1>1, <1>3, <1>4, Typed DEF Inv, TypeOK
  <2>2. NoPhoto \in 0 .. MaxPhotos
    BY PipelineAssumption DEF NoPhoto
  <2> QED
    BY <1>1, <2>1, <2>2 DEF Inv, TypeOK
<1>7. ControlInv'
  BY <1>1 DEF Inv, ControlInv
<1> QED
  BY <1>5, <1>6, <1>7 DEF Inv

-----------------------------------------------------------------------------
(* The video thread. *)

LEMMA VidQuietStep ==
    ASSUME Inv, VidStart \/ VidReset \/ Photo \/ PhotoFail
    PROVE  Inv'
<1>1. /\ UNCHANGED <<takeq, sendq, removed, globalAddr, phone, cmd, inHand, asked>>
      /\ UNCHANGED <<answered, lost, pt, ptPhoto, delivered>>
  BY DEF VidStart, VidReset, Photo, PhotoFail, vidOther, cmdVars, ptVars
<1>2. \/ vt \in {"off", "reset"} /\ vt' = "loop" /\ disk' = disk
         /\ vtPhoto' \in {vtPhoto, NoPhoto}
      \/ vt = "take" /\ vt' \in {"sayTrue", "sayFalse"} /\ vtPhoto' = vtPhoto
         /\ disk \subseteq disk' /\ disk' \subseteq disk \union {vtPhoto}
         /\ (vt' = "sayTrue" => vtPhoto \in disk')
  BY DEF VidStart, VidReset, Photo, PhotoFail
<1>3. TypeOK'
  <2>1. vt = "take" => vtPhoto \in Photos
    BY DEF Inv, ControlInv
  <2>2. vtQueue' \in {"shared", "fresh"}
    BY DEF VidStart, VidReset, Photo, PhotoFail, Inv, TypeOK
  <2>3. disk' \subseteq Photos
    BY <1>2, <2>1, Typed
  <2>4. NoPhoto \in 0 .. MaxPhotos
    BY PipelineAssumption DEF NoPhoto
  <2>5. vtPhoto' \in 0 .. MaxPhotos
    BY <1>2, <2>4 DEF Inv, TypeOK
  <2>6. vt' \in {"loop", "sayTrue", "sayFalse"}
    BY <1>2
  <2> QED
    BY <1>1, <2>2, <2>3, <2>5, <2>6 DEF Inv, TypeOK
<1>4. ControlInv'
  BY <1>1, <1>2 DEF Inv, ControlInv
<1>5. Shooting' = Shooting /\ Queueing' = Queueing
  BY <1>2 DEF Shooting, Queueing
<1>6. disk \subseteq disk' /\ (vt' \in {"sayTrue", "queue"} => vtPhoto' \in disk')
  BY <1>2
<1>7. OrderInv' /\ PlayInv' /\ DiskInv' /\ FailInv'
  BY <1>1, <1>5, <1>6, CmdFrame, PtFrame, StagesStay DEF Inv, OrderInv
<1> QED
  BY <1>3, <1>4, <1>7 DEF Inv

\* The session's end gives up the photo being taken.
LEMMA VidStopStep ==
    ASSUME Inv, VidStop
    PROVE  Inv'
<1>1. /\ UNCHANGED <<takeq, sendq, removed, globalAddr, phone, cmd, inHand, asked>>
      /\ UNCHANGED <<answered, pt, ptPhoto, delivered, vtQueue, disk>>
      /\ vt' = "off" /\ vtPhoto' = NoPhoto
      /\ lost' = lost \union Shooting
  BY DEF VidStop, vidOther, cmdVars, ptVars, Shooting
<1>2. Shooting' = {} /\ Queueing' = {}
  BY <1>1 DEF Shooting, Queueing
<1>3. /\ Echoing' = Echoing /\ Posting' = Posting
      /\ Begun' = Begun /\ Connecting' = Connecting
  BY <1>1, CmdFrame, PtFrame
<1>4. InPlay \ InPlay' = Shooting
  BY <1>1, <1>2, <1>3, OneStage DEF InPlay, Apart
<1>5. OrderInv' /\ PlayInv' /\ DiskInv' /\ FailInv'
  BY <1>1, <1>2, <1>3, <1>4, RequestsLost DEF Inv, OrderInv, DiskInv
<1>6. TypeOK'
  <2>1. lost' \subseteq Photos
    BY <1>1, <1>4, Typed DEF Inv, TypeOK
  <2>2. NoPhoto \in 0 .. MaxPhotos
    BY PipelineAssumption DEF NoPhoto
  <2> QED
    BY <1>1, <2>1, <2>2 DEF Inv, TypeOK
<1>7. ControlInv'
  BY <1>1 DEF Inv, ControlInv
<1> QED
  BY <1>5, <1>6, <1>7 DEF Inv

\* The first request goes to the video thread.
LEMMA VidTakeStep ==
    ASSUME Inv, VidTake
    PROVE  Inv'
<1> DEFINE m == takeq[Oldest(takeq, "TAKE")]
<1>1. /\ UNCHANGED <<sendq, removed, globalAddr, phone, cmd, inHand, asked, answered>>
      /\ UNCHANGED <<pt, ptPhoto, delivered, vtQueue, disk, lost>>
      /\ OfType(takeq, "TAKE") # {}
      /\ vt = "loop" /\ vt' = "take" /\ ~removed
      /\ vtPhoto' = m.photo
      /\ takeq' = RemoveAt(takeq, Oldest(takeq, "TAKE"))
  BY DEF VidTake, vidOther, cmdVars, ptVars
<1>2. m = takeq[Oldest(takeq, "TAKE")]
  OBVIOUS
<1> HIDE DEF m
<1>3. /\ m \in Message /\ m.type = "TAKE" /\ m \in Messages(takeq)
      /\ takeq' \in Seq(Message) /\ Len(takeq') = Len(takeq) - 1
      /\ Messages(takeq') \subseteq Messages(takeq)
      /\ m.photo \in PhotosOf(takeq, "TAKE")
      /\ \A y \in PhotosOf(takeq, "TAKE") : y = m.photo \/ m.photo < y
      /\ PhotosOf(takeq', "TAKE") = PhotosOf(takeq, "TAKE") \ {m.photo}
      /\ PhotosOf(takeq', "TAKE_OVER") = PhotosOf(takeq, "TAKE_OVER")
      /\ Sorted(takeq', "TAKE") /\ Sorted(takeq', "TAKE_OVER")
  <2>1. takeq \in Seq(Message)
    BY Typed
  <2>2. Sorted(takeq, "TAKE") /\ Sorted(takeq, "TAKE_OVER")
    BY DEF Inv, OrderInv
  <2> QED
    BY <1>1, <1>2, <2>1, <2>2, TakeOldest
<1>4. m.photo \in Photos
  BY <1>3 DEF Message
<1>5. /\ Shooting' = {m.photo} /\ Shooting = {} /\ Queueing = {} /\ Queueing' = {}
      /\ Echoing' = Echoing /\ Posting' = Posting
      /\ Begun' = Begun /\ Connecting' = Connecting
  BY <1>1, CmdFrame, PtFrame DEF Shooting, Queueing
<1>6. TypeOK'
  <2>1. Len(takeq') <= Room
    BY <1>3, Typed, PipelineAssumption DEF Inv, TypeOK
  <2>2. vtPhoto' \in 0 .. MaxPhotos
    BY <1>1, <1>4, PipelineAssumption DEF Photos
  <2> QED
    BY <1>1, <1>3, <2>1, <2>2 DEF Inv, TypeOK
<1>7. ControlInv'
  BY <1>1, <1>3, <1>4 DEF Inv, ControlInv
<1>8. AnswerChain'
  <2>1. Chain(Firsts(answered), Echoing, PhotosOf(takeq, "TAKE_OVER"), {},
              PhotosOf(takeq, "TAKE"), Posting)
    BY <1>5 DEF Inv, OrderInv, AnswerChain
  <2>2. Chain(Firsts(answered), Echoing, PhotosOf(takeq, "TAKE_OVER"),
              {} \union {m.photo}, PhotosOf(takeq, "TAKE") \ {m.photo}, Posting)
    BY <1>3, <2>1, MoveE
  <2>3. {} \union {m.photo} = {m.photo}
    OBVIOUS
  <2> QED
    BY <1>1, <1>3, <1>5, <2>2, <2>3 DEF AnswerChain
<1>9. SendChain'
  <2>1. Shooting \union Queueing = {} /\ Shooting' \union Queueing' = {m.photo}
        /\ {} \union {m.photo} = {m.photo}
    BY <1>5
  <2>2. Chain(Begun, Connecting, PhotosOf(sendq, "TRANS"), {},
              PhotosOf(takeq, "TAKE"), Posting)
    BY <2>1 DEF Inv, OrderInv, SendChain
  <2>3. Chain(Begun, Connecting, PhotosOf(sendq, "TRANS"), {} \union {m.photo},
              PhotosOf(takeq, "TAKE") \ {m.photo}, Posting)
    BY <1>3, <2>2, MoveE
  <2> QED
    BY <1>1, <1>3, <1>5, <2>1, <2>3 DEF SendChain
<1>10. OrderInv'
  BY <1>1, <1>3, <1>8, <1>9 DEF Inv, OrderInv
<1>11. InPlay' = InPlay /\ Sending' = Sending
  BY <1>1, <1>3, <1>5 DEF InPlay, Sending
<1>12. PlayInv'
  BY <1>1, <1>5, <1>11 DEF Inv, PlayInv
<1>13. DiskInv' /\ FailInv'
  BY <1>1, <1>3, <1>5, <1>11, NothingSaid DEF Inv, DiskInv
<1> QED
  BY <1>6, <1>7, <1>10, <1>12, <1>13 DEF Inv

\* The result joins the queue, behind those of earlier photos.
LEMMA SayResultStep ==
    ASSUME Inv, SayResult
    PROVE  Inv'
<1> DEFINE m == Msg("TAKE_OVER", vtPhoto, vt = "sayTrue")
<1>1. /\ UNCHANGED <<sendq, removed, globalAddr, phone, cmd, inHand, asked, answered>>
      /\ UNCHANGED <<pt, ptPhoto, delivered, vtQueue, vtPhoto, disk, lost>>
      /\ vt \in {"sayTrue", "sayFalse"} /\ ~removed /\ Len(takeq) < Room
      /\ takeq' = Append(takeq, m)
      /\ vt' = IF vt = "sayTrue" THEN "queue" ELSE "reset"
  BY DEF SayResult, HasRoom, vidOther, cmdVars, ptVars
<1>2. vtPhoto \in Photos
  BY <1>1 DEF Inv, ControlInv
<1>3. m \in Message /\ m.type = "TAKE_OVER" /\ m.photo = vtPhoto
      /\ m.ok = (vt = "sayTrue")
  BY <1>2 DEF Msg, Message
<1> HIDE DEF m
<1>4. /\ Shooting = {vtPhoto} /\ Shooting' = {} /\ Queueing = {}
      /\ Queueing' = (IF vt = "sayTrue" THEN {vtPhoto} ELSE {})
      /\ Echoing' = Echoing /\ Posting' = Posting
      /\ Begun' = Begun /\ Connecting' = Connecting
  BY <1>1, CmdFrame, PtFrame DEF Shooting, Queueing
<1>5. Behind(takeq, "TAKE_OVER", vtPhoto)
  BY <1>4 DEF Inv, OrderInv, AnswerChain, Chain, Behind
<1>6. /\ takeq' \in Seq(Message) /\ Len(takeq') = Len(takeq) + 1
      /\ Messages(takeq') = Messages(takeq) \union {m}
      /\ PhotosOf(takeq', "TAKE_OVER") = PhotosOf(takeq, "TAKE_OVER") \union {vtPhoto}
      /\ PhotosOf(takeq', "TAKE") = PhotosOf(takeq, "TAKE")
      /\ Sorted(takeq', "TAKE") /\ Sorted(takeq', "TAKE_OVER")
  <2>1. takeq \in Seq(Message)
    BY Typed
  <2>2. Sorted(takeq, "TAKE") /\ Sorted(takeq, "TAKE_OVER")
    BY DEF Inv, OrderInv
  <2>3. Put(takeq, "TAKE_OVER", m, takeq')
    BY <1>1, <1>3, <1>5, <2>1, <2>2, PutLast
  <2> QED
    BY <1>3, <2>2, <2>3 DEF Put
<1>7. TypeOK'
  <2>1. Len(takeq') <= Room
    BY <1>1, <1>6, Typed, PipelineAssumption
  <2> QED
    BY <1>1, <1>6, <2>1 DEF Inv, TypeOK
<1>8. ControlInv'
  BY <1>1, <1>2, <1>3, <1>6 DEF Inv, ControlInv
<1>9. AnswerChain'
  <2>1. Chain(Firsts(answered), Echoing, PhotosOf(takeq, "TAKE_OVER"), {vtPhoto},
              PhotosOf(takeq, "TAKE"), Posting)
    BY <1>4 DEF Inv, OrderInv, AnswerChain
  <2>2. Chain(Firsts(answered), Echoing, PhotosOf(takeq, "TAKE_OVER") \union {vtPhoto},
              {vtPhoto} \ {vtPhoto}, PhotosOf(takeq, "TAKE"), Posting)
    BY <2>1, MoveD
  <2>3. {vtPhoto} \ {vtPhoto} = {}
    OBVIOUS
  <2> QED
    BY <1>1, <1>4, <1>6, <2>2, <2>3 DEF AnswerChain
<1>10. SendChain'
  <2>1. Shooting' \union Queueing' \subseteq Shooting \union Queueing
    BY <1>4
  <2>2. Chain(Begun, Connecting, PhotosOf(sendq, "TRANS"), Shooting \union Queueing,
              PhotosOf(takeq, "TAKE"), Posting)
    BY DEF Inv, OrderInv, SendChain
  <2>3. Chain(Begun, Connecting, PhotosOf(sendq, "TRANS"), Shooting' \union Queueing',
              PhotosOf(takeq, "TAKE"), Posting)
    BY <2>1, <2>2, ChainShrinks
  <2> QED
    BY <1>1, <1>4, <1>6, <2>3 DEF SendChain
<1>11. OrderInv'
  BY <1>1, <1>6, <1>9, <1>10 DEF Inv, OrderInv
<1>12. InPlay' = InPlay /\ Sending' = Sending
  BY <1>1, <1>4, <1>6 DEF InPlay, Sending
<1>13. PlayInv'
  <2>1. vtPhoto \in 1 .. asked
    BY <1>4, Typed DEF InPlay
  <2> QED
    BY <1>1, <1>4, <1>12, <2>1 DEF Inv, PlayInv
<1>14. DiskInv'
  <2>1. m.ok => m.photo \in disk
    BY <1>3 DEF Inv, DiskInv
  <2> QED
    BY <1>1, <1>6, <1>12, <2>1 DEF Inv, DiskInv
<1>15. FailInv'
  <2>1. ASSUME NEW p \in Sending
        PROVE  NoFailure(p)'
    <3>1. NoFailure(p)
      BY DEF Inv, FailInv
    <3>2. p < vtPhoto /\ p \in Nat /\ vtPhoto \in Nat
      BY <1>2, <1>4, Typed DEF Inv, OrderInv, SendChain, Chain, Sending
    <3>3. p # m.photo
      BY <1>3, <3>2
    <3> QED
      BY <1>1, <1>6, <3>1, <3>3 DEF NoFailure
  <2>2. ASSUME vt = "sayTrue"
        PROVE  NoFailure(vtPhoto)'
    <3>1. \A y \in Firsts(answered) \union Echoing \union PhotosOf(takeq, "TAKE_OVER") :
             y < vtPhoto /\ y \in Nat /\ vtPhoto \in Nat
      BY <1>2, <1>4, Typed DEF Inv, OrderInv, AnswerChain, Chain, InPlay
    <3>2. vtPhoto \notin Firsts(answered) \union Echoing
                            \union PhotosOf(takeq, "TAKE_OVER")
      BY <3>1
    <3>3. \A k \in 1 .. Len(answered) : answered[k][1] # vtPhoto
      BY <3>2 DEF Firsts
    <3>4. \A n \in Messages(takeq) : n.type = "TAKE_OVER" => n.photo # vtPhoto
      BY <3>2 DEF Messages, PhotosOf, OfType
    <3>5. cmd = "echoFalse" => inHand # vtPhoto
      BY <3>2 DEF Echoing
    <3> QED
      BY <1>1, <1>3, <1>6, <2>2, <3>3, <3>4, <3>5 DEF NoFailure
  <2> QED
    BY <1>1, <1>4, <1>12, <2>1, <2>2 DEF FailInv
<1> QED
  BY <1>7, <1>8, <1>11, <1>13, <1>14, <1>15 DEF Inv

\* The file is ordered to be sent, behind those of earlier photos.
LEMMA QueueFileStep ==
    ASSUME Inv, QueueFile
    PROVE  Inv'
<1> DEFINE m == Msg("TRANS", vtPhoto, FALSE)
<1>1. /\ UNCHANGED <<takeq, removed, globalAddr, phone, cmd, inHand, asked, answered>>
      /\ UNCHANGED <<pt, ptPhoto, delivered, vtQueue, vtPhoto, disk, lost>>
      /\ vt = "queue" /\ vt' = "reset" /\ ~removed /\ Len(sendq) < Room
      /\ sendq' = Append(sendq, m)
  BY DEF QueueFile, HasRoom, vidOther, cmdVars, ptVars
<1>2. vtPhoto \in Photos
  BY <1>1 DEF Inv, ControlInv
<1>3. m \in Message /\ m.type = "TRANS" /\ m.photo = vtPhoto
  BY <1>2 DEF Msg, Message
<1> HIDE DEF m
<1>4. /\ Shooting = {} /\ Shooting' = {} /\ Queueing = {vtPhoto} /\ Queueing' = {}
      /\ Echoing' = Echoing /\ Posting' = Posting
      /\ Begun' = Begun /\ Connecting' = Connecting
  BY <1>1, CmdFrame, PtFrame DEF Shooting, Queueing
<1>5. Behind(sendq, "TRANS", vtPhoto)
  BY <1>4 DEF Inv, OrderInv, SendChain, Chain, Behind
<1>6. /\ sendq' \in Seq(Message) /\ Len(sendq') = Len(sendq) + 1
      /\ PhotosOf(sendq', "TRANS") = PhotosOf(sendq, "TRANS") \union {vtPhoto}
      /\ Sorted(sendq', "TRANS")
  <2>1. sendq \in Seq(Message) /\ Sorted(sendq, "TRANS")
    BY Typed DEF Inv, OrderInv
  <2>2. Put(sendq, "TRANS", m, sendq')
    BY <1>1, <1>3, <1>5, <2>1, PutLast
  <2> QED
    BY <1>3, <2>2 DEF Put
<1>7. TypeOK'
  <2>1. Len(sendq') <= Room
    BY <1>1, <1>6, Typed, PipelineAssumption
  <2> QED
    BY <1>1, <1>6, <2>1 DEF Inv, TypeOK
<1>8. ControlInv'
  BY <1>1 DEF Inv, ControlInv
<1>9. AnswerChain'
  BY <1>1, <1>4 DEF Inv, OrderInv, AnswerChain
<1>10. SendChain'
  <2>1. Shooting \union Queueing = {vtPhoto} /\ Shooting' \union Queueing' = {}
        /\ {vtPhoto} \ {vtPhoto} = {}
    BY <1>4
  <2>2. Chain(Begun, Connecting, PhotosOf(sendq, "TRANS"), {vtPhoto},
              PhotosOf(takeq, "TAKE"), Posting)
    BY <2>1 DEF Inv, OrderInv, SendChain
  <2>3. Chain(Begun, Connecting, PhotosOf(sendq, "TRANS") \union {vtPhoto},
              {vtPhoto} \ {vtPhoto}, PhotosOf(takeq, "TAKE"), Posting)
    BY <2>2, MoveD
  <2> QED
    BY <1>1, <1>4, <1>6, <2>1, <2>3 DEF SendChain
<1>11. OrderInv'
  BY <1>1, <1>6, <1>9, <1>10 DEF Inv, OrderInv
<1>12. InPlay' = InPlay /\ Sending' = Sending \union {vtPhoto}
  BY <1>1, <1>4, <1>6 DEF InPlay, Sending
<1>13. PlayInv'
  BY <1>1, <1>4, <1>12 DEF Inv, PlayInv
<1>14. DiskInv' /\ FailInv'
  <2>1. Sending' \subseteq disk' /\ Sending' \union Queueing' \subseteq Sending \union Queueing
    BY <1>1, <1>4, <1>12 DEF Inv, DiskInv
  <2> QED
    BY <1>1, <2>1, NothingSaid DEF Inv, DiskInv
<1> QED
  BY <1>7, <1>8, <1>11, <1>13, <1>14 DEF Inv

-----------------------------------------------------------------------------
(* photo_trans. *)

\* A message of another type leaves the photos of this one.
Beside(q, r, u) ==
    /\ r \in Seq(Message) /\ Len(r) = Len(q) + 1
    /\ PhotosOf(r, u) = PhotosOf(q, u)
    /\ Sorted(q, u) => Sorted(r, u)

LEMMA PutOther ==
    ASSUME NEW q \in Seq(Message), NEW m \in Message, NEW u, u # m.type
    PROVE  Beside(q, Append(q, m), u)
<1> DEFINE r == Append(q, m)
<1>1. /\ r \in Seq(Message) /\ Len(r) = Len(q) + 1 /\ Len(q) \in Nat
      /\ r[Len(q) + 1] = m
      /\ \A k \in 1 .. Len(q) : r[k] = q[k]
  BY AppendProperties
<1>2. 1 .. Len(r) = (1 .. Len(q)) \union {Len(q) + 1}
  BY <1>1
<1>3. OfType(r, u) = OfType(q, u)
  BY <1>1, <1>2 DEF OfType
<1>4. \A k \in OfType(q, u) : r[k] = q[k]
  BY <1>1 DEF OfType
<1> QED
  BY <1>1, <1>3, <1>4 DEF Beside, PhotosOf, Sorted

\* A transfer with its last part set.
WithThird(x, d) == [x EXCEPT ![3] = d]

LEMMA SetThird ==
    ASSUME NEW a, NEW b, NEW c, NEW d
    PROVE  WithThird(<<a, b, c>>, d) = <<a, b, d>>
BY DEF WithThird

Triples == Photos \X Clients \X BOOLEAN

LEMMA SentTriple ==
    ASSUME NEW x \in Triples, NEW d \in BOOLEAN
    PROVE  WithThird(x, d) \in Triples /\ WithThird(x, d)[1] = x[1]
<1>1. PICK a \in Photos, b \in Clients, c \in BOOLEAN : x = <<a, b, c>>
  BY DEF Triples
<1>2. WithThird(x, d) = <<a, b, d>>
  BY <1>1, SetThird
<1>3. /\ <<a, b, d>> \in Triples
      /\ <<a, b, d>>[1] = a /\ x[1] = a
  BY <1>1 DEF Triples
<1> QED
  BY <1>2, <1>3

\* r is s with e in place n.
Changed(s, r, n, e, S) ==
    /\ r \in Seq(S) /\ Len(r) = Len(s)
    /\ \A j \in 1 .. Len(s) : r[j] = IF j = n THEN e ELSE s[j]

LEMMA ChangeOne ==
    ASSUME NEW S, NEW s \in Seq(S), NEW n \in 1 .. Len(s), NEW e \in S
    PROVE  Changed(s, [s EXCEPT ![n] = e], n, e, S)
BY ExceptSeq DEF Changed

\* The transfer that is on is marked as sent.
LEMMA MarkSent ==
    ASSUME Inv, delivered # << >>, delivered' = [delivered EXCEPT ![Len(delivered)][3] = TRUE]
    PROVE  /\ delivered' \in Seq(Photos \X Clients \X BOOLEAN)
           /\ Firsts(delivered') = Firsts(delivered) /\ Increasing(delivered')
<1> DEFINE n == Len(delivered)
           e == WithThird(delivered[n], TRUE)
           S == Photos \X Clients \X BOOLEAN
<1>1. delivered \in Seq(S)
  BY Typed
<1>2. n \in 1 .. Len(delivered) /\ n \in Nat
  BY <1>1
<1>3. delivered[n] \in S
  BY <1>1, <1>2
<1>4. e \in S /\ e[1] = delivered[n][1]
  <2>1. delivered[n] \in Triples /\ TRUE \in BOOLEAN
    BY <1>3 DEF Triples
  <2>2. WithThird(delivered[n], TRUE) \in Triples
    BY <2>1, SentTriple
  <2>3. WithThird(delivered[n], TRUE)[1] = delivered[n][1]
    BY <2>1, SentTriple
  <2> QED
    BY <2>2, <2>3 DEF Triples
<1>5. delivered' = [delivered EXCEPT ![n] = e]
  BY DEF WithThird
<1> HIDE DEF e, n, S
<1>6. /\ delivered' \in Seq(S)
      /\ Len(delivered') = Len(delivered)
      /\ \A j \in 1 .. Len(delivered) :
            delivered'[j] = IF j = n THEN e ELSE delivered[j]
  <2>1. Changed(delivered, [delivered EXCEPT ![n] = e], n, e, S)
    BY <1>1, <1>2, <1>4, ChangeOne
  <2>2. Changed(delivered, delivered', n, e, S)
    BY <1>5, <2>1, Zenon
  <2> QED
    BY <2>2 DEF Changed
<1>7. \A j \in 1 .. Len(delivered) : delivered'[j][1] = delivered[j][1]
  BY <1>4, <1>6
<1>8. Increasing(delivered)
  BY DEF Inv, OrderInv
<1> QED
  BY <1>6, <1>7, <1>8 DEF Firsts, Increasing, S

LEMMA PtQuietStep ==
    ASSUME Inv, PtSend \/ PtSendFail \/ PtKilled \/ PtSay \/ PtGone
    PROVE  Inv'
<1>1. /\ UNCHANGED <<takeq, removed, globalAddr, phone, cmd, inHand, asked, answered>>
      /\ UNCHANGED <<vt, vtQueue, vtPhoto, disk, lost, ptPhoto>>
      /\ pt \in {"wait", "send", "sayTrue", "sayFalse"}
      /\ pt' \in {"wait", "sayTrue", "sayFalse", "dead"}
      /\ pt' \in {"sayTrue", "sayFalse"} => pt = "send"
  BY DEF PtSend, PtSendFail, PtKilled, PtSay, PtGone, ptOther, cmdVars, vidVars
<1>2. /\ delivered' \in Seq(Photos \X Clients \X BOOLEAN)
      /\ Firsts(delivered') = Firsts(delivered) /\ Increasing(delivered')
  <2>1. CASE PtSend
    <3>1. delivered # << >>
      BY <2>1 DEF PtSend, Inv, ControlInv
    <3>2. delivered' = [delivered EXCEPT ![Len(delivered)][3] = TRUE]
      BY <2>1 DEF PtSend
    <3> QED
      BY <3>1, <3>2, MarkSent
  <2>2. CASE ~PtSend
    <3>1. delivered' = delivered
      BY <2>2 DEF PtSendFail, PtKilled, PtSay, PtGone
    <3> QED
      BY <3>1, Typed DEF Inv, OrderInv
  <2> QED
    BY <2>1, <2>2
<1>3. /\ sendq' \in Seq(Message) /\ Len(sendq') <= Room
      /\ PhotosOf(sendq', "TRANS") = PhotosOf(sendq, "TRANS")
      /\ Sorted(sendq', "TRANS")
      /\ removed' => sendq' = << >>
  <2>1. sendq \in Seq(Message) /\ Len(sendq) <= Room /\ Sorted(sendq, "TRANS")
        /\ (removed => sendq = << >>)
    BY DEF Inv, TypeOK, OrderInv, ControlInv
  <2>2. CASE PtSay
    <3> DEFINE m == Msg("TRANS_OVER", ptPhoto, pt = "sayTrue")
    <3>1. sendq' = Append(sendq, m) /\ Len(sendq) < Room /\ ~removed
          /\ pt \in {"sayTrue", "sayFalse"}
      BY <2>2 DEF PtSay, HasRoom
    <3>2. ptPhoto \in Photos
      BY <3>1 DEF Inv, ControlInv
    <3>3. m \in Message /\ "TRANS" # m.type
      BY <3>2 DEF Msg, Message
    <3> HIDE DEF m
    <3>4. /\ sendq' \in Seq(Message) /\ Len(sendq') = Len(sendq) + 1
          /\ PhotosOf(sendq', "TRANS") = PhotosOf(sendq, "TRANS")
          /\ Sorted(sendq', "TRANS")
      <4>1. Beside(sendq, Append(sendq, m), "TRANS")
        BY <2>1, <3>3, PutOther
      <4> QED
        BY <2>1, <3>1, <4>1 DEF Beside
    <3>5. Len(sendq') <= Room
      BY <2>1, <3>1, <3>4, PipelineAssumption
    <3> QED
      BY <1>1, <3>1, <3>4, <3>5
  <2>3. CASE ~PtSay
    <3>1. sendq' = sendq
      BY <2>3 DEF PtSend, PtSendFail, PtKilled, PtGone
    <3> QED
      BY <1>1, <2>1, <3>1
  <2> QED
    BY <2>2, <2>3
<1>4. TypeOK'
  BY <1>1, <1>2, <1>3 DEF Inv, TypeOK
<1>5. ControlInv'
  BY <1>1, <1>3 DEF Inv, ControlInv
<1>6. Begun' = Begun /\ Connecting' = Connecting
  BY <1>1, <1>2 DEF Begun, Connecting
<1>7. OrderInv' /\ PlayInv' /\ DiskInv' /\ FailInv'
  BY <1>1, <1>2, <1>3, <1>6, CmdFrame, VidFrame, StagesStay DEF Inv, DiskInv
<1> QED
  BY <1>4, <1>5, <1>7 DEF Inv

\* The first order is taken; the photo is on the disk, so a connection follows.
LEMMA PtRecvStep ==
    ASSUME Inv, PtRecv
    PROVE  Inv'
<1> DEFINE m == sendq[Oldest(sendq, "TRANS")]
<1>1. /\ UNCHANGED <<takeq, removed, globalAddr, phone, cmd, inHand, asked, answered>>
      /\ UNCHANGED <<vt, vtQueue, vtPhoto, disk, lost, delivered>>
      /\ OfType(sendq, "TRANS") # {} /\ pt = "wait" /\ ~removed
      /\ ptPhoto' = m.photo
      /\ sendq' = RemoveAt(sendq, Oldest(sendq, "TRANS"))
      /\ pt' = IF ptPhoto' \in disk THEN "connect" ELSE "sayFalse"
  BY DEF PtRecv, ptOther, cmdVars, vidVars
<1>2. m = sendq[Oldest(sendq, "TRANS")]
  OBVIOUS
<1> HIDE DEF m
<1>3. /\ m \in Message
      /\ sendq' \in Seq(Message) /\ Len(sendq') = Len(sendq) - 1
      /\ m.photo \in PhotosOf(sendq, "TRANS")
      /\ \A y \in PhotosOf(sendq, "TRANS") : y = m.photo \/ m.photo < y
      /\ PhotosOf(sendq', "TRANS") = PhotosOf(sendq, "TRANS") \ {m.photo}
      /\ Sorted(sendq', "TRANS")
  <2>1. sendq \in Seq(Message) /\ Sorted(sendq, "TRANS")
    BY Typed DEF Inv, OrderInv
  <2> QED
    BY <1>1, <1>2, <2>1, TakeOldest
<1>4. m.photo \in Photos /\ m.photo \in disk /\ pt' = "connect"
  <2>1. m.photo \in disk
    BY <1>3 DEF Inv, DiskInv, Sending
  <2> QED
    BY <1>1, <1>3, <2>1 DEF Message
<1>5. /\ Connecting = {} /\ Connecting' = {m.photo} /\ Begun' \subseteq Begun
      /\ Shooting' = Shooting /\ Queueing' = Queueing
      /\ Echoing' = Echoing /\ Posting' = Posting
  BY <1>1, <1>4, CmdFrame, VidFrame DEF Connecting, Begun
<1>6. TypeOK'
  <2>1. Len(sendq') <= Room
    BY <1>3, Typed, PipelineAssumption DEF Inv, TypeOK
  <2>2. ptPhoto' \in 0 .. MaxPhotos
    BY <1>1, <1>4, PipelineAssumption DEF Photos
  <2> QED
    BY <1>1, <1>3, <1>4, <2>1, <2>2 DEF Inv, TypeOK
<1>7. ControlInv'
  BY <1>1, <1>4 DEF Inv, ControlInv
<1>8. AnswerChain'
  BY <1>1, <1>5 DEF Inv, OrderInv, AnswerChain
<1>9. SendChain'
  <2>1. Chain(Begun, {}, PhotosOf(sendq, "TRANS"), Shooting \union Queueing,
              PhotosOf(takeq, "TAKE"), Posting)
    BY <1>5 DEF Inv, OrderInv, SendChain
  <2>2. Chain(Begun, {} \union {m.photo}, PhotosOf(sendq, "TRANS") \ {m.photo},
              Shooting \union Queueing, PhotosOf(takeq, "TAKE"), Posting)
    BY <1>3, <2>1, MoveC
  <2>3. {} \union {m.photo} \subseteq {m.photo} /\ {m.photo} \subseteq {} \union {m.photo}
    OBVIOUS
  <2>4. Chain(Begun', {m.photo}, PhotosOf(sendq, "TRANS") \ {m.photo},
              Shooting \union Queueing, PhotosOf(takeq, "TAKE"), Posting)
    BY <1>5, <2>2, <2>3, ChainShrinks
  <2> QED
    BY <1>1, <1>3, <1>5, <2>4 DEF SendChain
<1>10. OrderInv'
  BY <1>1, <1>3, <1>8, <1>9 DEF Inv, OrderInv
<1>11. InPlay' = InPlay /\ Sending' \subseteq Sending
  BY <1>1, <1>3, <1>5 DEF InPlay, Sending
<1>12. PlayInv'
  BY <1>1, <1>5, <1>11 DEF Inv, PlayInv
<1>13. DiskInv' /\ FailInv'
  <2>1. Sending' \subseteq disk' /\ Sending' \union Queueing' \subseteq Sending \union Queueing
    BY <1>1, <1>5, <1>11 DEF Inv, DiskInv
  <2> QED
    BY <1>1, <2>1, NothingSaid DEF Inv, DiskInv
<1> QED
  BY <1>6, <1>7, <1>10, <1>12, <1>13 DEF Inv

\* The photo at hand is sent, or the phone refuses; it is behind all before it.
LEMMA PtConnectStep ==
    ASSUME Inv, PtConnect \/ PtConnectFail
    PROVE  Inv'
<1>1. /\ UNCHANGED <<takeq, sendq, removed, globalAddr, phone, cmd, inHand, asked>>
      /\ UNCHANGED <<answered, vt, vtQueue, vtPhoto, disk, lost, ptPhoto>>
      /\ pt = "connect"
      /\ \/ pt' = "send" /\ delivered' = Append(delivered, <<ptPhoto, globalAddr, FALSE>>)
         \/ pt' = "dead" /\ delivered' = delivered
  BY DEF PtConnect, PtConnectFail, ptOther, cmdVars, vidVars
<1>2. ptPhoto \in Photos /\ ptPhoto \in Nat \ {0}
  BY <1>1, Typed DEF Inv, ControlInv
<1>3. /\ Connecting = {ptPhoto} /\ Connecting' = {} /\ Begun = Firsts(delivered)
      /\ Shooting' = Shooting /\ Queueing' = Queueing
      /\ Echoing' = Echoing /\ Posting' = Posting
  BY <1>1, CmdFrame, VidFrame DEF Connecting, Begun
<1>4. /\ delivered' \in Seq(Photos \X Clients \X BOOLEAN) /\ Increasing(delivered')
      /\ Firsts(delivered') \subseteq Firsts(delivered) \union {ptPhoto}
      /\ pt' = "send" => delivered' # << >>
  <2>1. delivered \in Seq(Photos \X Clients \X BOOLEAN) /\ Increasing(delivered)
    BY Typed DEF Inv, OrderInv
  <2>2. CASE pt' = "dead"
    BY <1>1, <2>1, <2>2
  <2>3. CASE pt' = "send"
    <3> DEFINE e == <<ptPhoto, globalAddr, FALSE>>
    <3>1. globalAddr \in Clients
      <4>1. ptPhoto \in 1 .. asked
        BY <1>3 DEF Inv, PlayInv, Sending
      <4>2. asked # 0
        BY <4>1, Typed
      <4> QED
        BY <4>2, PipelineAssumption DEF Inv, TypeOK, ControlInv, Clients
    <3>2. e \in Photos \X Clients \X BOOLEAN /\ e[1] = ptPhoto
      BY <1>2, <3>1
    <3>3. delivered' = Append(delivered, e)
      BY <1>1, <2>3
    <3> HIDE DEF e
    <3>4. \A x \in Firsts(delivered) : x < e[1]
      BY <1>3, <3>2 DEF Inv, OrderInv, SendChain, Chain
    <3>5. Grown(Photos \X Clients \X BOOLEAN, delivered, e, delivered')
      BY <2>1, <3>2, <3>3, <3>4, ListGrows
    <3>6. Len(delivered') # 0
      BY <2>1, <3>5 DEF Grown
    <3>7. delivered' # << >>
      BY <3>6
    <3> QED
      BY <3>2, <3>5, <3>7 DEF Grown
  <2> QED
    BY <1>1, <2>2, <2>3
<1>5. Begun' \subseteq Begun \union {ptPhoto}
  BY <1>1, <1>3, <1>4 DEF Begun
<1>6. TypeOK'
  <2>1. TypeOK
    BY DEF Inv
  <2>2. pt' \in {"wait", "connect", "send", "sayTrue", "sayFalse", "dead"}
    BY <1>1
  <2>3. delivered' \in Seq(Photos \X Clients \X BOOLEAN)
    BY <1>4
  <2> QED
    BY <1>1, <2>1, <2>2, <2>3 DEF TypeOK
<1>7. ControlInv'
  BY <1>1, <1>2, <1>4 DEF Inv, ControlInv
<1>8. AnswerChain'
  BY <1>1, <1>3 DEF Inv, OrderInv, AnswerChain
<1>9. SendChain'
  <2>1. Chain(Begun, {ptPhoto}, PhotosOf(sendq, "TRANS"), Shooting \union Queueing,
              PhotosOf(takeq, "TAKE"), Posting)
    BY <1>3 DEF Inv, OrderInv, SendChain
  <2>2. Chain(Begun \union {ptPhoto}, {ptPhoto} \ {ptPhoto}, PhotosOf(sendq, "TRANS"),
              Shooting \union Queueing, PhotosOf(takeq, "TAKE"), Posting)
    BY <2>1, MoveB
  <2>3. Chain(Begun', {}, PhotosOf(sendq, "TRANS"), Shooting \union Queueing,
              PhotosOf(takeq, "TAKE"), Posting)
    BY <1>5, <2>2, ChainShrinks
  <2> QED
    BY <1>1, <1>3, <2>3 DEF SendChain
<1>10. OrderInv'
  BY <1>1, <1>4, <1>8, <1>9 DEF Inv, OrderInv
<1>11. InPlay' = InPlay /\ Sending' \subseteq Sending
  BY <1>1, <1>3, <1>5 DEF InPlay, Sending
<1>12. PlayInv'
  BY <1>1, <1>3, <1>11 DEF Inv, PlayInv
<1>13. DiskInv' /\ FailInv'
  <2>1. Sending' \subseteq disk' /\ Sending' \union Queueing' \subseteq Sending \union Queueing
    BY <1>1, <1>3, <1>11 DEF Inv, DiskInv
  <2> QED
    BY <1>1, <2>1, NothingSaid DEF Inv, DiskInv
<1> QED
  BY <1>6, <1>7, <1>10, <1>12, <1>13 DEF Inv

LEMMA StutterStep ==
    ASSUME Inv, UNCHANGED vars
    PROVE  Inv'
<1>1. /\ UNCHANGED <<takeq, sendq, removed, globalAddr, phone, cmd, inHand, asked>>
      /\ UNCHANGED <<answered, vt, vtQueue, vtPhoto, disk, lost, pt, ptPhoto, delivered>>
  BY DEF vars, cmdVars, vidVars, ptVars
<1>2. TypeOK' /\ ControlInv'
  BY <1>1 DEF Inv, TypeOK, ControlInv
<1>3. OrderInv' /\ PlayInv' /\ DiskInv' /\ FailInv'
  BY <1>1, CmdFrame, VidFrame, PtFrame, StagesStay DEF Inv, OrderInv, DiskInv
<1> QED
  BY <1>2, <1>3 DEF Inv

-----------------------------------------------------------------------------
LEMMA InitInv == Init => Inv
<1> SUFFICES ASSUME Init PROVE Inv
  OBVIOUS
<1>1. TypeOK
  <2>1. 0 \in 0 .. MaxClients /\ 0 \in 0 .. MaxPhotos /\ 0 <= Room
    BY PipelineAssumption
  <2>2. /\ << >> \in Seq(Message) /\ << >> \in Seq(Photos \X BOOLEAN)
        /\ << >> \in Seq(Photos \X Clients \X BOOLEAN) /\ Len(<< >>) = 0
    BY EmptySeq
  <2> QED
    BY <2>1, <2>2 DEF Init, TypeOK, NoPhoto
<1>2. /\ Len(takeq) = 0 /\ Len(sendq) = 0 /\ Len(answered) = 0 /\ Len(delivered) = 0
      /\ Messages(takeq) = {} /\ Firsts(answered) = {} /\ Firsts(delivered) = {}
      /\ \A u : OfType(takeq, u) = {} /\ OfType(sendq, u) = {}
  BY DEF Init, Messages, OfType, Firsts
<1>3. /\ Echoing = {} /\ Posting = {} /\ Shooting = {} /\ Queueing = {}
      /\ Begun = {} /\ Connecting = {}
      /\ PhotosOf(takeq, "TAKE") = {} /\ PhotosOf(takeq, "TAKE_OVER") = {}
      /\ PhotosOf(sendq, "TRANS") = {}
  BY <1>2 DEF Init, Echoing, Posting, Shooting, Queueing, Begun, Connecting, PhotosOf
<1>4. ControlInv
  BY <1>2 DEF Init, ControlInv
<1>5. OrderInv
  BY <1>2, <1>3 DEF OrderInv, AnswerChain, SendChain, Chain, Sorted, Increasing
<1>6. InPlay = {} /\ Sending = {}
  BY <1>2, <1>3 DEF InPlay, Sending
<1>7. PlayInv
  <2>1. 1 .. asked = {} /\ lost = {}
    BY DEF Init
  <2> QED
    BY <1>3, <1>6, <2>1 DEF PlayInv
<1>8. DiskInv /\ FailInv
  BY <1>2, <1>3, <1>6 DEF Init, DiskInv, FailInv
<1> QED
  BY <1>1, <1>4, <1>5, <1>7, <1>8 DEF Inv

LEMMA NextInv == ASSUME Inv, [Next]_vars PROVE Inv'
<1>1. CASE CmdNext
  <2>1. CmdFails => Quit
    BY DEF CmdFails
  <2> QED
    BY <1>1, <2>1, CmdQuietStep, TakeCommandStep, PostTakeStep, CheckOneStep, EchoStep,
       QuitStep, KilledStep DEF CmdNext, CmdProgress
<1>2. CASE VidNext
  BY <1>2, VidQuietStep, VidStopStep, VidTakeStep, SayResultStep, QueueFileStep
     DEF VidNext, VidProgress, VidGone
<1>3. CASE PtNext
  BY <1>3, PtQuietStep, PtRecvStep, PtConnectStep DEF PtNext, PtProgress
<1>4. CASE UNCHANGED vars
  BY <1>4, StutterStep
<1> QED
  BY <1>1, <1>2, <1>3, <1>4 DEF Next

\* The invariant of the three processes (cmd_server.c, video.c, photo_send.c).
THEOREM PipelineInvariant == Spec => []Inv
<1> QED
  BY InitInv, NextInv, PTL DEF Spec

\* Types; no queue is filled beyond msg_qbytes.
THEOREM PipelineTypeCorrect == Spec => []TypeOK
<1>1. Inv => TypeOK
  BY DEF Inv
<1> QED
  BY <1>1, PipelineInvariant, PTL

\* check_take_photo_results sends the phone its answers in the order of its
\* commands, none twice, whatever sessions end and processes fail.
THEOREM AnswersComeInOrder == Spec => []AnswersInOrder
<1>1. Inv => AnswersInOrder
  BY DEF Inv, OrderInv, AnswersInOrder
<1> QED
  BY <1>1, PipelineInvariant, PTL

\* photo_trans connects once for a photo, in the order they were asked for.
THEOREM FilesAreSentInOrder == Spec => []SentInOrder
<1>1. Inv => SentInOrder
  BY DEF Inv, OrderInv, SentInOrder
<1> QED
  BY <1>1, PipelineInvariant, PTL

\* A success that is reported, or will be, is a file on the disk.
THEOREM AnswersAreTruthful == Spec => []AnswersTruthful
<1>1. ASSUME Inv PROVE AnswersTruthful
  <2>1. \A k \in OfType(takeq, "TAKE_OVER") : takeq[k] \in Messages(takeq)
                                              /\ takeq[k].type = "TAKE_OVER"
    BY DEF OfType, Messages
  <2> QED
    BY <1>1, <2>1 DEF Inv, DiskInv, AnswersTruthful
<1> QED
  BY <1>1, PipelineInvariant, PTL

LEMMA TransfersTaken == ASSUME Inv PROVE TransfersAreOfTaken
<1>1. Transferring \subseteq Sending
  <2>1. \A p \in Photos : InQueue(sendq, "TRANS", p) # {} => p \in PhotosOf(sendq, "TRANS")
    BY DEF InQueue, PhotosOf
  <2>2. {delivered[k][1] : k \in 1 .. Len(delivered)} \subseteq Begun
    BY DEF Begun, Firsts
  <2>3. ({ptPhoto} \ {NoPhoto}) \subseteq Begun \union Connecting
    BY DEF Begun, Connecting
  <2> QED
    BY <2>1, <2>2, <2>3 DEF Transferring, Sending
<1>2. \A p \in ReportedFailed : ~NoFailure(p)
  BY DEF ReportedFailed, NoFailure, Messages, OfType
<1>3. \A p \in Sending : NoFailure(p)
  BY DEF Inv, FailInv
<1>4. Sending \subseteq disk
  BY DEF Inv, DiskInv
<1> QED
  BY <1>1, <1>2, <1>3, <1>4 DEF TransfersAreOfTaken

\* A photo on its way to the phone was saved, and nothing tells the phone that
\* taking it failed (video.c queues the file after a success only).
THEOREM TransfersAreOfTakenPhotos == Spec => []TransfersAreOfTaken
<1>1. Inv => TransfersAreOfTaken
  BY TransfersTaken
<1> QED
  BY <1>1, PipelineInvariant, PTL

\* A number in a stage of the chain is in no other.
LEMMA ChainApart ==
    ASSUME NEW a, NEW b, NEW c, NEW d, NEW e, NEW f, NEW p \in Nat,
           Chain(a, b, c, d, e, f)
    PROVE  /\ p \in a => p \notin b /\ p \notin c /\ p \notin d /\ p \notin e /\ p \notin f
           /\ p \in b => p \notin c /\ p \notin d /\ p \notin e /\ p \notin f
           /\ p \in c => p \notin d /\ p \notin e /\ p \notin f
           /\ p \in d => p \notin e /\ p \notin f
           /\ p \in e => p \notin f
<1>1. ~(p < p)
  OBVIOUS
<1> QED
  BY <1>1 DEF Chain

\* Two messages of a type are not about one photo.
LEMMA OneMessage ==
    ASSUME NEW q \in Seq(Message), NEW type, NEW p, Sorted(q, type)
    PROVE  \A j, k \in InQueue(q, type, p) : j = k
<1> SUFFICES ASSUME NEW j \in InQueue(q, type, p), NEW k \in InQueue(q, type, p), j # k
             PROVE  FALSE
  OBVIOUS
<1>1. /\ j \in OfType(q, type) /\ k \in OfType(q, type)
      /\ q[j].photo = p /\ q[k].photo = p
  BY DEF InQueue
<1>2. j \in 1 .. Len(q) /\ k \in 1 .. Len(q)
  BY <1>1 DEF OfType
<1>3. p \in Nat
  <2>1. q[j] \in Message
    BY <1>2
  <2> QED
    BY <1>1, <2>1, PipelineAssumption DEF Message, Photos
<1>4. j < k \/ k < j
  BY <1>2
<1> QED
  BY <1>1, <1>3, <1>4 DEF Sorted

\* A photo is answered once.
LEMMA OneAnswer ==
    ASSUME Inv, NEW p \in Nat
    PROVE  \A j, k \in 1 .. Len(answered) :
              answered[j][1] = p /\ answered[k][1] = p => j = k
<1> SUFFICES ASSUME NEW j \in 1 .. Len(answered), NEW k \in 1 .. Len(answered),
                    answered[j][1] = p, answered[k][1] = p, j # k
             PROVE  FALSE
  OBVIOUS
<1>1. Increasing(answered)
  BY DEF Inv, OrderInv
<1>2. j < k \/ k < j
  BY Typed
<1> QED
  BY <1>1, <1>2 DEF Increasing

LEMMA OnePlace ==
    ASSUME Inv, NEW p \in 1 .. asked
    PROVE  \E x : Places(p) = {x}
<1> DEFINE hand == IF inHand = p THEN {<<"hand">>} ELSE {}
           request == {<<"request", k>> : k \in InQueue(takeq, "TAKE", p)}
           answer == {<<"answer", k>> : k \in InQueue(takeq, "TAKE_OVER", p)}
           video == IF vt \in {"take", "sayTrue", "sayFalse"} /\ vtPhoto = p
                    THEN {<<"video">>} ELSE {}
           told == {<<"answered", k>> :
                      k \in {j \in 1 .. Len(answered) : answered[j][1] = p}}
           gone == IF p \in lost THEN {<<"lost">>} ELSE {}
<1>1. p \in Nat \ {0} /\ p \in InPlay \union lost /\ (p \in InPlay => p \notin lost)
  BY Typed DEF Inv, PlayInv
<1>2. hand # {} <=> p \in Echoing \union Posting
  BY <1>1 DEF Echoing, Posting, NoPhoto, Inv, ControlInv
<1>3. request # {} <=> p \in PhotosOf(takeq, "TAKE")
  BY DEF PhotosOf, InQueue
<1>4. answer # {} <=> p \in PhotosOf(takeq, "TAKE_OVER")
  BY DEF PhotosOf, InQueue
<1>5. video # {} <=> p \in Shooting
  BY DEF Shooting
<1>6. told # {} <=> p \in Firsts(answered)
  BY DEF Firsts
<1>7. gone # {} <=> p \in lost
  OBVIOUS
<1>8. /\ \A x, y \in hand : x = y
      /\ \A x, y \in video : x = y
      /\ \A x, y \in gone : x = y
  OBVIOUS
<1>9. takeq \in Seq(Message) /\ Sorted(takeq, "TAKE") /\ Sorted(takeq, "TAKE_OVER")
  BY Typed DEF Inv, OrderInv
<1>10. /\ \A x, y \in request : x = y
       /\ \A x, y \in answer : x = y
  <2>1. /\ \A j, k \in InQueue(takeq, "TAKE", p) : j = k
        /\ \A j, k \in InQueue(takeq, "TAKE_OVER", p) : j = k
    BY <1>9, OneMessage
  <2> QED
    BY <2>1
<1>11. \A x, y \in told : x = y
  BY <1>1, OneAnswer
<1>12. Places(p) = hand \union request \union answer \union video \union told \union gone
  BY DEF Places
<1> HIDE DEF hand, request, answer, video, told, gone
<1>13. Chain(Firsts(answered), Echoing, PhotosOf(takeq, "TAKE_OVER"), Shooting,
             PhotosOf(takeq, "TAKE"), Posting)
  BY DEF Inv, OrderInv, AnswerChain
<1>14. \/ hand # {} \/ request # {} \/ answer # {} \/ video # {} \/ told # {}
       \/ gone # {}
  BY <1>1, <1>2, <1>3, <1>4, <1>5, <1>6, <1>7 DEF InPlay
<1>15. /\ gone # {} => hand = {} /\ request = {} /\ answer = {} /\ video = {} /\ told = {}
       /\ told # {} => hand = {} /\ request = {} /\ answer = {} /\ video = {}
       /\ answer # {} => hand = {} /\ request = {} /\ video = {}
       /\ video # {} => hand = {} /\ request = {}
       /\ request # {} => hand = {}
  <2>1. gone # {} => hand = {} /\ request = {} /\ answer = {} /\ video = {} /\ told = {}
    BY <1>1, <1>2, <1>3, <1>4, <1>5, <1>6, <1>7 DEF InPlay
  <2> DEFINE in1 == p \in Firsts(answered)
             in2 == p \in Echoing
             in3 == p \in PhotosOf(takeq, "TAKE_OVER")
             in4 == p \in Shooting
             in5 == p \in PhotosOf(takeq, "TAKE")
             in6 == p \in Posting
  <2>2. /\ in1 => ~in2 /\ ~in3 /\ ~in4 /\ ~in5 /\ ~in6
        /\ in2 => ~in3 /\ ~in4 /\ ~in5 /\ ~in6
        /\ in3 => ~in4 /\ ~in5 /\ ~in6
        /\ in4 => ~in5 /\ ~in6
        /\ in5 => ~in6
    BY <1>1, <1>13, ChainApart
  <2> QED
    BY <1>2, <1>3, <1>4, <1>5, <1>6, <2>1, <2>2
<1>16. \A x, y \in Places(p) : x = y
  BY <1>8, <1>10, <1>11, <1>12, <1>15
<1>17. \E x : x \in Places(p)
  BY <1>12, <1>14
<1> QED
  BY <1>16, <1>17

\* A request is in one place, whatever processes end: the hand of cmd_server,
\* the queue, the video thread, the answers, or lost with a known reason.
THEOREM NoRequestVanishes == Spec => []EveryRequestAccountedFor
<1>1. ASSUME Inv PROVE EveryRequestAccountedFor
  <2> SUFFICES ASSUME NEW p \in 1 .. asked PROVE Cardinality(Places(p)) = 1
    BY DEF EveryRequestAccountedFor
  <2>1. PICK x : Places(p) = {x}
    BY <1>1, OnePlace
  <2> QED
    BY <2>1, FS_Singleton
<1> QED
  BY <1>1, PipelineInvariant, PTL

-----------------------------------------------------------------------------
(* The photo service.  What a process holds, or a queue, is what the        *)
(* service has still to take and to answer.                                 *)
InWork ==
    Echoing \union PhotosOf(takeq, "TAKE_OVER") \union Shooting
    \union PhotosOf(takeq, "TAKE") \union Posting

LEMMA InWorkIsPending == ASSUME Inv PROVE InWork \subseteq Service!Pending
<1> SUFFICES ASSUME NEW p \in InWork PROVE p \in Service!Pending
  OBVIOUS
<1>1. p \in InPlay /\ p \in 1 .. asked /\ p \notin lost
  <2>1. p \in InPlay
    BY DEF InWork, InPlay
  <2> QED
    BY <2>1, Typed DEF Inv, PlayInv
<1>2. \A x \in Firsts(answered) : x < p
  BY DEF InWork, Inv, OrderInv, AnswerChain, Chain
<1>3. Service!After(answered, p)
  BY <1>2 DEF Service!After, Firsts
<1> QED
  BY <1>1, <1>3 DEF Service!Pending

LEMMA InitServes == ASSUME Init PROVE Service!Init
BY DEF Init, Service!Init

\* What is lost when a process ends was in work.
LEMMA LosingServes ==
    ASSUME Inv, NEW gone, gone \subseteq InWork, lost' = lost \union gone,
           UNCHANGED <<globalAddr, asked, disk, answered, delivered>>
    PROVE  Service!Next
<1>1. Service!Lose
  BY InWorkIsPending DEF Service!Lose
<1> QED
  BY <1>1 DEF Service!Next

\* cmd_server's answer is the next one, and it is true.
LEMMA EchoServes ==
    ASSUME Inv, Echo
    PROVE  Service!Next \/ UNCHANGED Service!vars
<1>1. /\ UNCHANGED <<globalAddr, asked, disk, delivered>>
      /\ cmd \in {"echoTrue", "echoFalse", "echoTime"}
      /\ IF cmd = "echoTime" \/ phone = "closed" THEN answered' = answered
         ELSE answered' = Append(answered, <<inHand, cmd = "echoTrue">>)
      /\ lost' = IF phone = "closed" THEN lost \union ({inHand} \ {NoPhoto}) ELSE lost
  BY DEF Echo, EchoPlaces, vidVars, ptVars
<1>2. ({inHand} \ {NoPhoto}) \subseteq InWork
  BY <1>1 DEF Inv, ControlInv, InWork, Echoing
<1>3. CASE phone = "closed"
  <2>1. answered' = answered /\ lost' = lost \union ({inHand} \ {NoPhoto})
    BY <1>1, <1>3
  <2> QED
    BY <1>1, <1>2, <2>1, LosingServes
<1>4. CASE phone # "closed" /\ cmd = "echoTime"
  BY <1>1, <1>4 DEF Service!vars
<1>5. CASE phone # "closed" /\ cmd # "echoTime"
  <2>1. inHand \in Service!Pending
    BY <1>1, <1>5, InWorkIsPending DEF InWork, Echoing
  <2>2. CASE cmd = "echoTrue"
    <3>1. answered' = Append(answered, <<inHand, TRUE>>) /\ lost' = lost
      BY <1>1, <1>5, <2>2
    <3>2. inHand \in disk
      BY <2>2 DEF Inv, DiskInv
    <3>3. Service!Tell(inHand, TRUE)
      BY <1>1, <3>1, <3>2 DEF Service!Tell
    <3> QED
      BY <2>1, <3>3 DEF Service!Next
  <2>3. CASE cmd = "echoFalse"
    <3>1. answered' = Append(answered, <<inHand, FALSE>>) /\ lost' = lost
      BY <1>1, <1>5, <2>3
    <3>2. \A k \in 1 .. Len(delivered) : delivered[k][1] # inHand
      <4>1. \A p \in Firsts(delivered) : p # inHand
        BY <2>3 DEF Inv, FailInv, NoFailure, Sending, Begun
      <4> QED
        BY <4>1 DEF Firsts
    <3>3. Service!Tell(inHand, FALSE)
      BY <1>1, <3>1, <3>2 DEF Service!Tell
    <3> QED
      BY <2>1, <3>3 DEF Service!Next
  <2> QED
    BY <1>1, <1>5, <2>2, <2>3
<1> QED
  BY <1>3, <1>4, <1>5

LEMMA CmdServes ==
    ASSUME Inv, CmdNext
    PROVE  Service!Next \/ UNCHANGED Service!vars
<1>1. CASE NoCommand \/ PostTake \/ SeesClose \/ CheckNone \/ CheckOne \/ PhoneCloses \/ SynTime
  BY <1>1 DEF NoCommand, PostTake, SeesClose, CheckNone, CheckOne, PhoneCloses, SynTime,
              vidVars, ptVars, Service!vars
<1>2. CASE Echo
  BY <1>2, EchoServes
<1>3. CASE Connect
  <2>1. Service!Connect
    BY <1>3 DEF Connect, vidVars, ptVars, Service!Connect
  <2> QED
    BY <2>1 DEF Service!Next
<1>4. CASE TakeCommand
  <2>1. Service!Ask
    BY <1>4 DEF TakeCommand, vidVars, ptVars, Service!Ask
  <2> QED
    BY <2>1 DEF Service!Next
<1>5. CASE CmdFails
  <2> DEFINE gone == {takeq[i].photo : i \in 1 .. Len(takeq)} \union ({inHand} \ {NoPhoto})
  <2>1. /\ UNCHANGED <<globalAddr, asked, disk, answered, delivered>>
        /\ lost' = lost \union gone
    BY <1>5 DEF CmdFails, Quit, vidVars, ptVars
  <2>2. {takeq[i].photo : i \in 1 .. Len(takeq)} \subseteq InWork
    <3>1. \A k \in 1 .. Len(takeq) : takeq[k].type \in {"TAKE", "TAKE_OVER"}
      BY DEF Inv, ControlInv, Messages
    <3> QED
      BY <3>1 DEF InWork, PhotosOf, OfType
  <2>3. ({inHand} \ {NoPhoto}) \subseteq InWork
    BY DEF Inv, ControlInv, InWork, Echoing, Posting
  <2> QED
    BY <2>1, <2>2, <2>3, LosingServes
<1>6. CASE Killed
  <2>1. /\ UNCHANGED <<globalAddr, asked, disk, answered, delivered>>
        /\ lost' = lost \union ({inHand} \ {NoPhoto})
    BY <1>6 DEF Killed, vidVars, ptVars
  <2>2. ({inHand} \ {NoPhoto}) \subseteq InWork
    BY DEF Inv, ControlInv, InWork, Echoing, Posting
  <2> QED
    BY <2>1, <2>2, LosingServes
<1> QED
  BY <1>1, <1>2, <1>3, <1>4, <1>5, <1>6 DEF CmdNext, CmdProgress

\* The video thread saves the photo it is at.
LEMMA VidServes ==
    ASSUME Inv, VidNext
    PROVE  Service!Next \/ UNCHANGED Service!vars
<1>1. CASE VidStart \/ VidTake \/ SayResult \/ QueueFile \/ VidReset
  BY <1>1 DEF VidStart, VidTake, SayResult, QueueFile, VidReset, vidOther, cmdVars, ptVars,
              Service!vars
<1>2. CASE Photo \/ PhotoFail
  <2>1. /\ UNCHANGED <<globalAddr, asked, answered, lost, delivered>>
        /\ disk' = disk \/ disk' = disk \union {vtPhoto}
        /\ vt = "take"
    BY <1>2 DEF Photo, PhotoFail, vidOther, cmdVars, ptVars
  <2>2. vtPhoto \in Service!Pending
    BY <2>1, InWorkIsPending DEF InWork, Shooting
  <2>3. CASE disk' = disk
    BY <2>1, <2>3 DEF Service!vars
  <2>4. CASE disk' = disk \union {vtPhoto}
    <3>1. Service!Save(vtPhoto)
      BY <2>1, <2>4 DEF Service!Save
    <3> QED
      BY <2>2, <3>1 DEF Service!Next
  <2> QED
    BY <2>1, <2>3, <2>4
<1>3. CASE VidStop
  <2>1. /\ UNCHANGED <<globalAddr, asked, disk, answered, delivered>>
        /\ lost' = lost \union Shooting
    BY <1>3 DEF VidStop, vidOther, cmdVars, ptVars, Shooting
  <2>2. Shooting \subseteq InWork
    BY DEF InWork
  <2> QED
    BY <2>1, <2>2, LosingServes
<1> QED
  BY <1>1, <1>2, <1>3 DEF VidNext, VidProgress, VidGone

\* photo_trans sends a file that is saved, after those it sent before, to the
\* phone that has connected last.
LEMMA PtServes ==
    ASSUME Inv, PtNext
    PROVE  Service!Next \/ UNCHANGED Service!vars
<1>1. CASE PtRecv \/ PtSay \/ PtGone \/ PtConnectFail \/ PtSendFail \/ PtKilled
  BY <1>1 DEF PtRecv, PtSay, PtGone, PtConnectFail, PtSendFail, PtKilled, ptOther, cmdVars,
              vidVars, Service!vars
<1>2. CASE PtConnect
  <2>1. /\ UNCHANGED <<globalAddr, asked, disk, answered, lost>>
        /\ pt = "connect"
        /\ delivered' = Append(delivered, <<ptPhoto, globalAddr, FALSE>>)
    BY <1>2 DEF PtConnect, ptOther, cmdVars, vidVars
  <2>2. Connecting = {ptPhoto} /\ Begun = Firsts(delivered) /\ ptPhoto \in Sending
    BY <2>1 DEF Connecting, Begun, Sending
  <2>3. ptPhoto \in disk
    BY <2>2 DEF Inv, DiskInv
  <2>4. Service!After(delivered, ptPhoto)
    <3>1. \A x \in Firsts(delivered) : x < ptPhoto
      BY <2>2 DEF Inv, OrderInv, SendChain, Chain
    <3> QED
      BY <3>1 DEF Service!After, Firsts
  <2>5. \A k \in 1 .. Len(answered) : answered[k] # <<ptPhoto, FALSE>>
    <3>1. \A k \in 1 .. Len(answered) : answered[k][1] = ptPhoto => answered[k][2]
      BY <2>2 DEF Inv, FailInv, NoFailure
    <3>2. <<ptPhoto, FALSE>>[1] = ptPhoto /\ ~<<ptPhoto, FALSE>>[2]
      OBVIOUS
    <3> QED
      BY <3>1, <3>2
  <2>6. Service!Send(ptPhoto)
    BY <2>1, <2>4, <2>5 DEF Service!Send
  <2> QED
    BY <2>3, <2>6 DEF Service!Next
<1>3. CASE PtSend
  <2>1. delivered # << >>
    BY <1>3 DEF PtSend, Inv, ControlInv
  <2>2. Service!Finish
    BY <1>3, <2>1 DEF PtSend, ptOther, cmdVars, vidVars, Service!Finish
  <2> QED
    BY <2>2 DEF Service!Next
<1> QED
  BY <1>1, <1>2, <1>3 DEF PtNext, PtProgress

\* Three processes over two queues that any of them may leave at any time
\* (cmd_server.c, video.c, photo_send.c) keep what the photo service promises.
THEOREM PipelineImplementsService == Spec => ServiceKept
<1>1. Init => Service!Init
  BY InitServes
<1>2. Inv /\ [Next]_vars => [Service!Next]_Service!vars
  <2> SUFFICES ASSUME Inv, [Next]_vars
               PROVE  Service!Next \/ UNCHANGED Service!vars
    OBVIOUS
  <2>1. CASE UNCHANGED vars
    BY <2>1 DEF vars, cmdVars, vidVars, ptVars, Service!vars
  <2> QED
    BY <2>1, CmdServes, VidServes, PtServes DEF Next
<1> QED
  BY <1>1, <1>2, PipelineInvariant, PTL DEF Spec, ServiceKept, Service!Spec
=============================================================================
