---------------------------- MODULE PhotoService ----------------------------
(***************************************************************************)
(* What the photo service promises the phones: photos asked for are        *)
(* answered in the order they were asked for, each at most once; a photo   *)
(* said to be taken is on the disk; a file is sent at most once, in the    *)
(* same order, to the phone that connected last, and only if it was saved  *)
(* and not reported as failed.  What is lost is lost: it is neither        *)
(* answered nor taken any more.  PhotoPipeline, three processes over two   *)
(* message queues, implements it.                                          *)
(***************************************************************************)
EXTENDS Naturals, Sequences

VARIABLES
    client,     \* the phone that connected last
    asked,      \* photos asked for: 1 .. asked
    disk,       \* photos saved
    told,       \* the answers the phones got: <<photo, succeed>>
    lost,       \* requests that will not be answered
    sent        \* files sent: <<photo, client, whole>>

vars == <<client, asked, disk, told, lost, sent>>

Init ==
    /\ client = 0 /\ asked = 0 /\ disk = {}
    /\ told = << >> /\ lost = {} /\ sent = << >>

\* p comes behind all photos of the list s.
After(s, p) == \A i \in 1 .. Len(s) : s[i][1] < p

\* Photos that can still be taken and answered.
Pending == {p \in 1 .. asked : p \notin lost /\ After(told, p)}

Connect ==
    /\ client' = client + 1
    /\ UNCHANGED <<asked, disk, told, lost, sent>>

Ask ==
    /\ asked' = asked + 1
    /\ UNCHANGED <<client, disk, told, lost, sent>>

Save(p) ==
    /\ disk' = disk \union {p}
    /\ UNCHANGED <<client, asked, told, lost, sent>>

Tell(p, ok) ==
    /\ IF ok THEN p \in disk ELSE \A i \in 1 .. Len(sent) : sent[i][1] # p
    /\ told' = Append(told, <<p, ok>>)
    /\ UNCHANGED <<client, asked, disk, lost, sent>>

Lose ==
    /\ lost \subseteq lost'
    /\ lost' \ lost \subseteq Pending
    /\ UNCHANGED <<client, asked, disk, told, sent>>

Send(p) ==
    /\ After(sent, p)
    /\ \A i \in 1 .. Len(told) : told[i] # <<p, FALSE>>
    /\ sent' = Append(sent, <<p, client, FALSE>>)
    /\ UNCHANGED <<client, asked, disk, told, lost>>

\* The last file has been sent whole.
Finish ==
    /\ sent # << >>
    /\ sent' = [sent EXCEPT ![Len(sent)][3] = TRUE]
    /\ UNCHANGED <<client, asked, disk, told, lost>>

Next ==
    \/ Connect \/ Ask \/ Lose \/ Finish
    \/ \E p \in Pending : Save(p)
    \/ \E p \in Pending, ok \in BOOLEAN : Tell(p, ok)
    \/ \E p \in disk : Send(p)

Spec == Init /\ [][Next]_vars
=============================================================================
