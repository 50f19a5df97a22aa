--------------------------- MODULE CommandChannel ---------------------------
(***************************************************************************)
(* What recv_cmd promises to cmd_server: the phone's commands come out     *)
(* whole, in the order in which they were sent, each once and none before  *)
(* it was sent.  CommandStream, which cuts them out of a stream of bytes,  *)
(* implements it.                                                          *)
(***************************************************************************)
EXTENDS Naturals, Sequences

VARIABLES
    sent,       \* the commands the phone has sent
    got         \* the commands recv_cmd has returned

Init ==
    /\ sent = << >>
    /\ got = << >>

\* The phone sends a command, whatever it is.
Send ==
    /\ Len(sent') = Len(sent) + 1
    /\ \A k \in 1 .. Len(sent) : sent'[k] = sent[k]
    /\ UNCHANGED got

Receive ==
    /\ Len(got) < Len(sent)
    /\ got' = Append(got, sent[Len(got) + 1])
    /\ UNCHANGED sent

Next == Send \/ Receive

Spec == Init /\ [][Next]_<<sent, got>>
=============================================================================
