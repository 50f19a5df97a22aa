----------------------------- MODULE CommandStream -----------------------------
(***************************************************************************)
(* How cmd_server cuts the phone's TCP stream into commands and puts its   *)
(* echoes into the stream back: recv_cmd and the echo functions of         *)
(* cmd_server.c over tcp_recv_data and tcp_send_data of net_trans.c.  TCP  *)
(* delivers bytes in portions of any size; the length of a command is read *)
(* with MSG_DONTWAIT, the command itself with a blocking recv.             *)
(*                                                                         *)
(* A byte from the phone is its place in the stream; a byte to the phone   *)
(* is its place in the echo it belongs to.  One connection is modelled; a  *)
(* call interrupted by a signal (EINTR) is made again: a stutter.          *)
(***************************************************************************)
EXTENDS Naturals, Sequences, SequencesExt

CONSTANTS
    MaxCommands,    \* bound on the commands the phone sends
    LengthBytes,    \* sizeof(unsigned int), the length before each command
    CommandSizes,   \* sizes of the commands the phone knows
    EchoSizes,      \* sizes of the echoes: syn_time_echo, photo_snapshot_echo
    MaxEchoes       \* bound on the echoes sent

ASSUME StreamAssumption ==
    /\ MaxCommands \in Nat /\ MaxEchoes \in Nat
    /\ LengthBytes \in Nat \ {0}
    /\ CommandSizes \subseteq Nat \ {0}
    /\ EchoSizes \subseteq Nat \ {0}

VARIABLES
    starts, sizes,  \* of the commands the phone has begun to send
    total,          \* bytes in these commands
    arrived,        \* bytes that have reached the server's socket
    peer,           \* the phone: "open", "closed" or "reset"
    read,           \* bytes recv has returned
    at,             \* where cmd_server is
    buf,            \* what tcp_recv_data has put in its buffer
    left,           \* buff_len, of tcp_recv_data or tcp_send_data
    commands,       \* the commands recv_cmd has returned
    echo,           \* size of the echo being sent
    echoes, out     \* the echoes begun, and the bytes given to the socket

phoneVars == <<starts, sizes, total, arrived, peer>>
recvVars == <<read, buf, commands>>
sendVars == <<echo, echoes, out>>
vars == <<phoneVars, recvVars, at, left, sendVars>>

Init ==
    /\ starts = << >> /\ sizes = << >> /\ total = 0 /\ arrived = 0
    /\ peer = "open"
    /\ read = 0 /\ buf = << >> /\ commands = << >>
    /\ at = "recv" /\ left = 0
    /\ echo = 0 /\ echoes = << >> /\ out = << >>

-----------------------------------------------------------------------------
(* The phone and the network. *)

\* The phone begins to send a command of n bytes.
Command(n) ==
    /\ peer = "open"
    /\ Len(sizes) < MaxCommands
    /\ starts' = Append(starts, total)
    /\ sizes' = Append(sizes, n)
    /\ total' = total + LengthBytes + n
    /\ UNCHANGED <<arrived, peer, recvVars, at, left, sendVars>>

\* TCP delivers the next bytes, in portions of any size.
Arrive ==
    /\ peer = "open"
    /\ \E n \in 1 .. total - arrived : arrived' = arrived + n
    /\ UNCHANGED <<starts, sizes, total, peer, recvVars, at, left, sendVars>>

\* The end of the connection, or its reset, has arrived; also in mid-command.
PhoneGoes ==
    /\ peer = "open"
    /\ peer' \in {"closed", "reset"}
    /\ UNCHANGED <<starts, sizes, total, arrived, recvVars, at, left, sendVars>>

-----------------------------------------------------------------------------
(* tcp_recv_data: at "length" with MSG_DONTWAIT, at "command" with flag 0. *)

Pending == arrived - read

\* What one recv may return: at most buff_len bytes.
Portion == {n \in 1 .. left : n <= Pending}

\* Mutant: buff is not advanced by have_recv_len.
Received_start(n) ==
    LET new == [j \in 1 .. n |-> read + j]
    IN  new \o SubSeq(buf, n + 1, Len(buf))

\* The bytes of the buffer after a recv of n at buff + have_recv_len.
Received(n) == buf \o [j \in 1 .. n |-> read + j]

\* The number in the four bytes that have just been read: what the phone put
\* there, or any number when they are not the length of a command.
LengthIn(bytes) ==
    LET is(k) == bytes = [j \in 1 .. LengthBytes |-> starts[k] + j]
    IN  IF \E k \in 1 .. Len(starts) : is(k)
        THEN {sizes[k] : k \in {i \in 1 .. Len(starts) : is(i)}}
        ELSE CommandSizes

\* recv_cmd is called.
RecvCmd ==
    /\ at = "recv"
    /\ at' = "length"
    /\ buf' = << >>
    /\ left' = LengthBytes
    /\ UNCHANGED <<phoneVars, read, commands, sendVars>>

\* Mutant: the length counts its own bytes.
CommandLeft_withLength(n) == n + LengthBytes

\* buff_len of the second tcp_recv_data.
CommandLeft(n) == n

\* Bytes of the length; with the last of them the command's turn comes.
RecvLength ==
    /\ at = "length"
    /\ \E n \in Portion :
          /\ read' = read + n
          /\ IF n < left
             THEN left' = left - n /\ buf' = Received(n) /\ UNCHANGED at
             ELSE /\ \E l \in LengthIn(Received(n)) : left' = CommandLeft(l)
                  /\ buf' = << >>
                  /\ at' = "command"
    /\ UNCHANGED <<phoneVars, commands, sendVars>>

\* Mutant: EAGAIN ends the call although a part has been read.
NoData_partial ==
    /\ at = "length"
    /\ peer = "open" /\ Pending = 0
    /\ at' = "check"
    /\ UNCHANGED <<phoneVars, recvVars, left, sendVars>>

\* Mutant: the length is read with a blocking recv, too.
NoData_blocks == FALSE

\* EAGAIN with nothing read: no_data_to_recv.  With a part of the length read
\* the loop goes round until more arrives, which changes nothing.
NoData ==
    /\ at = "length"
    /\ buf = << >>
    /\ peer = "open" /\ Pending = 0
    /\ at' = "check"
    /\ UNCHANGED <<phoneVars, recvVars, left, sendVars>>

RecvCommand ==
    /\ at = "command"
    /\ \E n \in Portion :
          /\ read' = read + n
          /\ left' = left - n
          /\ buf' = Received(n)
          /\ IF n < left THEN UNCHANGED <<at, commands>>
             ELSE at' = "dispose" /\ commands' = Append(commands, buf')
    /\ UNCHANGED <<phoneVars, sendVars>>

\* recv returns 0 when all has been read: tcp_connectiong_has_been_closed;
\* cmd_server closes the socket and accepts the next phone.
RecvClosed ==
    /\ at \in {"length", "command"}
    /\ peer = "closed" /\ Pending = 0
    /\ at' = "closed"
    /\ UNCHANGED <<phoneVars, recvVars, left, sendVars>>

\* recv fails: cmd_server ends.
RecvFail ==
    /\ at \in {"length", "command"}
    /\ peer = "reset"
    /\ at' = "failed"
    /\ UNCHANGED <<phoneVars, recvVars, left, sendVars>>

-----------------------------------------------------------------------------
(* What cmd_server does with a command, and tcp_send_data. *)

SendEcho(n) ==
    /\ Len(echoes) < MaxEchoes
    /\ echo' = n
    /\ echoes' = Append(echoes, n)
    /\ left' = n
    /\ at' = "send"
    /\ UNCHANGED <<phoneVars, recvVars, out>>

\* SYN_TIME_CMD is echoed, TAKE_PHOTO_CMD goes to a queue.
Dispose ==
    /\ at = "dispose"
    /\ \/ \E n \in EchoSizes : SendEcho(n)
       \/ at' = "check" /\ UNCHANGED <<phoneVars, recvVars, left, sendVars>>

\* An unknown command ends cmd_server, and so does a queue that is gone.
Quit ==
    /\ at \in {"dispose", "check"}
    /\ at' = "failed"
    /\ UNCHANGED <<phoneVars, recvVars, left, sendVars>>

\* check_take_photo_results: a result is echoed, or there is none (any more).
Check ==
    /\ at = "check"
    /\ \/ \E n \in EchoSizes : SendEcho(n)
       \/ at' = "recv" /\ UNCHANGED <<phoneVars, recvVars, left, sendVars>>

\* Mutant: buff is not advanced by have_send_len.
Sent_start(n) == [j \in 1 .. n |-> j]

\* The n bytes at buff + have_send_len.
Sent(n) == [j \in 1 .. n |-> (echo - left) + j]

\* send takes a part of what is left, or all.
Send ==
    /\ at = "send"
    /\ \E n \in 1 .. left :
          /\ out' = out \o Sent(n)
          /\ left' = left - n
          /\ at' = IF n = left THEN "check" ELSE "send"
    /\ UNCHANGED <<phoneVars, recvVars, echo, echoes>>

\* send fails, or SIGPIPE kills the process.
SendFail ==
    /\ at = "send"
    /\ peer # "open"
    /\ at' = "failed"
    /\ UNCHANGED <<phoneVars, recvVars, left, sendVars>>

-----------------------------------------------------------------------------
ServerNext ==
    \/ RecvCmd \/ RecvLength \/ NoData \/ RecvCommand \/ RecvClosed \/ RecvFail
    \/ Dispose \/ Quit \/ Check \/ Send \/ SendFail

Next ==
    \/ \E n \in CommandSizes : Command(n)
    \/ Arrive \/ PhoneGoes \/ ServerNext

(***************************************************************************)
(* The server runs, and the phone reads its echoes so that send goes on.   *)
(* Nothing is assumed of what the phone sends, or when.                    *)
(***************************************************************************)
Spec == Init /\ [][Next]_vars
FairSpec == Spec /\ WF_vars(ServerNext)

-----------------------------------------------------------------------------
(* Properties. *)

\* Types; a call never asks for more than it was told to move.
TypeOK ==
    /\ starts \in Seq(Nat) /\ sizes \in Seq(CommandSizes)
    /\ Len(starts) = Len(sizes) /\ Len(sizes) <= MaxCommands
    /\ total \in Nat /\ arrived \in 0 .. total /\ read \in 0 .. arrived
    /\ peer \in {"open", "closed", "reset"}
    /\ at \in {"recv", "length", "command", "dispose", "check", "send",
               "closed", "failed"}
    /\ buf \in Seq(Nat) /\ commands \in Seq(Seq(Nat))
    /\ left \in Nat
    /\ echo \in EchoSizes \union {0} /\ (at = "send" => left <= echo)
    /\ echoes \in Seq(EchoSizes) /\ Len(echoes) <= MaxEchoes
    /\ out \in Seq(Nat)

\* However TCP cuts the stream, recv_cmd returns the phone's commands, whole,
\* in order and none twice.
CommandsIntact ==
    \A k \in 1 .. Len(commands) :
        /\ k <= Len(sizes)
        /\ commands[k] = [j \in 1 .. sizes[k] |-> starts[k] + LengthBytes + j]

\* recv_cmd and tcp_recv_data make a channel of whole commands out of the
\* stream: each step of theirs returns the next command or none, and no
\* command returned is taken back.
Channel == INSTANCE CommandChannel WITH
              sent <- [k \in 1 .. Len(sizes) |->
                          [j \in 1 .. sizes[k] |-> starts[k] + LengthBytes + j]],
              got <- commands

CommandsInOrder == Channel!Spec

\* Where in the stream command k begins, or will begin.
StartOf(k) == IF k <= Len(starts) THEN starts[k] ELSE total

\* Between two calls of recv_cmd the stream stands between two commands: a
\* call that returns no_data_to_recv has not swallowed a part of a length.
BetweenCommands ==
    at \in {"recv", "dispose", "check", "send"} =>
        read = StartOf(Len(commands) + 1)

\* The phone's stream holds the echoes whole and in order, but for the rest of
\* the last one while it is being sent.
EchoesIntact ==
    LET all == FlattenSeq([i \in 1 .. Len(echoes) |-> [j \in 1 .. echoes[i] |-> j]])
    IN  /\ IsPrefix(out, all)
        /\ at \notin {"send", "failed"} => out = all

\* A command that has arrived is returned, whatever comes after it.
CommandServed ==
    \A k \in 1 .. MaxCommands :
        (k <= Len(sizes) /\ arrived >= starts[k] + LengthBytes + sizes[k])
            ~> (Len(commands) >= k \/ at \in {"closed", "failed"} \/ peer = "reset")

\* cmd_server comes back to the results of the photos again and again, unless
\* it waits for the rest of a command: a phone that sends only a length holds
\* it up, and nothing else does.
ResultsLookedAt ==
    []<>(at \in {"check", "closed", "failed"} \/ arrived < total)
=============================================================================
