------------------------------ MODULE Monitor ------------------------------
(***************************************************************************)
(* The monitor of a persistent checker (mcl/Monitor.C): it listens to the  *)
(* checker in the machine under test over a TCP stream, reboots the        *)
(* machine when the checker asks for it, dies or falls silent, and quits   *)
(* when the checker is done.                                               *)
(*                                                                         *)
(* The stream and cmd_buf hold words of four bytes: a command and a length *)
(* are one word each, and lengths count words.  Text is the ASCII of a     *)
(* heart beat, larger than any command or length.  A recv returns any part *)
(* of what was sent.                                                       *)
(***************************************************************************)
EXTENDS Naturals, Sequences

CONSTANTS
    BufSize,  \* sizeof cmd_buf and MAX_MONITOR_MSG_LEN: both 4096 bytes
    Beats,    \* lengths of the heart beats ModelChecker::heart_beat prints
    Window,   \* words a connection buffers before xsend blocks
    Text      \* a word of a heart beat's text

heart_beat == 0
want_restart == 1
prog_done == 2
prog_dead == 3
Cmds == {heart_beat, want_restart, prog_done, prog_dead}

\* A heart beat starts with "state queue size", so it is longer than the
\* numbers of the commands.
ASSUME SizeAssumption ==
    /\ BufSize \in Nat /\ Window \in Nat /\ Text \in Nat
    /\ Beats \subseteq Nat
    /\ \A k \in Beats : k \notin Cmds /\ k < Text
    /\ Text \notin Cmds /\ BufSize <= Text

VARIABLES
    checker,  \* of the checker in the machine: see Lives
    todo,     \* what it has still to xsend of a heart beat, one entry a call
    net,      \* words sent and not yet received
    fin,      \* the checker's end of the connection is closed
    mon,      \* where the monitor is: see Places
    buf       \* the first avail words of cmd_buf

vars == <<checker, todo, net, fin, mon, buf>>

\* Not connected yet; connected; asked for a restart; finished; its process
\* died; its machine died.
Lives == {"boot", "up", "told", "done", "gone", "hung"}
\* In accept, in the loop around select, between close and the end of the
\* reboot, returned, and stopped by a failed assertion.
Places == {"accept", "select", "reset", "quit", "aborted"}

Init == /\ checker = "boot" /\ todo = << >> /\ net = << >> /\ fin = FALSE
        /\ mon = "accept" /\ buf = << >>

-----------------------------------------------------------------------------
(* The checker's side                                                      *)

\* A send reaches the monitor unless it closed the connection or is gone.
Heard(ws) == net' = IF mon \in {"accept", "select"} THEN net \o ws ELSE net

\* xsend blocks while the connection is full.
Room(ws) == Len(net) + Len(ws) <= Window

\* Monitor::connect, called when the booted machine has started the checker.
Connect ==
    /\ checker = "boot"
    /\ checker' = "up"
    /\ UNCHANGED <<todo, net, fin, mon, buf>>

\* A message whose text leaves before its length.
SwappedBeat(k) == <<<<heart_beat>>, [i \in 1 .. k |-> Text], <<k>>>>

\* The three calls of xsend in send_heart_beat; the text is cut to
\* MAX_MONITOR_MSG_LEN after the length was sent.
BeatCalls(k) == <<<<heart_beat>>, <<k>>,
                  [i \in 1 .. (IF k > BufSize THEN BufSize ELSE k) |-> Text]>>

HeartBeat ==
    /\ checker = "up" /\ todo = << >>
    /\ \E k \in Beats : todo' = BeatCalls(k)
    /\ UNCHANGED <<checker, net, fin, mon, buf>>

Send ==
    /\ checker = "up" /\ todo # << >>
    /\ Room(Head(todo))
    /\ Heard(Head(todo))
    /\ todo' = Tail(todo)
    /\ UNCHANGED <<checker, fin, mon, buf>>

\* ModelChecker::restart: want_restart, and close.
Restart ==
    /\ checker = "up" /\ todo = << >> /\ Room(<<want_restart>>)
    /\ Heard(<<want_restart>>)
    /\ checker' = "told"
    /\ fin' = TRUE
    /\ UNCHANGED <<todo, mon, buf>>

\* End of the search: prog_done; the connection closes when the process exits.
Done ==
    /\ checker = "up" /\ todo = << >> /\ Room(<<prog_done>>)
    /\ Heard(<<prog_done>>)
    /\ checker' = "done"
    /\ UNCHANGED <<todo, fin, mon, buf>>

Exit ==
    /\ checker = "done" /\ ~fin
    /\ fin' = TRUE
    /\ UNCHANGED <<checker, todo, net, mon, buf>>

\* The checker's process dies: its connection is closed behind what it sent.
Die ==
    /\ checker = "up"
    /\ checker' = "gone" /\ fin' = TRUE /\ todo' = << >>
    /\ UNCHANGED <<net, mon, buf>>

\* The machine dies, with what it had not transmitted yet.
Hang ==
    /\ checker = "up"
    /\ checker' = "hung" /\ todo' = << >>
    /\ \E n \in 0 .. Len(net) : net' = SubSeq(net, 1, n)
    /\ UNCHANGED <<fin, mon, buf>>

-----------------------------------------------------------------------------
(* Monitor::listen                                                         *)

Accept ==
    /\ mon = "accept" /\ checker # "boot"
    /\ mon' = "select"
    /\ UNCHANGED <<checker, todo, net, fin, buf>>

\* The assertion of cmd_complete about the length of a heart beat.
LengthOk(b) == b[1] = heart_beat /\ Len(b) >= 2 => b[2] < BufSize

cmd_complete(b) == b[1] = heart_beat => Len(b) >= 2 /\ Len(b) - 2 >= b[2]

\* A monitor that takes a dead checker for one that is done, and one that
\* takes a request for a restart as it takes a heart beat.
AfterDead(cmd) == CASE cmd = want_restart -> "reset"
                    [] cmd \in {prog_done, prog_dead} -> "quit"
                    [] OTHER -> "select"
AfterIgnored(cmd) == CASE cmd = prog_done -> "quit"
                       [] OTHER -> "select"

\* What the switch does with a command: the values of no command are ignored.
After(cmd) == CASE cmd \in {want_restart, prog_dead} -> "reset"
                [] cmd = prog_done -> "quit"
                [] OTHER -> "select"

\* A monitor that keeps the words of a command it has executed.
HandleKept(b) ==
    IF ~LengthOk(b) THEN mon' = "aborted" /\ buf' = b
    ELSE IF ~cmd_complete(b) THEN buf' = b /\ UNCHANGED mon
    ELSE buf' = b /\ mon' = After(b[1])

\* The first command in the buffer is executed, and the words behind it are
\* dropped with it.
Handle(b) ==
    IF ~LengthOk(b) THEN mon' = "aborted" /\ buf' = b
    ELSE IF ~cmd_complete(b) THEN buf' = b /\ UNCHANGED mon
    ELSE buf' = << >> /\ mon' = After(b[1])

Recv ==
    /\ mon = "select"
    /\ \E n \in 1 .. Len(net) :
         /\ Len(buf) + n <= BufSize
         /\ Handle(buf \o SubSeq(net, 1, n))
         /\ net' = SubSeq(net, n + 1, Len(net))
    /\ UNCHANGED <<checker, todo, fin>>

\* recv returns 0: the checker has closed, or there is no room in cmd_buf.
RecvNothing ==
    /\ mon = "select"
    /\ \/ net = << >> /\ fin
       \/ net # << >> /\ Len(buf) = BufSize
    /\ mon' = After(prog_dead)
    /\ UNCHANGED <<checker, todo, net, fin, buf>>

\* select returns without a readable socket.
Timeout ==
    /\ mon = "select" /\ net = << >> /\ ~fin
    /\ mon' = After(prog_dead)
    /\ UNCHANGED <<checker, todo, net, fin, buf>>

\* vmrun reset, a second after close(fd); avail keeps its value.
Reset ==
    /\ mon = "reset"
    /\ checker' = "boot" /\ todo' = << >> /\ net' = << >> /\ fin' = FALSE
    /\ mon' = "accept"
    /\ UNCHANGED buf

-----------------------------------------------------------------------------
Listen == Accept \/ Recv \/ RecvNothing \/ Timeout \/ Reset
Check == Connect \/ HeartBeat \/ Send \/ Restart \/ Done \/ Exit
Fault == Die \/ Hang

Next == Listen \/ Check \/ Fault

\* The monitor never stops by itself, a machine that was reset boots, and a
\* process that called exit is closed by its kernel; whether and when a
\* checker beats, restarts, ends or fails is open.
Spec == Init /\ [][Next]_vars /\ WF_vars(Listen) /\ WF_vars(Connect) /\ WF_vars(Exit)

-----------------------------------------------------------------------------
(* Properties                                                              *)

Words == Cmds \cup Beats \cup {Text}

TypeOK ==
    /\ checker \in Lives /\ mon \in Places /\ fin \in BOOLEAN
    /\ buf \in Seq(Words) /\ Len(buf) <= BufSize
    /\ net \in Seq(Words) /\ Len(net) <= Window
    /\ \A i \in DOMAIN todo : todo[i] \in Seq(Words)

\* The monitor quits only when the checker it listens to has said that it is
\* done, whatever words of earlier connections cmd_buf still holds.
QuitsOnlyWhenDone == mon = "quit" => checker = "done"

\* The assertion on the length of a heart beat (Monitor.C, cmd_complete)
\* never stops the monitor, which nobody would restart.
AssertionHolds == mon # "aborted"

\* A checker that lives and asked for nothing is rebooted only for having
\* been silent: neither a heart beat cut anywhere by the stream, nor words
\* dropped behind a command or left by an earlier connection, look like a
\* request or like the end of the connection.
NoSpuriousReset == [][checker = "up" /\ mon = "select" /\ mon' = "reset" => Timeout]_vars

\* A checker that died, with its machine or alone, in the middle of a heart
\* beat or not, or that asked for a restart, is rebooted; one that is done
\* is rebooted or lets the monitor quit.
Watched == /\ checker \in {"gone", "hung", "told"} ~> checker = "boot"
           /\ checker = "done" ~> checker = "boot" \/ mon = "quit"

-----------------------------------------------------------------------------
\* What the theorems ask of the sizes: heart beats fit cmd_buf with their two
\* words of header, and so would a message whose length is the number of a
\* command.
BeatsFit == prog_dead + 2 <= BufSize /\ \A k \in Beats : k + 2 <= BufSize
=============================================================================
