---------------------------- MODULE MonitorProofs ----------------------------
(* The monitor neither quits, stops nor reboots a checker without reason, for  *)
(* heart beats that fit cmd_buf, however the stream cuts and however often     *)
(* checkers die.                                                               *)
EXTENDS Monitor, SequenceTheorems, TLAPS

Texts(k) == [i \in 1 .. k |-> Text]
Lengths == Cmds \cup Beats

\* What is left of a heart beat after none, one or two of its three sends.
Beating(k) == {<<<<heart_beat>>, <<k>>, Texts(k)>>, <<<<k>>, Texts(k)>>, <<Texts(k)>>}

\* The checker is connected to this monitor as long as it sends.
Sending ==
    /\ checker \in Lives /\ mon \in Places /\ fin \in BOOLEAN
    /\ todo = << >> \/ (checker = "up" /\ \E k \in Beats : todo \in Beating(k))
    /\ checker \in {"boot", "up"} => ~fin
    /\ checker = "boot" => net = << >>

\* Words that ask for something are in the stream only when they were sent.
Requests ==
    /\ net \in Seq(Words)
    /\ \A i \in 1 .. Len(net) : /\ net[i] = want_restart => checker = "told"
                                /\ net[i] = prog_done => checker = "done"
                                /\ net[i] # prog_dead

\* cmd_buf has nothing or an incomplete heart beat, whose second word is the
\* length that was sent with it or, after a reboot, the first word of the new
\* connection.
Partial ==
    /\ buf \in Seq(Words)
    /\ buf # << >> => buf[1] = heart_beat
    /\ Len(buf) >= 2 => buf[2] \in Lengths /\ Len(buf) - 2 < buf[2]

\* The word that follows a heart beat's first is no text, be it in the stream,
\* at its end or at the end of cmd_buf.
Headed ==
    /\ \A i \in 1 .. Len(net) - 1 : net[i] = heart_beat => net[i + 1] \in Lengths
    /\ mon \in {"accept", "select"} =>
         /\ net # << >> /\ net[Len(net)] = heart_beat => Len(todo) # 1
         /\ Len(buf) = 1 => IF net = << >> THEN Len(todo) # 1 ELSE net[1] \in Lengths

\* The inductive invariant.
IInv == Sending /\ Requests /\ Partial /\ Headed /\ QuitsOnlyWhenDone /\ AssertionHolds

-----------------------------------------------------------------------------
\* Commands and lengths are small numbers, and no text.
LEMMA WordFacts ==
    ASSUME BeatsFit
    PROVE  /\ Lengths \subseteq Nat /\ Words \subseteq Nat /\ Text \notin Lengths
           /\ Words = Lengths \cup {Text}
           /\ \A w \in Lengths : w + 2 <= BufSize
           /\ BufSize \in Nat /\ 4 < BufSize
           /\ \A k \in Beats : k \in Nat /\ k \notin Cmds /\ ~(k > BufSize) /\ 1 <= k
BY SizeAssumption DEF BeatsFit, Lengths, Words, Cmds, heart_beat, want_restart, prog_done, prog_dead

\* The text of a heart beat.
LEMMA TextFacts ==
    ASSUME BeatsFit, NEW k \in Beats
    PROVE  /\ Texts(k) \in Seq(Words) /\ Len(Texts(k)) = k
           /\ \A i \in 1 .. k : Texts(k)[i] = Text
<1>1. k \in Nat /\ Text \in Words
  BY WordFacts DEF Words
<1> QED
  BY <1>1 DEF Texts

\* The calls of send_heart_beat, none of them clamped.
LEMMA BeatFacts ==
    ASSUME BeatsFit, NEW k \in Beats
    PROVE  BeatCalls(k) \in Beating(k) /\ Len(BeatCalls(k)) = 3
<1>1. ~(k > BufSize)
  BY WordFacts
<1> QED
  BY <1>1 DEF BeatCalls, Beating, Texts

\* One more call of xsend: the first word, the length, or the text behind it.
LEMMA SendFacts ==
    ASSUME BeatsFit, NEW k \in Beats, todo \in Beating(k)
    PROVE  \/ /\ Head(todo) = <<heart_beat>> /\ Len(todo) = 3
              /\ Tail(todo) \in Beating(k) /\ Len(Tail(todo)) = 2
           \/ /\ Head(todo) = <<k>> /\ Len(todo) = 2
              /\ Tail(todo) \in Beating(k) /\ Len(Tail(todo)) = 1
           \/ /\ Head(todo) = Texts(k) /\ Len(todo) = 1
              /\ Tail(todo) = << >>
<1>1. CASE todo = <<<<heart_beat>>, <<k>>, Texts(k)>>
  BY <1>1 DEF Beating
<1>2. CASE todo = <<<<k>>, Texts(k)>>
  BY <1>2 DEF Beating
<1>3. CASE todo = <<Texts(k)>>
  BY <1>3
<1> QED
  BY <1>1, <1>2, <1>3 DEF Beating

-----------------------------------------------------------------------------
(* The checker's steps                                                     *)

\* A word that does not break what is said of the stream joins it.
LEMMA WordSent ==
    ASSUME BeatsFit, IInv, NEW w \in Lengths, net' = net \o <<w>>,
           mon \in {"accept", "select"}, UNCHANGED <<mon, buf>>,
           w = want_restart => checker' = "told",
           w = prog_done => checker' = "done",
           w # prog_dead,
           w = heart_beat => Len(todo') # 1,
           checker = "up"
    PROVE  Requests' /\ Headed' /\ Partial'
<1>1. /\ <<w>> \in Seq(Words) /\ Len(<<w>>) = 1 /\ net \in Seq(Words) /\ Len(net) \in Nat
  BY WordFacts, LenProperties DEF IInv, Requests
<1>2. /\ net' \in Seq(Words) /\ Len(net') = Len(net) + 1
      /\ \A i \in 1 .. Len(net) : net'[i] = net[i]
      /\ net'[Len(net) + 1] = w
  BY <1>1, ConcatProperties
<1>3. \A i \in 1 .. Len(net) : net[i] # want_restart /\ net[i] # prog_done /\ net[i] # prog_dead
  BY DEF IInv, Requests
<1>4. Requests'
  BY <1>1, <1>2, <1>3 DEF Requests
<1>5. \A i \in 1 .. Len(net') - 1 : net'[i] = heart_beat => net'[i + 1] \in Lengths
  BY <1>1, <1>2 DEF IInv, Headed
<1>6. net' # << >>
  BY <1>1, <1>2
<1>7. Len(buf) = 1 => net'[1] \in Lengths
  <2>1. CASE net = << >>
    BY <1>2, <2>1
  <2>2. CASE net # << >>
    <3>1. Len(net) >= 1
      BY <1>1, <2>2, EmptySeq
    <3> QED
      BY <1>1, <1>2, <2>2, <3>1 DEF IInv, Headed
  <2> QED
    BY <2>1, <2>2
<1>8. Headed'
  BY <1>2, <1>5, <1>6, <1>7 DEF Headed
<1>9. Partial'
  BY DEF IInv, Partial
<1> QED
  BY <1>4, <1>8, <1>9

\* The text of a heart beat joins it, behind the length.
LEMMA TextSent ==
    ASSUME BeatsFit, IInv, NEW k \in Beats, net' = net \o Texts(k), Len(todo) = 1,
           mon \in {"accept", "select"}, UNCHANGED <<checker, mon, buf>>,
           todo' = << >>
    PROVE  Requests' /\ Headed' /\ Partial'
<1>1. /\ Texts(k) \in Seq(Words) /\ Len(Texts(k)) = k
      /\ \A i \in 1 .. k : Texts(k)[i] = Text
      /\ net \in Seq(Words) /\ Len(net) \in Nat
  BY TextFacts, LenProperties DEF IInv, Requests
<1>2. /\ k \in Nat /\ 1 <= k /\ Text \notin Cmds
  BY WordFacts DEF Lengths
<1>3. /\ net' \in Seq(Words) /\ Len(net') = Len(net) + k
      /\ \A i \in 1 .. Len(net) : net'[i] = net[i]
      /\ \A i \in Len(net) + 1 .. Len(net) + k : net'[i] = Text
  <2>1. /\ net \o Texts(k) \in Seq(Words) /\ Len(net \o Texts(k)) = Len(net) + Len(Texts(k))
        /\ \A i \in 1 .. Len(net) + Len(Texts(k)) :
             (net \o Texts(k))[i] = IF i <= Len(net) THEN net[i] ELSE Texts(k)[i - Len(net)]
    BY <1>1, ConcatProperties, Zenon
  <2> QED
    BY <1>1, <1>2, <2>1
<1>4. Requests'
  BY <1>1, <1>2, <1>3 DEF IInv, Requests, Cmds
<1>5. net # << >> => net[Len(net)] # heart_beat
  BY DEF IInv, Headed
<1>6. ASSUME NEW i \in 1 .. Len(net') - 1, net'[i] = heart_beat
      PROVE  net'[i + 1] \in Lengths
  <2>1. i \in 1 .. Len(net) /\ net[i] = heart_beat
    BY <1>1, <1>2, <1>3, <1>6 DEF Cmds
  <2>2. i # Len(net)
    BY <2>1, <1>1, <1>5, EmptySeq
  <2>3. i \in 1 .. Len(net) - 1 /\ i + 1 \in 1 .. Len(net)
    BY <2>1, <2>2, <1>1
  <2> QED
    BY <2>1, <2>3, <1>3 DEF IInv, Headed
<1>7. Len(buf) = 1 => net # << >> /\ net[1] \in Lengths
  BY DEF IInv, Headed
<1>8. Len(buf) = 1 => net' # << >> /\ net'[1] \in Lengths
  <2>1. net # << >> => Len(net) >= 1
    BY <1>1, EmptySeq
  <2>2. net # << >> => net'[1] = net[1]
    BY <2>1, <1>1, <1>3
  <2>3. net' # << >>
    BY <1>1, <1>2, <1>3
  <2> QED
    BY <1>7, <2>2, <2>3
<1>9. Len(todo') # 1
  OBVIOUS
<1>10. Headed'
  BY <1>6, <1>8, <1>9 DEF Headed
<1>11. Partial'
  BY DEF IInv, Partial
<1> QED
  BY <1>4, <1>10, <1>11

\* A send moves the next part of a heart beat into the stream.
LEMMA SendInv == ASSUME BeatsFit, IInv, Send PROVE IInv'
<1>1. PICK k \in Beats : todo \in Beating(k)
  BY DEF Send, IInv, Sending
<1>2. UNCHANGED <<checker, fin, mon, buf>> /\ checker = "up" /\ todo' = Tail(todo)
  BY DEF Send
<1>3. QuitsOnlyWhenDone' /\ AssertionHolds'
  BY <1>2 DEF IInv, QuitsOnlyWhenDone, AssertionHolds
<1>4. Sending'
  <2>1. Tail(todo) = << >> \/ Tail(todo) \in Beating(k)
    BY <1>1, SendFacts
  <2> QED
    BY <1>2, <2>1 DEF IInv, Sending
<1>5. CASE mon \notin {"accept", "select"}
  <2>1. net' = net
    BY <1>5 DEF Send, Heard
  <2> QED
    BY <1>2, <1>3, <1>4, <1>5, <2>1 DEF IInv, Requests, Partial, Headed
<1>6. CASE mon \in {"accept", "select"}
  <2>1. net' = net \o Head(todo)
    BY <1>6 DEF Send, Heard
  <2>2. CASE Head(todo) = Texts(k) /\ Len(todo) = 1 /\ Tail(todo) = << >>
    BY <1>2, <1>3, <1>4, <1>6, <2>1, <2>2, TextSent DEF IInv
  <2>3. CASE Head(todo) = <<heart_beat>> /\ Len(Tail(todo)) = 2
    <3>1. heart_beat \in Lengths /\ heart_beat \notin {want_restart, prog_done, prog_dead}
      BY DEF Lengths, Cmds, heart_beat, want_restart, prog_done, prog_dead
    <3>2. Len(todo') # 1
      <4>1. Len(todo') = 2
        BY <1>2, <2>3, Zenon
      <4> QED
        BY <4>1
    <3>3. net' = net \o <<heart_beat>>
      BY <2>1, <2>3
    <3>4. Requests' /\ Headed' /\ Partial'
      BY <1>2, <1>6, <3>1, <3>2, <3>3, WordSent
    <3> QED
      BY <1>3, <1>4, <3>4 DEF IInv
  <2>4. CASE Head(todo) = <<k>>
    <3>1. k \in Lengths /\ k \notin {want_restart, prog_done, prog_dead, heart_beat}
      BY WordFacts DEF Lengths, Cmds
    <3> QED
      BY <1>2, <1>3, <1>4, <1>6, <2>1, <2>4, <3>1, WordSent DEF IInv
  <2> QED
    BY <1>1, <2>2, <2>3, <2>4, SendFacts
<1> QED
  BY <1>5, <1>6

\* A request, heard or not: want_restart or prog_done.
LEMMA RequestInv == ASSUME BeatsFit, IInv, Restart \/ Done PROVE IInv'
<1>1. CASE Restart
  <2>1. /\ UNCHANGED <<todo, mon, buf>> /\ checker = "up" /\ todo = << >>
        /\ checker' = "told" /\ fin' = TRUE
    BY <1>1 DEF Restart
  <2>2. QuitsOnlyWhenDone' /\ AssertionHolds' /\ Sending'
    BY <2>1 DEF IInv, QuitsOnlyWhenDone, AssertionHolds, Sending, Lives
  <2>3. CASE mon \notin {"accept", "select"}
    <3>1. net' = net
      BY <1>1, <2>3 DEF Restart, Heard
    <3> QED
      BY <2>1, <2>2, <2>3, <3>1 DEF IInv, Requests, Partial, Headed
  <2>4. CASE mon \in {"accept", "select"}
    <3>1. net' = net \o <<want_restart>>
      BY <1>1, <2>4 DEF Restart, Heard
    <3>2. want_restart \in Lengths /\ want_restart \notin {heart_beat, prog_done, prog_dead}
      BY DEF Lengths, Cmds, heart_beat, want_restart, prog_done, prog_dead
    <3>3. Requests' /\ Headed' /\ Partial'
      BY <2>1, <2>4, <3>1, <3>2, WordSent
    <3> QED
      BY <2>2, <3>3 DEF IInv
  <2> QED
    BY <2>3, <2>4
<1>2. CASE Done
  <2>1. /\ UNCHANGED <<todo, fin, mon, buf>> /\ checker = "up" /\ todo = << >>
        /\ checker' = "done"
    BY <1>2 DEF Done
  <2>2. QuitsOnlyWhenDone' /\ AssertionHolds' /\ Sending'
    BY <2>1 DEF IInv, QuitsOnlyWhenDone, AssertionHolds, Sending, Lives
  <2>3. CASE mon \notin {"accept", "select"}
    <3>1. net' = net
      BY <1>2, <2>3 DEF Done, Heard
    <3> QED
      BY <2>1, <2>2, <2>3, <3>1 DEF IInv, Requests, Partial, Headed
  <2>4. CASE mon \in {"accept", "select"}
    <3>1. net' = net \o <<prog_done>>
      BY <1>2, <2>4 DEF Done, Heard
    <3>2. prog_done \in Lengths /\ prog_done \notin {heart_beat, want_restart, prog_dead}
      BY DEF Lengths, Cmds, heart_beat, want_restart, prog_done, prog_dead
    <3>3. Requests' /\ Headed' /\ Partial'
      BY <2>1, <2>4, <3>1, <3>2, WordSent
    <3> QED
      BY <2>2, <3>3 DEF IInv
  <2> QED
    BY <2>3, <2>4
<1> QED
  BY <1>1, <1>2

\* The machine dies: the stream loses its end.
LEMMA HangInv == ASSUME BeatsFit, IInv, Hang PROVE IInv'
<1>1. PICK n \in 0 .. Len(net) : net' = SubSeq(net, 1, n)
  BY DEF Hang
<1>2. /\ UNCHANGED <<fin, mon, buf>> /\ checker = "up" /\ checker' = "hung" /\ todo' = << >>
  BY DEF Hang
<1>3. net \in Seq(Words) /\ Len(net) \in Nat
  BY LenProperties DEF IInv, Requests
<1>4. /\ net' \in Seq(Words) /\ Len(net') = n
      /\ \A i \in 1 .. n : net'[i] = net[i]
  BY <1>1, <1>3, SubSeqProperties
<1>5. Requests'
  <2>1. \A i \in 1 .. Len(net) : net[i] # want_restart /\ net[i] # prog_done /\ net[i] # prog_dead
    BY <1>2 DEF IInv, Requests
  <2> QED
    BY <1>1, <1>3, <1>4, <2>1 DEF Requests
<1>6. Headed'
  <2>1. \A i \in 1 .. Len(net') - 1 : net'[i] = heart_beat => net'[i + 1] \in Lengths
    BY <1>1, <1>3, <1>4 DEF IInv, Headed
  <2>2. Len(todo') = 0
    BY <1>2
  <2>3. mon \in {"accept", "select"} /\ Len(buf) = 1 /\ net' # << >> => net'[1] \in Lengths
    <3>1. net' # << >> => n >= 1
      BY <1>4, EmptySeq
    <3>2. net' # << >> => net # << >> /\ net'[1] = net[1]
      BY <1>1, <1>3, <1>4, <3>1
    <3> QED
      BY <3>2 DEF IInv, Headed
  <2> QED
    BY <1>2, <2>1, <2>2, <2>3 DEF Headed
<1>7. Sending' /\ Partial' /\ QuitsOnlyWhenDone' /\ AssertionHolds'
  BY <1>2 DEF IInv, Sending, Partial, QuitsOnlyWhenDone, AssertionHolds, Lives
<1> QED
  BY <1>5, <1>6, <1>7 DEF IInv

\* The steps of the checker and its machine that leave the stream alone.
LEMMA SilentInv == ASSUME BeatsFit, IInv, Connect \/ HeartBeat \/ Exit \/ Die PROVE IInv'
<1>1. CASE Connect
  BY <1>1 DEF Connect, IInv, Sending, Requests, Partial, Headed, QuitsOnlyWhenDone, AssertionHolds, Lives
<1>2. CASE HeartBeat
  <2>1. PICK k \in Beats : todo' = BeatCalls(k)
    BY <1>2 DEF HeartBeat
  <2>2. todo' \in Beating(k) /\ Len(todo') = 3
    BY <2>1, BeatFacts
  <2>3. UNCHANGED <<checker, net, fin, mon, buf>> /\ checker = "up"
    BY <1>2 DEF HeartBeat
  <2>4. Sending'
    BY <2>2, <2>3 DEF IInv, Sending
  <2> QED
    BY <2>2, <2>3, <2>4 DEF IInv, Requests, Partial, Headed, QuitsOnlyWhenDone, AssertionHolds
<1>3. CASE Exit
  BY <1>3 DEF Exit, IInv, Sending, Requests, Partial, Headed, QuitsOnlyWhenDone, AssertionHolds, Lives
<1>4. CASE Die
  <2>1. UNCHANGED <<net, mon, buf>> /\ checker = "up" /\ checker' = "gone" /\ todo' = << >> /\ Len(todo') = 0
        /\ fin' = TRUE
    BY <1>4 DEF Die
  <2> QED
    BY <2>1 DEF IInv, Sending, Requests, Partial, Headed, QuitsOnlyWhenDone, AssertionHolds, Lives
<1> QED
  BY <1>1, <1>2, <1>3, <1>4

-----------------------------------------------------------------------------
(* The monitor's steps                                                     *)

\* What the monitor has in cmd_buf when a recv has returned: it begins with
\* what was there, and its second word is no text behind a heart beat.
LEMMA Received ==
    ASSUME BeatsFit, IInv, mon = "select", NEW n \in 1 .. Len(net), NEW b,
           b = buf \o SubSeq(net, 1, n)
    PROVE  /\ b \in Seq(Words) /\ Len(b) = Len(buf) + n /\ Len(buf) \in Nat /\ Len(net) \in Nat
           /\ buf # << >> => b[1] = heart_beat
           /\ buf = << >> => b[1] = net[1] /\ Len(b) = n
           /\ b[1] = heart_beat /\ Len(b) >= 2 => b[2] \in Lengths
<1>1. buf \in Seq(Words) /\ Len(buf) \in Nat /\ net \in Seq(Words) /\ Len(net) \in Nat
  BY LenProperties DEF IInv, Partial, Requests
<1>2. /\ SubSeq(net, 1, n) \in Seq(Words) /\ Len(SubSeq(net, 1, n)) = n
      /\ \A i \in 1 .. n : SubSeq(net, 1, n)[i] = net[i]
  BY <1>1, SubSeqProperties
<1> DEFINE m == SubSeq(net, 1, n)
<1> HIDE DEF m
<1>3. /\ b \in Seq(Words) /\ Len(b) = Len(buf) + n
      /\ \A i \in 1 .. Len(buf) + n : b[i] = IF i <= Len(buf) THEN buf[i] ELSE m[i - Len(buf)]
  <2>1. m \in Seq(Words) /\ Len(m) = n /\ b = buf \o m
    BY <1>2 DEF m
  <2>2. /\ buf \o m \in Seq(Words) /\ Len(buf \o m) = Len(buf) + Len(m)
        /\ \A i \in 1 .. Len(buf) + Len(m) :
             (buf \o m)[i] = IF i <= Len(buf) THEN buf[i] ELSE m[i - Len(buf)]
    BY <1>1, <2>1, ConcatProperties, Zenon
  <2> QED
    BY <2>1, <2>2, Zenon
<1>4. \A i \in 1 .. n : m[i] = net[i]
  BY <1>2 DEF m
<1>5. CASE buf = << >>
  <2>1. Len(buf) = 0
    BY <1>5
  <2>2. b[1] = net[1] /\ Len(b) = n /\ (n >= 2 => b[2] = net[2])
    BY <1>1, <1>3, <1>4, <2>1
  <2>3. net[1] = heart_beat /\ n >= 2 => net[2] \in Lengths
    BY <1>1 DEF IInv, Headed
  <2> QED
    BY <1>1, <1>3, <1>5, <2>2, <2>3
<1>6. CASE buf # << >>
  <2>1. Len(buf) >= 1 /\ buf[1] = heart_beat
    BY <1>1, <1>6, EmptySeq DEF IInv, Partial
  <2>2. b[1] = heart_beat
    BY <1>1, <1>3, <2>1
  <2>3. CASE Len(buf) = 1
    <3>1. b[2] = net[1] /\ net # << >>
      BY <1>1, <1>3, <1>4, <2>3
    <3> QED
      BY <1>1, <1>3, <1>6, <2>2, <2>3, <3>1 DEF IInv, Headed
  <2>4. CASE Len(buf) # 1
    <3>1. Len(buf) >= 2 /\ 2 \in 1 .. Len(buf) + n
      <4>1. n \in Nat /\ n >= 1
        BY <1>1
      <4>2. Len(buf) \in Nat /\ Len(buf) >= 1
        BY <1>1, <2>1
      <4>3. \A x \in Nat : x >= 1 /\ x # 1 => x >= 2 /\ 2 \in 1 .. x + n
        BY <4>1
      <4> QED
        BY <2>4, <4>2, <4>3, Zenon
    <3>2. b[2] = buf[2]
      BY <1>3, <3>1
    <3> QED
      BY <1>1, <1>3, <1>6, <2>2, <3>1, <3>2 DEF IInv, Partial
  <2> QED
    BY <2>3, <2>4
<1> QED
  BY <1>5, <1>6

\* What is left in the stream.
LEMMA LeftInStream ==
    ASSUME BeatsFit, IInv, NEW n \in 1 .. Len(net), net' = SubSeq(net, n + 1, Len(net)),
           UNCHANGED <<checker, todo>>
    PROVE  /\ Requests'
           /\ \A i \in 1 .. Len(net') - 1 : net'[i] = heart_beat => net'[i + 1] \in Lengths
           /\ net' # << >> => n + 1 <= Len(net) /\ net'[1] = net[n + 1] /\ net'[Len(net')] = net[Len(net)]
           /\ net' = << >> => n = Len(net)
<1>1. net \in Seq(Words) /\ Len(net) \in Nat
  BY LenProperties DEF IInv, Requests
<1>2. /\ net' \in Seq(Words) /\ Len(net') = Len(net) - n
      /\ \A i \in 1 .. Len(net) - n : net'[i] = net[n + i]
  <2>1. \A i \in n + 1 .. Len(net) : net[i] \in Words
    BY <1>1, ElementOfSeq
  <2>2. /\ SubSeq(net, n + 1, Len(net)) \in Seq(Words)
        /\ Len(SubSeq(net, n + 1, Len(net))) = IF n + 1 <= Len(net) THEN Len(net) - (n + 1) + 1 ELSE 0
        /\ \A i \in 1 .. Len(net) - (n + 1) + 1 : SubSeq(net, n + 1, Len(net))[i] = net[(n + 1) + i - 1]
    BY <1>1, <2>1, SubSeqProperties
  <2> QED
    BY <1>1, <2>2
<1>3. Requests'
  BY <1>1, <1>2 DEF IInv, Requests
<1>4. \A i \in 1 .. Len(net') - 1 : net'[i] = heart_beat => net'[i + 1] \in Lengths
  BY <1>1, <1>2 DEF IInv, Headed
<1>5. net' # << >> => Len(net') >= 1
  BY <1>2, EmptySeq
<1>6. net' = << >> => Len(net') = 0
  OBVIOUS
<1>7. net' = << >> => n = Len(net)
  BY <1>1, <1>2, <1>6
<1>8. net' # << >> => n + 1 <= Len(net) /\ net'[1] = net[n + 1] /\ net'[Len(net')] = net[Len(net)]
  <2> SUFFICES ASSUME net' # << >>
               PROVE  n + 1 <= Len(net) /\ net'[1] = net[n + 1] /\ net'[Len(net')] = net[Len(net)]
    OBVIOUS
  <2>1. Len(net) - n \in 1 .. Len(net) - n /\ 1 \in 1 .. Len(net) - n
    BY <1>1, <1>2, <1>5
  <2>2. net'[1] = net[n + 1] /\ net'[Len(net) - n] = net[n + (Len(net) - n)]
    BY <1>2, <2>1
  <2>3. n + (Len(net) - n) = Len(net) /\ n + 1 <= Len(net)
    BY <1>1, <2>1
  <2> QED
    BY <1>2, <2>2, <2>3
<1> QED
  BY <1>3, <1>4, <1>7, <1>8

\* The beginning of a heart beat that is executed only when it is whole, and
\* any other word, which is executed at once.
LEMMA RecvInv == ASSUME BeatsFit, IInv, Recv PROVE IInv'
<1>1. PICK n \in 1 .. Len(net) :
        /\ Handle(buf \o SubSeq(net, 1, n))
        /\ net' = SubSeq(net, n + 1, Len(net))
  BY DEF Recv
<1>2. UNCHANGED <<checker, todo, fin>> /\ mon = "select"
  BY DEF Recv
<1> DEFINE b == buf \o SubSeq(net, 1, n)
<1>3. /\ b \in Seq(Words) /\ Len(b) = Len(buf) + n /\ Len(buf) \in Nat /\ Len(net) \in Nat
      /\ buf # << >> => b[1] = heart_beat
      /\ buf = << >> => b[1] = net[1] /\ Len(b) = n
      /\ b[1] = heart_beat /\ Len(b) >= 2 => b[2] \in Lengths
  BY <1>2, Received
<1>4. Handle(b)
  BY <1>1
<1>5. LengthOk(b)
  BY <1>3, WordFacts, SMTT(30) DEF LengthOk
<1>6. /\ Requests'
      /\ \A i \in 1 .. Len(net') - 1 : net'[i] = heart_beat => net'[i + 1] \in Lengths
      /\ net' # << >> => n + 1 <= Len(net) /\ net'[1] = net[n + 1] /\ net'[Len(net')] = net[Len(net)]
      /\ net' = << >> => n = Len(net)
  BY <1>1, <1>2, LeftInStream
<1> HIDE DEF b
<1>7. net # << >> /\ net[1] # prog_dead
      /\ (net[1] = prog_done => checker = "done")
  BY <1>3 DEF IInv, Requests
<1>8. CASE ~cmd_complete(b)
  <2>1. buf' = b /\ mon' = mon
    BY <1>4, <1>5, <1>8 DEF Handle
  <2>2. b[1] = heart_beat /\ (Len(b) >= 2 => Len(b) - 2 < b[2])
    <3>1. b[1] = heart_beat /\ ~(Len(b) >= 2 /\ Len(b) - 2 >= b[2])
      BY <1>8 DEF cmd_complete
    <3>2. Len(b) >= 2 => b[2] \in Nat
      BY <1>3, <3>1, WordFacts
    <3> QED
      BY <1>3, <3>1, <3>2
  <2>3. Partial'
    BY <1>3, <2>1, <2>2 DEF Partial
  <2>4. Sending' /\ QuitsOnlyWhenDone' /\ AssertionHolds'
    BY <1>2, <1>6, <1>7, <2>1 DEF IInv, Sending, QuitsOnlyWhenDone, AssertionHolds
  <2>5. Len(buf') = 1 => IF net' = << >> THEN Len(todo') # 1 ELSE net'[1] \in Lengths
    <3> SUFFICES ASSUME Len(b) = 1
                 PROVE  IF net' = << >> THEN Len(todo) # 1 ELSE net'[1] \in Lengths
      BY <1>2, <2>1
    <3>1. buf = << >> /\ n = 1 /\ net[1] = heart_beat
      <4>0. buf \in Seq(Words)
        BY DEF IInv, Partial
      <4>1. n \in Nat /\ n >= 1
        BY <1>3
      <4>2. n = 1 /\ Len(buf) = 0
        <5>1. Len(b) = Len(buf) + n /\ Len(buf) \in Nat
          BY <1>3, Zenon
        <5>2. Len(buf) + n = 1
          BY <5>1, Zenon
        <5> QED
          BY <4>1, <5>1, <5>2
      <4>3. buf = << >>
        BY <4>0, <4>2, EmptySeq
      <4> QED
        BY <1>3, <2>2, <4>2, <4>3
    <3>2. CASE net' = << >>
      BY <1>2, <1>6, <1>7, <3>1, <3>2 DEF IInv, Headed
    <3>3. CASE net' # << >>
      BY <1>3, <1>6, <3>1, <3>3 DEF IInv, Headed
    <3> QED
      BY <3>2, <3>3
  <2>6. Headed'
    BY <1>2, <1>6, <1>7, <2>1, <2>5 DEF IInv, Headed
  <2> QED
    BY <1>6, <2>3, <2>4, <2>6 DEF IInv
<1>9. CASE cmd_complete(b)
  <2>1. buf' = << >> /\ mon' = After(b[1]) /\ Len(buf') = 0
    BY <1>4, <1>5, <1>9 DEF Handle
  <2>2. mon' \in {"reset", "quit", "select"} /\ (mon' = "quit" => b[1] = prog_done)
    BY <2>1 DEF After
  <2>3. mon' = "quit" => checker = "done"
    <3>1. heart_beat # prog_done
      BY DEF heart_beat, prog_done
    <3> QED
      BY <1>3, <1>7, <2>2, <3>1
  <2>4. Sending' /\ QuitsOnlyWhenDone' /\ AssertionHolds'
    BY <1>2, <1>6, <1>7, <2>2, <2>3 DEF IInv, Sending, QuitsOnlyWhenDone, AssertionHolds, Places
  <2>5. Partial'
    <3>1. << >> \in Seq(Words)
      BY EmptySeq
    <3> QED
      BY <2>1, <3>1 DEF Partial
  <2>6. Headed'
    BY <1>2, <1>6, <1>7, <2>1, <2>2 DEF IInv, Headed
  <2> QED
    BY <1>6, <2>4, <2>5, <2>6 DEF IInv
<1> QED
  BY <1>8, <1>9

\* The other steps of the monitor.
LEMMA ListenInv == ASSUME BeatsFit, IInv, Accept \/ RecvNothing \/ Timeout \/ Reset PROVE IInv'
<1>1. CASE Accept
  BY <1>1 DEF Accept, IInv, Sending, Requests, Partial, Headed, QuitsOnlyWhenDone, AssertionHolds, Places
<1>2. CASE RecvNothing \/ Timeout
  <2>1. After(prog_dead) = "reset"
    BY DEF After, prog_dead, want_restart, prog_done
  <2>2. mon' = "reset" /\ UNCHANGED <<checker, todo, net, fin, buf>>
    BY <1>2, <2>1 DEF RecvNothing, Timeout
  <2> QED
    BY <2>2 DEF IInv, Sending, Requests, Partial, Headed, QuitsOnlyWhenDone, AssertionHolds, Places
<1>3. CASE Reset
  <2>1. /\ mon' = "accept" /\ checker' = "boot" /\ todo' = << >> /\ net' = << >> /\ fin' = FALSE
        /\ buf' = buf /\ Len(net') = 0 /\ Len(todo') = 0
    BY <1>3 DEF Reset
  <2>2. Requests' /\ Headed'
    BY <2>1, EmptySeq DEF Requests, Headed
  <2> QED
    BY <2>1, <2>2 DEF IInv, Sending, Partial, QuitsOnlyWhenDone, AssertionHolds, Places, Lives
<1> QED
  BY <1>1, <1>2, <1>3

\* Every step keeps the invariant.
LEMMA StepInv == ASSUME BeatsFit, IInv, [Next]_vars PROVE IInv'
<1>1. CASE UNCHANGED vars
  BY <1>1 DEF vars, IInv, Sending, Requests, Partial, Headed, QuitsOnlyWhenDone, AssertionHolds
<1> QED
  BY <1>1, SendInv, RequestInv, HangInv, SilentInv, RecvInv, ListenInv DEF Next, Listen, Check, Fault

\* The monitor accepts, and nothing has been sent.
LEMMA InitInv == Init => IInv
<1>1. << >> \in Seq(Words) /\ Len(<< >>) = 0
  BY EmptySeq
<1>2. Init => Requests /\ Headed /\ Partial
  BY <1>1 DEF Init, Requests, Headed, Partial
<1> QED
  BY <1>2 DEF Init, IInv, Sending, QuitsOnlyWhenDone, AssertionHolds, Places, Lives

\* The invariant of checker, stream and monitor.
THEOREM MonitorInvariance ==
    ASSUME BeatsFit
    PROVE  Spec => []IInv
BY InitInv, StepInv, PTL DEF Spec

\* The monitor returns only for the prog_done of the checker it listens to,
\* whatever cmd_buf kept from earlier connections (Monitor::listen).
THEOREM QuitsForTheDone ==
    ASSUME BeatsFit
    PROVE  Spec => []QuitsOnlyWhenDone
<1>1. IInv => QuitsOnlyWhenDone
  BY DEF IInv
<1> QED
  BY <1>1, MonitorInvariance, PTL

\* The assertion of cmd_complete never fails when heart beats fit cmd_buf: no
\* text and no number out of range is ever taken for a length.
THEOREM LengthsAreInRange ==
    ASSUME BeatsFit
    PROVE  Spec => []AssertionHolds
<1>1. IInv => AssertionHolds
  BY DEF IInv
<1> QED
  BY <1>1, MonitorInvariance, PTL

\* A checker that is up is rebooted for nothing but silence.
LEMMA ResetIsTimeout ==
    ASSUME BeatsFit, IInv, [Next]_vars, checker = "up", mon = "select", mon' = "reset"
    PROVE  Timeout
<1>1. CASE RecvNothing
  <2>1. Len(buf) = BufSize
    BY <1>1 DEF RecvNothing, IInv, Sending
  <2>2. Len(buf) >= 2 /\ BufSize \in Nat
    BY <2>1, WordFacts
  <2>3. buf[2] + 2 <= BufSize /\ Len(buf) - 2 < buf[2] /\ buf[2] \in Nat
    BY <2>2, WordFacts DEF IInv, Partial
  <2> QED
    BY <2>1, <2>2, <2>3
<1>2. CASE Recv
  <2>1. PICK n \in 1 .. Len(net) : Handle(buf \o SubSeq(net, 1, n))
    BY <1>2 DEF Recv
  <2> DEFINE b == buf \o SubSeq(net, 1, n)
  <2>2. /\ buf # << >> => b[1] = heart_beat
        /\ buf = << >> => b[1] = net[1]
        /\ Len(net) \in Nat
    BY Received
  <2>3. Handle(b)
    BY <2>1
  <2> HIDE DEF b
  <2>4. b[1] \in {want_restart, prog_dead}
    BY <2>3 DEF Handle, After
  <2>5. net[1] # want_restart /\ net[1] # prog_dead
    BY <2>2 DEF IInv, Requests
  <2>6. heart_beat # want_restart /\ heart_beat # prog_dead
    BY DEF heart_beat, want_restart, prog_dead
  <2> QED
    BY <2>2, <2>4, <2>5, <2>6
<1>3. CASE Connect \/ HeartBeat \/ Send \/ Restart \/ Done \/ Exit \/ Die \/ Hang \/ Accept \/ Reset \/ UNCHANGED vars
  BY <1>3 DEF Connect, HeartBeat, Send, Restart, Done, Exit, Die, Hang, Accept, Reset, vars
<1> QED
  BY <1>1, <1>2, <1>3 DEF Next, Listen, Check, Fault

\* A checker that lives and asked for nothing is rebooted only when select
\* times out, wherever the stream cut its beats (Monitor::listen).
THEOREM NoCheckerIsResetInVain ==
    ASSUME BeatsFit
    PROVE  Spec => NoSpuriousReset
<1>1. IInv /\ [Next]_vars => [checker = "up" /\ mon = "select" /\ mon' = "reset" => Timeout]_vars
  BY ResetIsTimeout
<1> QED
  BY <1>1, MonitorInvariance, PTL DEF Spec, NoSpuriousReset
=============================================================================
