-------------------------------- MODULE Kcp --------------------------------
(***************************************************************************)
(* One direction of a KCP connection (src/gate/kcp/kcp.go and the reading  *)
(* and writing half of session.go): messages cut into numbered segments,   *)
(* resent until acknowledged, over a network that loses, repeats and       *)
(* reorders packets.  Timers are choices: any segment on its way may be    *)
(* sent again at any flush.                                                *)
(***************************************************************************)
EXTENDS Integers, Sequences, FiniteSets, FiniteSetsExt, SequencesExt

CONSTANTS
  SnMod,      \* the sequence numbers are taken modulo this (2^32 in the code)
  FirstSns,   \* sequence numbers a connection may have reached when the model starts
  Window,     \* snd_wnd = rcv_wnd (255 in the gate)
  MaxFrg,     \* most segments Send takes for one message (255)
  MaxPayload, \* most segments Write lets through (256)
  MaxMsgs,    \* bound: messages written
  MaxNet      \* bound: packets in the network

\* What they are: whoever instantiates the module sees to it.
KcpAssumption ==
  /\ Window \in Nat \ {0} /\ MaxFrg \in Nat \ {0} /\ MaxFrg <= Window
  /\ MaxPayload \in Nat /\ MaxMsgs \in Nat
  /\ SnMod \in Nat /\ SnMod > 2 * (Window * MaxMsgs + 1) /\ FirstSns \subseteq 0 .. SnMod - 1

VARIABLES
  written,  \* the messages Write accepted and Send queued: their numbers of segments
  dropped,  \* messages Write accepted and Send refused
  sndQueue, sndBuf, sndUna, sndNxt, rmtWnd, cwnd,  \* the sender's KCP
  rcvBuf, rcvQueue, rcvNxt, askTell,               \* the receiver's KCP
  read,     \* the messages the application has read, as sequences of segments
  net       \* packets on their way

snd == <<sndQueue, sndBuf, sndUna, sndNxt, rmtWnd, cwnd>>
rcv == <<rcvBuf, rcvQueue, rcvNxt, askTell>>
vars == <<written, dropped, snd, rcv, read, net>>

Sns == 0 .. SnMod - 1
Plus(a, n) == (a + n) % SnMod
\* _itimediff: the signed difference of two numbers that wrap.
Diff(later, earlier) ==
  LET d == (later - earlier) % SnMod IN IF d >= SnMod \div 2 THEN d - SnMod ELSE d
Least(a, b) == IF a <= b THEN a ELSE b

Push(s) == [cmd |-> "push", sn |-> s.sn, frg |-> s.frg, msg |-> s.msg]
Ack(sn, una, wnd) == [cmd |-> "ack", sn |-> sn, una |-> una, wnd |-> wnd]
Wins(una, wnd) == [cmd |-> "wins", una |-> una, wnd |-> wnd]
Wask == [cmd |-> "wask"]

\* Of the packets put on the network any part arrives.
Emit(rest, packets) ==
  \E some \in SUBSET packets :
    /\ Cardinality(rest \cup some) <= MaxNet
    /\ net' = rest \cup some
\* A packet that arrives may arrive again.
Remains(p) == {net, net \ {p}}

Init ==
  /\ written = <<>> /\ dropped = 0 /\ read = <<>> /\ net = {}
  /\ sndQueue = <<>> /\ sndBuf = <<>> /\ rmtWnd = Window /\ cwnd = 0
  /\ sndUna \in FirstSns /\ sndNxt = sndUna /\ rcvNxt = sndUna
  /\ rcvBuf = <<>> /\ rcvQueue = <<>> /\ askTell = FALSE
-----------------------------------------------------------------------------
\* flush of the sender: as many queued segments as the windows let through are numbered, sent
\* a first time, and some of those on their way are sent again: a lost segment closes the
\* congestion window, an early retransmission sets it to what slow start left, at least 1.
WaitSnd(queue, buf) == Len(buf) + Len(queue)
Flush(queue, buf, una, wnd, cw, rest) ==
  LET window == Least(Least(Window, wnd), cw)
      room   == window - Diff(sndNxt, una)
      count  == IF room < 0 THEN 0 ELSE Least(room, Len(queue))
      fresh  == [i \in 1 .. count |-> [sn |-> Plus(sndNxt, i - 1), acked |-> FALSE,
                                       frg |-> queue[i].frg, msg |-> queue[i].msg]]
      onWay  == {s \in Range(buf) : ~s.acked}
  IN \E again \in SUBSET onWay :
       /\ sndQueue' = SubSeq(queue, count + 1, Len(queue))
       /\ sndBuf' = buf \o fresh
       /\ sndNxt' = Plus(sndNxt, count)
       /\ sndUna' = una /\ rmtWnd' = wnd
       /\ cwnd' \in IF again = {} THEN {IF cw < 1 THEN 1 ELSE cw} ELSE 1 .. Window
       /\ Emit(rest, {Push(s) : s \in again \cup Range(fresh)}
                     \cup IF wnd = 0 THEN {Wask} ELSE {})

\* UDPSession.Write: it waits for room in both windows and sends at once.
MayWrite == Len(written) + dropped < MaxMsgs
            /\ WaitSnd(sndQueue, sndBuf) < Least(Window, rmtWnd)
Segments(n) == [i \in 1 .. n |-> [msg |-> Len(written) + 1, frg |-> n - i]]
Write(n) ==
  /\ MayWrite /\ n <= MaxFrg
  /\ written' = Append(written, n)
  /\ Flush(sndQueue \o Segments(n), sndBuf, sndUna, rmtWnd, cwnd, net)
  /\ UNCHANGED <<dropped, rcv, read>>

\* Send refuses a message of more than MaxFrg segments; WriteBuffers drops the refusal.
WriteTooLong(n) ==
  /\ MayWrite /\ MaxFrg < n /\ n <= MaxPayload
  /\ dropped' = dropped + 1
  /\ Flush(sndQueue, sndBuf, sndUna, rmtWnd, cwnd, net)
  /\ UNCHANGED <<written, rcv, read>>

\* UDPSession.update, the timer of the sending end.
Update ==
  /\ sndQueue # <<>> \/ sndBuf # <<>> \/ rmtWnd = 0
  /\ Flush(sndQueue, sndBuf, sndUna, rmtWnd, cwnd, net)
  /\ UNCHANGED <<written, dropped, rcv, read>>

\* Input at the sender: the window, parse_una, shrink_buf, parse_ack and, if the window moved,
\* the congestion window and a flush.
Confirmed(una) == Max({k \in 0 .. Len(sndBuf) : \A i \in 1 .. k : Diff(una, sndBuf[i].sn) > 0})
AfterUna(una) == SubSeq(sndBuf, Confirmed(una) + 1, Len(sndBuf))
ShrinkBuf(buf) == IF buf = <<>> THEN sndNxt ELSE buf[1].sn
ParseAck(buf, p) ==
  IF p.cmd = "ack" /\ Diff(p.sn, ShrinkBuf(buf)) >= 0 /\ Diff(p.sn, sndNxt) < 0
    THEN [i \in DOMAIN buf |-> [buf[i] EXCEPT !.acked = @ \/ buf[i].sn = p.sn]]
    ELSE buf
Slides(una) == AfterUna(una) # sndBuf
CwndUpdate(una, wnd) ==
  IF Diff(una, sndUna) > 0 /\ cwnd < wnd THEN {cwnd, cwnd + 1} ELSE {cwnd}
InputAck(p) ==
  /\ p \in net /\ p.cmd \in {"ack", "wins"}
  /\ LET buf == AfterUna(p.una)
         una == ShrinkBuf(buf)
     IN \E rest \in Remains(p) :
          IF Slides(p.una)
            THEN \E c \in CwndUpdate(una, p.wnd) : Flush(sndQueue, ParseAck(buf, p), una, p.wnd, c, rest)
            ELSE /\ sndBuf' = ParseAck(buf, p) /\ sndUna' = una /\ rmtWnd' = p.wnd
                 /\ net' = rest
                 /\ UNCHANGED <<sndQueue, sndNxt, cwnd>>
  /\ UNCHANGED <<written, dropped, rcv, read>>
-----------------------------------------------------------------------------
\* Mutant: segments move without a look at their numbers.
ReadyAny(buf, queue, nxt) == Least(Len(buf), Window - Len(queue))

\* What is in order moves from rcv_buf to rcv_queue while that has room.
Ready(buf, queue, nxt) ==
  LET ok(k) == /\ Len(queue) + k <= Window
               /\ \A i \in 1 .. k : buf[i].sn = Plus(nxt, i - 1)
  IN Max({k \in 0 .. Len(buf) : ok(k)})
Move(buf, queue) ==
  LET k == Ready(buf, queue, rcvNxt)
  IN /\ rcvQueue' = queue \o SubSeq(buf, 1, k)
     /\ rcvBuf' = SubSeq(buf, k + 1, Len(buf))
     /\ rcvNxt' = Plus(rcvNxt, k)
WndUnused(queue) == IF Len(queue) < Window THEN Window - Len(queue) ELSE 0

\* parse_data: a segment in the window and not there yet is put in its place, behind the last
\* with no greater number.
InWindow(sn) == Diff(sn, Plus(rcvNxt, Window)) < 0
Place(buf, sn) == Max({k \in 0 .. Len(buf) : k > 0 => Diff(sn, buf[k].sn) >= 0})
Insert(buf, seg) ==
  LET k == Place(buf, seg.sn)
  IN IF k > 0 /\ buf[k].sn = seg.sn THEN buf
     ELSE SubSeq(buf, 1, k) \o <<seg>> \o SubSeq(buf, k + 1, Len(buf))

\* Input at the receiver: a segment is acknowledged at once (SetACKNoDelay), also one it has
\* already; one beyond the window is not.
InputPush(p) ==
  /\ p \in net /\ p.cmd = "push"
  /\ IF ~InWindow(p.sn)
       THEN net' \in Remains(p) /\ UNCHANGED rcv
       ELSE /\ IF Diff(p.sn, rcvNxt) >= 0
                 THEN Move(Insert(rcvBuf, [sn |-> p.sn, frg |-> p.frg, msg |-> p.msg]), rcvQueue)
                 ELSE UNCHANGED <<rcvBuf, rcvQueue, rcvNxt>>
            /\ \E rest \in Remains(p) : Emit(rest, {Ack(p.sn, rcvNxt', WndUnused(rcvQueue'))})
            /\ UNCHANGED askTell
  /\ UNCHANGED <<written, dropped, snd, read>>

\* A window probe is answered at the next flush.
InputWask ==
  /\ Wask \in net
  /\ net' \in Remains(Wask)
  /\ askTell' = TRUE
  /\ UNCHANGED <<written, dropped, snd, rcvBuf, rcvQueue, rcvNxt, read>>

\* update at the receiving end.
Tell ==
  /\ askTell
  /\ Emit(net, {Wins(rcvNxt, WndUnused(rcvQueue))})
  /\ askTell' = FALSE
  /\ UNCHANGED <<written, dropped, snd, rcvBuf, rcvQueue, rcvNxt, read>>

\* PeekSize and Recv: a whole message leaves; a queue that was full asks for a window notice.
LastOfFirst == {i \in DOMAIN rcvQueue : rcvQueue[i].frg = 0}
PeekSize == rcvQueue # <<>> /\ Len(rcvQueue) >= rcvQueue[1].frg + 1 /\ LastOfFirst # {}
Recv ==
  LET n == Min(LastOfFirst)
      queue == SubSeq(rcvQueue, n + 1, Len(rcvQueue))
  IN /\ read' = Append(read, SubSeq(rcvQueue, 1, n))
     /\ Move(rcvBuf, queue)
     /\ askTell' = (askTell \/ (Len(rcvQueue) >= Window /\ Len(rcvQueue') < Window))
\* UDPSession.Read.
Read ==
  /\ PeekSize
  /\ Recv
  /\ UNCHANGED <<written, dropped, snd, net>>
-----------------------------------------------------------------------------
Next ==
  \/ \E n \in 1 .. MaxPayload : Write(n) \/ WriteTooLong(n)
  \/ Update
  \/ \E p \in net : InputAck(p) \/ InputPush(p)
  \/ InputWask \/ Tell \/ Read

Spec == Init /\ [][Next]_vars
-----------------------------------------------------------------------------
MsgsOf(q) == {q[i].msg : i \in DOMAIN q}
\* What the application reads is what was written: whole messages, each once, in order,
\* whatever the network lost, repeated and reordered and wherever the numbers wrap.
Fifo ==
  /\ Len(read) <= Len(written)
  /\ \A m \in DOMAIN read :
       /\ MsgsOf(read[m]) = {m}
       /\ [i \in DOMAIN read[m] |-> read[m][i].frg] = [i \in 1 .. written[m] |-> written[m] - i]

\* The sender gives a segment up only when the receiver has it, and a segment it keeps with an
\* acknowledgement is at the receiver too: a stale acknowledgement, or one for a number used
\* before the wrap, loses nothing.
NothingForgotten ==
  /\ Diff(rcvNxt, sndUna) >= 0 /\ Diff(sndNxt, rcvNxt) >= 0
  /\ \A i \in DOMAIN sndBuf :
       sndBuf[i].acked => \/ Diff(sndBuf[i].sn, rcvNxt) < 0
                          \/ \E j \in DOMAIN rcvBuf : rcvBuf[j].sn = sndBuf[i].sn

\* No message can fill the receiver's queue without being complete, so that a reader who
\* waits for the rest of one waits for segments that have room.
NeverFull == ~PeekSize => Len(rcvQueue) < Window
=============================================================================
