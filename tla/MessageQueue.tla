---------------------------- MODULE MessageQueue ----------------------------
(***************************************************************************)
(* The messages between a server (the client end "gs") and a gate (the     *)
(* server end "gate"): a direct TCP connection when both ends have         *)
(* registered it, NATS otherwise (src/common/mq/nats.go).  Each end has a  *)
(* sending goroutine, one reading goroutine per connection and a NATS      *)
(* reader; the client end also has a goroutine that connects.              *)
(***************************************************************************)
EXTENDS Naturals, Sequences, FiniteSets

CONSTANTS
  MaxMsgs,    \* bound: messages sent by each end
  MaxConns,   \* bound: connections dialled
  MaxBreaks,  \* bound: connections the network breaks
  DeadCap     \* capacity of gateTcpMqDeadEventChan (1000 in the code)

\* What they are: whoever instantiates the module sees to it.
QueueAssumption == MaxMsgs \in Nat

VARIABLES
  queued,   \* [end -> messages put on netMsgInput so far]
  handled,  \* [end -> messages the sending goroutine has taken from it]
  events,   \* [end -> gateTcpMqEventChan]
  registered, \* [end -> the connection gateTcpMqInstMap holds for the other end, or None]
  deadEvents, \* [end -> length of gateTcpMqDeadEventChan]
  addrKnown,  \* whether gateServerConnAddrMap holds the gate's address
  conns,      \* the connections dialled, each with its ends and its two pipes
  bus,        \* [end -> messages of that end on NATS]
  got,        \* [end -> message of that end -> times the other end received it]
  breaks, coalesced \* history: connections broken, whether a handshake was read with a message

vars == <<queued, handled, events, registered, deadEvents, addrKnown, conns, bus, got,
          breaks, coalesced>>

Ends == {"gs", "gate"}
Other(e) == IF e = "gs" THEN "gate" ELSE "gs"
Msgs == 1 .. MaxMsgs
Hello == 0
None == 0
ConnIds == 1 .. Len(conns)

Init ==
  /\ queued = [e \in Ends |-> 0] /\ handled = [e \in Ends |-> 0]
  /\ events = [e \in Ends |-> <<>>] /\ registered = [e \in Ends |-> None]
  /\ deadEvents = [e \in Ends |-> 0] /\ addrKnown = FALSE
  /\ conns = <<>> /\ bus = [e \in Ends |-> <<>>]
  /\ got = [e \in Ends |-> [m \in Msgs |-> 0]]
  /\ breaks = 0 /\ coalesced = FALSE

\* The end's sending goroutine is not blocked on its dead channel.
Sending(e) == deadEvents[e] <= DeadCap
Event(type, c) == [type |-> type, conn |-> c]
Disconnect(e, c) == events' = [events EXCEPT ![e] = Append(@, Event("disconnect", c))]
Receive(e, m) == got' = [got EXCEPT ![e][m] = @ + 1]
Publish(e, m) == bus' = [bus EXCEPT ![e] = Append(@, m)]
-----------------------------------------------------------------------------
\* SendToGate, SendToGs, ...: the message waits for the sending goroutine.
SendTo(e) ==
  /\ queued[e] < MaxMsgs
  /\ queued' = [queued EXCEPT ![e] = @ + 1]
  /\ UNCHANGED <<handled, events, registered, deadEvents, addrKnown, conns, bus, got,
                 breaks, coalesced>>

\* sendHandler takes a message.
Take(e) ==
  /\ Sending(e) /\ handled[e] < queued[e]
  /\ handled' = [handled EXCEPT ![e] = @ + 1]
  /\ UNCHANGED <<queued, registered, deadEvents, addrKnown, got, breaks, coalesced>>

\* Nobody is registered, or the connection is closed already: SetWriteDeadline says so, and
\* no event is posted.
FallbackNatsMqSend(e) ==
  /\ Take(e)
  /\ registered[e] # None => ~conns[registered[e]].open[e]
  /\ Publish(e, handled'[e])
  /\ UNCHANGED <<events, conns>>

\* Mutant: after the fast channel the message is also published.
GateTcpMqSendGoesOn(e) ==
  /\ Take(e) /\ registered[e] # None
  /\ LET c == registered[e]
     IN /\ conns[c].open[e]
        /\ conns' = [conns EXCEPT ![c].pipe[e] =
                       IF conns[c].broken THEN @ ELSE Append(@, handled'[e])]
  /\ Publish(e, handled'[e]) /\ UNCHANGED events

\* A write succeeds while this end is open, also when the other end or the network is gone.
GateTcpMqSend(e) ==
  /\ Take(e) /\ registered[e] # None
  /\ LET c == registered[e]
     IN /\ conns[c].open[e]
        /\ conns' = [conns EXCEPT ![c].pipe[e] =
                       IF conns[c].broken THEN @ ELSE Append(@, handled'[e])]
  /\ UNCHANGED <<events, bus>>

\* A write fails on a broken or stuck connection, or on one that was closed since its deadline
\* was set: what was written of the message is never completed; the connection is closed,
\* and the message goes to NATS.
WriteFails(e) ==
  /\ Take(e) /\ registered[e] # None
  /\ LET c == registered[e]
     IN /\ \/ ~conns[c].open[e] \/ conns[c].broken \/ ~conns[c].open[Other(e)]
        /\ conns' = [conns EXCEPT ![c].open[e] = FALSE]
        /\ Disconnect(e, c)
  /\ Publish(e, handled'[e])

\* sendHandler takes an event.  A disconnection removes whatever connection is registered.
HandleConnect(e) ==
  /\ Sending(e) /\ events[e] # <<>> /\ Head(events[e]).type = "connect"
  /\ registered' = [registered EXCEPT ![e] = Head(events[e]).conn]
  /\ events' = [events EXCEPT ![e] = Tail(@)]
  /\ UNCHANGED <<queued, handled, deadEvents, addrKnown, conns, bus, got, breaks, coalesced>>

HandleDisconnect(e) ==
  /\ Sending(e) /\ events[e] # <<>> /\ Head(events[e]).type = "disconnect"
  /\ registered' = [registered EXCEPT ![e] = None]
  /\ events' = [events EXCEPT ![e] = Tail(@)]
  /\ deadEvents' = [deadEvents EXCEPT ![e] = @ + 1]
  /\ UNCHANGED <<queued, handled, addrKnown, conns, bus, got, breaks, coalesced>>
-----------------------------------------------------------------------------
\* gateTcpMqConn, every minute: a gate whose address is not known is dialled and greeted.
NewConn == [open   |-> [e \in Ends |-> TRUE],
            reader |-> [e \in Ends |-> e = "gs"],
            greeted |-> FALSE, posting |-> FALSE, broken |-> FALSE,
            pipe   |-> [e \in Ends |-> IF e = "gs" THEN <<Hello>> ELSE <<>>]]
GateTcpMqConn ==
  /\ ~addrKnown /\ Len(conns) < MaxConns
  /\ conns' = Append(conns, NewConn)
  /\ events' = [events EXCEPT !["gs"] = Append(@, Event("connect", Len(conns) + 1))]
  /\ addrKnown' = TRUE
  /\ UNCHANGED <<queued, handled, registered, deadEvents, bus, got, breaks, coalesced>>

\* runGateTcpMqClient forgets the address of a dead connection.  It looks it up by the
\* connection's RemoteAddr: MqAddr is the gate's IP address, as in the configuration (of a
\* host name the entry would stay).  Only the client end has this loop: nobody empties the
\* gate's channel.
ForgetAddr ==
  /\ deadEvents["gs"] > 0
  /\ deadEvents' = [deadEvents EXCEPT !["gs"] = @ - 1]
  /\ addrKnown' = FALSE
  /\ UNCHANGED <<queued, handled, events, registered, conns, bus, got, breaks, coalesced>>

\* gateTcpMqHandshake: one read, of the greeting and of whatever messages came with it.  A
\* greeting that came alone starts a reader, and then the event is posted, perhaps after
\* the reader's own; any other is refused, and the connection is left open with nobody
\* reading it.
Awaiting(c) == conns[c].open["gate"] /\ ~conns[c].greeted /\ conns[c].pipe["gs"] # <<>>
GateTcpMqHandshake(c) ==
  /\ Awaiting(c)
  /\ conns' = [conns EXCEPT ![c].greeted = TRUE, ![c].reader["gate"] = TRUE,
                            ![c].posting = TRUE, ![c].pipe["gs"] = Tail(@)]
  /\ UNCHANGED <<queued, handled, events, registered, deadEvents, addrKnown, bus, got,
                 breaks, coalesced>>
PostConnect(c) ==
  /\ conns[c].posting
  /\ conns' = [conns EXCEPT ![c].posting = FALSE]
  /\ events' = [events EXCEPT !["gate"] = Append(@, Event("connect", c))]
  /\ UNCHANGED <<queued, handled, registered, deadEvents, addrKnown, bus, got, breaks, coalesced>>

HandshakeRefused(c) ==
  /\ Awaiting(c) /\ Len(conns[c].pipe["gs"]) > 1
  /\ conns' = [conns EXCEPT ![c].greeted = TRUE, ![c].pipe["gs"] = <<>>]
  /\ coalesced' = TRUE
  /\ UNCHANGED <<queued, handled, events, registered, deadEvents, addrKnown, bus, got, breaks>>

\* gateTcpMqRecvHandle: the next whole message.
GateTcpMqRecv(e, c) ==
  LET pipe == conns[c].pipe[Other(e)]
  IN /\ conns[c].reader[e] /\ conns[c].open[e] /\ pipe # <<>>
     /\ Receive(Other(e), Head(pipe))
     /\ conns' = [conns EXCEPT ![c].pipe[Other(e)] = Tail(pipe)]
     /\ UNCHANGED <<queued, handled, events, registered, deadEvents, addrKnown, bus,
                    breaks, coalesced>>

\* The reader meets the end of the connection: its own, the other's or the network's.
RecvFails(e, c) ==
  /\ conns[c].reader[e]
  /\ \/ ~conns[c].open[e] \/ conns[c].broken
     \/ ~conns[c].open[Other(e)] /\ conns[c].pipe[Other(e)] = <<>>
  /\ conns' = [conns EXCEPT ![c].open[e] = FALSE, ![c].reader[e] = FALSE]
  /\ Disconnect(e, c)
  /\ UNCHANGED <<queued, handled, registered, deadEvents, addrKnown, bus, got, breaks, coalesced>>

\* The network breaks a connection and loses what is in it, or nothing that one of the ends
\* writes goes through any more (a write then fails after a second) while what is in the
\* connection may still come.
Break(c) ==
  /\ breaks < MaxBreaks /\ ~conns[c].broken
  /\ breaks' = breaks + 1
  /\ \E gone \in SUBSET Ends :
       LET rest == [e \in Ends |-> IF e \in gone THEN <<>> ELSE conns[c].pipe[e]]
       IN conns' = [conns EXCEPT ![c].broken = TRUE, ![c].pipe = rest]
  /\ UNCHANGED <<queued, handled, events, registered, deadEvents, addrKnown, bus, got, coalesced>>

\* natsMsgRecvHandler of the other end.
NatsMsgRecv(e) ==
  /\ bus[e] # <<>>
  /\ Receive(e, Head(bus[e]))
  /\ bus' = [bus EXCEPT ![e] = Tail(@)]
  /\ UNCHANGED <<queued, handled, events, registered, deadEvents, addrKnown, conns,
                 breaks, coalesced>>
-----------------------------------------------------------------------------
Next ==
  \/ \E e \in Ends : \/ SendTo(e) \/ FallbackNatsMqSend(e) \/ GateTcpMqSend(e) \/ WriteFails(e)
                     \/ HandleConnect(e) \/ HandleDisconnect(e) \/ NatsMsgRecv(e)
                     \/ \E c \in ConnIds : GateTcpMqRecv(e, c) \/ RecvFails(e, c)
  \/ \E c \in ConnIds : \/ GateTcpMqHandshake(c) \/ PostConnect(c) \/ HandshakeRefused(c)
                         \/ Break(c)
  \/ GateTcpMqConn \/ ForgetAddr

Spec == Init /\ [][Next]_vars
-----------------------------------------------------------------------------
EventType == [type : {"connect", "disconnect"}, conn : ConnIds]
ConnType ==
  [open : [Ends -> BOOLEAN], reader : [Ends -> BOOLEAN], greeted : BOOLEAN, posting : BOOLEAN,
   broken : BOOLEAN, pipe : [Ends -> Seq(Msgs \cup {Hello})]]
TypeOK ==
  /\ queued \in [Ends -> 0 .. MaxMsgs] /\ handled \in [Ends -> 0 .. MaxMsgs]
  /\ conns \in Seq(ConnType) /\ events \in [Ends -> Seq(EventType)]
  /\ registered \in [Ends -> ConnIds \cup {None}] /\ deadEvents \in [Ends -> Nat]
  /\ addrKnown \in BOOLEAN /\ bus \in [Ends -> Seq(Msgs)]
  /\ got \in [Ends -> [Msgs -> Nat]] /\ breaks \in Nat /\ coalesced \in BOOLEAN

Items(s) == {s[i] : i \in DOMAIN s}
\* Where a message that has been handled is: the ways it can still arrive, and its arrivals.
Ways(e, m) == Cardinality({c \in ConnIds : m \in Items(conns[c].pipe[e])})
              + Cardinality({i \in DOMAIN bus[e] : bus[e][i] = m}) + got[e][m]

\* A message never arrives twice, although a failed write sends it again by NATS; and while
\* no connection has broken and no greeting has been read together with a message, none is
\* lost, whichever way each was sent and however the two ends' registrations differ.
OneWay ==
  \A e \in Ends : \A m \in 1 .. handled[e] :
    /\ Ways(e, m) <= 1
    /\ breaks = 0 /\ ~coalesced => Ways(e, m) = 1

\* The connecting goroutine and the sending goroutine agree: when the address of the gate is
\* known and no event is on its way between the two, the sender has a connection that is
\* open or whose reader has yet to report its end.  Otherwise the server would use NATS until
\* it is restarted.
AddrMapAgrees ==
  addrKnown /\ events["gs"] = <<>> /\ deadEvents["gs"] = 0 =>
    /\ registered["gs"] # None
    /\ \/ conns[registered["gs"]].open["gs"]
       \/ conns[registered["gs"]].reader["gs"]
=============================================================================
