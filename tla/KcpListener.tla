----------------------------- MODULE KcpListener -----------------------------
(***************************************************************************)
(* A gate's KCP listener (src/gate/kcp/session.go, udp_socket*.go) and the *)
(* goroutines of kcp_connect_manager.go that accept and close connections: *)
(* the Enet handshake that hands out a conversation number, the table of   *)
(* sessions by that number, the accept queue, and the closing of a         *)
(* session by whichever of its goroutines comes first.                     *)
(***************************************************************************)
EXTENDS Integers, Sequences, FiniteSets

CONSTANTS
  Clients,
  Backlog,   \* acceptBacklog (128)
  MaxConvs,  \* bound: conversation numbers handed out
  MaxSocks,  \* bound: UDPSessions created
  MaxPackets \* bound: packets in the network

\* What they are: whoever instantiates the module sees to it.
ListenerAssumption == MaxConvs \in Nat

VARIABLES
  client,    \* [client -> its conversation, or None]
  convs,     \* conversation numbers handed out so far (convGenMap)
  socks,     \* the UDPSessions created, in order
  sessions,  \* Listener.sessions: conversation -> socket or None
  accepts,   \* chAccepts
  registered,\* sessionConvIdMap: conversation -> socket or None
  connNum,   \* CLIENT_CONN_NUM
  openState, \* openState
  packets,
  raced      \* history: two goroutines closed one connection at the same time

vars == <<client, convs, socks, sessions, accepts, registered, connNum, openState,
          packets, raced>>

None == 0
Convs == 1 .. MaxConvs
Ids == 1 .. Len(socks)
Packet(type, c, conv) == [type |-> type, client |-> c, conv |-> conv]
Send(p) == Cardinality(packets \cup {p}) <= MaxPackets /\ packets' = packets \cup {p}
\* A packet is lost, delivered, or delivered and still on its way.
Remains(p) == {packets, packets \ {p}}

Init ==
  /\ client = [c \in Clients |-> None]
  /\ convs = 0 /\ socks = <<>> /\ sessions = [v \in Convs |-> None]
  /\ accepts = <<>> /\ registered = [v \in Convs |-> None]
  /\ connNum = 0 /\ openState = TRUE /\ packets = {} /\ raced = FALSE

Manager == <<accepts, registered, connNum, openState, raced>>
-----------------------------------------------------------------------------
\* The client asks for a conversation, uses the first it is told, and leaves
\* with or without saying so.  Packets carry no address: a session has none of its own.
ClientSyn(c) ==
  /\ client[c] = None
  /\ Send(Packet("syn", c, None))
  /\ UNCHANGED <<client, convs, socks, sessions, Manager>>

ClientEst(p) ==
  /\ p \in packets /\ p.type = "est" /\ client[p.client] = None
  /\ client' = [client EXCEPT ![p.client] = p.conv]
  /\ packets' \in Remains(p)
  /\ UNCHANGED <<convs, socks, sessions, Manager>>

ClientData(c) ==
  /\ client[c] # None
  /\ Send(Packet("data", c, client[c]))
  /\ UNCHANGED <<client, convs, socks, sessions, Manager>>

ClientFin(c) ==
  /\ client[c] # None
  /\ Send(Packet("fin", c, client[c]))
  /\ client' = [client EXCEPT ![c] = None]
  /\ UNCHANGED <<convs, socks, sessions, Manager>>

Lost(p) ==
  /\ p \in packets /\ packets' = packets \ {p}
  /\ UNCHANGED <<client, convs, socks, sessions, Manager>>
-----------------------------------------------------------------------------
\* enetHandle: a handshake packet, be it a repeated one, gets a number not used before.
EnetSyn(p) ==
  /\ p \in packets /\ p.type = "syn" /\ convs < MaxConvs
  /\ convs' = convs + 1
  /\ \E rest \in Remains(p) : packets' = rest \cup {Packet("est", p.client, convs')}
  /\ Cardinality(packets') <= MaxPackets
  /\ UNCHANGED <<client, socks, sessions, Manager>>

\* Listener.monitor and packetInput: a packet of a known conversation goes to its session,
\* whatever address it comes from; any other makes a new session if the backlog has room.
NewSock(v) == [conv |-> v, dead |-> FALSE, state |-> "queued", closers |-> 0]
PacketInput(p) ==
  /\ p \in packets /\ p.type = "data"
  /\ packets' \in Remains(p)
  /\ IF sessions[p.conv] # None \/ Len(accepts) = Backlog
       THEN UNCHANGED <<socks, sessions, accepts>>
       ELSE /\ Len(socks) < MaxSocks
            /\ socks' = Append(socks, NewSock(p.conv))
            /\ sessions' = [sessions EXCEPT ![p.conv] = Len(socks) + 1]
            /\ accepts' = Append(accepts, Len(socks) + 1)
  /\ UNCHANGED <<client, convs, registered, connNum, openState, raced>>

\* Mutant: every caller takes the conversation out of the table.
ForgetSockAlways(i) == [sessions EXCEPT ![socks[i].conv] = None]

\* UDPSession.Close, its first caller only: the session is dead, and forgotten by the listener.
ForgetSock(i) == IF ~socks[i].dead THEN [sessions EXCEPT ![socks[i].conv] = None] ELSE sessions

\* acceptHandle.
AcceptHandle ==
  /\ accepts # <<>>
  /\ accepts' = Tail(accepts)
  /\ LET i == Head(accepts)
     IN IF openState
          THEN /\ socks' = [socks EXCEPT ![i].state = "est"]
               /\ connNum' = connNum + 1
               /\ UNCHANGED sessions
          ELSE /\ socks' = [socks EXCEPT ![i].state = "closed", ![i].dead = TRUE]
               /\ sessions' = ForgetSock(i)
               /\ UNCHANGED connNum
  /\ UNCHANGED <<client, convs, packets, registered, openState, raced>>

\* The player's token is accepted: SetSession registers the connection.
SetSession(i) ==
  /\ socks[i].state = "est" /\ registered[socks[i].conv] # i
  /\ registered' = [registered EXCEPT ![socks[i].conv] = i]
  /\ UNCHANGED <<client, convs, socks, sessions, packets, accepts, connNum, openState,
                 raced>>

\* enetHandle: a registered connection is closed below its Session, whose goroutines find out.
EnetFin(p) ==
  /\ p \in packets /\ p.type = "fin"
  /\ packets' \in Remains(p)
  /\ IF registered[p.conv] = None THEN UNCHANGED <<socks, sessions>>
     ELSE /\ socks' = [socks EXCEPT ![registered[p.conv]].dead = TRUE]
          /\ sessions' = ForgetSock(registered[p.conv])
  /\ UNCHANGED <<client, convs, Manager>>

\* closeKcpConn looks at connState first: the receiving goroutine after an error or 30 seconds
\* of silence, the sending one after an error, a kick.
CloseCheck(i) ==
  /\ socks[i].state = "est" /\ socks[i].closers < 2
  /\ socks' = [socks EXCEPT ![i].closers = @ + 1]
  /\ UNCHANGED <<client, convs, sessions, packets, Manager>>

\* The rest of closeKcpConn.
CloseKcpConn(i) ==
  /\ socks[i].closers > 0
  /\ socks' = [socks EXCEPT ![i].closers = @ - 1, ![i].state = "closed", ![i].dead = TRUE]
  /\ sessions' = ForgetSock(i)
  /\ registered' = [registered EXCEPT ![socks[i].conv] = None]
  /\ connNum' = connNum - 1
  /\ raced' = (raced \/ socks[i].closers > 1)
  /\ UNCHANGED <<client, convs, packets, accepts, openState>>

\* eventHandle: the gate is closed to new connections; closeAllKcpConn closes the registered
\* ones.  (Bound: not while another goroutine is closing one.)
GateOpenState ==
  /\ \A i \in Ids : socks[i].closers = 0
  /\ openState' = ~openState
  /\ socks' = IF openState
                THEN [i \in Ids |-> IF \E v \in Convs : registered[v] = i /\ socks[i].state = "est"
                                      THEN [socks[i] EXCEPT !.closers = @ + 1] ELSE socks[i]]
                ELSE socks
  /\ UNCHANGED <<client, convs, sessions, packets, accepts, registered, connNum, raced>>
-----------------------------------------------------------------------------
Next ==
  \/ \E c \in Clients : ClientSyn(c) \/ ClientData(c) \/ ClientFin(c)
  \/ \E p \in packets : ClientEst(p) \/ Lost(p) \/ EnetSyn(p) \/ PacketInput(p) \/ EnetFin(p)
  \/ \E i \in Ids : SetSession(i) \/ CloseCheck(i) \/ CloseKcpConn(i)
  \/ AcceptHandle \/ GateOpenState

Spec == Init /\ [][Next]_vars
-----------------------------------------------------------------------------
PacketType ==
  [type : {"syn"}, client : Clients, conv : {None}]
  \cup [type : {"est", "data", "fin"}, client : Clients, conv : Convs]
SockType ==
  [conv : Convs, dead : BOOLEAN, state : {"queued", "est", "closed"}, closers : Nat]
TypeOK ==
  /\ client \in [Clients -> Convs \cup {None}]
  /\ convs \in 0 .. MaxConvs
  /\ socks \in Seq(SockType)
  /\ sessions \in [Convs -> Ids \cup {None}]
  /\ accepts \in Seq(Ids)
  /\ registered \in [Convs -> Ids \cup {None}]
  /\ connNum \in Int /\ openState \in BOOLEAN /\ raced \in BOOLEAN
  /\ packets \subseteq PacketType

\* The listener's table holds exactly the live sessions: a session that a late packet made
\* under the number of a closed one keeps receiving when the older one is closed once more.
TableAgrees ==
  /\ \A i \in Ids : ~socks[i].dead => sessions[socks[i].conv] = i
  /\ \A v \in Convs : sessions[v] # None => /\ sessions[v] \in Ids
                                            /\ ~socks[sessions[v]].dead
                                            /\ socks[sessions[v]].conv = v

\* Unless two goroutines pass closeKcpConn's check at once, CLIENT_CONN_NUM, the load by which
\* logins are sent to gates, counts the open connections.
ConnNumAgrees ==
  raced \/ connNum = Cardinality({i \in Ids : socks[i].state = "est"})
=============================================================================
