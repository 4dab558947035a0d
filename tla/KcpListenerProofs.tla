--------------------------- MODULE KcpListenerProofs ---------------------------
(* Proofs about KcpListener, for any clients, backlog and bounds.           *)
EXTENDS KcpListener, FiniteSetTheorems, TLAPS

-----------------------------------------------------------------------------
(* Types.                                                                  *)

\* The sockets there are stay there, and more may come.
LEMMA SockIs ==
  ASSUME TypeOK, NEW i \in Ids
  PROVE  /\ socks[i] \in SockType /\ socks[i].conv \in Convs /\ socks[i].dead \in BOOLEAN
         /\ socks[i].state \in {"queued", "est", "closed"} /\ socks[i].closers \in Nat
         /\ DOMAIN socks = Ids /\ Len(socks) \in Nat
<1>1. socks[i] \in SockType /\ DOMAIN socks = Ids /\ Len(socks) \in Nat
  BY DEF TypeOK, Ids
<1> QED BY <1>1 DEF SockType

\* What a packet is that arrives and what may be left of it on the network.
LEMMA PacketIs ==
  ASSUME TypeOK, NEW p \in packets
  PROVE  /\ p.client \in Clients
         /\ p.type # "syn" => p.conv \in Convs
         /\ \A rest \in Remains(p) : rest \subseteq PacketType
BY DEF TypeOK, PacketType, Remains

\* A socket is written.
LEMMA SockBecomes ==
  ASSUME TypeOK, NEW i \in Ids, NEW s \in SockType, socks' = [socks EXCEPT ![i] = s]
  PROVE  /\ socks' \in Seq(SockType) /\ Len(socks') = Len(socks) /\ Ids' = Ids
         /\ socks'[i] = s /\ \A j \in Ids \ {i} : socks'[j] = socks[j]
<1>1. socks \in Seq(SockType) /\ DOMAIN socks = Ids /\ Ids = 1 .. Len(socks) /\ Len(socks) \in Nat
  BY DEF TypeOK, Ids
<1>2. socks' \in Seq(SockType) /\ Len(socks') = Len(socks)
  BY <1>1
<1> QED BY <1>1, <1>2 DEF Ids

\* The listener forgets a socket.
LEMMA ForgetIs ==
  ASSUME TypeOK, NEW i \in Ids
  PROVE  /\ ForgetSock(i) \in [Convs -> Ids \cup {None}]
         /\ \A v \in Convs :
              ForgetSock(i)[v] = IF ~socks[i].dead /\ v = socks[i].conv THEN None ELSE sessions[v]
<1>1. sessions \in [Convs -> Ids \cup {None}] /\ socks[i].conv \in Convs
  BY SockIs DEF TypeOK
<1> QED BY <1>1 DEF ForgetSock

\* Nothing has arrived at the start.
LEMMA InitType == ASSUME ListenerAssumption, Init PROVE TypeOK
<1>1. socks = << >> /\ accepts = << >> /\ Ids = {}
  BY DEF Init, Ids
<1>2. socks \in Seq(SockType) /\ accepts \in Seq(Ids)
  BY <1>1
<1>3. client \in [Clients -> Convs \cup {None}] /\ convs \in 0 .. MaxConvs
  BY DEF Init, ListenerAssumption
<1>4. sessions \in [Convs -> Ids \cup {None}] /\ registered \in [Convs -> Ids \cup {None}]
  BY DEF Init
<1>5. connNum \in Int
  BY DEF Init
<1>6. openState \in BOOLEAN /\ raced \in BOOLEAN /\ packets \subseteq PacketType
  BY Zenon DEF Init
<1> QED BY <1>2, <1>3, <1>4, <1>5, <1>6 DEF TypeOK

\* What a client does, and what the network loses.
LEMMA ClientType ==
  ASSUME ListenerAssumption, TypeOK,
         \/ \E c \in Clients : ClientSyn(c) \/ ClientData(c) \/ ClientFin(c)
         \/ \E p \in packets : ClientEst(p) \/ Lost(p) \/ EnetSyn(p)
  PROVE  TypeOK' /\ UNCHANGED <<socks, sessions, Manager>>
<1>0. UNCHANGED <<socks, sessions, Manager>>
  BY DEF ClientSyn, ClientData, ClientFin, ClientEst, Lost, EnetSyn
<1>1. Ids' = Ids
  BY <1>0 DEF Ids
<1> DEFINE Typed == /\ client' \in [Clients -> Convs \cup {None}] /\ convs' \in 0 .. MaxConvs
                    /\ packets' \subseteq PacketType
<1>2. Typed
  <2>1. ASSUME NEW c \in Clients, ClientSyn(c) \/ ClientData(c) \/ ClientFin(c)
        PROVE  Typed
    <3>1. client[c] \in Convs \cup {None}
      BY DEF TypeOK
    <3> QED BY <2>1, <3>1 DEF ClientSyn, ClientData, ClientFin, Send, Packet, PacketType, TypeOK
  <2>2. ASSUME NEW p \in packets, ClientEst(p) \/ Lost(p)
        PROVE  Typed
    BY <2>2, PacketIs DEF ClientEst, Lost, TypeOK
  <2>3. ASSUME NEW p \in packets, EnetSyn(p)
        PROVE  Typed
    <3>1. client' = client /\ convs' = convs + 1 /\ convs < MaxConvs
      BY <2>3 DEF EnetSyn
    <3>2. PICK rest \in Remains(p) : packets' = rest \cup {Packet("est", p.client, convs')}
      BY <2>3 DEF EnetSyn
    <3>3. convs' \in Convs /\ convs' \in 0 .. MaxConvs
      BY <3>1 DEF ListenerAssumption, TypeOK, Convs
    <3>4. Packet("est", p.client, convs') \in PacketType
      <4>1. p.client \in Clients
        BY PacketIs
      <4> QED BY <3>3, <4>1 DEF Packet, PacketType
    <3> QED BY <3>1, <3>2, <3>3, <3>4, PacketIs DEF TypeOK
  <2> QED BY <2>1, <2>2, <2>3 DEF ClientSyn, ClientData, ClientFin, ClientEst, Lost, EnetSyn
<1> QED BY <1>0, <1>1, <1>2 DEF TypeOK, Manager

\* A step of the gate on one socket, which keeps its number and, unless it lives on as it was,
\* is forgotten.
OneSock(i, s) ==
  /\ s \in SockType /\ s.conv = socks[i].conv
  /\ socks' = [socks EXCEPT ![i] = s]
  /\ \/ sessions' = sessions /\ (s.dead <=> socks[i].dead)
     \/ sessions' = ForgetSock(i) /\ s.dead

\* What else a step of the gate writes is of its type.
OthersTyped ==
  /\ registered' \in [Convs -> Ids \cup {None}] /\ accepts' \in Seq(Ids) /\ connNum' \in Int
  /\ client' = client /\ convs' = convs /\ packets' \subseteq PacketType
  /\ openState' \in BOOLEAN /\ raced' \in BOOLEAN

\* A step on one socket leaves the types alone.
LEMMA OneSockType ==
  ASSUME TypeOK, NEW i \in Ids, NEW s, OneSock(i, s), OthersTyped
  PROVE  TypeOK'
<1>1. socks' \in Seq(SockType) /\ Ids' = Ids
  BY SockBecomes DEF OneSock
<1>2. sessions' \in [Convs -> Ids' \cup {None}]
  BY <1>1, ForgetIs DEF TypeOK, OneSock
<1> QED BY <1>1, <1>2 DEF TypeOK, OthersTyped

\* A socket that is marked dead is one still, with nothing else changed.
LEMMA SockDies ==
  ASSUME NEW s \in SockType
  PROVE  /\ [s EXCEPT !.dead = TRUE] \in SockType
         /\ [s EXCEPT !.dead = TRUE].conv = s.conv /\ [s EXCEPT !.dead = TRUE].dead
         /\ [s EXCEPT !.dead = TRUE].state = s.state
         /\ [s EXCEPT !.dead = TRUE].closers = s.closers
BY DEF SockType

\* The same, of its state.
LEMMA SockMoves ==
  ASSUME NEW s \in SockType, NEW st \in {"queued", "est", "closed"}
  PROVE  /\ [s EXCEPT !.state = st] \in SockType
         /\ [s EXCEPT !.state = st].conv = s.conv
         /\ [s EXCEPT !.state = st].dead <=> s.dead
         /\ [s EXCEPT !.state = st].state = st
         /\ [s EXCEPT !.state = st].closers = s.closers
BY DEF SockType

\* The same, of the number of its closers.
LEMMA SockCounts ==
  ASSUME NEW s \in SockType, NEW n \in Nat
  PROVE  /\ [s EXCEPT !.closers = n] \in SockType
         /\ [s EXCEPT !.closers = n].conv = s.conv
         /\ [s EXCEPT !.closers = n].dead <=> s.dead
         /\ [s EXCEPT !.closers = n].state = s.state
         /\ [s EXCEPT !.closers = n].closers = n
BY DEF SockType

\* What a step on one socket makes of its state and of the number of its closers.
Writes(i, st, n) == \E s : OneSock(i, s) /\ s.state = st /\ s.closers = n

\* acceptHandle opens the socket at the head of the queue, or closes it.
LEMMA AcceptWrites ==
  ASSUME TypeOK, AcceptHandle
  PROVE  /\ Head(accepts) \in Ids /\ accepts' = Tail(accepts) /\ OthersTyped
         /\ openState => /\ Writes(Head(accepts), "est", socks[Head(accepts)].closers)
                         /\ connNum' = connNum + 1
         /\ ~openState => /\ Writes(Head(accepts), "closed", socks[Head(accepts)].closers)
                          /\ connNum' = connNum
         /\ registered' = registered /\ raced' = raced
<1> DEFINE i == Head(accepts)
<1>1. i \in Ids /\ accepts' = Tail(accepts) /\ Tail(accepts) \in Seq(Ids)
  BY DEF AcceptHandle, TypeOK
<1>2. OthersTyped /\ registered' = registered /\ raced' = raced
  BY <1>1 DEF AcceptHandle, OthersTyped, TypeOK
<1>3. socks[i] \in SockType
  BY <1>1, SockIs
<1>4. ASSUME openState PROVE Writes(i, "est", socks[i].closers) /\ connNum' = connNum + 1
  <2> DEFINE s == [socks[i] EXCEPT !.state = "est"]
  <2>1. /\ s \in SockType /\ s.conv = socks[i].conv /\ (s.dead <=> socks[i].dead)
        /\ s.state = "est" /\ s.closers = socks[i].closers
    BY <1>3, SockMoves
  <2>2. socks' = [socks EXCEPT ![i] = s] /\ sessions' = sessions /\ connNum' = connNum + 1
    BY <1>4 DEF AcceptHandle
  <2> QED BY <2>1, <2>2 DEF Writes, OneSock
<1>5. ASSUME ~openState PROVE Writes(i, "closed", socks[i].closers) /\ connNum' = connNum
  <2> DEFINE c == [socks[i] EXCEPT !.state = "closed"]
             s == [c EXCEPT !.dead = TRUE]
  <2>1. c \in SockType /\ c.conv = socks[i].conv /\ c.state = "closed" /\ c.closers = socks[i].closers
    BY <1>3, SockMoves
  <2>2. /\ s \in SockType /\ s.conv = socks[i].conv /\ s.dead
        /\ s.state = "closed" /\ s.closers = socks[i].closers
    <3> HIDE DEF c
    <3> QED BY <2>1, SockDies
  <2>3. /\ socks' = [socks EXCEPT ![i] = s] /\ sessions' = ForgetSock(i)
        /\ connNum' = connNum
    BY <1>5, <1>1, <1>3 DEF AcceptHandle, TypeOK, Ids
  <2> QED BY <2>2, <2>3 DEF Writes, OneSock
<1> QED BY <1>1, <1>2, <1>4, <1>5

\* A FIN kills the socket that is registered under its number.
LEMMA FinWrites ==
  ASSUME TypeOK, NEW p \in packets, EnetFin(p)
  PROVE  /\ OthersTyped /\ UNCHANGED Manager
         /\ \/ UNCHANGED <<socks, sessions>>
            \/ \E i \in Ids : Writes(i, socks[i].state, socks[i].closers)
<1> DEFINE i == registered[p.conv]
<1>0. p.type = "fin" /\ p.conv \in Convs /\ packets' \subseteq PacketType
  BY PacketIs DEF EnetFin
<1>1. OthersTyped /\ UNCHANGED Manager
  BY <1>0 DEF EnetFin, OthersTyped, Manager, TypeOK
<1>2. ASSUME i # None PROVE i \in Ids /\ Writes(i, socks[i].state, socks[i].closers)
  <2> DEFINE s == [socks[i] EXCEPT !.dead = TRUE]
  <2>1. i \in Ids
    BY <1>0, <1>2 DEF TypeOK
  <2>2. /\ s \in SockType /\ s.conv = socks[i].conv /\ s.dead
        /\ s.state = socks[i].state /\ s.closers = socks[i].closers
    BY <2>1, SockIs, SockDies
  <2>3. socks' = [socks EXCEPT ![i] = s] /\ sessions' = ForgetSock(i)
    BY <1>2 DEF EnetFin
  <2> QED BY <2>1, <2>2, <2>3 DEF Writes, OneSock
<1> QED BY <1>1, <1>2 DEF EnetFin

\* A goroutine decides to close.
LEMMA CheckWrites ==
  ASSUME TypeOK, NEW i \in Ids, CloseCheck(i)
  PROVE  /\ OthersTyped /\ UNCHANGED Manager /\ socks[i].state = "est"
         /\ Writes(i, "est", socks[i].closers + 1)
<1> DEFINE n == socks[i].closers + 1
           s == [socks[i] EXCEPT !.closers = n]
<1>1. OthersTyped /\ UNCHANGED Manager /\ socks[i].state = "est"
  BY DEF CloseCheck, OthersTyped, Manager, TypeOK
<1>2. n \in Nat /\ socks[i] \in SockType
  BY SockIs
<1>3. /\ s \in SockType /\ s.conv = socks[i].conv /\ (s.dead <=> socks[i].dead)
      /\ s.state = socks[i].state /\ s.closers = n
  <2> HIDE DEF n
  <2> QED BY <1>2, SockCounts
<1>4. socks' = [socks EXCEPT ![i] = s] /\ sessions' = sessions
  BY DEF CloseCheck
<1> QED BY <1>1, <1>3, <1>4 DEF Writes, OneSock

\* A goroutine closes.
LEMMA CloseWrites ==
  ASSUME TypeOK, NEW i \in Ids, CloseKcpConn(i)
  PROVE  /\ OthersTyped /\ Writes(i, "closed", socks[i].closers - 1) /\ socks[i].closers > 0
         /\ registered' = [registered EXCEPT ![socks[i].conv] = None]
         /\ connNum' = connNum - 1 /\ accepts' = accepts
         /\ raced' <=> (raced \/ socks[i].closers > 1)
<1> DEFINE n == socks[i].closers - 1
           a == [socks[i] EXCEPT !.closers = n]
           c == [a EXCEPT !.state = "closed"]
           s == [c EXCEPT !.dead = TRUE]
<1>1. n \in Nat /\ socks[i] \in SockType /\ socks[i].closers > 0
  BY SockIs DEF CloseKcpConn
<1>2. a \in SockType /\ a.conv = socks[i].conv /\ a.closers = n
  <2> HIDE DEF n
  <2> QED BY <1>1, SockCounts
<1>3. c \in SockType /\ c.conv = socks[i].conv /\ c.closers = n /\ c.state = "closed"
  <2> HIDE DEF a
  <2> QED BY <1>2, SockMoves
<1>4. s \in SockType /\ s.conv = socks[i].conv /\ s.closers = n /\ s.state = "closed" /\ s.dead
  <2> HIDE DEF c
  <2> QED BY <1>3, SockDies
<1>5. socks' = [socks EXCEPT ![i] = s] /\ sessions' = ForgetSock(i)
  BY <1>1 DEF CloseKcpConn, TypeOK, Ids
<1>6. /\ registered' = [registered EXCEPT ![socks[i].conv] = None]
      /\ connNum' = connNum - 1 /\ accepts' = accepts
      /\ raced' <=> (raced \/ socks[i].closers > 1)
  BY Zenon DEF CloseKcpConn
<1>7. raced' \in BOOLEAN
  BY Zenon DEF CloseKcpConn
<1>8. OthersTyped
  BY <1>1, <1>6, <1>7, SockIs DEF CloseKcpConn, OthersTyped, TypeOK
<1> QED BY <1>1, <1>4, <1>5, <1>6, <1>8 DEF Writes, OneSock

\* The gate is closed or opened: no socket changes its number or its state, or dies.
LEMMA GateChanges ==
  ASSUME TypeOK, GateOpenState
  PROVE  /\ OthersTyped /\ UNCHANGED <<sessions, accepts, registered, connNum, raced>>
         /\ socks' \in Seq(SockType) /\ Ids' = Ids
         /\ \A i \in Ids : /\ socks'[i].conv = socks[i].conv /\ socks'[i].state = socks[i].state
                           /\ socks'[i].dead <=> socks[i].dead
                           /\ \/ socks'[i].closers = socks[i].closers
                              \/ socks'[i].closers = 1 /\ socks[i].state = "est"
<1>1. OthersTyped /\ UNCHANGED <<sessions, accepts, registered, connNum, raced>>
  BY DEF GateOpenState, OthersTyped, TypeOK
<1>2. CASE socks' = socks
  BY <1>1, <1>2, SockIs DEF TypeOK, Ids
<1> DEFINE closes(i) == (\E v \in Convs : registered[v] = i /\ socks[i].state = "est")
           s(i) == [socks[i] EXCEPT !.closers = socks[i].closers + 1]
           t(i) == IF closes(i) THEN s(i) ELSE socks[i]
<1>3. CASE socks' = [i \in Ids |-> t(i)]
  <2>1. ASSUME NEW i \in Ids
        PROVE  /\ s(i) \in SockType /\ s(i).conv = socks[i].conv /\ s(i).state = socks[i].state
               /\ s(i).dead <=> socks[i].dead
               /\ s(i).closers = 1
    <3> DEFINE n == socks[i].closers + 1
    <3>1. n \in Nat /\ n = 1 /\ socks[i] \in SockType
      BY SockIs DEF GateOpenState
    <3>2. s(i) = [socks[i] EXCEPT !.closers = n]
      OBVIOUS
    <3> HIDE DEF n, s
    <3> QED BY <3>1, <3>2, SockCounts
  <2> HIDE DEF s
  <2>2. \A i \in Ids : t(i) \in SockType
    BY <2>1, SockIs
  <2>3. Ids = 1 .. Len(socks) /\ Len(socks) \in Nat
    BY DEF TypeOK, Ids
  <2>4. socks' \in Seq(SockType) /\ Len(socks') = Len(socks)
    <3> HIDE DEF t
    <3> QED BY <1>3, <2>2, <2>3
  <2>5. ASSUME NEW i \in Ids
        PROVE  /\ socks'[i].conv = socks[i].conv /\ socks'[i].state = socks[i].state
               /\ socks'[i].dead <=> socks[i].dead
               /\ \/ socks'[i].closers = socks[i].closers
                  \/ socks'[i].closers = 1 /\ socks[i].state = "est"
    <3>1. CASE closes(i)
      BY <1>3, <2>1, <3>1
    <3>2. CASE ~closes(i)
      BY <1>3, <3>2
    <3> QED BY <3>1, <3>2
  <2> QED BY <1>1, <2>4, <2>5 DEF Ids
<1> QED BY <1>2, <1>3 DEF GateOpenState

\* A packet of no known conversation makes a socket and queues it.
LEMMA InputGrows ==
  ASSUME TypeOK, NEW p \in packets, PacketInput(p)
  PROVE  /\ UNCHANGED <<client, convs, registered, connNum, openState, raced>>
         /\ packets' \subseteq PacketType
         /\ \/ UNCHANGED <<socks, sessions, accepts>>
            \/ \E v \in Convs :
                 /\ sessions[v] = None
                 /\ socks' = Append(socks, NewSock(v))
                 /\ sessions' = [sessions EXCEPT ![v] = Len(socks) + 1]
                 /\ accepts' = Append(accepts, Len(socks) + 1)
<1>1. p.type = "data" /\ p.conv \in Convs /\ packets' \subseteq PacketType
  BY PacketIs DEF PacketInput
<1>2. UNCHANGED <<client, convs, registered, connNum, openState, raced>>
  BY DEF PacketInput
<1> QED BY <1>1, <1>2 DEF PacketInput

\* A socket is added.
LEMMA SockAdded ==
  ASSUME TypeOK, NEW v \in Convs, socks' = Append(socks, NewSock(v))
  PROVE  /\ socks' \in Seq(SockType) /\ Ids \subseteq Ids'
         /\ Len(socks) + 1 \notin Ids /\ Ids' = Ids \cup {Len(socks) + 1}
         /\ socks'[Len(socks) + 1] = NewSock(v) /\ \A i \in Ids : socks'[i] = socks[i]
<1>1. NewSock(v) \in SockType
  BY DEF NewSock, SockType
<1>2. socks \in Seq(SockType) /\ Len(socks) \in Nat
  BY DEF TypeOK
<1>3. socks' \in Seq(SockType) /\ Len(socks') = Len(socks) + 1
  BY <1>1, <1>2
<1> HIDE DEF NewSock
<1>4. socks'[Len(socks) + 1] = NewSock(v) /\ \A i \in 1 .. Len(socks) : socks'[i] = socks[i]
  BY <1>2
<1> QED BY <1>2, <1>3, <1>4 DEF Ids

\* Every step leaves the types alone.
LEMMA NextType == ASSUME ListenerAssumption, TypeOK, [Next]_vars PROVE TypeOK'
<1>1. CASE UNCHANGED vars
  BY <1>1 DEF vars, TypeOK, Ids
<1>2. CASE \/ \E c \in Clients : ClientSyn(c) \/ ClientData(c) \/ ClientFin(c)
           \/ \E p \in packets : ClientEst(p) \/ Lost(p) \/ EnetSyn(p)
  BY <1>2, ClientType
<1>3. ASSUME NEW p \in packets, PacketInput(p) PROVE TypeOK'
  <2>1. /\ UNCHANGED <<client, convs, registered, connNum, openState, raced>>
        /\ packets' \subseteq PacketType
    BY <1>3, InputGrows
  <2>2. CASE UNCHANGED <<socks, sessions, accepts>>
    BY <2>1, <2>2 DEF TypeOK, Ids
  <2>3. ASSUME NEW v \in Convs, socks' = Append(socks, NewSock(v)),
               sessions' = [sessions EXCEPT ![v] = Len(socks) + 1],
               accepts' = Append(accepts, Len(socks) + 1)
        PROVE  TypeOK'
    <3>1. /\ socks' \in Seq(SockType) /\ Ids \subseteq Ids'
          /\ Len(socks) + 1 \in Ids'
      BY <2>3, SockAdded
    <3>2. sessions' \in [Convs -> Ids' \cup {None}] /\ registered' \in [Convs -> Ids' \cup {None}]
      BY <2>1, <2>3, <3>1 DEF TypeOK
    <3>3. accepts' \in Seq(Ids')
      <4>1. accepts \in Seq(Ids')
        <5>1. accepts \in Seq(Ids) /\ Len(accepts) \in Nat
          BY DEF TypeOK
        <5>2. accepts = [n \in 1 .. Len(accepts) |-> accepts[n]]
          BY <5>1
        <5>3. \A n \in 1 .. Len(accepts) : accepts[n] \in Ids'
          BY <5>1, <3>1
        <5> QED BY <5>1, <5>2, <5>3
      <4> QED BY <4>1, <3>1, <2>3
    <3> QED BY <2>1, <3>1, <3>2, <3>3 DEF TypeOK
  <2> QED BY <1>3, <2>2, <2>3, InputGrows
<1>4. ASSUME NEW p \in packets, EnetFin(p) PROVE TypeOK'
  <2>1. OthersTyped /\ UNCHANGED Manager
    BY <1>4, FinWrites
  <2>2. CASE UNCHANGED <<socks, sessions>>
    BY <2>1, <2>2 DEF TypeOK, Ids, OthersTyped
  <2>3. CASE \E i \in Ids : Writes(i, socks[i].state, socks[i].closers)
    BY <2>1, <2>3, OneSockType DEF Writes
  <2> QED BY <1>4, <2>2, <2>3, FinWrites
<1>5. ASSUME NEW i \in Ids, SetSession(i) PROVE TypeOK'
  BY <1>5, SockIs DEF SetSession, TypeOK, Ids
<1>6. ASSUME NEW i \in Ids, CloseCheck(i) PROVE TypeOK'
  BY <1>6, CheckWrites, OneSockType DEF Writes
<1>7. ASSUME NEW i \in Ids, CloseKcpConn(i) PROVE TypeOK'
  BY <1>7, CloseWrites, OneSockType DEF Writes
<1>8. CASE AcceptHandle
  <2>1. Head(accepts) \in Ids /\ OthersTyped
    BY <1>8, AcceptWrites
  <2>2. \E st, n : Writes(Head(accepts), st, n)
    BY <1>8, AcceptWrites
  <2> QED BY <2>1, <2>2, OneSockType DEF Writes
<1>9. CASE GateOpenState
  <2>1. /\ OthersTyped /\ UNCHANGED sessions
        /\ socks' \in Seq(SockType) /\ Ids' = Ids
    BY <1>9, GateChanges
  <2> QED BY <2>1 DEF TypeOK, OthersTyped
<1> QED BY <1>1, <1>2, <1>3, <1>4, <1>5, <1>6, <1>7, <1>8, <1>9 DEF Next

\* Every variable has its type: a socket that the table, the accept queue or the map of
\* connections names is one the listener has made.
THEOREM TypeCorrect == ASSUME ListenerAssumption PROVE Spec => []TypeOK
<1>1. Init => TypeOK
  BY InitType
<1>2. TypeOK /\ [Next]_vars => TypeOK'
  BY NextType
<1> QED BY <1>1, <1>2, PTL DEF Spec
-----------------------------------------------------------------------------
(* The table of sessions.                                                  *)

\* A step on one socket keeps the table: what it forgets, it forgets under its own number.
LEMMA OneSockTable ==
  ASSUME TypeOK, TableAgrees, NEW i \in Ids, NEW s, OneSock(i, s)
  PROVE  TableAgrees'
<1>1. /\ Ids' = Ids /\ socks'[i] = s /\ \A j \in Ids \ {i} : socks'[j] = socks[j]
  BY SockBecomes DEF OneSock
<1>2. \A j \in Ids : socks[j].conv \in Convs /\ socks[j].dead \in BOOLEAN
  BY SockIs
<1>3. s.conv = socks[i].conv /\ s.dead \in BOOLEAN
  BY DEF OneSock, SockType
<1>4. \A j \in Ids : socks'[j].conv = socks[j].conv
  BY <1>1, <1>3
<1>5. CASE sessions' = sessions /\ (s.dead <=> socks[i].dead)
  <2>1. \A j \in Ids : socks'[j].dead <=> socks[j].dead
    BY <1>1, <1>5
  <2> QED BY <2>1, <1>1, <1>4, <1>5 DEF TableAgrees
<1>6. CASE sessions' = ForgetSock(i) /\ s.dead
  <2>1. \A v \in Convs :
          sessions'[v] = IF ~socks[i].dead /\ v = socks[i].conv THEN None ELSE sessions[v]
    BY <1>6, ForgetIs
  <2>2. socks'[i].dead /\ \A j \in Ids \ {i} : socks'[j].dead <=> socks[j].dead
    BY <1>1, <1>6
  <2>3. ASSUME NEW j \in Ids', ~socks'[j].dead PROVE sessions'[socks'[j].conv] = j
    <3>1. j \in Ids \ {i} /\ ~socks[j].dead /\ sessions[socks[j].conv] = j
      BY <1>1, <2>2, <2>3 DEF TableAgrees
    <3>2. ~(~socks[i].dead /\ socks[j].conv = socks[i].conv)
      BY <3>1 DEF TableAgrees
    <3> QED BY <1>2, <1>4, <2>1, <3>1, <3>2
  <2>4. ASSUME NEW v \in Convs, sessions'[v] # None
        PROVE  /\ sessions'[v] \in Ids' /\ ~socks'[sessions'[v]].dead
               /\ socks'[sessions'[v]].conv = v
    <3>1. sessions'[v] = sessions[v] /\ sessions[v] # None
      BY <2>1, <2>4
    <3>2. sessions[v] \in Ids /\ ~socks[sessions[v]].dead /\ socks[sessions[v]].conv = v
      BY <3>1 DEF TableAgrees
    <3>3. sessions[v] # i
      BY <2>1, <3>1, <3>2
    <3> QED BY <1>1, <1>4, <2>2, <3>1, <3>2, <3>3
  <2> QED BY <2>3, <2>4 DEF TableAgrees
<1> QED BY <1>5, <1>6 DEF OneSock

\* So does a new socket, which is made only under a number that the table does not have.
LEMMA NewSockTable ==
  ASSUME TypeOK, TableAgrees, NEW v \in Convs, sessions[v] = None,
         socks' = Append(socks, NewSock(v)), sessions' = [sessions EXCEPT ![v] = Len(socks) + 1]
  PROVE  TableAgrees'
<1> DEFINE n == Len(socks) + 1
<1>1. n \notin Ids /\ Ids' = Ids \cup {n} /\ socks'[n] = NewSock(v) /\ \A i \in Ids : socks'[i] = socks[i]
  BY SockAdded
<1>2. NewSock(v).conv = v /\ ~NewSock(v).dead
  BY DEF NewSock
<1>3. sessions'[v] = n /\ \A w \in Convs \ {v} : sessions'[w] = sessions[w]
  BY DEF TypeOK
<1> HIDE DEF n
<1>4. ASSUME NEW j \in Ids', ~socks'[j].dead PROVE sessions'[socks'[j].conv] = j
  <2>1. CASE j = n
    BY <1>1, <1>2, <1>3, <2>1
  <2>2. CASE j \in Ids
    <3>1. socks[j].conv \in Convs /\ sessions[socks[j].conv] = j /\ socks'[j] = socks[j]
      BY <1>1, <1>4, <2>2, SockIs DEF TableAgrees
    <3>2. j # None
      BY <2>2 DEF Ids, None
    <3> QED BY <1>3, <3>1, <3>2
  <2> QED BY <1>1, <2>1, <2>2
<1>5. ASSUME NEW w \in Convs, sessions'[w] # None
      PROVE  /\ sessions'[w] \in Ids' /\ ~socks'[sessions'[w]].dead
             /\ socks'[sessions'[w]].conv = w
  <2>1. CASE w = v
    <3>1. sessions'[w] = n /\ socks'[n].conv = v /\ ~socks'[n].dead /\ n \in Ids'
      BY <1>1, <1>2, <1>3, <2>1
    <3> QED BY <2>1, <3>1
  <2>2. CASE w # v
    <3>1. sessions'[w] = sessions[w] /\ sessions[w] # None
      BY <1>3, <1>5, <2>2
    <3>2. sessions[w] \in Ids /\ ~socks[sessions[w]].dead /\ socks[sessions[w]].conv = w
      BY <3>1 DEF TableAgrees
    <3>3. socks'[sessions[w]] = socks[sessions[w]] /\ sessions[w] \in Ids'
      BY <1>1, <3>2
    <3> QED BY <3>1, <3>2, <3>3
  <2> QED BY <2>1, <2>2
<1> QED BY <1>4, <1>5 DEF TableAgrees

\* Every step keeps the table.
LEMMA NextTable == ASSUME ListenerAssumption, TypeOK, TableAgrees, [Next]_vars PROVE TableAgrees'
<1>1. CASE UNCHANGED <<socks, sessions>>
  BY <1>1 DEF TableAgrees, Ids
<1>2. CASE \/ \E c \in Clients : ClientSyn(c) \/ ClientData(c) \/ ClientFin(c)
           \/ \E p \in packets : ClientEst(p) \/ Lost(p) \/ EnetSyn(p)
  BY <1>1, <1>2, ClientType
<1>3. ASSUME NEW p \in packets, PacketInput(p) PROVE TableAgrees'
  BY <1>1, <1>3, InputGrows, NewSockTable
<1>4. ASSUME NEW p \in packets, EnetFin(p) PROVE TableAgrees'
  <2>1. CASE \E i \in Ids : Writes(i, socks[i].state, socks[i].closers)
    BY <2>1, OneSockTable DEF Writes
  <2> QED BY <1>1, <1>4, <2>1, FinWrites
<1>5. ASSUME NEW i \in Ids, SetSession(i) PROVE TableAgrees'
  BY <1>1, <1>5 DEF SetSession
<1>6. ASSUME NEW i \in Ids, CloseCheck(i) PROVE TableAgrees'
  BY <1>6, CheckWrites, OneSockTable DEF Writes
<1>7. ASSUME NEW i \in Ids, CloseKcpConn(i) PROVE TableAgrees'
  BY <1>7, CloseWrites, OneSockTable DEF Writes
<1>8. CASE AcceptHandle
  <2>1. Head(accepts) \in Ids /\ \E st, n : Writes(Head(accepts), st, n)
    BY <1>8, AcceptWrites
  <2> QED BY <2>1, OneSockTable DEF Writes
<1>9. CASE GateOpenState
  <2>1. /\ UNCHANGED sessions /\ Ids' = Ids
        /\ \A i \in Ids : /\ socks'[i].conv = socks[i].conv
                          /\ socks'[i].dead <=> socks[i].dead
    BY <1>9, GateChanges
  <2> QED BY <2>1 DEF TableAgrees
<1> QED BY <1>1, <1>2, <1>3, <1>4, <1>5, <1>6, <1>7, <1>8, <1>9 DEF Next, vars

\* The listener's table holds exactly the live sessions, whoever closes them and how often,
\* and whatever packets arrive late or twice.
THEOREM TableCorrect == ASSUME ListenerAssumption PROVE Spec => []TableAgrees
<1>1. Init => TypeOK /\ TableAgrees
  <2>1. ASSUME Init PROVE TableAgrees
    <3>1. Ids = {} /\ \A v \in Convs : sessions[v] = None
      BY <2>1 DEF Init, Ids
    <3> QED BY <3>1 DEF TableAgrees
  <2> QED BY <2>1, InitType
<1>2. (TypeOK /\ TableAgrees) /\ [Next]_vars => (TypeOK /\ TableAgrees)'
  BY NextType, NextTable
<1> QED BY <1>1, <1>2, PTL DEF Spec
-----------------------------------------------------------------------------
(* The number of connections.                                              *)

\* The sockets that wait to be accepted, each once, and the open ones.
Awaiting == /\ \A n \in 1 .. Len(accepts) : socks[accepts[n]].state = "queued"
            /\ \A m, n \in 1 .. Len(accepts) : m # n => accepts[m] # accepts[n]
Open == {i \in Ids : socks[i].state = "est"}

\* What makes the count right: only accepted sockets are registered or closed, and only an
\* open one is, as long as no two goroutines close one at the same time.
ConnInv ==
  /\ Awaiting
  /\ \A v \in Convs : registered[v] # None => socks[registered[v]].state # "queued"
  /\ \A i \in Ids : socks[i].closers > 0 => /\ socks[i].state # "queued"
                                            /\ raced \/ socks[i].state = "est"
  /\ raced \/ connNum = Cardinality(Open)

\* There are finitely many open connections.
LEMMA OpenFinite == ASSUME TypeOK PROVE IsFiniteSet(Open) /\ Cardinality(Open) \in Nat
<1>1. Len(socks) \in Nat /\ Ids = 1 .. Len(socks)
  BY DEF TypeOK, Ids
<1>2. IsFiniteSet(Ids)
  BY <1>1, FS_Interval
<1>3. Open \subseteq Ids
  BY DEF Open
<1> QED BY <1>2, <1>3, FS_Subset, FS_CardinalityType

\* How a step on one socket changes the set of open ones.
LEMMA OpenBecomes ==
  ASSUME TypeOK, NEW i \in Ids, NEW s, OneSock(i, s)
  PROVE  Open' = IF s.state = "est" THEN Open \cup {i} ELSE Open \ {i}
<1>1. Ids' = Ids /\ socks'[i] = s /\ \A j \in Ids \ {i} : socks'[j] = socks[j]
  BY SockBecomes DEF OneSock
<1> QED BY <1>1 DEF Open

\* A step that leaves the state of every socket alone, closes only an open one and registers
\* only an accepted one.
LEMMA StatesKept ==
  ASSUME TypeOK, ConnInv, Ids' = Ids, UNCHANGED <<accepts, connNum, raced>>,
         \A i \in Ids : /\ socks'[i].state = socks[i].state
                        /\ socks'[i].closers > 0 => socks[i].closers > 0 \/ socks[i].state = "est",
         \A v \in Convs : \/ registered'[v] = registered[v]
                          \/ registered'[v] \in Ids /\ socks[registered'[v]].state # "queued"
  PROVE  ConnInv'
<1>1. Open' = Open
  BY DEF Open
<1>2. Awaiting'
  <2>1. \A n \in 1 .. Len(accepts) : accepts[n] \in Ids
    BY DEF TypeOK
  <2> QED BY <2>1 DEF ConnInv, Awaiting
<1>3. ASSUME NEW v \in Convs, registered'[v] # None
      PROVE  socks'[registered'[v]].state # "queued"
  <2>1. CASE registered'[v] = registered[v]
    <3>1. registered[v] \in Ids /\ socks[registered[v]].state # "queued"
      BY <1>3, <2>1 DEF ConnInv, TypeOK
    <3> QED BY <2>1, <3>1
  <2>2. CASE registered'[v] \in Ids /\ socks[registered'[v]].state # "queued"
    BY <2>2
  <2> QED BY <2>1, <2>2
<1>4. ASSUME NEW i \in Ids', socks'[i].closers > 0
      PROVE  socks'[i].state # "queued" /\ (raced' \/ socks'[i].state = "est")
  <2>1. i \in Ids /\ socks'[i].state = socks[i].state
    BY <1>4
  <2>2. raced' <=> raced
    OBVIOUS
  <2>3. CASE socks[i].closers > 0
    BY <2>1, <2>2, <2>3 DEF ConnInv
  <2>4. CASE socks[i].state = "est"
    BY <2>1, <2>4
  <2> QED BY <1>4, <2>1, <2>3, <2>4
<1>5. raced' \/ connNum' = Cardinality(Open')
  <2>1. raced \/ connNum = Cardinality(Open)
    BY DEF ConnInv
  <2>2. connNum' = connNum /\ (raced' <=> raced)
    OBVIOUS
  <2> QED BY <1>1, <2>1, <2>2
<1> QED BY <1>2, <1>3, <1>4, <1>5 DEF ConnInv

\* A step on one socket that leaves its state alone, as a special case.
LEMMA WritesKept ==
  ASSUME TypeOK, ConnInv, UNCHANGED Manager, NEW i \in Ids, NEW n \in Nat,
         n > 0 => socks[i].closers > 0 \/ socks[i].state = "est", Writes(i, socks[i].state, n)
  PROVE  ConnInv'
<1>1. PICK s : OneSock(i, s) /\ s.state = socks[i].state /\ s.closers = n
  BY DEF Writes
<1>2. Ids' = Ids /\ socks'[i] = s /\ \A j \in Ids \ {i} : socks'[j] = socks[j]
  BY <1>1, SockBecomes DEF OneSock
<1>3. \A j \in Ids : /\ socks'[j].state = socks[j].state
                     /\ socks'[j].closers > 0 => socks[j].closers > 0 \/ socks[j].state = "est"
  BY <1>1, <1>2
<1> QED BY <1>2, <1>3, StatesKept DEF Manager

\* acceptHandle: the socket it takes off the queue is counted if it is opened.
LEMMA AcceptConn == ASSUME TypeOK, ConnInv, AcceptHandle PROVE ConnInv'
<1> DEFINE i == Head(accepts)
<1>1. i \in Ids /\ accepts' = Tail(accepts) /\ registered' = registered /\ (raced' <=> raced)
  BY AcceptWrites
<1>2. /\ Len(accepts) \in Nat \ {0} /\ i = accepts[1]
      /\ Len(accepts') = Len(accepts) - 1
      /\ \A n \in 1 .. Len(accepts') : accepts'[n] = accepts[n + 1]
  <2>1. accepts # << >> /\ accepts \in Seq(Ids)
    BY DEF AcceptHandle, TypeOK
  <2> QED BY <1>1, <2>1
<1>3. PICK s : /\ OneSock(i, s) /\ s.closers = socks[i].closers
               /\ \/ s.state = "est" /\ connNum' = connNum + 1
                  \/ s.state = "closed" /\ connNum' = connNum
  BY AcceptWrites DEF Writes
<1>4. Ids' = Ids /\ socks'[i] = s /\ \A j \in Ids \ {i} : socks'[j] = socks[j]
  BY <1>1, <1>3, SockBecomes DEF OneSock
<1>5. socks[i].state = "queued" /\ ~(socks[i].closers > 0) /\ \A v \in Convs : registered[v] # i
  <2>1. socks[i].state = "queued"
    BY <1>2 DEF ConnInv, Awaiting
  <2>2. i # None
    BY <1>1 DEF Ids, None
  <2> QED BY <1>1, <2>1, <2>2 DEF ConnInv
<1> HIDE DEF i
<1>6. Awaiting'
  <2>1. \A n \in 1 .. Len(accepts') : n + 1 \in 1 .. Len(accepts) /\ n + 1 # 1
    BY <1>2
  <2>2. \A n \in 1 .. Len(accepts) : accepts[n] \in Ids
    BY DEF TypeOK
  <2>3. ASSUME NEW n \in 1 .. Len(accepts') PROVE socks'[accepts'[n]].state = "queued"
    <3>1. accepts'[n] = accepts[n + 1] /\ accepts[n + 1] \in Ids \ {i}
      BY <1>2, <2>1, <2>2 DEF ConnInv, Awaiting
    <3>2. socks[accepts[n + 1]].state = "queued"
      BY <2>1 DEF ConnInv, Awaiting
    <3> QED BY <1>4, <3>1, <3>2
  <2>4. ASSUME NEW m \in 1 .. Len(accepts'), NEW n \in 1 .. Len(accepts'), m # n
        PROVE  accepts'[m] # accepts'[n]
    <3>1. m + 1 # n + 1
      BY <1>2, <2>4
    <3> QED BY <1>2, <2>1, <3>1 DEF ConnInv, Awaiting
  <2> QED BY <2>3, <2>4 DEF Awaiting
<1>7. ASSUME NEW v \in Convs, registered'[v] # None
      PROVE  socks'[registered'[v]].state # "queued"
  <2>1. registered[v] \in Ids \ {i} /\ socks[registered[v]].state # "queued"
    BY <1>1, <1>5, <1>7 DEF ConnInv, TypeOK
  <2> QED BY <1>1, <1>4, <2>1
<1>8. ASSUME NEW j \in Ids', socks'[j].closers > 0
      PROVE  socks'[j].state # "queued" /\ (raced' \/ socks'[j].state = "est")
  <2>1. j \in Ids \ {i} /\ socks'[j] = socks[j]
    BY <1>3, <1>4, <1>5, <1>8
  <2> QED BY <1>1, <1>8, <2>1 DEF ConnInv
<1>9. raced' \/ connNum' = Cardinality(Open')
  <2>1. i \notin Open
    BY <1>5 DEF Open
  <2>2. Open' = IF s.state = "est" THEN Open \cup {i} ELSE Open \ {i}
    BY <1>1, <1>3, OpenBecomes
  <2>3. Cardinality(Open \cup {i}) = Cardinality(Open) + 1 /\ Open \ {i} = Open
    BY <2>1, OpenFinite, FS_AddElement
  <2>4. raced \/ connNum = Cardinality(Open)
    BY DEF ConnInv
  <2> QED BY <1>1, <1>3, <2>2, <2>3, <2>4
<1> QED BY <1>6, <1>7, <1>8, <1>9 DEF ConnInv

\* closeKcpConn: the socket it closes was counted, unless another goroutine closed it first.
LEMMA CloseConn == ASSUME TypeOK, ConnInv, NEW i \in Ids, CloseKcpConn(i) PROVE ConnInv'
<1>1. /\ socks[i].closers > 0 /\ accepts' = accepts /\ connNum' = connNum - 1
      /\ registered' = [registered EXCEPT ![socks[i].conv] = None]
      /\ raced' <=> (raced \/ socks[i].closers > 1)
  BY CloseWrites
<1>2. PICK s : OneSock(i, s) /\ s.closers = socks[i].closers - 1 /\ s.state = "closed"
  BY CloseWrites DEF Writes
<1>3. Ids' = Ids /\ socks'[i] = s /\ \A j \in Ids \ {i} : socks'[j] = socks[j]
  BY <1>2, SockBecomes DEF OneSock
<1>4. socks[i].state # "queued" /\ (raced \/ socks[i].state = "est") /\ socks[i].closers \in Nat
  BY <1>1, SockIs DEF ConnInv
<1>5. Awaiting'
  <2>1. \A n \in 1 .. Len(accepts) : accepts[n] \in Ids
    BY DEF TypeOK
  <2>2. ASSUME NEW n \in 1 .. Len(accepts') PROVE socks'[accepts'[n]].state = "queued"
    <3>1. accepts[n] \in Ids \ {i} /\ socks[accepts[n]].state = "queued"
      BY <1>1, <1>4, <2>1 DEF ConnInv, Awaiting
    <3> QED BY <1>1, <1>3, <3>1
  <2> QED BY <1>1, <2>2 DEF ConnInv, Awaiting
<1>6. ASSUME NEW v \in Convs, registered'[v] # None
      PROVE  socks'[registered'[v]].state # "queued"
  <2>1. registered'[v] = registered[v]
    BY <1>1, <1>6 DEF TypeOK
  <2>2. registered[v] \in Ids /\ socks[registered[v]].state # "queued"
    BY <1>6, <2>1 DEF ConnInv, TypeOK
  <2> QED BY <1>2, <1>3, <2>1, <2>2
<1>7. ASSUME NEW j \in Ids', socks'[j].closers > 0
      PROVE  socks'[j].state # "queued" /\ (raced' \/ socks'[j].state = "est")
  <2>1. CASE j = i
    <3>1. raced'
      BY <1>1, <1>2, <1>3, <1>4, <1>7, <2>1
    <3> QED BY <1>2, <1>3, <2>1, <3>1
  <2>2. CASE j # i
    BY <1>1, <1>3, <1>7, <2>2 DEF ConnInv
  <2> QED BY <2>1, <2>2
<1>8. raced' \/ connNum' = Cardinality(Open')
  <2>1. Open' = Open \ {i}
    BY <1>2, OpenBecomes
  <2>2. ASSUME ~raced PROVE connNum = Cardinality(Open) /\ i \in Open
    BY <1>4, <2>2 DEF ConnInv, Open
  <2>3. i \in Open => Cardinality(Open \ {i}) = Cardinality(Open) - 1
    BY OpenFinite, FS_RemoveElement
  <2> QED BY <1>1, <2>1, <2>2, <2>3
<1> QED BY <1>5, <1>6, <1>7, <1>8 DEF ConnInv

\* A new socket waits at the end of the queue.
LEMMA InputConn == ASSUME TypeOK, ConnInv, NEW p \in packets, PacketInput(p) PROVE ConnInv'
<1>1. UNCHANGED <<registered, connNum, raced>>
  BY InputGrows
<1>2. CASE UNCHANGED <<socks, sessions, accepts>>
  BY <1>1, <1>2 DEF ConnInv, Awaiting, Open, Ids
<1> DEFINE k == Len(socks) + 1
<1>3. ASSUME NEW v \in Convs, socks' = Append(socks, NewSock(v)), accepts' = Append(accepts, k)
      PROVE  ConnInv'
  <2>1. k \notin Ids /\ Ids' = Ids \cup {k} /\ socks'[k] = NewSock(v) /\ \A i \in Ids : socks'[i] = socks[i]
    BY <1>3, SockAdded
  <2>2. NewSock(v).state = "queued" /\ ~(NewSock(v).closers > 0)
    BY DEF NewSock
  <2>3. /\ Len(accepts) \in Nat /\ Len(accepts') = Len(accepts) + 1
        /\ accepts'[Len(accepts) + 1] = k
        /\ \A n \in 1 .. Len(accepts) : accepts'[n] = accepts[n] /\ accepts[n] \in Ids
    <3>1. accepts \in Seq(Ids)
      BY DEF TypeOK
    <3> HIDE DEF k
    <3> QED BY <1>3, <3>1
  <2> HIDE DEF k
  <2>4. ASSUME NEW n \in 1 .. Len(accepts')
        PROVE  \/ n = Len(accepts) + 1 /\ accepts'[n] = k
               \/ n \in 1 .. Len(accepts) /\ accepts'[n] = accepts[n] /\ accepts[n] \in Ids
    BY <2>3
  <2>5. Awaiting'
    <3>1. ASSUME NEW n \in 1 .. Len(accepts') PROVE socks'[accepts'[n]].state = "queued"
      <4>1. CASE n = Len(accepts) + 1 /\ accepts'[n] = k
        BY <2>1, <2>2, <4>1
      <4>2. CASE n \in 1 .. Len(accepts) /\ accepts'[n] = accepts[n] /\ accepts[n] \in Ids
        <5>1. socks[accepts[n]].state = "queued"
          BY <4>2 DEF ConnInv, Awaiting
        <5> QED BY <2>1, <4>2, <5>1
      <4> QED BY <2>4, <4>1, <4>2
    <3>2. ASSUME NEW m \in 1 .. Len(accepts'), NEW n \in 1 .. Len(accepts'), m # n
          PROVE  accepts'[m] # accepts'[n]
      <4>1. \A a, b \in 1 .. Len(accepts) : a # b => accepts[a] # accepts[b]
        BY DEF ConnInv, Awaiting
      <4> QED BY <2>1, <2>4, <3>2, <4>1
    <3> QED BY <3>1, <3>2 DEF Awaiting
  <2>6. ASSUME NEW w \in Convs, registered'[w] # None
        PROVE  socks'[registered'[w]].state # "queued"
    <3>1. registered[w] \in Ids /\ socks[registered[w]].state # "queued"
      BY <1>1, <2>6 DEF ConnInv, TypeOK
    <3> QED BY <1>1, <2>1, <3>1
  <2>7. ASSUME NEW j \in Ids', socks'[j].closers > 0
        PROVE  socks'[j].state # "queued" /\ (raced' \/ socks'[j].state = "est")
    <3>1. j \in Ids /\ socks'[j] = socks[j]
      BY <2>1, <2>2, <2>7
    <3>2. raced' <=> raced
      BY <1>1
    <3> QED BY <2>7, <3>1, <3>2 DEF ConnInv
  <2>8. Open' = Open
    BY <2>1, <2>2 DEF Open
  <2>9. raced' \/ connNum' = Cardinality(Open')
    <3>1. raced \/ connNum = Cardinality(Open)
      BY DEF ConnInv
    <3>2. connNum' = connNum /\ (raced' <=> raced)
      BY <1>1
    <3> QED BY <2>8, <3>1, <3>2
  <2> QED BY <2>5, <2>6, <2>7, <2>9 DEF ConnInv
<1> QED BY <1>2, <1>3, InputGrows

\* Every step keeps the count.
LEMMA NextConn == ASSUME ListenerAssumption, TypeOK, ConnInv, [Next]_vars PROVE ConnInv'
<1>1. CASE UNCHANGED <<socks, Manager>>
  BY <1>1 DEF ConnInv, Awaiting, Open, Ids, Manager
<1>2. CASE \/ \E c \in Clients : ClientSyn(c) \/ ClientData(c) \/ ClientFin(c)
           \/ \E p \in packets : ClientEst(p) \/ Lost(p) \/ EnetSyn(p)
  BY <1>1, <1>2, ClientType
<1>3. ASSUME NEW p \in packets, PacketInput(p) PROVE ConnInv'
  BY <1>3, InputConn
<1>4. ASSUME NEW p \in packets, EnetFin(p) PROVE ConnInv'
  <2>1. UNCHANGED Manager
    BY <1>4, FinWrites
  <2>2. ASSUME NEW i \in Ids, Writes(i, socks[i].state, socks[i].closers) PROVE ConnInv'
    <3>1. socks[i].closers \in Nat
      BY SockIs
    <3> QED BY <2>1, <2>2, <3>1, WritesKept
  <2> QED BY <1>1, <1>4, <2>1, <2>2, FinWrites
<1>5. ASSUME NEW i \in Ids, SetSession(i) PROVE ConnInv'
  <2>1. /\ Ids' = Ids /\ UNCHANGED <<socks, accepts, connNum, raced>>
        /\ socks[i].state # "queued" /\ registered' = [registered EXCEPT ![socks[i].conv] = i]
    BY <1>5 DEF SetSession, Ids
  <2>2. \A v \in Convs : registered'[v] = registered[v] \/ registered'[v] = i
    BY <2>1, SockIs DEF TypeOK
  <2>3. \A v \in Convs : \/ registered'[v] = registered[v]
                         \/ registered'[v] \in Ids /\ socks[registered'[v]].state # "queued"
    BY <2>1, <2>2
  <2> QED BY <2>1, <2>3, StatesKept
<1>6. ASSUME NEW i \in Ids, CloseCheck(i) PROVE ConnInv'
  <2>1. UNCHANGED Manager /\ socks[i].state = "est" /\ Writes(i, socks[i].state, socks[i].closers + 1)
    BY <1>6, CheckWrites
  <2>2. socks[i].closers + 1 \in Nat
    BY SockIs
  <2> QED BY <2>1, <2>2, WritesKept
<1>7. ASSUME NEW i \in Ids, CloseKcpConn(i) PROVE ConnInv'
  BY <1>7, CloseConn
<1>8. CASE AcceptHandle
  BY <1>8, AcceptConn
<1>9. CASE GateOpenState
  <2>1. UNCHANGED <<accepts, connNum, raced, registered>> /\ Ids' = Ids
    BY <1>9, GateChanges
  <2>2. \A i \in Ids : /\ socks'[i].state = socks[i].state
                       /\ socks'[i].closers > 0 => socks[i].closers > 0 \/ socks[i].state = "est"
    BY <1>9, GateChanges
  <2> QED BY <2>1, <2>2, StatesKept
<1> QED BY <1>1, <1>2, <1>3, <1>4, <1>5, <1>6, <1>7, <1>8, <1>9 DEF Next, vars, Manager

\* Unless two goroutines pass closeKcpConn's check at once, CLIENT_CONN_NUM, by which logins
\* are sent to gates, is the number of open connections.
THEOREM ConnNumCorrect == ASSUME ListenerAssumption PROVE Spec => []ConnNumAgrees
<1>1. Init => TypeOK /\ ConnInv
  <2>1. ASSUME Init PROVE ConnInv
    <3>1. Ids = {} /\ Open = {} /\ Len(accepts) = 0 /\ connNum = 0
      BY <2>1 DEF Init, Ids, Open
    <3>2. \A v \in Convs : registered[v] = None
      BY <2>1 DEF Init
    <3> QED BY <3>1, <3>2, FS_EmptySet DEF ConnInv, Awaiting
  <2> QED BY <2>1, InitType
<1>2. (TypeOK /\ ConnInv) /\ [Next]_vars => (TypeOK /\ ConnInv)'
  BY NextType, NextConn
<1>3. ConnInv => ConnNumAgrees
  BY DEF ConnInv, ConnNumAgrees, Open
<1> QED BY <1>1, <1>2, <1>3, PTL DEF Spec
=============================================================================
