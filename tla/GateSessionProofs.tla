--------------------------- MODULE GateSessionProofs ---------------------------
(* Proofs about GateSession, for any number of connections, gates and game  *)
(* servers and any number of moves, stops, failures and races.              *)
EXTENDS GateSession, TLAPS

-----------------------------------------------------------------------------
(* The inductive invariant.                                                *)

\* A connection that is taking its player in: from its look at the online map to the
\* login request.  Until it is woken, or if it found nobody, the old session may live.
Begun(c) ==
  \/ conn[c].tok \in {"reg", "kick", "wait", "bind", "server"}
  \/ conn[c].bound /\ conn[c].state = "wait" /\ ~conn[c].asked
Waits(c) == conn[c].tok \in {"reg", "kick", "wait"} /\ ~conn[c].awake

\* A game server that has the player, or is saving it.
Served(s) == gs[s].obj = "online" \/ \E to \in Gates \cup {None} : gs[s].saves[to] > 0

\* What is in a queue.
Has(q, m) == \E i \in DOMAIN q : q[i] = m
HasKind(q, kind) == \E i \in DOMAIN q : q[i].kind = kind
Once(q, m) == \A i, j \in DOMAIN q : q[i] = m /\ q[j] = m => i = j
OnceKind(q, kind) == \A i, j \in DOMAIN q : q[i].kind = kind /\ q[j].kind = kind => i = j

\* What an online map will say once its queue is read is server s.
Hears(q, online, s) ==
  \/ online = s /\ \A i \in DOMAIN q : q[i].kind = "kick"
  \/ \E i \in DOMAIN q :
       /\ q[i].kind = "on" /\ q[i].from = s
       /\ \A j \in DOMAIN q : j > i => q[j].kind = "kick"

\* The stages of a token request go with the state of its connection.
TokenStages ==
  \A c \in Conns :
    /\ conn[c].state \in {"none", "est"} => conn[c].tok = "none"
    /\ conn[c].bound => conn[c].tok \in {"server", "done", "fail"}
    /\ conn[c].tok = "server" => conn[c].bound
    /\ conn[c].tok = "done" /\ conn[c].state = "wait" => conn[c].bound
\* Only a request that has looked at the map is registered or woken.
Registered ==
  \A c \in Conns :
    conn[c].awake \/ (\E g \in Gates : gate[g].reg = c \/ Has(gate[g].regQ, c))
      => conn[c].tok \notin {"none", "check"}
\* A process that has ended holds nothing.
Ended ==
  /\ \A g \in Gates : ~gate[g].up => bc[g] = <<>>
  /\ \A s \in Servers : ~gs[s].up =>
       /\ gs[s].obj = "none"
       /\ \A g \in Gates : gs[s].loads[g] = 0 /\ toGs[g][s] = <<>>
       /\ \A to \in Gates \cup {None} : gs[s].saves[to] = 0
\* A server either has the player, or one goroutine is saving it.
OneServed ==
  /\ \A s, t \in Servers : Served(s) /\ Served(t) => s = t
  /\ \A s \in Servers : \A to \in Gates \cup {None} :
       gs[s].saves[to] > 0 =>
         /\ gs[s].obj # "online" /\ gs[s].saves[to] = 1
         /\ \A o \in Gates \cup {None} : gs[s].saves[o] > 0 => o = to
  /\ \A s \in Servers : gs[s].obj = "online" => gs[s].gate \in Gates
  /\ \A s \in Servers : gs[s].obj = "offline" => \E to \in Gates \cup {None} : gs[s].saves[to] > 0

\* The five forms a login has on its way.
SomeBegun == \E c \in Conns : Begun(c)
SomeRequest == \E g \in Gates, s \in Servers : Has(toGs[g][s], "login")
SomeLoad == \E s \in Servers, g \in Gates : gs[s].loads[g] > 0
SomeMove == \E s \in Servers, g \in Gates : gs[s].saves[g] > 0
SomeChange == \E s \in Servers, g \in Gates : HasKind(toGate[s][g], "change")

\* There is one login at a time, in one of these forms.
OneBegun == \A c, d \in Conns : Begun(c) /\ Begun(d) => c = d
OneRequest ==
  \A g, h \in Gates, s, t \in Servers :
    /\ Once(toGs[g][s], "login")
    /\ Has(toGs[g][s], "login") /\ Has(toGs[h][t], "login") => g = h /\ s = t
OneLoad ==
  \A g, h \in Gates, s, t \in Servers :
    /\ gs[s].loads[g] <= 1
    /\ gs[s].loads[g] > 0 /\ gs[t].loads[h] > 0 => g = h /\ s = t
OneChange ==
  \A g, h \in Gates, s, t \in Servers :
    /\ OnceKind(toGate[s][g], "change")
    /\ HasKind(toGate[s][g], "change") /\ HasKind(toGate[t][h], "change") => g = h /\ s = t
OneForm ==
  /\ SomeBegun => ~SomeRequest /\ ~SomeLoad /\ ~SomeMove /\ ~SomeChange
  /\ SomeRequest => ~SomeLoad /\ ~SomeMove /\ ~SomeChange
  /\ SomeLoad => ~SomeMove /\ ~SomeChange
  /\ SomeMove => ~SomeChange
OneLogin == OneBegun /\ OneRequest /\ OneLoad /\ OneChange /\ OneForm

\* While there is one, no gate has yet to hear of an earlier one.
NoNews ==
  SomeBegun \/ SomeRequest \/ SomeLoad \/ SomeMove \/ SomeChange
    => \A g \in Gates : ~HasKind(bc[g], "on")
\* Unless it still waits for the old session to end, or is that session moving, nobody
\* has the player.
OldGone ==
  (\E c \in Conns : Begun(c) /\ ~Waits(c)) \/ SomeRequest \/ SomeLoad \/ SomeChange
    => \A s \in Servers : ~Served(s)
\* Every gate knows, or is going to hear, which server has the player.
Told ==
  \A g \in Gates, s \in Servers : gate[g].up /\ Served(s) => Hears(bc[g], gate[g].online, s)

Admission == OneServed /\ OneLogin /\ NoNews /\ OldGone /\ Told
GateInv == TokenStages /\ Registered /\ Ended /\ Admission

\* While no broadcast has been late: a server that loads or has the player hears of no other's,
\* and the gates know of nobody that has left.
Undisturbed ==
  \A s \in Servers : (\E g \in Gates : gs[s].loads[g] > 0) \/ gs[s].obj = "online"
    => bc[s] = <<>>
KnownServed ==
  \A g \in Gates, s \in Servers :
    gate[g].up /\ gs[s].up /\ Hears(bc[g], gate[g].online, s) => Served(s)
NothingLost == \A s \in Servers : ~gs[s].lost
PromptInv == Undisturbed /\ KnownServed /\ NothingLost
-----------------------------------------------------------------------------
(* Types.                                                                  *)

\* At the start every record has its type.
LEMMA InitType == Init => TypeOK
<1> SUFFICES ASSUME Init PROVE TypeOK
  OBVIOUS
<1> USE DEF Init
<1>1. conn \in [Conns -> ConnType]
  BY DEF ConnType, OnlineAt
<1>2. gate \in [Gates -> GateType]
  BY DEF GateType, OnlineAt
<1>3. gs \in [Servers -> ServerType]
  BY DEF ServerType
<1>4. toGs \in [Gates -> [Servers -> Seq({"login", "offline"})]]
  OBVIOUS
<1>5. toGate \in [Servers -> [Gates -> Seq(GateMsgType)]]
  OBVIOUS
<1>6. bc \in [Receivers -> Seq(BroadcastType)] /\ node \in OnlineAt
  BY DEF OnlineAt
<1>7. used \in [Events -> Nat]
  OBVIOUS
<1> QED BY <1>1, <1>2, <1>3, <1>4, <1>5, <1>6, <1>7 DEF TypeOK

\* Changing one place of a table of two keys.
LEMMA Update2 ==
  ASSUME NEW A, NEW B, NEW T, NEW f \in [A -> [B -> T]], NEW a \in A, NEW b \in B, NEW x \in T
  PROVE  /\ [f EXCEPT ![a][b] = x] \in [A -> [B -> T]]
         /\ \A c \in A, d \in B :
              [f EXCEPT ![a][b] = x][c][d] = IF c = a /\ d = b THEN x ELSE f[c][d]
OBVIOUS

\* The queues between gates and game servers.
GsQueues == [Gates -> [Servers -> Seq({"login", "offline"})]]
GateQueues == [Servers -> [Gates -> Seq(GateMsgType)]]
\* A message to a game server is one more at the end of its queue, or goes nowhere.
LEMMA SendToGsIs ==
  ASSUME TypeOK, NEW g, NEW s, NEW m \in {"login", "offline"}, SendToGs(g, s, m)
  PROVE  /\ toGs' \in GsQueues
         /\ \A h \in Gates, t \in Servers :
              toGs'[h][t] = IF h = g /\ t = s /\ Up(s) THEN Append(toGs[h][t], m) ELSE toGs[h][t]
<1>0. toGs \in GsQueues
  BY DEF TypeOK, GsQueues
<1>1. CASE s \in Servers /\ Up(s) /\ g \in Gates
  <2>1. toGs[g][s] \in Seq({"login", "offline"})
    BY <1>0, <1>1 DEF GsQueues
  <2>2. Append(toGs[g][s], m) \in Seq({"login", "offline"})
    BY <2>1
  <2>3. toGs' = [toGs EXCEPT ![g][s] = Append(toGs[g][s], m)]
    BY <1>1 DEF SendToGs
  <2> QED BY <1>0, <1>1, <2>2, <2>3, Update2 DEF GsQueues
<1>2. CASE s \in Servers /\ Up(s) /\ g \notin Gates
  <2>1. toGs' = toGs
    BY <1>0, <1>2 DEF SendToGs, GsQueues
  <2> QED BY <1>0, <1>2, <2>1
<1>3. CASE ~(s \in Servers /\ Up(s))
  BY <1>0, <1>3 DEF SendToGs
<1> QED BY <1>1, <1>2, <1>3

\* So is a message to a gate.
LEMMA SendToGateIs ==
  ASSUME TypeOK, NEW s \in Servers, NEW g, NEW kind \in {"rsp", "kick", "change"},
         NEW to \in OnlineAt, SendToGate(s, g, kind, to)
  PROVE  /\ toGate' \in GateQueues
         /\ \A t \in Servers, h \in Gates :
              toGate'[t][h] = IF t = s /\ h = g /\ Up(g)
                              THEN Append(toGate[t][h], [kind |-> kind, to |-> to])
                              ELSE toGate[t][h]
<1> DEFINE m == [kind |-> kind, to |-> to]
<1>0. toGate \in GateQueues /\ m \in GateMsgType
  BY DEF TypeOK, GateQueues, GateMsgType
<1>1. CASE g \in Gates /\ Up(g)
  <2>1. toGate[s][g] \in Seq(GateMsgType)
    BY <1>0, <1>1 DEF GateQueues
  <2>2. toGate' = [toGate EXCEPT ![s][g] = Append(toGate[s][g], m)]
    BY <1>1 DEF SendToGate
  <2> HIDE DEF m
  <2>3. Append(toGate[s][g], m) \in Seq(GateMsgType)
    BY <1>0, <2>1
  <2>4. /\ toGate' \in GateQueues
        /\ \A t \in Servers, h \in Gates :
             toGate'[t][h] = IF t = s /\ h = g THEN Append(toGate[t][h], m) ELSE toGate[t][h]
    BY <1>0, <1>1, <2>2, <2>3, Update2 DEF GateQueues
  <2> QED BY <1>1, <2>4 DEF m
<1>2. CASE ~(g \in Gates /\ Up(g))
  BY <1>0, <1>2 DEF SendToGate
<1> QED BY <1>1, <1>2

\* A broadcast keeps every queue typed.
LEMMA SendToAllType ==
  ASSUME TypeOK, NEW from, NEW kind, SendToAll(from, kind),
         [kind |-> kind, from |-> from] \in BroadcastType
  PROVE  bc' \in [Receivers -> Seq(BroadcastType)]
BY DEF TypeOK, SendToAll

\* An event used is counted.
LEMMA UseType ==
  ASSUME TypeOK, NEW e \in Events, Use(e)
  PROVE  used' \in [Events -> Nat]
BY DEF TypeOK, Use
\* So is a mishap.
LEMMA MishapType ==
  ASSUME TypeOK, NEW e \in Events, NEW happens, Mishap(e, happens)
  PROVE  used' \in [Events -> Nat]
BY DEF TypeOK, Mishap

\* So is a move, and with it the overlap if it is one.
LEMMA MoveUses ==
  ASSUME TypeOK, NEW s \in Servers, JoinPlayerSceneReq(s)
  PROVE  /\ used' \in [Events -> Nat]
         /\ \A e \in Events : used'[e] = 0 => used[e] = 0
<1> USE DEF Events
<1>1. used \in [Events -> Nat]
  BY DEF TypeOK
<1>2. CASE UnderWay
  <2>1. used' = [used EXCEPT !["move"] = used["move"] + 1, !["overlap"] = 1]
    BY <1>2, Zenon DEF JoinPlayerSceneReq
  <2> QED BY <1>1, <2>1
<1>3. CASE ~UnderWay
  <2>1. used' = [used EXCEPT !["move"] = used["move"] + 1, !["overlap"] = used["overlap"]]
    BY <1>1, <1>3 DEF JoinPlayerSceneReq
  <2> QED BY <1>1, <2>1
<1> QED BY <1>2, <1>3

\* A message taken is no longer at the head of its queue.
LEMMA TakenIs ==
  ASSUME TypeOK, NEW s \in Servers, NEW g \in Gates, toGate[s][g] # <<>>, toGate' = Taken(s, g)
  PROVE  /\ toGate' \in GateQueues
         /\ \A t \in Servers, h \in Gates :
              toGate'[t][h] = IF t = s /\ h = g THEN Tail(toGate[t][h]) ELSE toGate[t][h]
<1>0. toGate \in GateQueues
  BY DEF TypeOK, GateQueues
<1>1. toGate[s][g] \in Seq(GateMsgType)
  BY <1>0 DEF GateQueues
<1>2. Tail(toGate[s][g]) \in Seq(GateMsgType)
  BY <1>1
<1> QED BY <1>0, <1>2, Update2 DEF Taken, GateQueues

\* A game server that takes a message off its queue leaves the rest of it.
LEMMA GsTakenIs ==
  ASSUME TypeOK, NEW s \in Servers, NEW g \in Gates, toGs[g][s] # <<>>, toGs' = GsTaken(g, s)
  PROVE  /\ toGs' \in GsQueues
         /\ \A h \in Gates, t \in Servers :
              toGs'[h][t] = IF h = g /\ t = s THEN Tail(toGs[h][t]) ELSE toGs[h][t]
<1>0. toGs \in GsQueues
  BY DEF TypeOK, GsQueues
<1>1. toGs[g][s] \in Seq({"login", "offline"})
  BY <1>0 DEF GsQueues
<1>2. Tail(toGs[g][s]) \in Seq({"login", "offline"})
  BY <1>1
<1> QED BY <1>0, <1>2, Update2 DEF GsTaken, GsQueues

\* A connection whose gate runs has one.
LEMMA UpIs == ASSUME TypeOK, NEW c \in Conns, Up(conn[c].gate) PROVE conn[c].gate \in Gates
BY NamesAssumption DEF TypeOK, ConnType, Up

\* A record given its fields back is of its type.
ConnOk == conn' \in [Conns -> ConnType]
GateOk == gate' \in [Gates -> GateType]
\* A connection given a record of its type stays typed.
LEMMA ConnSet ==
  ASSUME TypeOK, NEW c \in Conns, NEW r \in ConnType, conn' = [conn EXCEPT ![c] = r] PROVE ConnOk
BY DEF TypeOK, ConnOk
\* So does a gate.
LEMMA GateSet ==
  ASSUME TypeOK, NEW g, NEW r, g \in Gates => r \in GateType, gate' = [gate EXCEPT ![g] = r]
  PROVE  GateOk
BY DEF TypeOK, GateOk

\* forceCloseKcpConn is asked of the event handler.
LEMMA ForceType ==
  ASSUME TypeOK, NEW g, NEW c \in Conns, gate' = [gate EXCEPT ![g].force = @ \cup {c}]
  PROVE  GateOk
<1>0. g \in Gates => gate[g] \in GateType
  BY DEF TypeOK
<1>1. g \in Gates => [gate[g] EXCEPT !.force = @ \cup {c}] \in GateType
  BY <1>0 DEF GateType
<1> QED BY <1>1, GateSet

\* The steps of a token request keep the types.
LEMMA TokenType == ASSUME TypeOK, NEW c \in Conns, TokenNext(c) PROVE TypeOK'
<1> DEFINE g == conn[c].gate
<1>c. conn[c] \in ConnType /\ conn \in [Conns -> ConnType] /\ gate \in [Gates -> GateType]
  BY DEF TypeOK
<1>t. ASSUME NEW from, NEW to \in {"bind", "reg", "fail", "wait"}, TokenStep(c, from, to)
      PROVE  ConnOk
  <2>1. [conn[c] EXCEPT !.tok = to] \in ConnType
    BY <1>c DEF ConnType
  <2> QED BY <1>t, <2>1, ConnSet DEF TokenStep
<1>1. CASE TokenReq(c)
  BY <1>c, <1>1 DEF TokenReq, ConnType, TypeOK
<1>2. CASE TokenRefuse(c)
  BY <1>t, <1>2 DEF TokenRefuse, TypeOK, ConnOk
<1>3. CASE TokenCheck(c)
  <2>1. ConnOk
    BY <1>t, <1>3 DEF TokenCheck
  <2>2. g \in Gates
    BY <1>3, UpIs DEF TokenCheck, TokenStep
  <2> DEFINE q == IF gate[g].online = None THEN gate[g].regQ ELSE Append(gate[g].regQ, c)
  <2>3. gate[g] \in GateType /\ q \in Seq(Conns)
    BY <1>c, <2>2 DEF GateType
  <2> HIDE DEF q
  <2>6. [gate[g] EXCEPT !.regQ = q] \in GateType
    BY <2>3 DEF GateType
  <2>4. gate' = [gate EXCEPT ![g] = [gate[g] EXCEPT !.regQ = q]]
    BY <1>3 DEF TokenCheck, q
  <2>5. GateOk
    BY <2>4, <2>6, GateSet
  <2>7. used' \in [Events -> Nat]
    BY <1>3, MishapType DEF TokenCheck, Events
  <2> QED BY <1>3, <2>1, <2>5, <2>7 DEF TokenCheck, TypeOK, ConnOk, GateOk
<1>4. CASE RegTimeout(c)
  BY <1>t, <1>4, ForceType DEF RegTimeout, TypeOK, ConnOk, GateOk
<1>5. CASE TokenKick(c)
  <2>1. ConnOk
    BY <1>t, <1>5 DEF TokenKick
  <2>2. g \in Gates
    BY <1>5, UpIs DEF TokenKick, TokenStep
  <2>3. CASE gate[g].suser # None
    <3>1. gate[g].suser \in Conns
      BY <1>c, <2>2, <2>3 DEF GateType
    <3> QED BY <1>5, <2>1, <2>3, <3>1, ForceType DEF TokenKick, TypeOK, ConnOk, GateOk
  <2>4. CASE gate[g].suser = None
    <3>1. SendToAll(g, "kick") /\ [kind |-> "kick", from |-> g] \in BroadcastType
      BY <1>5, <2>2, <2>4 DEF TokenKick, BroadcastType
    <3>2. bc' \in [Receivers -> Seq(BroadcastType)]
      BY <3>1, SendToAllType
    <3> QED BY <1>5, <2>1, <2>4, <3>2 DEF TokenKick, TypeOK, ConnOk
  <2> QED BY <2>3, <2>4
<1>6. CASE TokenAwake(c)
  BY <1>c, <1>6 DEF TokenAwake, ConnType, TypeOK
<1>7. CASE TokenTimeout(c)
  BY <1>t, <1>7, ForceType DEF TokenTimeout, TypeOK, ConnOk, GateOk
<1>8. CASE TokenBind(c)
  <2>1. [conn[c] EXCEPT !.tok = "server", !.bound = TRUE] \in ConnType
    BY <1>c DEF ConnType
  <2>2. g \in Gates
    BY <1>8, UpIs DEF TokenBind
  <2> DEFINE q == Append(gate[g].create, c)
             r == [gate[g] EXCEPT !.sconv = @ \cup {c}, !.suser = c, !.create = q]
  <2>7. gate[g] \in GateType /\ q \in Seq(Conns)
    BY <1>c, <2>2 DEF GateType
  <2>8. gate' = [gate EXCEPT ![g] = r]
    BY <1>8 DEF TokenBind
  <2> HIDE DEF q
  <2>3. r \in GateType
    BY <2>7 DEF GateType
  <2> HIDE DEF r
  <2>4. conn' = [conn EXCEPT ![c] = [conn[c] EXCEPT !.tok = "server", !.bound = TRUE]]
    BY <1>c, <1>8 DEF TokenBind
  <2>5. GateOk
    BY <2>3, <2>8, GateSet
  <2>6. ConnOk
    BY <2>1, <2>4, ConnSet
  <2> QED BY <1>8, <2>5, <2>6 DEF TokenBind, TypeOK, ConnOk, GateOk
<1>9. CASE TokenServer(c)
  <2>1. PICK s \in OnlineAt, to \in {"done", "fail"} :
          /\ conn' = [conn EXCEPT ![c].tok = to, ![c].gs = s]
          /\ to = "done" => gate' = gate
          /\ to = "fail" => gate' = [gate EXCEPT ![g].force = @ \cup {c}]
    BY <1>9 DEF TokenServer, OnlineAt
  <2>2. [conn[c] EXCEPT !.tok = to, !.gs = s] \in ConnType
    BY <1>c DEF ConnType
  <2>3. ConnOk
    BY <1>c, <2>1, <2>2 DEF ConnOk
  <2>4. GateOk
    BY <1>c, <2>1, ForceType DEF GateOk
  <2> QED BY <1>9, <2>3, <2>4 DEF TokenServer, TypeOK, ConnOk, GateOk
<1> QED BY <1>1, <1>2, <1>3, <1>4, <1>5, <1>6, <1>7, <1>8, <1>9 DEF TokenNext

\* Closing a connection, and what follows, keep the types.
LEMMA CloseBeginType ==
  ASSUME TypeOK, NEW c \in Conns, NEW who \in Closers, CloseBegin(c, who)
  PROVE  /\ ConnOk /\ GateOk
         /\ toGs' \in GsQueues
<1> DEFINE g == conn[c].gate
<1>c. conn[c] \in ConnType /\ conn \in [Conns -> ConnType] /\ gate \in [Gates -> GateType]
  BY DEF TypeOK
<1>1. ConnOk
  <2> DEFINE life == IF conn[c].life = "open" THEN "shut" ELSE conn[c].life
             recv == conn[c].recv /\ who # "recv"
             send == conn[c].send /\ who # "send"
             r == [conn[c] EXCEPT !.state = "close", !.closing = @ \cup {who}, !.life = life,
                                  !.recv = recv, !.send = send]
  <2>1. conn' = [conn EXCEPT ![c] = r]
    BY <1>c, Zenon DEF CloseBegin
  <2>2. life \in {"open", "shut", "gone"} /\ recv \in BOOLEAN /\ send \in BOOLEAN
    BY <1>c DEF ConnType
  <2> HIDE DEF life, recv, send
  <2>3. r \in ConnType
    <3>1. conn[c] \in ConnType
      BY <1>c
    <3> QED BY <2>2, <3>1 DEF ConnType
  <2> HIDE DEF r
  <2> QED BY <2>1, <2>3, ConnSet
<1>2. GateOk
  <2> DEFINE suser == IF conn[c].bound THEN None ELSE gate[g].suser
             force == IF who = "event" THEN gate[g].force \ {c} ELSE gate[g].force
             r == [gate[g] EXCEPT !.sconv = @ \ {c}, !.suser = suser, !.force = force]
  <2>1. gate' = [gate EXCEPT ![g] = r]
    BY Zenon DEF CloseBegin
  <2>2. g \in Gates => gate[g] \in GateType /\ suser \in Conns \cup {None} /\ force \in SUBSET Conns
    BY <1>c DEF GateType
  <2> HIDE DEF suser, force
  <2>3. g \in Gates => r \in GateType
    BY <2>2 DEF GateType
  <2> HIDE DEF r
  <2> QED BY <2>1, <2>3, GateSet
<1>3. toGs' \in GsQueues
  BY SendToGsIs DEF CloseBegin
<1> QED BY <1>1, <1>2, <1>3

\* The close of a connection counts a use, if it is one the bounds count.
LEMMA MayCloseType ==
  ASSUME TypeOK, NEW c \in Conns, MayClose(c)
  PROVE  used' \in [Events -> Nat]
BY UseType DEF MayClose, TypeOK, Events

\* The client's own steps and the closing goroutines keep the types.
LEMMA ConnNextType ==
  ASSUME TypeOK, NEW c \in Conns,
         \/ \E g \in Gates : Accept(c, g) \/ ForceClose(g, c)
         \/ LoginReq(c) \/ ForceExitReq(c) \/ CloseNext(c)
  PROVE  TypeOK'
<1>c. conn[c] \in ConnType /\ conn \in [Conns -> ConnType] /\ gate \in [Gates -> GateType]
  BY DEF TypeOK
<1>1. ASSUME NEW g \in Gates, Accept(c, g) PROVE TypeOK'
  BY <1>c, <1>1 DEF Accept, ConnType, TypeOK
<1>2. ASSUME NEW g \in Gates, ForceClose(g, c) PROVE TypeOK'
  <2>1. CASE MayClose(c) /\ CloseBegin(c, "event")
    BY <1>2, <2>1, CloseBeginType, MayCloseType DEF ForceClose, TypeOK, Closers, ConnOk, GateOk, GsQueues
  <2>2. CASE gate' = [gate EXCEPT ![g].force = @ \ {c}] /\ UNCHANGED <<conn, toGs, used>>
    <3>1. [gate[g] EXCEPT !.force = @ \ {c}] \in GateType
      BY <1>c DEF GateType
    <3>2. GateOk
      BY <1>c, <2>2, <3>1 DEF GateOk
    <3> QED BY <1>2, <2>2, <3>2 DEF ForceClose, TypeOK, GateOk
  <2> QED BY <1>2, <2>1, <2>2 DEF ForceClose
<1>3. CASE LoginReq(c)
  <2>1. toGs' \in GsQueues
    BY <1>3, SendToGsIs DEF LoginReq
  <2> QED BY <1>c, <1>3, <2>1 DEF LoginReq, ConnType, TypeOK, GsQueues
<1>4. CASE ForceExitReq(c)
  BY <1>4, ForceType DEF ForceExitReq, TypeOK, GateOk
<1>5. CASE RecvClose(c)
  BY <1>5, CloseBeginType, MayCloseType DEF RecvClose, TypeOK, Closers, ConnOk, GateOk, GsQueues
<1>6. CASE SendClose(c)
  BY <1>6, CloseBeginType, MayCloseType DEF SendClose, TypeOK, Closers, ConnOk, GateOk, GsQueues
<1>7. ASSUME NEW who \in Closers, CloseEnd(c, who) PROVE TypeOK'
  <2> DEFINE g == conn[c].gate
             q == Append(gate[g].destroy, c)
  <2>1. [conn[c] EXCEPT !.closing = @ \ {who}] \in ConnType
    BY <1>c DEF ConnType
  <2>2. ConnOk
    BY <1>c, <1>7, <2>1 DEF CloseEnd, ConnOk
  <2>3. g \in Gates => gate[g] \in GateType /\ q \in Seq(Conns)
    BY <1>c DEF GateType
  <2>4. gate' = [gate EXCEPT ![g] = [gate[g] EXCEPT !.destroy = q]]
    BY <1>7 DEF CloseEnd
  <2> HIDE DEF q
  <2>5. g \in Gates => [gate[g] EXCEPT !.destroy = q] \in GateType
    BY <2>3 DEF GateType
  <2>6. GateOk
    BY <2>4, <2>5, GateSet
  <2> QED BY <1>7, <2>2, <2>6 DEF CloseEnd, TypeOK, ConnOk, GateOk
<1> QED BY <1>1, <1>2, <1>3, <1>4, <1>5, <1>6, <1>7 DEF CloseNext

\* What remains of a gate whose process has ended.
Empty(g) ==
  [gate[g] EXCEPT !.up = FALSE, !.online = None, !.sconv = {}, !.suser = None, !.conv = {},
                  !.user = None, !.create = <<>>, !.destroy = <<>>, !.regQ = <<>>,
                  !.reg = None, !.force = {}, !.syncing = FALSE, !.snap = None]
\* A gate that goes down loses its own state and its connections, and nothing else.
LEMMA GateDownIs ==
  ASSUME TypeOK, NEW g \in Gates, GateDown(g)
  PROVE  /\ ConnOk /\ GateOk
         /\ toGate' \in GateQueues
         /\ bc' \in [Receivers -> Seq(BroadcastType)]
         /\ \A h \in Gates : h # g => gate'[h] = gate[h]
         /\ ~gate'[g].up /\ gate'[g].regQ = <<>> /\ gate'[g].reg = None
         /\ \A s \in Servers, h \in Gates : toGate'[s][h] = IF h = g THEN <<>> ELSE toGate[s][h]
         /\ \A r \in Receivers : bc'[r] = IF r = g THEN <<>> ELSE bc[r]
         /\ \A c \in Conns :
              \/ conn'[c] = conn[c]
              \/ /\ conn'[c].state = "close"
                 /\ conn'[c].tok = IF InToken(c) THEN "done" ELSE conn[c].tok
                 /\ conn'[c].bound = conn[c].bound /\ conn'[c].awake = conn[c].awake
<1>1. ConnOk
  <2>1. ASSUME NEW c \in Conns, conn[c].gate = g
        PROVE  [conn[c] EXCEPT !.state = "close", !.tok = IF InToken(c) THEN "done" ELSE @,
                  !.life = "gone", !.recv = FALSE, !.send = FALSE, !.closing = {}] \in ConnType
    <3> DEFINE to == IF InToken(c) THEN "done" ELSE conn[c].tok
    <3>1. conn[c] \in ConnType /\ to \in {"none", "check", "reg", "kick", "wait", "bind", "server",
                                          "done", "fail"}
      BY DEF TypeOK, ConnType
    <3> HIDE DEF to
    <3>2. [conn[c] EXCEPT !.state = "close", !.tok = to,
                  !.life = "gone", !.recv = FALSE, !.send = FALSE, !.closing = {}] \in ConnType
      BY <3>1 DEF ConnType
    <3> QED BY <3>2 DEF to
  <2> QED BY <2>1 DEF GateDown, ConnOk, TypeOK
<1>2. gate' = [gate EXCEPT ![g] = Empty(g)] /\ Empty(g) \in GateType
  <2>1. gate[g] \in GateType
    BY DEF TypeOK
  <2>2. /\ <<>> \in Seq(Conns) /\ None \in Conns \cup {None} /\ None \in OnlineAt
        /\ {} \in SUBSET Conns
    BY DEF OnlineAt
  <2>3. Empty(g) \in GateType
    BY <2>1, <2>2 DEF GateType, Empty
  <2> QED BY <2>3, Zenon DEF GateDown, Empty
<1>3. GateOk /\ gate'[g] = Empty(g)
  BY <1>2 DEF TypeOK, GateOk
<1>4. \A h \in Gates : h # g => gate'[h] = gate[h]
  BY <1>2 DEF TypeOK
<1>5. ~Empty(g).up /\ Empty(g).regQ = <<>> /\ Empty(g).reg = None
  <2>1. gate[g] \in GateType
    BY DEF TypeOK
  <2> QED BY <2>1 DEF GateType, Empty
<1>6. toGate' \in GateQueues
      /\ \A s \in Servers, h \in Gates : toGate'[s][h] = IF h = g THEN <<>> ELSE toGate[s][h]
  <2>1. ASSUME NEW s \in Servers
        PROVE  /\ toGate'[s] \in [Gates -> Seq(GateMsgType)]
               /\ \A h \in Gates : toGate'[s][h] = IF h = g THEN <<>> ELSE toGate[s][h]
    <3>1. toGate[s] \in [Gates -> Seq(GateMsgType)] /\ <<>> \in Seq(GateMsgType)
      BY DEF TypeOK
    <3>2. toGate'[s] = [toGate[s] EXCEPT ![g] = <<>>]
      BY DEF GateDown
    <3> QED BY <3>1, <3>2
  <2> QED BY <2>1 DEF GateDown, GateQueues
<1>7. /\ bc' \in [Receivers -> Seq(BroadcastType)]
      /\ \A r \in Receivers : bc'[r] = IF r = g THEN <<>> ELSE bc[r]
  <2>1. g \in Receivers /\ <<>> \in Seq(BroadcastType)
    BY DEF Receivers
  <2> QED BY <2>1 DEF TypeOK, GateDown
<1>8. ASSUME NEW c \in Conns
      PROVE  \/ conn'[c] = conn[c]
             \/ /\ conn'[c].state = "close"
                /\ conn'[c].tok = IF InToken(c) THEN "done" ELSE conn[c].tok
                /\ conn'[c].bound = conn[c].bound /\ conn'[c].awake = conn[c].awake
  <2>1. conn[c] \in ConnType
    BY DEF TypeOK
  <2>2. CASE conn[c].gate # g
    BY <2>2 DEF GateDown
  <2>3. CASE conn[c].gate = g
    BY <2>1, <2>3 DEF GateDown, ConnType
  <2> QED BY <2>2, <2>3
<1> QED BY <1>1, <1>3, <1>4, <1>5, <1>6, <1>7, <1>8

\* The handlers of a gate's session loop keep the types.
LEMMA GateEnds ==
  ASSUME TypeOK, NEW g \in Gates, GateDown(g), UNCHANGED <<gs, toGs, node>>,
         used' \in [Events -> Nat]
  PROVE  TypeOK'
BY GateDownIs DEF TypeOK, ConnOk, GateOk, GateQueues

\* Taking the head of a gate's queue of connections.
LEMMA HeadTail ==
  ASSUME NEW S, NEW q \in Seq(S), q # <<>> PROVE Head(q) \in S /\ Tail(q) \in Seq(S)
OBVIOUS

\* The gate's session and reg channels, read one message at a time, keep the types.
LEMMA HandleType ==
  ASSUME TypeOK, NEW g \in Gates, CreateHandle(g) \/ DestroyHandle(g) \/ RegHandle(g)
  PROVE  TypeOK'
<1>g. gate[g] \in GateType /\ conn \in [Conns -> ConnType] /\ gate \in [Gates -> GateType]
  BY DEF TypeOK
<1>q. /\ gate[g].create \in Seq(Conns) /\ gate[g].destroy \in Seq(Conns)
      /\ gate[g].regQ \in Seq(Conns)
  BY <1>g DEF GateType
<1>1. CASE CreateHandle(g)
  <2> DEFINE c == Head(gate[g].create)
             q == Tail(gate[g].create)
  <2>1. c \in Conns /\ q \in Seq(Conns)
    BY <1>1, <1>q DEF CreateHandle
  <2>2. gate' = [gate EXCEPT ![g] = [gate[g] EXCEPT !.create = q, !.conv = @ \cup {c}, !.user = c]]
    BY <1>1 DEF CreateHandle
  <2> HIDE DEF c, q
  <2>3. [gate[g] EXCEPT !.create = q, !.conv = @ \cup {c}, !.user = c] \in GateType
    BY <1>g, <2>1 DEF GateType
  <2>4. GateOk
    BY <2>2, <2>3, GateSet
  <2> QED BY <1>1, <2>4 DEF CreateHandle, TypeOK, GateOk
<1>2. CASE DestroyHandle(g)
  <2> DEFINE c == Head(gate[g].destroy)
             q == Tail(gate[g].destroy)
             user == IF conn[c].bound THEN None ELSE gate[g].user
  <2>1. c \in Conns /\ q \in Seq(Conns) /\ user \in Conns \cup {None}
    BY <1>2, <1>g, <1>q DEF DestroyHandle, GateType
  <2>2. CASE conn[c].life # "gone"
    <3>1. /\ conn' = [conn EXCEPT ![c].life = "gone"]
          /\ gate' = [gate EXCEPT ![g] = [gate[g] EXCEPT !.destroy = q, !.conv = @ \ {c},
                                                         !.user = user]]
          /\ UNCHANGED <<toGate, bc>>
      BY <1>2, <2>2, Zenon DEF DestroyHandle
    <3> HIDE DEF c, q, user
    <3>2. [gate[g] EXCEPT !.destroy = q, !.conv = @ \ {c}, !.user = user] \in GateType
      BY <1>g, <2>1 DEF GateType
    <3>3. GateOk
      BY <3>1, <3>2, GateSet
    <3>4. [conn[c] EXCEPT !.life = "gone"] \in ConnType
      <4>1. conn[c] \in ConnType
        BY <1>g, <2>1
      <4> QED BY <4>1 DEF ConnType
    <3>5. ConnOk
      BY <1>g, <2>1, <3>1, <3>4 DEF ConnOk
    <3> QED BY <1>2, <3>1, <3>3, <3>5 DEF DestroyHandle, TypeOK, GateOk, ConnOk
  <2>3. CASE conn[c].life = "gone"
    BY <1>2, <2>3, GateEnds DEF DestroyHandle, TypeOK
  <2> QED BY <2>2, <2>3
<1>3. CASE RegHandle(g)
  <2> DEFINE c == Head(gate[g].regQ)
             q == Tail(gate[g].regQ)
             to == IF conn[c].tok = "reg" THEN "kick" ELSE conn[c].tok
  <2>1. c \in Conns /\ q \in Seq(Conns)
    BY <1>3, <1>q DEF RegHandle
  <2>2. /\ gate' = [gate EXCEPT ![g] = [gate[g] EXCEPT !.regQ = q, !.reg = c]]
        /\ conn' = [conn EXCEPT ![c].tok = to]
    BY <1>3, Zenon DEF RegHandle
  <2>3. conn[c] \in ConnType
    BY <1>g, <2>1
  <2>4. to \in {"none", "check", "reg", "kick", "wait", "bind", "server", "done", "fail"}
    BY <2>3 DEF ConnType
  <2> HIDE DEF c, q, to
  <2>5. [gate[g] EXCEPT !.regQ = q, !.reg = c] \in GateType
    BY <1>g, <2>1 DEF GateType
  <2>6. GateOk
    BY <2>2, <2>5, GateSet
  <2>7. [conn[c] EXCEPT !.tok = to] \in ConnType
    BY <2>3, <2>4 DEF ConnType
  <2>8. ConnOk
    BY <1>g, <2>1, <2>2, <2>7 DEF ConnOk
  <2> QED BY <1>3, <2>6, <2>8 DEF RegHandle, TypeOK, GateOk, ConnOk
<1> QED BY <1>1, <1>2, <1>3

\* The session of the player is told to go, if the gate has one.
LEMMA KickedType == ASSUME TypeOK, NEW g \in Gates, gate' = Kicked(g) PROVE GateOk
<1> DEFINE force == IF gate[g].user = None THEN gate[g].force ELSE gate[g].force \cup {gate[g].user}
<1>1. gate[g] \in GateType /\ force \in SUBSET Conns
  BY DEF TypeOK, GateType
<1>2. gate' = [gate EXCEPT ![g].force = force]
  BY Zenon DEF Kicked
<1> HIDE DEF force
<1>3. [gate[g] EXCEPT !.force = force] \in GateType
  BY <1>1 DEF GateType
<1> QED BY <1>2, <1>3 DEF TypeOK, GateOk

\* The messages of the game servers keep the types.
LEMMA GateMsgNextType ==
  ASSUME TypeOK, NEW s \in Servers, NEW g \in Gates,
         LoginRsp(s, g) \/ KickNotify(s, g) \/ GsChange(s, g)
  PROVE  TypeOK'
<1>g. gate[g] \in GateType /\ gate[g].user \in Conns \cup {None} /\ gate[g].conv \subseteq Conns
  BY DEF TypeOK, GateType
<1>m. /\ toGate[s][g] \in Seq(GateMsgType)
      /\ toGate[s][g] # <<>> => Head(toGate[s][g]).to \in OnlineAt
  <2>1. toGate[s][g] \in Seq(GateMsgType)
    BY DEF TypeOK
  <2>2. toGate[s][g] # <<>> => Head(toGate[s][g]) \in GateMsgType
    BY <2>1, HeadTail
  <2> QED BY <2>1, <2>2 DEF GateMsgType
<1>1. CASE LoginRsp(s, g)
  <2> DEFINE c == gate[g].user
  <2>1. CASE toGate' = Taken(s, g) /\ UNCHANGED <<conn, gate, bc>>
    BY <1>1, <2>1, TakenIs DEF LoginRsp, GateMsg, TypeOK, GateQueues
  <2>2. CASE c \in gate[g].conv /\ toGate' = Taken(s, g) /\ UNCHANGED <<gate, bc>>
             /\ conn' = [conn EXCEPT ![c].state = "active"]
    <3>1. c \in Conns /\ conn[c] \in ConnType
      BY <1>g, <2>2 DEF TypeOK
    <3>2. [conn[c] EXCEPT !.state = "active"] \in ConnType
      BY <3>1 DEF ConnType
    <3>3. ConnOk
      BY <2>2, <3>1, <3>2 DEF TypeOK, ConnOk
    <3> QED BY <1>1, <2>2, <3>3, TakenIs DEF LoginRsp, GateMsg, TypeOK, GateQueues, ConnOk
  <2>3. CASE GateDown(g)
    BY <1>1, <2>3, GateEnds DEF LoginRsp, TypeOK
  <2> QED BY <1>1, <2>1, <2>2, <2>3 DEF LoginRsp
<1>2. CASE KickNotify(s, g)
  BY <1>2, TakenIs, KickedType DEF KickNotify, GateMsg, TypeOK, GateQueues, GateOk
<1>3. CASE GsChange(s, g)
  <2> DEFINE c == gate[g].user
             to == Head(toGate[s][g]).to
  <2>1. toGate' \in GateQueues /\ to \in OnlineAt
    BY <1>3, <1>m, TakenIs DEF GsChange, GateMsg
  <2>2. CASE c \in gate[g].conv
    <3>1. conn' = [conn EXCEPT ![c].gs = to] /\ SendToGs(g, to, "login")
      BY <1>3, <2>2 DEF GsChange
    <3>2. toGs' \in GsQueues
      BY <3>1, SendToGsIs
    <3> HIDE DEF to
    <3>3. c \in Conns /\ conn[c] \in ConnType
      BY <1>g, <2>2 DEF TypeOK
    <3>4. [conn[c] EXCEPT !.gs = to] \in ConnType
      BY <2>1, <3>3 DEF ConnType
    <3>5. ConnOk
      BY <3>1, <3>3, <3>4 DEF TypeOK, ConnOk
    <3> QED BY <1>3, <2>1, <3>2, <3>5 DEF GsChange, TypeOK, ConnOk, GsQueues, GateQueues
  <2>3. CASE c \notin gate[g].conv
    BY <1>3, <2>1, <2>3 DEF GsChange, TypeOK, GateQueues
  <2> QED BY <2>2, <2>3
<1> QED BY <1>1, <1>2, <1>3

\* So do the broadcasts, the online maps and the end of a gate.
LEMMA BroadcastHead ==
  ASSUME TypeOK, NEW r \in Receivers, bc[r] # <<>>
  PROVE  /\ Head(bc[r]) \in BroadcastType
         /\ Head(bc[r]).kind = "on" => Head(bc[r]).from \in Servers
         /\ [bc EXCEPT ![r] = Tail(@)] \in [Receivers -> Seq(BroadcastType)]
<1>1. bc[r] \in Seq(BroadcastType)
  BY DEF TypeOK
<1>2. Head(bc[r]) \in BroadcastType /\ Tail(bc[r]) \in Seq(BroadcastType)
  BY <1>1, HeadTail
<1> QED BY <1>2 DEF TypeOK, BroadcastType

\* What a gate does with a broadcast that is no kick.
LEMMA HeardIs ==
  ASSUME TypeOK, NEW g \in Gates, GateBroadcast(g), Head(bc[g]).kind # "kick"
  PROVE  LET m == Head(bc[g]) IN
         /\ ConnOk /\ GateOk
         /\ \A h \in Gates : h # g => gate'[h] = gate[h]
         /\ gate'[g].up = gate[g].up /\ gate'[g].regQ = gate[g].regQ
         /\ gate'[g].online = IF m.kind = "on" THEN m.from ELSE None
         /\ gate'[g].reg = IF m.kind = "off" THEN None ELSE gate[g].reg
         /\ \A c \in Conns :
              conn'[c] = [conn[c] EXCEPT !.awake = @ \/ (m.kind = "off" /\ c = gate[g].reg /\ InToken(c))]
<1> DEFINE m == Head(bc[g])
           online == IF m.kind = "on" THEN m.from ELSE None
           reg == IF m.kind = "off" THEN None ELSE gate[g].reg
<1>g. gate[g] \in GateType /\ g \in Receivers
  BY DEF TypeOK, Receivers
<1>1. online \in OnlineAt /\ reg \in Conns \cup {None}
  BY <1>g, BroadcastHead DEF GateBroadcast, GateType, OnlineAt
<1>2. gate' = [gate EXCEPT ![g] = [gate[g] EXCEPT !.online = online, !.reg = reg]]
  BY Zenon DEF GateBroadcast
<1>3. conn' = [c \in Conns |-> [conn[c] EXCEPT
                !.awake = @ \/ (m.kind = "off" /\ c = gate[g].reg /\ InToken(c))]]
  BY Zenon DEF GateBroadcast
<1>4. ConnOk
  <2>1. ASSUME NEW c \in Conns PROVE conn'[c] \in ConnType
    <3> DEFINE awake == conn[c].awake \/ (m.kind = "off" /\ c = gate[g].reg /\ InToken(c))
    <3>1. conn[c] \in ConnType /\ awake \in BOOLEAN
      BY DEF TypeOK, ConnType
    <3>2. conn'[c] = [conn[c] EXCEPT !.awake = awake]
      BY <1>3
    <3> HIDE DEF awake
    <3> QED BY <3>1, <3>2 DEF ConnType
  <2> QED BY <1>3, <2>1 DEF ConnOk
<1> HIDE DEF online, reg
<1>5. [gate[g] EXCEPT !.online = online, !.reg = reg] \in GateType
  BY <1>g, <1>1 DEF GateType
<1>6. GateOk
  BY <1>2, <1>5, GateSet
<1>7. /\ \A h \in Gates : h # g => gate'[h] = gate[h]
      /\ gate'[g].up = gate[g].up /\ gate'[g].regQ = gate[g].regQ
      /\ gate'[g].online = online /\ gate'[g].reg = reg
  BY <1>g, <1>2 DEF TypeOK, GateType
<1> QED BY <1>3, <1>4, <1>6, <1>7 DEF online, reg

\* So do the broadcasts it hears, its refresh of the map and its crash.
LEMMA GateNextType ==
  ASSUME TypeOK, NEW g \in Gates,
         GateBroadcast(g) \/ SyncBegin(g) \/ SyncEnd(g) \/ GateCrash(g)
  PROVE  TypeOK'
<1>g. gate[g] \in GateType /\ g \in Receivers
  BY DEF TypeOK, Receivers
<1>1. CASE GateBroadcast(g) /\ Head(bc[g]).kind # "kick"
  BY <1>g, <1>1, HeardIs, BroadcastHead DEF GateBroadcast, TypeOK, ConnOk, GateOk
<1>2. CASE GateBroadcast(g) /\ Head(bc[g]).kind = "kick"
  BY <1>g, <1>2, KickedType, BroadcastHead DEF GateBroadcast, TypeOK, GateOk
<1>3. CASE SyncBegin(g)
  <2>1. [gate[g] EXCEPT !.syncing = TRUE, !.snap = node] \in GateType
    BY <1>g DEF GateType, TypeOK
  <2>2. GateOk
    BY <1>3, <2>1 DEF SyncBegin, TypeOK, GateOk
  <2>3. used' \in [Events -> Nat]
    BY <1>3, UseType DEF SyncBegin, TypeOK, Events
  <2> QED BY <1>3, <2>2, <2>3 DEF SyncBegin, TypeOK, GateOk
<1>4. CASE SyncEnd(g)
  <2>1. [gate[g] EXCEPT !.syncing = FALSE, !.snap = None, !.online = gate[g].snap] \in GateType
    BY <1>g DEF GateType, OnlineAt
  <2>2. GateOk
    BY <1>4, <2>1 DEF SyncEnd, TypeOK, GateOk
  <2>3. used' \in [Events -> Nat]
    BY <1>4, MishapType DEF SyncEnd, Events
  <2> QED BY <1>4, <2>2, <2>3 DEF SyncEnd, TypeOK, GateOk
<1>5. CASE GateCrash(g)
  BY <1>5, GateEnds, UseType DEF GateCrash, Events
<1> QED BY <1>1, <1>2, <1>3, <1>4, <1>5

\* The node hears who is online.
LEMMA NodeType == ASSUME TypeOK, NodeBroadcast PROVE TypeOK'
<1>1. Node \in Receivers
  BY DEF Receivers
<1> QED BY <1>1, BroadcastHead DEF NodeBroadcast, TypeOK, OnlineAt

\* How a step of a game server changes what it holds of the player.
ServerBecomes(s, up, obj, g, loads, saves, lost) ==
  /\ gs' \in [Servers -> ServerType]
  /\ \A t \in Servers \ {s} : gs'[t] = gs[t]
  /\ gs'[s].up = up /\ gs'[s].obj = obj /\ gs'[s].gate = g
  /\ gs'[s].loads = loads /\ gs'[s].saves = saves /\ gs'[s].lost = lost
\* What a step that replaces the record of one game server leaves there.
LEMMA ServerSet ==
  ASSUME TypeOK, NEW s \in Servers, NEW r \in ServerType, gs' = [gs EXCEPT ![s] = r]
  PROVE  ServerBecomes(s, r.up, r.obj, r.gate, r.loads, r.saves, r.lost)
BY DEF TypeOK, ServerBecomes

\* A goroutine more or less.
More(f, x) == [f EXCEPT ![x] = @ + 1]
Less(f, x) == [f EXCEPT ![x] = @ - 1]
\* Counting goroutines up and down.
LEMMA MoreLess ==
  ASSUME NEW S, NEW f \in [S -> Nat], NEW x \in S
  PROVE  /\ More(f, x) \in [S -> Nat] /\ More(f, x)[x] = f[x] + 1
         /\ \A y \in S \ {x} : More(f, x)[y] = f[y]
         /\ f[x] > 0 => /\ Less(f, x) \in [S -> Nat] /\ Less(f, x)[x] = f[x] - 1
                        /\ \A y \in S \ {x} : Less(f, x)[y] = f[y]
BY DEF More, Less
\* The types of what a game server keeps.
LEMMA ServerParts ==
  ASSUME TypeOK, NEW s \in Servers
  PROVE  /\ gs[s].up \in BOOLEAN /\ gs[s].obj \in {"none", "online", "offline"}
         /\ gs[s].gate \in Gates \cup {None} /\ gs[s].loads \in [Gates -> Nat]
         /\ gs[s].saves \in [Gates \cup {None} -> Nat] /\ gs[s].lost \in BOOLEAN
<1>1. gs[s] \in ServerType
  BY DEF TypeOK
<1> QED BY <1>1 DEF ServerType

\* An object that is in the way is thrown away, with what it did if it is online.
Lost(s) == gs[s].lost \/ gs[s].obj = "online"

\* A record changed in all its fields but one.
LEMMA RecordIs ==
  ASSUME TypeOK, NEW s \in Servers, NEW obj \in {"none", "online", "offline"},
         NEW g \in Gates \cup {None}, NEW loads \in [Gates -> Nat],
         NEW saves \in [Gates \cup {None} -> Nat], NEW lost \in BOOLEAN,
         gs' = [gs EXCEPT ![s] = [gs[s] EXCEPT !.obj = obj, !.gate = g, !.loads = loads,
                                               !.saves = saves, !.lost = lost]]
  PROVE  ServerBecomes(s, gs[s].up, obj, g, loads, saves, lost)
<1> DEFINE r == [gs[s] EXCEPT !.obj = obj, !.gate = g, !.loads = loads, !.saves = saves, !.lost = lost]
<1>1. gs[s] \in ServerType
  BY DEF TypeOK
<1>2. /\ r \in ServerType /\ r.up = gs[s].up /\ r.obj = obj /\ r.gate = g /\ r.loads = loads
      /\ r.saves = saves /\ r.lost = lost
  BY <1>1 DEF ServerType
<1>3. gs' = [gs EXCEPT ![s] = r]
  OBVIOUS
<1> HIDE DEF r
<1>4. ServerBecomes(s, r.up, r.obj, r.gate, r.loads, r.saves, r.lost)
  BY <1>2, <1>3, ServerSet
<1> QED BY <1>2, <1>4

\* The login begins on the server.
LEMMA PlayerLoginReqIs ==
  ASSUME TypeOK, NEW s \in Servers, NEW g \in Gates, PlayerLoginReq(g, s)
  PROVE  ServerBecomes(s, gs[s].up, "none", None, More(gs[s].loads, g), gs[s].saves, Lost(s))
<1>1. gs[s] \in ServerType
  BY DEF TypeOK
<1>2. More(gs[s].loads, g) \in [Gates -> Nat] /\ Lost(s) \in BOOLEAN
  BY ServerParts, MoreLess DEF Lost
<1>3. gs' = [gs EXCEPT ![s] = [gs[s] EXCEPT !.obj = "none", !.gate = None, !.loads = More(gs[s].loads, g),
                                          !.lost = Lost(s)]]
  BY Zenon DEF PlayerLoginReq, More, Lost
<1>4. [gs[s] EXCEPT !.obj = "none", !.gate = None, !.loads = More(gs[s].loads, g), !.lost = Lost(s)]
      = [gs[s] EXCEPT !.obj = "none", !.gate = None, !.loads = More(gs[s].loads, g),
                      !.saves = gs[s].saves, !.lost = Lost(s)]
  BY <1>1 DEF ServerType
<1>5. gs' = [gs EXCEPT ![s] =
        [gs[s] EXCEPT !.obj = "none", !.gate = None, !.loads = More(gs[s].loads, g),
                      !.saves = gs[s].saves, !.lost = Lost(s)]]
  BY <1>3, <1>4, Zenon
<1>6. "none" \in {"none", "online", "offline"} /\ None \in Gates \cup {None}
      /\ gs[s].saves \in [Gates \cup {None} -> Nat]
  BY ServerParts
<1> QED BY <1>2, <1>5, <1>6, RecordIs, Zenon

\* The player is loaded.
LEMMA OnLoginIs ==
  ASSUME TypeOK, NEW s \in Servers, NEW g \in Gates, OnLogin(g, s)
  PROVE  ServerBecomes(s, gs[s].up, "online", g, Less(gs[s].loads, g), gs[s].saves, Lost(s))
<1>1. gs[s] \in ServerType
  BY DEF TypeOK
<1>2. Less(gs[s].loads, g) \in [Gates -> Nat] /\ Lost(s) \in BOOLEAN
  BY ServerParts, MoreLess DEF Lost, OnLogin
<1>3. gs' = [gs EXCEPT ![s] = [gs[s] EXCEPT !.obj = "online", !.gate = g, !.loads = Less(gs[s].loads, g), !.lost = Lost(s)]]
  BY Zenon DEF OnLogin, More, Less, Lost
<1>4. [gs[s] EXCEPT !.obj = "online", !.gate = g, !.loads = Less(gs[s].loads, g), !.lost = Lost(s)]
      = [gs[s] EXCEPT !.obj = "online", !.gate = g, !.loads = Less(gs[s].loads, g),
                      !.saves = gs[s].saves, !.lost = Lost(s)]
  BY <1>1 DEF ServerType
<1>5. gs' = [gs EXCEPT ![s] =
        [gs[s] EXCEPT !.obj = "online", !.gate = g, !.loads = Less(gs[s].loads, g),
                      !.saves = gs[s].saves, !.lost = Lost(s)]]
  BY <1>3, <1>4, Zenon
<1>6. "online" \in {"none", "online", "offline"} /\ g \in Gates \cup {None}
      /\ gs[s].loads \in [Gates -> Nat] /\ gs[s].saves \in [Gates \cup {None} -> Nat]
      /\ gs[s].lost \in BOOLEAN
  BY ServerParts
<1> QED BY <1>2, <1>5, <1>6, RecordIs, Zenon

\* An online player goes.
LEMMA OnUserOfflineIs ==
  ASSUME TypeOK, NEW s \in Servers, NEW to \in Gates \cup {None}, OnUserOffline(s, to)
  PROVE  ServerBecomes(s, gs[s].up, "offline", None, gs[s].loads, More(gs[s].saves, to), gs[s].lost)
<1>1. gs[s] \in ServerType
  BY DEF TypeOK
<1>2. More(gs[s].saves, to) \in [Gates \cup {None} -> Nat]
  BY ServerParts, MoreLess DEF Lost
<1>3. gs' = [gs EXCEPT ![s] = [gs[s] EXCEPT !.obj = "offline", !.gate = None, !.saves = More(gs[s].saves, to)]]
  BY Zenon DEF OnUserOffline, More, Less, Lost
<1>4. [gs[s] EXCEPT !.obj = "offline", !.gate = None, !.saves = More(gs[s].saves, to)]
      = [gs[s] EXCEPT !.obj = "offline", !.gate = None, !.loads = gs[s].loads,
                      !.saves = More(gs[s].saves, to), !.lost = gs[s].lost]
  BY <1>1 DEF ServerType
<1>5. gs' = [gs EXCEPT ![s] =
        [gs[s] EXCEPT !.obj = "offline", !.gate = None, !.loads = gs[s].loads,
                      !.saves = More(gs[s].saves, to), !.lost = gs[s].lost]]
  BY <1>3, <1>4, Zenon
<1>6. "offline" \in {"none", "online", "offline"} /\ None \in Gates \cup {None}
      /\ gs[s].loads \in [Gates -> Nat] /\ gs[s].saves \in [Gates \cup {None} -> Nat]
      /\ gs[s].lost \in BOOLEAN
  BY ServerParts
<1> QED BY <1>2, <1>5, <1>6, RecordIs, Zenon

\* The player is saved.
LEMMA OfflineFinishIs ==
  ASSUME TypeOK, NEW s \in Servers, NEW to \in Gates \cup {None}, OfflineFinish(s, to)
  PROVE  ServerBecomes(s, gs[s].up, "none", None, gs[s].loads, Less(gs[s].saves, to), Lost(s))
<1>1. gs[s] \in ServerType
  BY DEF TypeOK
<1>2. Less(gs[s].saves, to) \in [Gates \cup {None} -> Nat] /\ Lost(s) \in BOOLEAN
  BY ServerParts, MoreLess DEF Lost, OfflineFinish
<1>3. gs' = [gs EXCEPT ![s] = [gs[s] EXCEPT !.obj = "none", !.gate = None, !.saves = Less(gs[s].saves, to), !.lost = Lost(s)]]
  BY Zenon DEF OfflineFinish, More, Less, Lost
<1>4. [gs[s] EXCEPT !.obj = "none", !.gate = None, !.saves = Less(gs[s].saves, to), !.lost = Lost(s)]
      = [gs[s] EXCEPT !.obj = "none", !.gate = None, !.loads = gs[s].loads,
                      !.saves = Less(gs[s].saves, to), !.lost = Lost(s)]
  BY <1>1 DEF ServerType
<1>5. gs' = [gs EXCEPT ![s] =
        [gs[s] EXCEPT !.obj = "none", !.gate = None, !.loads = gs[s].loads,
                      !.saves = Less(gs[s].saves, to), !.lost = Lost(s)]]
  BY <1>3, <1>4, Zenon
<1>6. "none" \in {"none", "online", "offline"} /\ None \in Gates \cup {None}
      /\ gs[s].loads \in [Gates -> Nat] /\ gs[s].saves \in [Gates \cup {None} -> Nat]
      /\ gs[s].lost \in BOOLEAN
  BY ServerParts
<1> QED BY <1>2, <1>5, <1>6, RecordIs, Zenon

\* Another server says the player is gone.
LEMMA SetRemoteIs ==
  ASSUME TypeOK, NEW s \in Servers, SetRemoteUserOnlineState(s)
  PROVE  ServerBecomes(s, gs[s].up, "none", None, gs[s].loads, gs[s].saves, Lost(s))
<1>1. gs[s] \in ServerType
  BY DEF TypeOK
<1>2. Lost(s) \in BOOLEAN
  BY ServerParts, MoreLess DEF Lost
<1>3. gs' = [gs EXCEPT ![s] = [gs[s] EXCEPT !.obj = "none", !.gate = None, !.lost = Lost(s)]]
  BY Zenon DEF SetRemoteUserOnlineState, More, Less, Lost
<1>4. [gs[s] EXCEPT !.obj = "none", !.gate = None, !.lost = Lost(s)]
      = [gs[s] EXCEPT !.obj = "none", !.gate = None, !.loads = gs[s].loads,
                      !.saves = gs[s].saves, !.lost = Lost(s)]
  BY <1>1 DEF ServerType
<1>5. gs' = [gs EXCEPT ![s] =
        [gs[s] EXCEPT !.obj = "none", !.gate = None, !.loads = gs[s].loads,
                      !.saves = gs[s].saves, !.lost = Lost(s)]]
  BY <1>3, <1>4, Zenon
<1>6. "none" \in {"none", "online", "offline"} /\ None \in Gates \cup {None}
      /\ gs[s].loads \in [Gates -> Nat] /\ gs[s].saves \in [Gates \cup {None} -> Nat]
      /\ gs[s].lost \in BOOLEAN
  BY ServerParts
<1> QED BY <1>2, <1>5, <1>6, RecordIs, Zenon

\* The process of a game server ends.
LEMMA GsDownIs ==
  ASSUME TypeOK, NEW s \in Servers, GsDown(s)
  PROVE  /\ ServerBecomes(s, FALSE, "none", None, [g \in Gates |-> 0],
                          [g \in Gates \cup {None} |-> 0], gs[s].lost)
         /\ toGs' \in GsQueues
         /\ \A g \in Gates, t \in Servers : toGs'[g][t] = IF t = s THEN <<>> ELSE toGs[g][t]
<1> DEFINE loads == [g \in Gates |-> 0]
           saves == [g \in Gates \cup {None} |-> 0]
           r == [gs[s] EXCEPT !.up = FALSE, !.obj = "none", !.gate = None, !.loads = loads,
                              !.saves = saves]
<1>1. gs[s] \in ServerType /\ loads \in [Gates -> Nat] /\ saves \in [Gates \cup {None} -> Nat]
  BY DEF TypeOK
<1>2. gs' = [gs EXCEPT ![s] = r]
  BY Zenon DEF GsDown
<1> HIDE DEF loads, saves
<1>3. /\ r \in ServerType /\ r.up = FALSE /\ r.obj = "none" /\ r.gate = None /\ r.loads = loads
      /\ r.saves = saves /\ r.lost = gs[s].lost
  BY <1>1 DEF ServerType
<1> HIDE DEF r
<1>4. ServerBecomes(s, r.up, r.obj, r.gate, r.loads, r.saves, r.lost)
  BY <1>2, <1>3, ServerSet
<1>5. ServerBecomes(s, FALSE, "none", None, loads, saves, gs[s].lost)
  BY <1>3, <1>4
<1>6. ASSUME NEW g \in Gates
      PROVE  /\ toGs'[g] \in [Servers -> Seq({"login", "offline"})]
             /\ \A t \in Servers : toGs'[g][t] = IF t = s THEN <<>> ELSE toGs[g][t]
  <2>1. toGs[g] \in [Servers -> Seq({"login", "offline"})] /\ <<>> \in Seq({"login", "offline"})
    BY DEF TypeOK
  <2>2. toGs'[g] = [toGs[g] EXCEPT ![s] = <<>>]
    BY DEF GsDown
  <2> QED BY <2>1, <2>2
<1> QED BY <1>5, <1>6 DEF GsDown, GsQueues, loads, saves

\* The steps of the game servers keep the types.
LEMMA ServerNextType == ASSUME TypeOK, NEW s \in Servers, ServerNext(s) PROVE TypeOK'
<1> USE DEF ServerBecomes
<1>r. s \in Receivers
  BY DEF Receivers
<1>k. [kind |-> "on", from |-> s] \in BroadcastType /\ [kind |-> "off", from |-> s] \in BroadcastType
  BY DEF BroadcastType
<1>1. ASSUME NEW g \in Gates, PlayerLoginReq(g, s) PROVE TypeOK'
  <2>1. used' \in [Events -> Nat]
    BY <1>1, MishapType DEF PlayerLoginReq, Events
  <2> QED BY <1>1, <2>1, PlayerLoginReqIs, GsTakenIs DEF PlayerLoginReq, GsMsg, TypeOK, GsQueues
<1>2. ASSUME NEW g \in Gates, OnLogin(g, s) PROVE TypeOK'
  <2>1. toGate' \in GateQueues
    BY <1>2, SendToGateIs DEF OnLogin, OnlineAt
  <2>2. bc' \in [Receivers -> Seq(BroadcastType)]
    BY <1>2, <1>k, SendToAllType DEF OnLogin
  <2> QED BY <1>2, <2>1, <2>2, OnLoginIs DEF OnLogin, TypeOK, GateQueues
<1>3. ASSUME NEW g \in Gates, UserOfflineNotify(g, s) PROVE TypeOK'
  <2>1. toGs' \in GsQueues
    BY <1>3, GsTakenIs DEF UserOfflineNotify, GsMsg
  <2>2. gs' \in [Servers -> ServerType]
    BY <1>3, OnUserOfflineIs DEF UserOfflineNotify, TypeOK
  <2> QED BY <1>3, <2>1, <2>2 DEF UserOfflineNotify, TypeOK, GsQueues
<1>4. ASSUME NEW to \in Gates \cup {None}, OfflineFinish(s, to) PROVE TypeOK'
  <2>1. toGate' \in GateQueues
    BY <1>4, SendToGateIs DEF OfflineFinish, TypeOK, GateQueues
  <2>2. bc' \in [Receivers -> Seq(BroadcastType)]
    BY <1>4, <1>k, SendToAllType DEF OfflineFinish
  <2> QED BY <1>4, <2>1, <2>2, OfflineFinishIs DEF OfflineFinish, TypeOK, GateQueues
<1>5. CASE JoinPlayerSceneReq(s)
  BY <1>5, MoveUses, ServerParts, OnUserOfflineIs DEF JoinPlayerSceneReq, TypeOK
<1>6. CASE KeepaliveTimeout(s)
  BY <1>6, OnUserOfflineIs DEF KeepaliveTimeout, TypeOK
<1>7. CASE SetRemoteUserOnlineState(s)
  BY <1>7, <1>r, SetRemoteIs, BroadcastHead DEF SetRemoteUserOnlineState, TypeOK
<1>8. CASE GsCrash(s)
  <2>0. <<>> \in Seq(BroadcastType)
    OBVIOUS
  <2>1. bc' \in [Receivers -> Seq(BroadcastType)]
    BY <1>8, <2>0 DEF GsCrash, TypeOK
  <2> QED BY <1>8, <2>1, GsDownIs, UseType DEF GsCrash, TypeOK, GsQueues, Events
<1>9. CASE GsClose(s)
  <2>1. toGate' \in GateQueues
    BY <1>9, SendToGateIs DEF GsClose, TypeOK, GateQueues, OnlineAt
  <2>2. bc' \in [Receivers -> Seq(BroadcastType)]
    BY <1>9, <1>k, SendToAllType DEF GsClose, TypeOK
  <2> QED BY <1>9, <2>1, <2>2, GsDownIs, UseType DEF GsClose, TypeOK, GateQueues, GsQueues, Events
<1> QED BY <1>1, <1>2, <1>3, <1>4, <1>5, <1>6, <1>7, <1>8, <1>9 DEF ServerNext

\* Every step keeps the types.
LEMMA NextType == ASSUME TypeOK, [Next]_vars PROVE TypeOK'
<1>1. ASSUME NEW c \in Conns,
             \/ \E g \in Gates : Accept(c, g)
             \/ TokenNext(c) \/ LoginReq(c) \/ ForceExitReq(c) \/ CloseNext(c)
      PROVE  TypeOK'
  BY <1>1, TokenType, ConnNextType
<1>3. ASSUME NEW g \in Gates,
             \/ HandleNext(g) \/ SyncBegin(g) \/ SyncEnd(g) \/ GateCrash(g)
             \/ \E c \in Conns : ForceClose(g, c)
             \/ \E s \in Servers : LoginRsp(s, g) \/ KickNotify(s, g) \/ GsChange(s, g)
      PROVE  TypeOK'
  BY <1>3, HandleType, GateNextType, ConnNextType, GateMsgNextType DEF HandleNext
<1>4. CASE NodeBroadcast
  BY <1>4, NodeType
<1>2. CASE UNCHANGED vars
  BY <1>2 DEF vars, TypeOK
<1> QED BY <1>1, <1>2, <1>3, <1>4, ServerNextType DEF Next

\* Every record of the gates and the game servers keeps its type, and a broadcast
\* that a player is online comes from a game server.
THEOREM TypeCorrect == Spec => []TypeOK
BY InitType, NextType, PTL DEF Spec

-----------------------------------------------------------------------------
(* Queues.                                                                 *)

\* A message sent is in the queue, one taken no longer.
LEMMA HasAppend ==
  ASSUME NEW S, NEW q \in Seq(S), NEW x \in S, NEW m
  PROVE  /\ Has(Append(q, x), m) <=> Has(q, m) \/ x = m
         /\ Once(q, m) /\ (x # m \/ ~Has(q, m)) => Once(Append(q, x), m)
BY DEF Has, Once
\* A queue after its head is taken: a message that was there once is gone with it.
LEMMA HasTail ==
  ASSUME NEW S, NEW q \in Seq(S), q # <<>>, NEW m
  PROVE  /\ Head(q) = m => Has(q, m)
         /\ Has(Tail(q), m) => Has(q, m)
         /\ Once(q, m) => Once(Tail(q), m) /\ (Head(q) = m => ~Has(Tail(q), m))
<1>1. \A i \in DOMAIN Tail(q) : i + 1 \in DOMAIN q /\ Tail(q)[i] = q[i + 1] /\ i # 0
  OBVIOUS
<1>2. 1 \in DOMAIN q /\ Head(q) = q[1]
  OBVIOUS
<1>3. \A i, j \in DOMAIN Tail(q) : i + 1 = j + 1 => i = j
  OBVIOUS
<1>4. \A i \in DOMAIN Tail(q) : i + 1 # 1
  OBVIOUS
<1> QED BY <1>1, <1>2, <1>3, <1>4 DEF Has, Once
\* The same two facts about the kinds of messages: a longer queue,
LEMMA HasKindAppend ==
  ASSUME NEW S, NEW q \in Seq(S), NEW x \in S, NEW kind
  PROVE  /\ HasKind(Append(q, x), kind) <=> HasKind(q, kind) \/ x.kind = kind
         /\ OnceKind(q, kind) /\ (x.kind # kind \/ ~HasKind(q, kind)) => OnceKind(Append(q, x), kind)
BY DEF HasKind, OnceKind
\* and a shorter one.
LEMMA HasKindTail ==
  ASSUME NEW S, NEW q \in Seq(S), q # <<>>, NEW kind
  PROVE  /\ Head(q).kind = kind => HasKind(q, kind)
         /\ HasKind(Tail(q), kind) => HasKind(q, kind)
         /\ OnceKind(q, kind) => /\ OnceKind(Tail(q), kind)
                                 /\ Head(q).kind = kind => ~HasKind(Tail(q), kind)
<1>1. \A i \in DOMAIN Tail(q) : i + 1 \in DOMAIN q /\ Tail(q)[i] = q[i + 1] /\ i # 0
  OBVIOUS
<1>2. 1 \in DOMAIN q /\ Head(q) = q[1]
  OBVIOUS
<1>3. \A i, j \in DOMAIN Tail(q) : i + 1 = j + 1 => i = j
  OBVIOUS
<1>4. \A i \in DOMAIN Tail(q) : i + 1 # 1
  OBVIOUS
<1> QED BY <1>1, <1>2, <1>3, <1>4 DEF HasKind, OnceKind

\* Nothing is in an empty queue.
LEMMA NothingHas ==
  \A m : ~Has(<<>>, m) /\ Once(<<>>, m) /\ ~HasKind(<<>>, m) /\ OnceKind(<<>>, m)
BY DEF Has, Once, HasKind, OnceKind

\* What an online map will say: what the last broadcast that is no kick says.
LEMMA HearsAppend ==
  ASSUME NEW q \in Seq(BroadcastType), NEW x \in BroadcastType, NEW online, NEW s
  PROVE  /\ x.kind = "kick" => (Hears(Append(q, x), online, s) <=> Hears(q, online, s))
         /\ x.kind = "on" => (Hears(Append(q, x), online, s) <=> x.from = s)
         /\ x.kind = "off" => ~Hears(Append(q, x), online, s)
<1> DEFINE n == Len(q) + 1
           r == Append(q, x)
<1>1. /\ n \in DOMAIN r /\ r[n] = x
      /\ \A i \in DOMAIN q : i \in DOMAIN r /\ r[i] = q[i] /\ i < n /\ i \in Nat
      /\ \A i \in DOMAIN r : i = n \/ i \in DOMAIN q
      /\ n \in Nat
  OBVIOUS
<1> HIDE DEF n, r
<1>2. CASE x.kind = "kick"
  <2>1. Hears(r, online, s) => Hears(q, online, s)
    BY <1>1, <1>2 DEF Hears
  <2>2. Hears(q, online, s) => Hears(r, online, s)
    BY <1>1, <1>2 DEF Hears
  <2> QED BY <1>2, <2>1, <2>2 DEF r
<1>3. CASE x.kind = "on"
  <2>1. Hears(r, online, s) => x.from = s
    BY <1>1, <1>3 DEF Hears
  <2>2. x.from = s => Hears(r, online, s)
    BY <1>1, <1>3 DEF Hears
  <2> QED BY <1>3, <2>1, <2>2 DEF r
<1>4. CASE x.kind = "off"
  <2>1. ~Hears(r, online, s)
    BY <1>1, <1>4 DEF Hears
  <2> QED BY <1>4, <2>1 DEF r
<1>5. x.kind \in {"on", "off", "kick"}
  BY DEF BroadcastType
<1> QED BY <1>2, <1>3, <1>4, <1>5
\* Reading the head of its queue changes nothing of what a gate's map will say.
LEMMA HearsTail ==
  ASSUME NEW q \in Seq(BroadcastType), q # <<>>, NEW online, NEW s \in Servers,
         NEW online2,
         online2 = IF Head(q).kind = "kick" THEN online
                   ELSE IF Head(q).kind = "on" THEN Head(q).from ELSE None
  PROVE  Hears(Tail(q), online2, s) <=> Hears(q, online, s)
<1> DEFINE r == Tail(q)
<1>1. /\ \A i \in DOMAIN r : i + 1 \in DOMAIN q /\ r[i] = q[i + 1] /\ i \in Nat /\ i > 0
      /\ \A i \in DOMAIN q : i = 1 \/ (i - 1 \in DOMAIN r /\ r[i - 1] = q[i] /\ i \in Nat /\ i > 1)
      /\ 1 \in DOMAIN q /\ Head(q) = q[1]
      /\ Head(q) \in BroadcastType
  OBVIOUS
<1>2. Head(q).kind \in {"on", "off", "kick"} /\ s # None
  BY <1>1, NamesAssumption DEF BroadcastType
<1> HIDE DEF r
<1>3. ASSUME Hears(r, online2, s) PROVE Hears(q, online, s)
  <2>1. CASE online2 = s /\ \A i \in DOMAIN r : r[i].kind = "kick"
    <3>1. \A i \in DOMAIN q : i > 1 => q[i].kind = "kick"
      <4> SUFFICES ASSUME NEW i \in DOMAIN q, i > 1 PROVE q[i].kind = "kick"
        OBVIOUS
      <4>1. i - 1 \in DOMAIN r /\ r[i - 1] = q[i]
        BY <1>1
      <4> QED BY <2>1, <4>1
    <3>2. CASE Head(q).kind = "kick"
      BY <1>1, <2>1, <3>1, <3>2 DEF Hears
    <3>3. CASE Head(q).kind = "on"
      BY <1>1, <2>1, <3>1, <3>3 DEF Hears
    <3> QED BY <1>2, <2>1, <3>2, <3>3
  <2>2. ASSUME NEW i \in DOMAIN r, r[i].kind = "on", r[i].from = s,
               \A j \in DOMAIN r : j > i => r[j].kind = "kick"
        PROVE  Hears(q, online, s)
    <3>1. \A j \in DOMAIN q : j > i + 1 => q[j].kind = "kick"
      <4> SUFFICES ASSUME NEW j \in DOMAIN q, j > i + 1 PROVE q[j].kind = "kick"
        OBVIOUS
      <4>1. j - 1 \in DOMAIN r /\ r[j - 1] = q[j] /\ j - 1 > i
        BY <1>1
      <4> QED BY <2>2, <4>1
    <3>2. i + 1 \in DOMAIN q /\ q[i + 1] = r[i]
      BY <1>1
    <3> QED BY <2>2, <3>1, <3>2 DEF Hears
  <2> QED BY <1>3, <2>1, <2>2 DEF Hears
<1>4. ASSUME Hears(q, online, s) PROVE Hears(r, online2, s)
  <2>1. CASE online = s /\ \A i \in DOMAIN q : q[i].kind = "kick"
    BY <1>1, <2>1 DEF Hears
  <2>2. ASSUME NEW i \in DOMAIN q, q[i].kind = "on", q[i].from = s,
               \A j \in DOMAIN q : j > i => q[j].kind = "kick"
        PROVE  Hears(r, online2, s)
    <3>1. CASE i = 1
      <4>1. \A j \in DOMAIN r : r[j].kind = "kick"
        <5> SUFFICES ASSUME NEW j \in DOMAIN r PROVE r[j].kind = "kick"
          OBVIOUS
        <5>1. j + 1 \in DOMAIN q /\ r[j] = q[j + 1] /\ j + 1 > 1
          BY <1>1
        <5> QED BY <2>2, <3>1, <5>1
      <4> QED BY <1>1, <2>2, <3>1, <4>1 DEF Hears
    <3>2. CASE i # 1
      <4>1. i - 1 \in DOMAIN r /\ r[i - 1] = q[i]
        BY <1>1, <3>2
      <4>2. \A j \in DOMAIN r : j > i - 1 => r[j].kind = "kick"
        <5> SUFFICES ASSUME NEW j \in DOMAIN r, j > i - 1 PROVE r[j].kind = "kick"
          OBVIOUS
        <5>1. j + 1 \in DOMAIN q /\ r[j] = q[j + 1] /\ j + 1 > i
          BY <1>1, <3>2
        <5> QED BY <2>2, <5>1
      <4> QED BY <2>2, <4>1, <4>2 DEF Hears
    <3> QED BY <3>1, <3>2
  <2> QED BY <1>4, <2>1, <2>2 DEF Hears
<1> QED BY <1>3, <1>4 DEF r

-----------------------------------------------------------------------------
(* A calm step begins no login and takes nobody in; most steps are calm.   *)

ConnsCalm == \A c \in Conns : Begun(c)' => Begun(c) /\ (Waits(c) => Waits(c)')
RequestsCalm ==
  \A g \in Gates, s \in Servers :
    /\ Has(toGs'[g][s], "login") => Has(toGs[g][s], "login")
    /\ Once(toGs[g][s], "login") => Once(toGs'[g][s], "login")
ChangesCalm ==
  \A g \in Gates, s \in Servers :
    /\ HasKind(toGate'[s][g], "change") => HasKind(toGate[s][g], "change")
    /\ OnceKind(toGate[s][g], "change") => OnceKind(toGate'[s][g], "change")
ServersCalm ==
  \A s \in Servers :
    /\ \A g \in Gates : gs'[s].loads[g] <= gs[s].loads[g]
    /\ \A to \in Gates \cup {None} : gs'[s].saves[to] = gs[s].saves[to] \/ gs'[s].saves[to] = 0
    /\ gs'[s].obj = "online" => gs[s].obj = "online" /\ gs'[s].gate = gs[s].gate
    /\ gs'[s].obj = "offline" => gs[s].obj = "offline" /\ gs'[s].saves = gs[s].saves
    /\ gs'[s].loads \in [Gates -> Nat] /\ gs'[s].saves \in [Gates \cup {None} -> Nat]
NoOnCalm == \A g \in Gates : HasKind(bc'[g], "on") => HasKind(bc[g], "on")
HearsCalm ==
  \A g \in Gates, s \in Servers :
    gate'[g].up /\ Served(s)' =>
      gate[g].up /\ (Hears(bc[g], gate[g].online, s) => Hears(bc'[g], gate'[g].online, s))

\* A step that takes in nobody and starts nothing leaves the forms of a login and who is
\* served as they are, or fewer.
BegunCalm == \A c \in Conns : Begun(c)' => Begun(c)
ServedCalm ==
  \A s \in Servers :
    /\ Served(s)' => Served(s)
    /\ \A g \in Gates : /\ gs'[s].loads[g] <= gs[s].loads[g] /\ gs'[s].loads[g] \in Nat
                        /\ gs'[s].saves[g] > 0 => gs[s].saves[g] > 0
\* A calm step keeps all but the first invariants on logins: no new login, news or load.
LEMMA CalmMost ==
  ASSUME TypeOK, Admission, BegunCalm, RequestsCalm, ChangesCalm, ServedCalm, NoOnCalm, HearsCalm
  PROVE  /\ OneLogin' /\ NoNews' /\ Told'
         /\ SomeRequest' => SomeRequest
         /\ SomeLoad' => SomeLoad
         /\ SomeChange' => SomeChange
<1> USE DEF Admission
<1>p. \A s \in Servers : /\ gs[s].loads \in [Gates -> Nat]
                         /\ gs[s].saves \in [Gates \cup {None} -> Nat]
  BY ServerParts
<1>f. /\ SomeBegun' => SomeBegun
      /\ SomeRequest' => SomeRequest
      /\ SomeLoad' => SomeLoad
      /\ SomeMove' => SomeMove
      /\ SomeChange' => SomeChange
  <2>1. SomeBegun' => SomeBegun
    BY DEF BegunCalm, SomeBegun
  <2>2. SomeRequest' => SomeRequest
    BY DEF RequestsCalm, SomeRequest
  <2>3. SomeLoad' => SomeLoad
    BY <1>p DEF ServedCalm, SomeLoad
  <2>4. SomeMove' => SomeMove
    BY <1>p DEF ServedCalm, SomeMove
  <2>5. SomeChange' => SomeChange
    BY DEF ChangesCalm, SomeChange
  <2> QED BY <2>1, <2>2, <2>3, <2>4, <2>5
<1>1. OneLogin'
  <2>1. OneBegun'
    BY DEF OneLogin, OneBegun, BegunCalm
  <2>2. OneRequest'
    BY DEF OneLogin, OneRequest, RequestsCalm
  <2>3. OneLoad'
    BY <1>p DEF OneLogin, OneLoad, ServedCalm
  <2>4. OneChange'
    BY DEF OneLogin, OneChange, ChangesCalm
  <2>5. OneForm'
    BY <1>f DEF OneLogin, OneForm
  <2> QED BY <2>1, <2>2, <2>3, <2>4, <2>5 DEF OneLogin
<1>2. NoNews'
  BY <1>f DEF NoNews, NoOnCalm
<1>3. Told'
  BY DEF Told, HearsCalm, ServedCalm
<1> QED BY <1>f, <1>1, <1>2, <1>3

\* A calm step keeps the admission invariant.
LEMMA CalmNext ==
  ASSUME TypeOK, Admission, ConnsCalm, RequestsCalm, ChangesCalm, ServersCalm, NoOnCalm, HearsCalm
  PROVE  Admission'
<1> USE DEF Admission
<1>p. \A s \in Servers : /\ gs[s].loads \in [Gates -> Nat]
                         /\ gs[s].saves \in [Gates \cup {None} -> Nat]
  BY ServerParts
<1>1. BegunCalm /\ ServedCalm
  <2>1. \A s \in Servers : Served(s)' => Served(s)
    BY <1>p DEF ServersCalm, Served
  <2> QED BY <1>p, <2>1 DEF ConnsCalm, BegunCalm, ServersCalm, ServedCalm
<1>2. OneServed'
  BY <1>p, <1>1 DEF OneServed, ServersCalm, ServedCalm
<1>3. /\ OneLogin' /\ NoNews' /\ Told'
      /\ SomeRequest' => SomeRequest
      /\ SomeLoad' => SomeLoad
      /\ SomeChange' => SomeChange
  BY <1>1, CalmMost
<1>4. OldGone'
  <2>1. (\E c \in Conns : Begun(c) /\ ~Waits(c))' => \E c \in Conns : Begun(c) /\ ~Waits(c)
    BY DEF ConnsCalm
  <2> QED BY <1>1, <1>3, <2>1 DEF OldGone, ServedCalm
<1> QED BY <1>2, <1>3, <1>4

\* What is left alone is calm.
GateLike ==
  \A g \in Gates :
    /\ gate'[g].up = gate[g].up /\ gate'[g].online = gate[g].online
    /\ gate'[g].reg = gate[g].reg /\ gate'[g].regQ = gate[g].regQ
HearsSame ==
  \A g \in Gates : /\ gate'[g].up => gate[g].up
                   /\ \A s \in Servers :
                        gate'[g].up /\ Hears(bc[g], gate[g].online, s) => Hears(bc'[g], gate'[g].online, s)
\* What a step leaves alone is calm.
LEMMA UnchangedCalm ==
  ASSUME TypeOK
  PROVE  /\ UNCHANGED toGs => RequestsCalm
         /\ UNCHANGED toGate => ChangesCalm
         /\ UNCHANGED gs => ServersCalm
         /\ UNCHANGED bc => NoOnCalm
         /\ UNCHANGED bc /\ GateLike => HearsSame
         /\ HearsSame => HearsCalm
         /\ UNCHANGED gate => GateLike
         /\ UNCHANGED conn => ConnsCalm
<1>1. UNCHANGED gs => ServersCalm
  <2> SUFFICES ASSUME UNCHANGED gs, NEW s \in Servers
               PROVE  /\ \A g \in Gates : gs[s].loads[g] <= gs[s].loads[g]
                      /\ gs[s].loads \in [Gates -> Nat] /\ gs[s].saves \in [Gates \cup {None} -> Nat]
    BY DEF ServersCalm
  <2>1. gs[s].loads \in [Gates -> Nat] /\ gs[s].saves \in [Gates \cup {None} -> Nat]
    BY ServerParts
  <2> QED BY <2>1
<1>2. UNCHANGED conn => ConnsCalm
  BY DEF ConnsCalm, Begun, Waits
<1> QED BY <1>1, <1>2 DEF RequestsCalm, ChangesCalm, NoOnCalm, GateLike, HearsSame, HearsCalm

\* An offline notice is no login request, and a kick tells nobody of a player.
LEMMA OfflineCalm ==
  ASSUME TypeOK, NEW g, NEW s, SendToGs(g, s, "offline") PROVE RequestsCalm
<1>1. \A h \in Gates, t \in Servers : toGs[h][t] \in Seq({"login", "offline"})
  BY DEF TypeOK
<1>2. \A h \in Gates, t \in Servers :
        toGs'[h][t] = IF h = g /\ t = s /\ Up(s) THEN Append(toGs[h][t], "offline") ELSE toGs[h][t]
  BY SendToGsIs
<1>3. ASSUME NEW h \in Gates, NEW t \in Servers
      PROVE  /\ Has(toGs'[h][t], "login") => Has(toGs[h][t], "login")
             /\ Once(toGs[h][t], "login") => Once(toGs'[h][t], "login")
  BY <1>1, <1>2, HasAppend
<1> QED BY <1>3 DEF RequestsCalm
\* Who hears a broadcast.
LEMMA SendToAllIs ==
  ASSUME TypeOK, NEW from, NEW kind, SendToAll(from, kind), NEW r \in Receivers
  PROVE  bc'[r] = IF r # from /\ Up(r) /\ Heeds(r, kind)
                  THEN Append(bc[r], [kind |-> kind, from |-> from]) ELSE bc[r]
BY DEF TypeOK, SendToAll
\* A kick is news to no online map.
LEMMA KickCalm ==
  ASSUME TypeOK, NEW g \in Gates, SendToAll(g, "kick"), GateLike PROVE NoOnCalm /\ HearsSame
<1> DEFINE m == [kind |-> "kick", from |-> g]
<1>1. ASSUME NEW h \in Gates
      PROVE  /\ HasKind(bc'[h], "on") => HasKind(bc[h], "on")
             /\ gate'[h].up => gate[h].up
             /\ \A s \in Servers :
                  Hears(bc[h], gate[h].online, s) => Hears(bc'[h], gate'[h].online, s)
  <2>1. h \in Receivers /\ m \in BroadcastType /\ m.kind = "kick" /\ bc[h] \in Seq(BroadcastType)
    BY DEF Receivers, BroadcastType, TypeOK
  <2>2. bc'[h] = bc[h] \/ bc'[h] = Append(bc[h], m)
    BY <2>1, SendToAllIs
  <2> HIDE DEF m
  <2>3. /\ HasKind(Append(bc[h], m), "on") => HasKind(bc[h], "on")
        /\ \A s \in Servers : Hears(bc[h], gate[h].online, s) => Hears(Append(bc[h], m), gate[h].online, s)
    BY <2>1, HasKindAppend, HearsAppend
  <2> QED BY <2>2, <2>3 DEF GateLike
<1> QED BY <1>1 DEF NoOnCalm, HearsSame

\* A step that leaves the game servers and their queues alone leaves what has ended
\* as it is.
LEMMA EndedSame ==
  ASSUME TypeOK, Ended, UNCHANGED gs, \A g \in Gates : gate'[g].up = gate[g].up,
         \A g \in Gates : ~gate[g].up => bc'[g] = bc[g],
         \A g \in Gates, s \in Servers : ~gs[s].up => toGs'[g][s] = toGs[g][s]
  PROVE  Ended'
BY DEF Ended

\* How a step changes one connection, as far as its login goes.
ConnBecomes(c, tok, state, bound, asked, awake) ==
  /\ \A d \in Conns \ {c} : conn'[d] = conn[d]
  /\ conn'[c].tok = tok /\ conn'[c].state = state /\ conn'[c].bound = bound
  /\ conn'[c].asked = asked /\ conn'[c].awake = awake
ConnSame(c) ==
  ConnBecomes(c, conn[c].tok, conn[c].state, conn[c].bound, conn[c].asked, conn[c].awake)
\* The types of what a connection keeps.
LEMMA ConnParts ==
  ASSUME TypeOK, NEW c \in Conns
  PROVE  /\ conn[c] \in ConnType
         /\ conn[c].tok \in {"none", "check", "reg", "kick", "wait", "bind", "server", "done", "fail"}
         /\ conn[c].state \in {"none", "est", "wait", "active", "close"}
         /\ conn[c].bound \in BOOLEAN /\ conn[c].asked \in BOOLEAN /\ conn[c].awake \in BOOLEAN
<1>1. conn[c] \in ConnType
  BY DEF TypeOK
<1> QED BY <1>1 DEF ConnType
\* What a step of a token request leaves of its connection.
LEMMA TokenStepIs ==
  ASSUME TypeOK, NEW c \in Conns, NEW from, NEW to, TokenStep(c, from, to)
  PROVE  ConnBecomes(c, to, conn[c].state, conn[c].bound, conn[c].asked, conn[c].awake)
<1>1. conn[c] \in ConnType
  BY DEF TypeOK
<1>2. conn' = [conn EXCEPT ![c].tok = to]
  BY DEF TokenStep
<1> QED BY <1>1, <1>2 DEF ConnBecomes, TypeOK, ConnType

\* The stages of a token request, and which requests are registered, follow.
LEMMA StagesSet ==
  ASSUME TypeOK, TokenStages, Registered, NEW c \in Conns,
         NEW tok, NEW state, NEW bound \in BOOLEAN, NEW asked \in BOOLEAN, NEW awake \in BOOLEAN,
         ConnBecomes(c, tok, state, bound, asked, awake),
         state \in {"none", "est"} => tok = "none",
         bound => tok \in {"server", "done", "fail"},
         tok = "server" => bound,
         tok = "done" /\ state = "wait" => bound,
         awake => conn[c].awake,
         conn[c].tok \notin {"none", "check"} => tok \notin {"none", "check"},
         \A d \in Conns, g \in Gates :
           \/ gate'[g].reg = d => gate[g].reg = d \/ Has(gate[g].regQ, d)
           \/ tok \notin {"none", "check"} /\ d = c,
         \A d \in Conns, g \in Gates :
           Has(gate'[g].regQ, d) => \/ Has(gate[g].regQ, d)
                                    \/ tok \notin {"none", "check"} /\ d = c
  PROVE  TokenStages' /\ Registered'
<1>1. TokenStages'
  BY DEF TokenStages, ConnBecomes
<1>2. Registered'
  BY DEF Registered, ConnBecomes
<1> QED BY <1>1, <1>2
-----------------------------------------------------------------------------
(* The steps of a token request.                                           *)

\* A mishap that did not happen: it was not its moment.
LEMMA NoMishap ==
  ASSUME TypeOK, NEW e \in Events, NEW happens, Mishap(e, happens), used'[e] = 0
  PROVE  ~happens
BY DEF TypeOK, Mishap

\* Every step of a token request keeps the invariant.  The look at the online map begins a
\* login, which with nothing overlapping happens only if there is none; the others take one further.
LEMMA TokenInv ==
  ASSUME TypeOK, GateInv, Orderly', NEW c \in Conns, TokenNext(c)
  PROVE  GateInv'
<1> DEFINE g == conn[c].gate
           state == conn[c].state
           bound == conn[c].bound
           asked == conn[c].asked
           awake == conn[c].awake
<1> USE DEF GateInv
<1>p. /\ conn[c] \in ConnType /\ state \in {"none", "est", "wait", "active", "close"}
      /\ bound \in BOOLEAN /\ asked \in BOOLEAN /\ awake \in BOOLEAN
  BY ConnParts
<1>f. ASSUME NEW d \in Conns, NEW h, gate' = [gate EXCEPT ![h].force = @ \cup {d}]
      PROVE  GateLike
  <2>1. \A k \in Gates : gate[k] \in GateType
    BY DEF TypeOK
  <2> QED BY <1>f, <2>1 DEF TypeOK, GateType, GateLike
<1>e. ASSUME UNCHANGED <<gs, toGs, bc>>, GateLike PROVE Ended'
  BY <1>e, EndedSame DEF GateLike
<1>n. ASSUME NEW tok, ConnBecomes(c, tok, state, bound, asked, awake),
             tok \in {"wait", "fail"}, conn[c].tok \in {"check", "reg", "kick", "wait"},
             tok = "wait" => conn[c].tok # "check", GateLike
      PROVE  TokenStages' /\ Registered' /\ ConnsCalm
  <2>1. ~bound /\ state \notin {"none", "est"}
    BY <1>n, <1>p DEF TokenStages
  <2>2. TokenStages' /\ Registered'
    BY <1>n, <1>p, <2>1, StagesSet DEF GateLike
  <2>3. ConnsCalm
    BY <1>n, <2>1 DEF ConnsCalm, ConnBecomes, Begun, Waits
  <2> QED BY <2>2, <2>3
<1>1. CASE TokenReq(c)
  <2>1. ConnBecomes(c, "check", "wait", bound, asked, awake) /\ state = "est" /\ conn[c].tok = "none"
    BY <1>1, <1>p DEF TokenReq, TypeOK, ConnType, ConnBecomes, TokenStages
  <2>2. ~bound /\ ~awake
    BY <1>p, <2>1 DEF TokenStages, Registered
  <2>5. TokenStages'
    BY <2>1, <2>2 DEF TokenStages, ConnBecomes
  <2>6. UNCHANGED gate
    BY <1>1 DEF TokenReq
  <2>7. \A d \in Conns : d # c => conn'[d] = conn[d]
    BY <2>1 DEF ConnBecomes
  <2>8. ~(\E h \in Gates : gate[h].reg = c \/ Has(gate[h].regQ, c)) /\ ~conn'[c].awake
    BY <2>1, <2>2 DEF Registered, ConnBecomes
  <2>3. TokenStages' /\ Registered'
    BY <2>5, <2>6, <2>7, <2>8 DEF Registered
  <2>4. ConnsCalm
    BY <2>1, <2>2 DEF ConnsCalm, ConnBecomes, Begun, Waits
  <2> QED BY <1>1, <1>e, <2>3, <2>4, UnchangedCalm, CalmNext DEF TokenReq
<1>2. CASE TokenRefuse(c)
  <2>1. ConnBecomes(c, "fail", state, bound, asked, awake) /\ conn[c].tok = "check"
    BY <1>2, TokenStepIs DEF TokenRefuse, TokenStep
  <2> QED BY <1>2, <1>e, <1>n, <2>1, UnchangedCalm, CalmNext DEF TokenRefuse
<1>4. CASE RegTimeout(c)
  <2>1. ConnBecomes(c, "fail", state, bound, asked, awake) /\ conn[c].tok = "reg"
    BY <1>4, TokenStepIs DEF RegTimeout, TokenStep
  <2>2. GateLike
    BY <1>4, <1>f DEF RegTimeout
  <2> QED BY <1>4, <1>e, <1>n, <2>1, <2>2, UnchangedCalm, CalmNext DEF RegTimeout
<1>5. CASE TokenKick(c)
  <2>1. ConnBecomes(c, "wait", state, bound, asked, awake) /\ conn[c].tok = "kick" /\ g \in Gates
    BY <1>5, TokenStepIs, UpIs DEF TokenKick, TokenStep
  <2>2. CASE gate[g].suser # None
    <3>1. gate[g].suser \in Conns
      BY <2>1, <2>2 DEF TypeOK, GateType
    <3>2. GateLike /\ UNCHANGED bc
      BY <1>5, <1>f, <2>2, <3>1 DEF TokenKick
    <3> QED BY <1>5, <1>e, <1>n, <2>1, <3>2, UnchangedCalm, CalmNext DEF TokenKick
  <2>3. CASE gate[g].suser = None
    <3>1. SendToAll(g, "kick") /\ UNCHANGED gate
      BY <1>5, <2>3 DEF TokenKick
    <3>2. \A h \in Gates : ~gate[h].up => bc'[h] = bc[h]
      BY <3>1, SendToAllIs DEF Receivers, Up
    <3>3. Ended'
      BY <1>5, <3>1, <3>2, EndedSame DEF TokenKick
    <3>4. GateLike
      BY <3>1, UnchangedCalm
    <3>5. NoOnCalm /\ HearsSame
      BY <2>1, <3>1, <3>4, KickCalm
    <3> QED BY <1>5, <1>n, <2>1, <3>3, <3>4, <3>5, UnchangedCalm, CalmNext DEF TokenKick
  <2> QED BY <2>2, <2>3
<1>7. CASE TokenTimeout(c)
  <2>1. ConnBecomes(c, "fail", state, bound, asked, awake) /\ conn[c].tok = "wait"
    BY <1>7, TokenStepIs DEF TokenTimeout, TokenStep
  <2>2. GateLike
    BY <1>7, <1>f DEF TokenTimeout
  <2> QED BY <1>7, <1>e, <1>n, <2>1, <2>2, UnchangedCalm, CalmNext DEF TokenTimeout
<1>3. CASE TokenCheck(c)
  <2> DEFINE to == IF gate[g].online = None THEN "bind" ELSE "reg"
  <2>1. ConnBecomes(c, to, state, bound, asked, awake) /\ conn[c].tok = "check" /\ g \in Gates
        /\ ~UnderWay /\ gate[g].up
    <3>1. ~UnderWay
      BY <1>3, NoMishap DEF TokenCheck, Orderly, Events
    <3> QED BY <1>3, <3>1, TokenStepIs, UpIs DEF TokenCheck, TokenStep, Up
  <2>2. ~bound /\ ~awake /\ state \notin {"none", "est"}
    BY <1>p, <2>1 DEF TokenStages, Registered
  <2>3. /\ ~SomeBegun /\ ~SomeRequest /\ ~SomeLoad /\ ~SomeMove /\ ~SomeChange
        /\ \A h \in Gates : ~HasKind(bc[h], "on")
    <3>1. ~SomeBegun
      BY <2>1 DEF UnderWay, SomeBegun, Begun
    <3>2. ~SomeRequest /\ ~SomeChange
      BY <2>1 DEF UnderWay, SomeRequest, SomeChange, Has, HasKind
    <3>3. ~SomeLoad /\ ~SomeMove
      BY <2>1 DEF UnderWay, SomeLoad, SomeMove
    <3>4. \A h \in Gates : ~HasKind(bc[h], "on")
      BY <2>1 DEF UnderWay, HasKind
    <3> QED BY <3>1, <3>2, <3>3, <3>4
  <2>4. \A h \in Gates : /\ gate'[h].up = gate[h].up /\ gate'[h].online = gate[h].online
                         /\ gate'[h].reg = gate[h].reg
                         /\ \A d : Has(gate'[h].regQ, d) => \/ Has(gate[h].regQ, d)
                                                            \/ to = "reg" /\ d = c
    <3> DEFINE q == IF gate[g].online = None THEN gate[g].regQ ELSE Append(gate[g].regQ, c)
    <3>1. gate[g] \in GateType /\ gate[g].regQ \in Seq(Conns)
      BY <2>1 DEF TypeOK, GateType
    <3>2. gate' = [gate EXCEPT ![g].regQ = q]
      BY <1>3 DEF TokenCheck
    <3>5. /\ gate[g].online = None => q = gate[g].regQ
          /\ gate[g].online # None => q = Append(gate[g].regQ, c) /\ to = "reg"
      OBVIOUS
    <3> HIDE DEF q, to
    <3>3. ASSUME NEW d, Has(q, d) PROVE Has(gate[g].regQ, d) \/ (to = "reg" /\ d = c)
      <4>1. Has(Append(gate[g].regQ, c), d) => Has(gate[g].regQ, d) \/ c = d
        BY <3>1, HasAppend
      <4>2. CASE gate[g].online = None
        BY <3>3, <3>5, <4>2
      <4>3. CASE gate[g].online # None
        BY <3>3, <3>5, <4>1, <4>3
      <4> QED BY <4>2, <4>3
    <3>4. /\ \A h \in Gates \ {g} : gate'[h] = gate[h]
          /\ gate'[g].up = gate[g].up /\ gate'[g].online = gate[g].online
          /\ gate'[g].reg = gate[g].reg /\ gate'[g].regQ = q
      BY <2>1, <3>1, <3>2 DEF TypeOK, GateType
    <3> QED BY <3>3, <3>4
  <2>5. to \in {"bind", "reg"}
    OBVIOUS
  <2>6. TokenStages' /\ Registered'
    <3> HIDE DEF to
    <3>1. \A d \in Conns, h \in Gates : gate'[h].reg = d => gate[h].reg = d
      BY <2>4
    <3>2. \A d \in Conns, h \in Gates : Has(gate'[h].regQ, d) => Has(gate[h].regQ, d) \/ d = c
      BY <2>4
    <3> QED BY <1>p, <2>1, <2>2, <2>5, <3>1, <3>2, StagesSet
  <2>7. Ended'
    BY <1>3, <2>4, EndedSame DEF TokenCheck
  <2>8. gate[g].online = None => \A s \in Servers : ~Served(s)
    <3> SUFFICES ASSUME gate[g].online = None, NEW s \in Servers, Served(s) PROVE FALSE
      OBVIOUS
    <3>1. Hears(bc[g], gate[g].online, s)
      BY <2>1 DEF Admission, Told
    <3> QED BY <2>1, <2>3, <3>1, NamesAssumption DEF Hears, HasKind
  <2>9. \A d \in Conns : Begun(d)' <=> d = c
    BY <2>1, <2>2, <2>3, <2>5 DEF ConnBecomes, Begun, SomeBegun
  <2>10. UNCHANGED <<gs, toGs, toGate, bc>>
    BY <1>3 DEF TokenCheck
  <2>11. Admission'
    <3>1. OneServed'
      BY <2>10 DEF Admission, OneServed, Served
    <3>2. OneLogin'
      <4>1. OneBegun'
        BY <2>9 DEF OneBegun
      <4>2. OneRequest' /\ OneLoad' /\ OneChange'
        BY <2>10 DEF Admission, OneLogin, OneRequest, OneLoad, OneChange
      <4>3. ~SomeRequest' /\ ~SomeLoad' /\ ~SomeMove' /\ ~SomeChange'
        BY <2>3, <2>10 DEF SomeRequest, SomeLoad, SomeMove, SomeChange
      <4> QED BY <4>1, <4>2, <4>3 DEF OneLogin, OneForm
    <3>3. NoNews'
      BY <2>3, <2>10 DEF NoNews
    <3>4. OldGone'
      <4>1. ~SomeRequest' /\ ~SomeLoad' /\ ~SomeChange'
        BY <2>3, <2>10 DEF SomeRequest, SomeLoad, SomeChange
      <4>2. \A s \in Servers : Served(s)' <=> Served(s)
        BY <2>10 DEF Served
      <4>3. Waits(c)' \/ gate[g].online = None
        BY <2>1, <2>2 DEF ConnBecomes, Waits
      <4> QED BY <2>8, <2>9, <4>1, <4>2, <4>3 DEF OldGone
    <3>5. Told'
      BY <2>4, <2>10 DEF Admission, Told, Served
    <3> QED BY <3>1, <3>2, <3>3, <3>4, <3>5 DEF Admission
  <2> QED BY <2>6, <2>7, <2>11
<1>6. CASE TokenAwake(c)
  <2>1. ConnBecomes(c, "bind", state, bound, asked, FALSE) /\ conn[c].tok = "wait" /\ awake
    BY <1>6, <1>p DEF TokenAwake, TypeOK, ConnType, ConnBecomes
  <2>2. ~bound /\ state \notin {"none", "est"}
    BY <1>p, <2>1 DEF TokenStages
  <2>3. TokenStages' /\ Registered'
    <3>1. \A d \in Conns, h \in Gates : /\ gate'[h].reg = d => gate[h].reg = d
                                        /\ Has(gate'[h].regQ, d) => Has(gate[h].regQ, d)
      BY <1>6 DEF TokenAwake
    <3>2. TokenStages'
      BY <1>p, <2>1, <2>2 DEF TokenStages, ConnBecomes
    <3>3. Registered'
      BY <1>p, <2>1, <2>2, <3>1 DEF Registered, ConnBecomes
    <3> QED BY <3>2, <3>3
  <2>4. ConnsCalm
    BY <2>1, <2>2 DEF ConnsCalm, ConnBecomes, Begun, Waits
  <2> QED BY <1>6, <1>e, <2>3, <2>4, UnchangedCalm, CalmNext DEF TokenAwake
<1>8. CASE TokenBind(c)
  <2>1. ConnBecomes(c, "server", state, TRUE, asked, awake) /\ conn[c].tok = "bind" /\ g \in Gates
    BY <1>8, <1>p, UpIs DEF TokenBind, TypeOK, ConnType, ConnBecomes
  <2>2. ~bound /\ state \notin {"none", "est"}
    BY <1>p, <2>1 DEF TokenStages
  <2>3. GateLike
    <3> DEFINE q == Append(gate[g].create, c)
    <3>1. gate[g] \in GateType
      BY <2>1 DEF TypeOK
    <3>2. gate' = [gate EXCEPT ![g] = [gate[g] EXCEPT !.sconv = @ \cup {c}, !.suser = c, !.create = q]]
      BY <1>8 DEF TokenBind
    <3> HIDE DEF q
    <3> QED BY <2>1, <3>1, <3>2 DEF TypeOK, GateType, GateLike
  <2>4. TokenStages' /\ Registered'
    <3>1. \A d \in Conns, h \in Gates : /\ gate'[h].reg = d => gate[h].reg = d
                                        /\ Has(gate'[h].regQ, d) => Has(gate[h].regQ, d)
      BY <2>3 DEF GateLike
    <3>2. TokenStages'
      BY <1>p, <2>1, <2>2 DEF TokenStages, ConnBecomes
    <3>3. Registered'
      BY <1>p, <2>1, <2>2, <3>1 DEF Registered, ConnBecomes
    <3> QED BY <3>2, <3>3
  <2>5. ConnsCalm
    BY <2>1, <2>2 DEF ConnsCalm, ConnBecomes, Begun, Waits
  <2> QED BY <1>8, <1>e, <2>3, <2>4, <2>5, UnchangedCalm, CalmNext DEF TokenBind
<1>9. CASE TokenServer(c)
  <2>1. PICK s \in OnlineAt, to \in {"done", "fail"} :
          /\ conn' = [conn EXCEPT ![c].tok = to, ![c].gs = s]
          /\ to = "done" => gate' = gate
          /\ to = "fail" => gate' = [gate EXCEPT ![g].force = @ \cup {c}]
    BY <1>9 DEF TokenServer, OnlineAt
  <2>2. ConnBecomes(c, to, state, bound, asked, awake)
    BY <1>p, <2>1 DEF TypeOK, ConnType, ConnBecomes
  <2>3. conn[c].tok = "server" /\ bound /\ state \notin {"none", "est"}
    BY <1>9 DEF TokenServer, TokenStages
  <2>4. GateLike
    BY <1>f, <2>1 DEF GateLike
  <2>5. TokenStages' /\ Registered'
    <3>1. \A d \in Conns, h \in Gates : /\ gate'[h].reg = d => gate[h].reg = d
                                        /\ Has(gate'[h].regQ, d) => Has(gate[h].regQ, d)
      BY <2>4 DEF GateLike
    <3>2. TokenStages'
      BY <1>p, <2>2, <2>3 DEF TokenStages, ConnBecomes
    <3>3. Registered'
      BY <1>p, <2>2, <2>3, <3>1 DEF Registered, ConnBecomes
    <3> QED BY <3>2, <3>3
  <2>6. ConnsCalm
    BY <2>2, <2>3 DEF ConnsCalm, ConnBecomes, Begun, Waits
  <2> QED BY <1>9, <1>e, <2>4, <2>5, <2>6, UnchangedCalm, CalmNext DEF TokenServer
<1> QED BY <1>1, <1>2, <1>3, <1>4, <1>5, <1>6, <1>7, <1>8, <1>9 DEF TokenNext

-----------------------------------------------------------------------------
(* The other steps of a connection.                                        *)

\* A step that changes one connection without a login in it beginning, and sends nothing
\* but offline notices, keeps the invariant.
LEMMA QuietConn ==
  ASSUME TypeOK, GateInv, NEW c \in Conns, NEW state,
         ConnBecomes(c, conn[c].tok, state, conn[c].bound, conn[c].asked, conn[c].awake),
         \/ state \in {conn[c].state, "active", "close"}
         \/ state = "est" /\ conn[c].state = "none",
         GateLike, UNCHANGED <<gs, bc>>, ChangesCalm, RequestsCalm,
         \A g \in Gates, s \in Servers : ~gs[s].up => toGs'[g][s] = toGs[g][s]
  PROVE  GateInv'
<1> USE DEF GateInv
<1>p. /\ conn[c].bound \in BOOLEAN /\ conn[c].asked \in BOOLEAN /\ conn[c].awake \in BOOLEAN
      /\ conn[c].state = "none" => conn[c].tok = "none"
  BY ConnParts DEF TokenStages
<1>1. TokenStages'
  BY <1>p DEF TokenStages, ConnBecomes
<1>2. Registered'
  BY <1>p DEF Registered, ConnBecomes, GateLike
<1>3. Ended'
  BY EndedSame DEF GateLike
<1>4. ConnsCalm
  BY <1>p DEF TokenStages, ConnsCalm, ConnBecomes, Begun, Waits
<1> QED BY <1>1, <1>2, <1>3, <1>4, UnchangedCalm, CalmNext

\* So does closing one.
LEMMA CloseBeginInv ==
  ASSUME TypeOK, GateInv, NEW c \in Conns, NEW who \in Closers, CloseBegin(c, who),
         UNCHANGED <<gs, toGate, bc>>
  PROVE  GateInv'
<1> DEFINE g == conn[c].gate
<1>c. conn[c] \in ConnType /\ conn \in [Conns -> ConnType] /\ gate \in [Gates -> GateType]
  BY DEF TypeOK
<1>1. ConnBecomes(c, conn[c].tok, "close", conn[c].bound, conn[c].asked, conn[c].awake)
  <2> DEFINE life == IF conn[c].life = "open" THEN "shut" ELSE conn[c].life
             recv == conn[c].recv /\ who # "recv"
             send == conn[c].send /\ who # "send"
             r == [conn[c] EXCEPT !.state = "close", !.closing = @ \cup {who}, !.life = life,
                                  !.recv = recv, !.send = send]
  <2>1. conn' = [conn EXCEPT ![c] = r]
    BY <1>c, Zenon DEF CloseBegin
  <2> HIDE DEF life, recv, send
  <2> QED BY <1>c, <2>1 DEF ConnType, ConnBecomes
<1>2. GateLike
  <2> DEFINE suser == IF conn[c].bound THEN None ELSE gate[g].suser
             force == IF who = "event" THEN gate[g].force \ {c} ELSE gate[g].force
             r == [gate[g] EXCEPT !.sconv = @ \ {c}, !.suser = suser, !.force = force]
  <2>1. gate' = [gate EXCEPT ![g] = r]
    BY Zenon DEF CloseBegin
  <2> HIDE DEF suser, force
  <2> QED BY <1>c, <2>1 DEF GateType, GateLike
<1>3. RequestsCalm /\ ChangesCalm
  BY OfflineCalm, UnchangedCalm DEF CloseBegin
<1>4. \A h \in Gates, s \in Servers : ~gs[s].up => toGs'[h][s] = toGs[h][s]
  <2>1. \A s \in Servers : Up(s) = gs[s].up
    BY NamesAssumption DEF Up
  <2>2. SendToGs(g, conn[c].gs, "offline")
    BY DEF CloseBegin
  <2> QED BY <2>1, <2>2, SendToGsIs
<1> QED BY <1>1, <1>2, <1>3, <1>4, QuietConn

\* The steps of a connection that are no token request and no login keep the invariant.
LEMMA ClosingInv ==
  ASSUME TypeOK, GateInv, NEW c \in Conns,
         \/ \E g \in Gates : Accept(c, g) \/ ForceClose(g, c)
         \/ ForceExitReq(c) \/ CloseNext(c)
  PROVE  GateInv'
<1>c. conn[c] \in ConnType /\ conn \in [Conns -> ConnType] /\ gate \in [Gates -> GateType]
      /\ toGs \in [Gates -> [Servers -> Seq({"login", "offline"})]]
  BY DEF TypeOK
<1>s. UNCHANGED conn => ConnSame(c)
  BY DEF ConnSame, ConnBecomes
<1>q. ASSUME ConnSame(c), GateLike, UNCHANGED <<gs, toGs, toGate, bc>> PROVE GateInv'
  <2>1. RequestsCalm /\ ChangesCalm
    BY <1>q, UnchangedCalm
  <2> QED BY <1>q, <2>1, QuietConn DEF ConnSame
<1>1. ASSUME NEW g \in Gates, Accept(c, g) PROVE GateInv'
  <2>1. ConnBecomes(c, conn[c].tok, "est", conn[c].bound, conn[c].asked, conn[c].awake)
        /\ conn[c].state = "none"
    BY <1>c, <1>1 DEF Accept, ConnType, ConnBecomes
  <2>2. GateLike /\ RequestsCalm /\ ChangesCalm
    BY <1>1, UnchangedCalm DEF Accept
  <2> QED BY <1>1, <2>1, <2>2, QuietConn DEF Accept
<1>2. ASSUME NEW g \in Gates, ForceClose(g, c) PROVE GateInv'
  <2>1. CASE CloseBegin(c, "event")
    BY <1>2, <2>1, CloseBeginInv DEF ForceClose, Closers
  <2>2. CASE gate' = [gate EXCEPT ![g].force = @ \ {c}] /\ UNCHANGED <<conn, toGs, used>>
    <3>1. GateLike
      BY <1>c, <2>2 DEF GateType, GateLike
    <3> QED BY <1>2, <1>q, <1>s, <2>2, <3>1 DEF ForceClose
  <2> QED BY <1>2, <2>1, <2>2 DEF ForceClose
<1>3. CASE ForceExitReq(c)
  <2>1. gate' = [gate EXCEPT ![conn[c].gate].force = @ \cup {c}]
    BY <1>3 DEF ForceExitReq
  <2>2. GateLike
    BY <1>c, <2>1 DEF GateType, GateLike
  <2> QED BY <1>3, <1>q, <1>s, <2>2 DEF ForceExitReq
<1>4. CASE RecvClose(c)
  BY <1>4, CloseBeginInv DEF RecvClose, Closers
<1>5. CASE SendClose(c)
  BY <1>5, CloseBeginInv DEF SendClose, Closers
<1>6. ASSUME NEW who \in Closers, CloseEnd(c, who) PROVE GateInv'
  <2> DEFINE g == conn[c].gate
             q == Append(gate[g].destroy, c)
  <2>1. ConnSame(c)
    BY <1>c, <1>6 DEF CloseEnd, ConnType, ConnSame, ConnBecomes
  <2>2. gate' = [gate EXCEPT ![g] = [gate[g] EXCEPT !.destroy = q]]
    BY <1>6 DEF CloseEnd
  <2> HIDE DEF q
  <2>3. GateLike
    BY <1>c, <2>2 DEF GateType, GateLike
  <2> QED BY <1>6, <1>q, <2>1, <2>3 DEF CloseEnd
<1> QED BY <1>1, <1>2, <1>3, <1>4, <1>5, <1>6 DEF CloseNext

\* A login request sent, when no other is on its way, is the only one.
LEMMA RequestSent ==
  ASSUME TypeOK, ~SomeRequest, NEW g, NEW s, SendToGs(g, s, "login")
  PROVE  /\ OneRequest'
         /\ \A h \in Gates, t \in Servers : ~gs[t].up => toGs'[h][t] = toGs[h][t]
<1>1. \A h \in Gates, t \in Servers :
        toGs[h][t] \in Seq({"login", "offline"}) /\ ~Has(toGs[h][t], "login")
  BY DEF TypeOK, SomeRequest
<1>2. \A h \in Gates, t \in Servers :
        toGs'[h][t] = IF h = g /\ t = s /\ Up(s) THEN Append(toGs[h][t], "login") ELSE toGs[h][t]
  BY SendToGsIs
<1>3. ASSUME NEW h \in Gates, NEW t \in Servers
      PROVE  Once(toGs'[h][t], "login") /\ (Has(toGs'[h][t], "login") => h = g /\ t = s)
  <2>1. Once(toGs[h][t], "login")
    BY <1>1 DEF Has, Once
  <2> QED BY <1>1, <1>2, <2>1, HasAppend
<1>4. \A t \in Servers : Up(t) = gs[t].up
  BY NamesAssumption DEF Up
<1> QED BY <1>2, <1>3, <1>4 DEF OneRequest

\* With nobody served there is nothing to tell the gates.
LEMMA NobodyServed ==
  ASSUME \A s \in Servers : ~Served(s)' PROVE OldGone' /\ Told'
BY DEF OldGone, Told

\* The login request is passed on: the old session is gone by now.
LEMMA LoginReqInv ==
  ASSUME TypeOK, GateInv, NEW c \in Conns, LoginReq(c) PROVE GateInv'
<1> USE DEF GateInv
<1>1. ConnBecomes(c, conn[c].tok, conn[c].state, conn[c].bound, TRUE, conn[c].awake)
  BY ConnParts DEF LoginReq, TypeOK, ConnType, ConnBecomes
<1>2. Begun(c) /\ ~Waits(c)
  BY DEF LoginReq, TokenStages, Begun, Waits
<1>3. \A d \in Conns : ~Begun(d)'
  <2>1. ASSUME NEW d \in Conns, Begun(d)' PROVE FALSE
    <3>1. CASE d = c
      BY <1>1, <2>1, <3>1 DEF LoginReq, ConnBecomes, Begun
    <3>2. CASE d # c
      BY <1>1, <1>2, <2>1, <3>2 DEF ConnBecomes, Begun, Admission, OneLogin, OneBegun
    <3> QED BY <3>1, <3>2
  <2> QED BY <2>1
<1>4. SomeBegun /\ ~SomeRequest /\ ~SomeLoad /\ ~SomeMove /\ ~SomeChange
      /\ (\A g \in Gates : ~HasKind(bc[g], "on")) /\ (\A s \in Servers : ~Served(s))
  BY <1>2 DEF SomeBegun, Admission, OneLogin, OneForm, NoNews, OldGone
<1>5. UNCHANGED <<gate, gs, toGate, bc>> /\ SendToGs(conn[c].gate, conn[c].gs, "login")
  BY DEF LoginReq
<1>6. OneRequest' /\ \A h \in Gates, t \in Servers : ~gs[t].up => toGs'[h][t] = toGs[h][t]
  BY <1>4, <1>5, RequestSent
<1>7. TokenStages'
  BY <1>1, ConnParts DEF TokenStages, ConnBecomes
<1>8. Registered'
  BY <1>1, <1>5, ConnParts DEF Registered, ConnBecomes
<1>9. Ended'
  BY <1>5, <1>6, EndedSame
<1>10. OneServed' /\ OldGone' /\ Told'
  <2>1. \A s \in Servers : ~Served(s)'
    BY <1>4, <1>5 DEF Served
  <2> QED BY <1>5, <2>1, NobodyServed DEF Admission, OneServed, Served
<1>11. OneLogin'
  <2>1. OneBegun' /\ ~SomeBegun'
    BY <1>3 DEF OneBegun, SomeBegun
  <2>2. OneLoad' /\ OneChange' /\ ~SomeLoad' /\ ~SomeMove' /\ ~SomeChange'
    BY <1>4, <1>5 DEF Admission, OneLogin, OneLoad, OneChange, SomeLoad, SomeMove, SomeChange
  <2> QED BY <1>6, <2>1, <2>2 DEF OneLogin, OneForm
<1>12. NoNews'
  BY <1>4, <1>5 DEF NoNews
<1> QED BY <1>7, <1>8, <1>9, <1>10, <1>11, <1>12 DEF Admission

-----------------------------------------------------------------------------
(* The steps of a gate's session loop.                                     *)

\* With no connection's login changed, its stages are as before.
LEMMA StagesSame ==
  ASSUME TokenStages, Registered, UNCHANGED conn,
         \A g \in Gates : /\ gate'[g].reg \in {gate[g].reg, None}
                          /\ \A c \in Conns : Has(gate'[g].regQ, c) => Has(gate[g].regQ, c)
  PROVE  TokenStages' /\ Registered'
<1>1. TokenStages'
  BY DEF TokenStages
<1>2. \A c \in Conns : c # None
  BY NamesAssumption
<1>3. Registered'
  BY <1>2 DEF Registered
<1> QED BY <1>1, <1>3

\* The end of a gate's process keeps the invariant: its connections are closed, and
\* what was on its way to it is lost.
LEMMA GateDownInv ==
  ASSUME TypeOK, GateInv, NEW g \in Gates, GateDown(g), UNCHANGED <<gs, toGs>>
  PROVE  GateInv'
<1> USE DEF GateInv
<1>d. /\ \A h \in Gates : h # g => gate'[h] = gate[h]
      /\ ~gate'[g].up /\ gate'[g].regQ = <<>> /\ gate'[g].reg = None
      /\ \A s \in Servers, h \in Gates : toGate'[s][h] = IF h = g THEN <<>> ELSE toGate[s][h]
      /\ \A r \in Receivers : bc'[r] = IF r = g THEN <<>> ELSE bc[r]
  BY GateDownIs
<1>b. \A h \in Gates : bc'[h] = IF h = g THEN <<>> ELSE bc[h]
  BY <1>d DEF Receivers
<1>c. \A c \in Conns :
        \/ conn'[c] = conn[c]
        \/ /\ conn'[c].state = "close"
           /\ conn'[c].tok = IF InToken(c) THEN "done" ELSE conn[c].tok
           /\ conn'[c].bound = conn[c].bound /\ conn'[c].awake = conn[c].awake
  BY GateDownIs
<1>1. TokenStages'
  <2> SUFFICES ASSUME NEW c \in Conns
               PROVE  (/\ conn[c].state \in {"none", "est"} => conn[c].tok = "none"
                       /\ conn[c].bound => conn[c].tok \in {"server", "done", "fail"}
                       /\ conn[c].tok = "server" => conn[c].bound
                       /\ conn[c].tok = "done" /\ conn[c].state = "wait" => conn[c].bound)'
    BY DEF TokenStages
  <2>1. CASE conn'[c] = conn[c]
    BY <2>1 DEF TokenStages
  <2>2. CASE conn'[c] # conn[c]
    BY <1>c, <2>2 DEF TokenStages, InToken
  <2> QED BY <2>1, <2>2
<1>2. Registered'
  <2> SUFFICES ASSUME NEW c \in Conns,
                      (conn[c].awake \/ (\E h \in Gates : gate[h].reg = c \/ Has(gate[h].regQ, c)))'
               PROVE  conn'[c].tok \notin {"none", "check"}
    BY DEF Registered
  <2>1. c # None
    BY NamesAssumption
  <2>2. conn[c].awake \/ (\E h \in Gates : gate[h].reg = c \/ Has(gate[h].regQ, c))
    BY <1>c, <1>d, <2>1, NothingHas
  <2> QED BY <1>c, <2>2 DEF Registered
<1>3. Ended'
  BY <1>b, <1>d DEF Ended
<1>4. ConnsCalm
  BY <1>c DEF ConnsCalm, Begun, Waits, InToken
<1>5. ChangesCalm
  BY <1>d, NothingHas DEF ChangesCalm
<1>6. NoOnCalm
  BY <1>b, NothingHas DEF NoOnCalm
<1>7. HearsCalm
  <2>1. HearsSame
    BY <1>b, <1>d DEF HearsSame
  <2> QED BY <2>1, UnchangedCalm
<1> QED BY <1>1, <1>2, <1>3, <1>4, <1>5, <1>6, <1>7, UnchangedCalm, CalmNext

\* A step that leaves the connections and the online maps alone keeps the invariant.
LEMMA QuietGate ==
  ASSUME TypeOK, GateInv, GateLike, ChangesCalm, UNCHANGED <<conn, gs, toGs, bc>>
  PROVE  GateInv'
<1>1. TokenStages' /\ Registered'
  BY StagesSame DEF GateInv, GateLike
<1>2. Ended'
  BY EndedSame DEF GateInv, GateLike
<1> QED BY <1>1, <1>2, UnchangedCalm, CalmNext DEF GateInv

\* The message taken was one of those on their way.
LEMMA TakenCalm ==
  ASSUME TypeOK, NEW s \in Servers, NEW g \in Gates, toGate[s][g] # <<>>, toGate' = Taken(s, g)
  PROVE  ChangesCalm
<1>1. \A t \in Servers, h \in Gates :
        /\ toGate[t][h] \in Seq(GateMsgType)
        /\ toGate'[t][h] = IF t = s /\ h = g THEN Tail(toGate[t][h]) ELSE toGate[t][h]
  BY TakenIs DEF TypeOK
<1> QED BY <1>1, HasKindTail DEF ChangesCalm

\* New and destroyed sessions and registrations.
LEMMA HandleInv ==
  ASSUME TypeOK, GateInv, NEW g \in Gates, CreateHandle(g) \/ DestroyHandle(g) \/ RegHandle(g)
  PROVE  GateInv'
<1>g. gate[g] \in GateType /\ conn \in [Conns -> ConnType] /\ gate \in [Gates -> GateType]
  BY DEF TypeOK
<1>q. /\ gate[g].create \in Seq(Conns) /\ gate[g].destroy \in Seq(Conns)
      /\ gate[g].regQ \in Seq(Conns)
  BY <1>g DEF GateType
<1>1. CASE CreateHandle(g)
  <2> DEFINE c == Head(gate[g].create)
             q == Tail(gate[g].create)
  <2>1. gate' = [gate EXCEPT ![g] = [gate[g] EXCEPT !.create = q, !.conv = @ \cup {c}, !.user = c]]
    BY <1>1 DEF CreateHandle
  <2> HIDE DEF c, q
  <2>2. GateLike
    BY <1>g, <2>1 DEF GateType, GateLike
  <2> QED BY <1>1, <2>2, QuietGate, UnchangedCalm DEF CreateHandle
<1>2. CASE DestroyHandle(g)
  <2> DEFINE c == Head(gate[g].destroy)
             q == Tail(gate[g].destroy)
             user == IF conn[c].bound THEN None ELSE gate[g].user
  <2>1. c \in Conns
    BY <1>2, <1>q DEF DestroyHandle
  <2>2. CASE conn[c].life # "gone"
    <3>1. /\ conn' = [conn EXCEPT ![c].life = "gone"]
          /\ gate' = [gate EXCEPT ![g] = [gate[g] EXCEPT !.destroy = q, !.conv = @ \ {c},
                                                         !.user = user]]
          /\ UNCHANGED <<toGate, bc>>
      BY <1>2, <2>2, Zenon DEF DestroyHandle
    <3> HIDE DEF c, q, user
    <3>2. GateLike
      BY <1>g, <3>1 DEF GateType, GateLike
    <3>3. ConnSame(c)
      BY <1>g, <2>1, <3>1 DEF ConnType, ConnSame, ConnBecomes
    <3>4. UNCHANGED <<gs, toGs>>
      BY <1>2 DEF DestroyHandle
    <3> QED BY <2>1, <3>1, <3>2, <3>3, <3>4, QuietConn, UnchangedCalm DEF ConnSame
  <2>3. CASE conn[c].life = "gone"
    BY <1>2, <2>3, GateDownInv DEF DestroyHandle
  <2> QED BY <2>2, <2>3
<1>3. CASE RegHandle(g)
  <2> DEFINE c == Head(gate[g].regQ)
             q == Tail(gate[g].regQ)
             to == IF conn[c].tok = "reg" THEN "kick" ELSE conn[c].tok
  <2>1. /\ c \in Conns /\ Has(gate[g].regQ, c)
        /\ \A d : Has(q, d) => Has(gate[g].regQ, d)
    BY <1>3, <1>q, HasTail DEF RegHandle
  <2>2. /\ gate' = [gate EXCEPT ![g] = [gate[g] EXCEPT !.regQ = q, !.reg = c]]
        /\ conn' = [conn EXCEPT ![c].tok = to]
    BY <1>3, Zenon DEF RegHandle
  <2>3. (conn[c].tok = "reg" /\ to = "kick") \/ to = conn[c].tok
    OBVIOUS
  <2>4. UNCHANGED <<gs, toGs, toGate, bc>>
    BY <1>3 DEF RegHandle
  <2> HIDE DEF c, q, to
  <2>5. ConnBecomes(c, to, conn[c].state, conn[c].bound, conn[c].asked, conn[c].awake)
    BY <1>g, <2>1, <2>2 DEF ConnType, ConnBecomes
  <2>6. /\ \A h \in Gates : h # g => gate'[h] = gate[h]
        /\ gate'[g].up = gate[g].up /\ gate'[g].online = gate[g].online
        /\ gate'[g].reg = c /\ gate'[g].regQ = q
    BY <1>g, <2>2 DEF GateType
  <2>7. conn[c].tok \notin {"none", "check"}
    BY <2>1 DEF GateInv, Registered
  <2>8. conn[c].state \notin {"none", "est"}
    BY <2>1, <2>7 DEF GateInv, TokenStages
  <2>9. TokenStages'
    BY <2>1, <2>3, <2>5, <2>8, ConnParts DEF GateInv, TokenStages, ConnBecomes
  <2>10. Registered'
    <3>1. conn'[c].tok \notin {"none", "check"}
      BY <2>3, <2>5, <2>7 DEF ConnBecomes
    <3>2. ASSUME NEW d \in Conns, d # c,
                 (conn[d].awake \/ (\E h \in Gates : gate[h].reg = d \/ Has(gate[h].regQ, d)))'
          PROVE  conn'[d].tok \notin {"none", "check"}
      <4>1. conn'[d] = conn[d]
        BY <2>5, <3>2 DEF ConnBecomes
      <4>2. conn[d].awake \/ (\E h \in Gates : gate[h].reg = d \/ Has(gate[h].regQ, d))
        BY <2>1, <2>6, <3>2, <4>1
      <4> QED BY <4>1, <4>2 DEF GateInv, Registered
    <3> QED BY <3>1, <3>2 DEF Registered
  <2>11. Ended'
    BY <2>4, <2>6, EndedSame DEF GateInv
  <2>12. ConnsCalm
    BY <2>3, <2>5 DEF ConnsCalm, ConnBecomes, Begun, Waits
  <2>13. HearsSame
    BY <2>4, <2>6 DEF HearsSame
  <2> QED BY <2>4, <2>9, <2>10, <2>11, <2>12, <2>13, UnchangedCalm, CalmNext DEF GateInv
<1> QED BY <1>1, <1>2, <1>3

\* The order to close the player's connection changes nothing else.
LEMMA KickedLike == ASSUME TypeOK, NEW g \in Gates, gate' = Kicked(g) PROVE GateLike
<1> DEFINE force == IF gate[g].user = None THEN gate[g].force ELSE gate[g].force \cup {gate[g].user}
<1>1. gate' = [gate EXCEPT ![g].force = force]
  BY Zenon DEF Kicked
<1>2. \A h \in Gates : gate[h] \in GateType
  BY DEF TypeOK
<1> HIDE DEF force
<1> QED BY <1>1, <1>2 DEF TypeOK, GateType, GateLike

\* The answer of a game server, and its order to close the player's connection.
LEMMA LoginRspInv ==
  ASSUME TypeOK, GateInv, NEW s \in Servers, NEW g \in Gates, LoginRsp(s, g) \/ KickNotify(s, g)
  PROVE  GateInv'
<1>1. CASE LoginRsp(s, g)
  <2> DEFINE c == gate[g].user
  <2>g. gate[g] \in GateType /\ UNCHANGED <<gs, toGs>> /\ toGate[s][g] # <<>>
    BY <1>1 DEF TypeOK, LoginRsp, GateMsg
  <2>1. CASE toGate' = Taken(s, g) /\ UNCHANGED <<conn, gate, bc>>
    BY <2>1, <2>g, TakenCalm, UnchangedCalm, QuietGate
  <2>2. CASE c \in gate[g].conv /\ toGate' = Taken(s, g) /\ UNCHANGED <<gate, bc>>
             /\ conn' = [conn EXCEPT ![c].state = "active"]
    <3>1. c \in Conns
      BY <2>2, <2>g DEF GateType
    <3>2. ConnBecomes(c, conn[c].tok, "active", conn[c].bound, conn[c].asked, conn[c].awake)
      BY <2>2, <3>1 DEF TypeOK, ConnType, ConnBecomes
    <3> QED BY <2>2, <2>g, <3>1, <3>2, TakenCalm, UnchangedCalm, QuietConn
  <2>3. CASE GateDown(g)
    BY <2>3, <2>g, GateDownInv
  <2> QED BY <1>1, <2>1, <2>2, <2>3 DEF LoginRsp
<1>2. CASE KickNotify(s, g)
  BY <1>2, KickedLike, TakenCalm, QuietGate DEF KickNotify, GateMsg
<1> QED BY <1>1, <1>2

\* The client is moved: the gate logs in for it on the other server, once the player has
\* been saved on the first.
LEMMA GsChangeInv ==
  ASSUME TypeOK, GateInv, NEW s \in Servers, NEW g \in Gates, GsChange(s, g) PROVE GateInv'
<1> USE DEF GateInv
<1> DEFINE c == gate[g].user
           to == Head(toGate[s][g]).to
<1>q. /\ \A t \in Servers, h \in Gates :
           /\ toGate[t][h] \in Seq(GateMsgType)
           /\ toGate'[t][h] = IF t = s /\ h = g THEN Tail(toGate[t][h]) ELSE toGate[t][h]
      /\ toGate[s][g] # <<>> /\ Head(toGate[s][g]).kind = "change"
  BY TakenIs DEF GsChange, GateMsg, TypeOK
<1>u. UNCHANGED <<gate, gs, bc>>
  BY DEF GsChange
<1>1. HasKind(toGate[s][g], "change")
  BY <1>q, HasKindTail
<1>2. /\ SomeChange /\ ~SomeBegun /\ ~SomeRequest /\ ~SomeLoad /\ ~SomeMove
      /\ (\A h \in Gates : ~HasKind(bc[h], "on")) /\ (\A t \in Servers : ~Served(t))
  BY <1>1 DEF SomeChange, Admission, OneLogin, OneForm, NoNews, OldGone
<1>3. /\ \A t \in Servers, h \in Gates : ~HasKind(toGate'[t][h], "change")
      /\ OneChange' /\ ~SomeChange'
  <2>1. ASSUME NEW t \in Servers, NEW h \in Gates PROVE ~HasKind(toGate'[t][h], "change")
    <3>1. CASE t = s /\ h = g
      <4>1. OnceKind(toGate[s][g], "change")
        BY DEF Admission, OneLogin, OneChange
      <4> QED BY <1>q, <3>1, <4>1, HasKindTail
    <3>2. CASE ~(t = s /\ h = g)
      BY <1>1, <1>q, <3>2 DEF Admission, OneLogin, OneChange
    <3> QED BY <3>1, <3>2
  <2> QED BY <2>1 DEF OneChange, SomeChange, HasKind, OnceKind
<1>4. /\ OneRequest'
      /\ \A h \in Gates, t \in Servers : ~gs[t].up => toGs'[h][t] = toGs[h][t]
  <2>1. CASE SendToGs(g, to, "login")
    BY <1>2, <2>1, RequestSent
  <2>2. CASE UNCHANGED toGs
    BY <2>2 DEF Admission, OneLogin, OneRequest
  <2> QED BY <2>1, <2>2 DEF GsChange
<1>5. \A d \in Conns : /\ conn'[d].tok = conn[d].tok /\ conn'[d].state = conn[d].state
                       /\ conn'[d].bound = conn[d].bound /\ conn'[d].asked = conn[d].asked
                       /\ conn'[d].awake = conn[d].awake
  <2>1. CASE c \in gate[g].conv
    <3>1. conn' = [conn EXCEPT ![c].gs = to]
      BY <2>1 DEF GsChange
    <3> HIDE DEF c, to
    <3> QED BY <3>1 DEF TypeOK, ConnType
  <2>2. CASE UNCHANGED conn
    BY <2>2
  <2> QED BY <2>1, <2>2 DEF GsChange
<1>6. TokenStages'
  BY <1>5 DEF TokenStages
<1>7. Registered'
  BY <1>5, <1>u DEF Registered
<1>8. Ended'
  BY <1>4, <1>u, EndedSame
<1>9. OneServed' /\ OldGone' /\ Told'
  <2>1. \A t \in Servers : ~Served(t)'
    BY <1>2, <1>u DEF Served
  <2> QED BY <1>u, <2>1, NobodyServed DEF Admission, OneServed, Served
<1>10. OneLogin'
  <2>1. OneBegun' /\ ~SomeBegun'
    BY <1>2, <1>5 DEF OneBegun, SomeBegun, Begun
  <2>2. OneLoad' /\ ~SomeLoad' /\ ~SomeMove'
    BY <1>2, <1>u DEF Admission, OneLogin, OneLoad, SomeLoad, SomeMove
  <2> QED BY <1>3, <1>4, <2>1, <2>2 DEF OneLogin, OneForm
<1>11. NoNews'
  BY <1>2, <1>u DEF NoNews
<1> QED BY <1>6, <1>7, <1>8, <1>9, <1>10, <1>11 DEF Admission

\* A broadcast taken is one fewer to come, and the map will say what it would have said.
LEMMA TakenBroadcast ==
  ASSUME TypeOK, NEW g \in Gates, bc[g] # <<>>, bc' = [bc EXCEPT ![g] = Tail(@)],
         \A h \in Gates : gate'[h].up = gate[h].up /\ (h # g => gate'[h].online = gate[h].online),
         gate'[g].online = IF Head(bc[g]).kind = "kick" THEN gate[g].online
                           ELSE IF Head(bc[g]).kind = "on" THEN Head(bc[g]).from ELSE None
  PROVE  /\ NoOnCalm /\ HearsCalm
         /\ \A r \in Receivers : r # g => bc'[r] = bc[r]
         /\ \A h \in Gates, s \in Servers :
              Hears(bc'[h], gate'[h].online, s) <=> Hears(bc[h], gate[h].online, s)
<1>1. \A h \in Gates : bc[h] \in Seq(BroadcastType) /\ h \in Receivers
  BY DEF TypeOK, Receivers
<1>2. bc'[g] = Tail(bc[g]) /\ \A r \in Receivers : r # g => bc'[r] = bc[r]
  BY <1>1 DEF TypeOK
<1>3. NoOnCalm
  <2>1. HasKind(Tail(bc[g]), "on") => HasKind(bc[g], "on")
    BY <1>1, HasKindTail
  <2> QED BY <1>1, <1>2, <2>1 DEF NoOnCalm
<1>4. ASSUME NEW h \in Gates, NEW s \in Servers
      PROVE  Hears(bc'[h], gate'[h].online, s) <=> Hears(bc[h], gate[h].online, s)
  <2>1. CASE h = g
    BY <1>1, <1>2, <2>1, HearsTail
  <2>2. CASE h # g
    BY <1>1, <1>2, <2>2
  <2> QED BY <2>1, <2>2
<1>5. HearsCalm
  <2>1. HearsSame
    BY <1>4 DEF HearsSame
  <2> QED BY <2>1, UnchangedCalm
<1> QED BY <1>2, <1>3, <1>4, <1>5

\* What a gate's maps are after a broadcast.
LEMMA BroadcastIs ==
  ASSUME TypeOK, NEW g \in Gates, GateBroadcast(g)
  PROVE  /\ NoOnCalm /\ HearsCalm
         /\ \A r \in Receivers : r # g => bc'[r] = bc[r]
         /\ \A h \in Gates, s \in Servers :
              Hears(bc'[h], gate'[h].online, s) <=> Hears(bc[h], gate[h].online, s)
         /\ \A h \in Gates : gate'[h].up = gate[h].up
<1>b. bc[g] # <<>> /\ bc' = [bc EXCEPT ![g] = Tail(@)]
  BY DEF GateBroadcast
<1>1. /\ \A h \in Gates : gate'[h].up = gate[h].up /\ (h # g => gate'[h].online = gate[h].online)
      /\ gate'[g].online = IF Head(bc[g]).kind = "kick" THEN gate[g].online
                           ELSE IF Head(bc[g]).kind = "on" THEN Head(bc[g]).from ELSE None
  <2>1. CASE Head(bc[g]).kind = "kick"
    BY <2>1, KickedLike DEF GateBroadcast, GateLike
  <2>2. CASE Head(bc[g]).kind # "kick"
    BY <2>2, HeardIs
  <2> QED BY <2>1, <2>2
<1> QED BY <1>b, <1>1, TakenBroadcast

\* A gate hears of the player.  When it hears that the player is gone it wakes the login that
\* waits, and nobody has the player: no broadcast of a later session can have been missed.
LEMMA BroadcastInv ==
  ASSUME TypeOK, GateInv, NEW g \in Gates, GateBroadcast(g) PROVE GateInv'
<1> USE DEF GateInv
<1> DEFINE m == Head(bc[g])
<1>b. /\ bc[g] # <<>> /\ UNCHANGED <<gs, toGs, toGate>>
      /\ bc[g] \in Seq(BroadcastType) /\ m \in BroadcastType /\ g \in Receivers
  BY BroadcastHead DEF GateBroadcast, TypeOK, Receivers
<1>q. /\ NoOnCalm /\ HearsCalm
      /\ \A r \in Receivers : r # g => bc'[r] = bc[r]
      /\ \A h \in Gates : gate'[h].up = gate[h].up
  BY BroadcastIs
<1>u. gate[g].up
  BY <1>b DEF Ended
<1>e. Ended'
  BY <1>b, <1>q, <1>u, EndedSame DEF Receivers
<1>1. CASE m.kind = "kick"
  <2>1. GateLike /\ UNCHANGED conn
    BY <1>1, KickedLike DEF GateBroadcast
  <2>2. TokenStages' /\ Registered'
    BY <2>1, StagesSame DEF GateLike
  <2> QED BY <1>b, <1>q, <1>e, <2>1, <2>2, UnchangedCalm, CalmNext
<1>2. CASE m.kind # "kick"
  <2>1. /\ \A h \in Gates : h # g => gate'[h] = gate[h]
        /\ gate'[g].regQ = gate[g].regQ
        /\ gate'[g].reg = IF m.kind = "off" THEN None ELSE gate[g].reg
        /\ \A c \in Conns :
             conn'[c] = [conn[c] EXCEPT !.awake = @ \/ (m.kind = "off" /\ c = gate[g].reg /\ InToken(c))]
    BY <1>2, HeardIs
  <2>2. \A c \in Conns : /\ conn'[c].tok = conn[c].tok /\ conn'[c].state = conn[c].state
                         /\ conn'[c].bound = conn[c].bound /\ conn'[c].asked = conn[c].asked
                         /\ conn'[c].awake => conn[c].awake \/ (m.kind = "off" /\ c = gate[g].reg)
                         /\ m.kind # "off" => conn'[c].awake = conn[c].awake
    <3> SUFFICES ASSUME NEW c \in Conns
                 PROVE  /\ conn'[c].tok = conn[c].tok /\ conn'[c].state = conn[c].state
                        /\ conn'[c].bound = conn[c].bound /\ conn'[c].asked = conn[c].asked
                        /\ conn'[c].awake => conn[c].awake \/ (m.kind = "off" /\ c = gate[g].reg)
                        /\ m.kind # "off" => conn'[c].awake = conn[c].awake
      OBVIOUS
    <3> DEFINE awake == conn[c].awake \/ (m.kind = "off" /\ c = gate[g].reg /\ InToken(c))
    <3>1. conn'[c] = [conn[c] EXCEPT !.awake = awake]
      BY <2>1
    <3>2. /\ awake => conn[c].awake \/ (m.kind = "off" /\ c = gate[g].reg)
          /\ m.kind # "off" => awake = conn[c].awake
      BY ConnParts
    <3> HIDE DEF awake, m
    <3>3. conn[c] \in ConnType
      BY ConnParts
    <3> QED BY <3>1, <3>2, <3>3 DEF ConnType
  <2>3. TokenStages'
    BY <2>2 DEF TokenStages
  <2>4. Registered'
    <3> SUFFICES ASSUME NEW c \in Conns,
                        (conn[c].awake \/ (\E h \in Gates : gate[h].reg = c \/ Has(gate[h].regQ, c)))'
                 PROVE  conn'[c].tok \notin {"none", "check"}
      BY DEF Registered
    <3>1. c # None
      BY NamesAssumption
    <3>2. conn[c].awake \/ (\E h \in Gates : gate[h].reg = c \/ Has(gate[h].regQ, c))
      BY <2>1, <2>2, <3>1
    <3> QED BY <2>2, <3>2 DEF Registered
  <2>5. BegunCalm
    BY <2>2 DEF BegunCalm, Begun
  <2>6. RequestsCalm /\ ChangesCalm /\ ServersCalm
    BY <1>b, UnchangedCalm
  <2>7. ServedCalm /\ OneServed'
    <3>1. \A s \in Servers : Served(s)' <=> Served(s)
      BY <1>b DEF Served
    <3> QED BY <1>b, <2>6, <3>1 DEF ServersCalm, ServedCalm, Admission, OneServed
  <2>8. /\ OneLogin' /\ NoNews' /\ Told'
        /\ SomeRequest' => SomeRequest
        /\ SomeLoad' => SomeLoad
        /\ SomeChange' => SomeChange
    BY <1>q, <2>5, <2>6, <2>7, CalmMost
  <2>9. SomeBegun /\ m.kind = "off" => \A s \in Servers : ~Served(s)
    <3> SUFFICES ASSUME SomeBegun, m.kind = "off", NEW s \in Servers, Served(s) PROVE FALSE
      OBVIOUS
    <3>1. Hears(bc[g], gate[g].online, s) /\ ~HasKind(bc[g], "on")
      BY <1>u DEF Admission, Told, NoNews
    <3>2. 1 \in DOMAIN bc[g] /\ bc[g][1] = m
      BY <1>b
    <3> QED BY <3>1, <3>2 DEF Hears, HasKind
  <2>10. OldGone'
    <3> SUFFICES ASSUME ((\E c \in Conns : Begun(c) /\ ~Waits(c)) \/ SomeRequest \/ SomeLoad \/ SomeChange)',
                        NEW s \in Servers, Served(s)'
                 PROVE  FALSE
      BY DEF OldGone
    <3>1. Served(s)
      BY <2>7 DEF ServedCalm
    <3>2. CASE (SomeRequest \/ SomeLoad \/ SomeChange)'
      BY <2>8, <3>1, <3>2 DEF Admission, OldGone
    <3>3. ASSUME NEW c \in Conns, Begun(c)', ~Waits(c)' PROVE FALSE
      <4>1. Begun(c) /\ SomeBegun
        BY <2>5, <3>3 DEF BegunCalm, SomeBegun
      <4>2. CASE ~Waits(c)
        BY <3>1, <4>1, <4>2 DEF Admission, OldGone
      <4>3. CASE Waits(c)
        <5>1. m.kind = "off"
          BY <2>2, <3>3, <4>3 DEF Waits
        <5> QED BY <2>9, <3>1, <4>1, <5>1
      <4> QED BY <4>2, <4>3
    <3> QED BY <3>2, <3>3
  <2> QED BY <1>e, <2>3, <2>4, <2>7, <2>8, <2>10 DEF Admission
<1> QED BY <1>1, <1>2

\* The node's map is no business of the gates here.
LEMMA NodeInv ==
  ASSUME TypeOK, GateInv, NodeBroadcast PROVE GateInv'
<1>1. UNCHANGED <<conn, gate, gs, toGs, toGate>> /\ \A g \in Gates : bc'[g] = bc[g]
  <2>1. \A g \in Gates : g \in Receivers /\ g # Node
    BY NamesAssumption DEF Receivers
  <2> QED BY <2>1 DEF NodeBroadcast, TypeOK
<1>2. TokenStages' /\ Registered'
  BY <1>1, StagesSame DEF GateInv
<1>3. Ended'
  BY <1>1, EndedSame DEF GateInv
<1>4. NoOnCalm /\ HearsSame
  BY <1>1 DEF NoOnCalm, HearsSame
<1> QED BY <1>1, <1>2, <1>3, <1>4, UnchangedCalm, CalmNext DEF GateInv

-----------------------------------------------------------------------------
(* The steps of the game servers.                                          *)

\* A step of one game server leaves the token requests and the online maps alone, and a
\* server that has ended stays as it is.
LEMMA ServerEnded ==
  ASSUME TypeOK, Ended, NEW s \in Servers, UNCHANGED gate,
         \A t \in Servers : t # s => gs'[t] = gs[t],
         gs'[s].up,
         \A g \in Gates, t \in Servers : toGs'[g][t] = toGs[g][t] \/ t = s,
         \A g \in Gates : ~gate[g].up => bc'[g] = bc[g]
  PROVE  Ended'
BY DEF Ended

\* A login request is taken from its queue; the notices around it stay.
LEMMA GsTakenCalm ==
  ASSUME TypeOK, NEW s \in Servers, NEW g \in Gates, toGs[g][s] # <<>>, toGs' = GsTaken(g, s)
  PROVE  /\ RequestsCalm
         /\ Head(toGs[g][s]) = "login" => Has(toGs[g][s], "login")
         /\ Head(toGs[g][s]) = "login" /\ Once(toGs[g][s], "login") => ~Has(toGs'[g][s], "login")
         /\ \A h \in Gates, t \in Servers : toGs'[h][t] = toGs[h][t] \/ t = s
<1>1. \A h \in Gates, t \in Servers :
        /\ toGs[h][t] \in Seq({"login", "offline"})
        /\ toGs'[h][t] = IF h = g /\ t = s THEN Tail(toGs[h][t]) ELSE toGs[h][t]
  BY GsTakenIs DEF TypeOK
<1>2. /\ Head(toGs[g][s]) = "login" => Has(toGs[g][s], "login")
      /\ Has(Tail(toGs[g][s]), "login") => Has(toGs[g][s], "login")
      /\ Once(toGs[g][s], "login") => /\ Once(Tail(toGs[g][s]), "login")
                                      /\ Head(toGs[g][s]) = "login" => ~Has(Tail(toGs[g][s]), "login")
  BY <1>1, HasTail
<1> QED BY <1>1, <1>2 DEF RequestsCalm

\* The login begins on its server.
LEMMA PlayerLoginReqInv ==
  ASSUME TypeOK, GateInv, NEW s \in Servers, NEW g \in Gates, PlayerLoginReq(g, s) PROVE GateInv'
<1> USE DEF GateInv
<1>u. UNCHANGED <<conn, gate, toGate, bc>>
  BY DEF PlayerLoginReq
<1>q. toGs[g][s] # <<>> /\ Head(toGs[g][s]) = "login" /\ toGs' = GsTaken(g, s)
  BY DEF PlayerLoginReq, GsMsg
<1>g. ServerBecomes(s, gs[s].up, "none", None, More(gs[s].loads, g), gs[s].saves, Lost(s))
  BY PlayerLoginReqIs
<1>p. \A t \in Servers : gs[t].loads \in [Gates -> Nat] /\ gs[t].saves \in [Gates \cup {None} -> Nat]
  BY ServerParts
<1>m. /\ More(gs[s].loads, g)[g] = gs[s].loads[g] + 1
      /\ \A h \in Gates : h # g => More(gs[s].loads, g)[h] = gs[s].loads[h]
  BY <1>p, MoreLess
<1>1. Has(toGs[g][s], "login") /\ ~Has(toGs'[g][s], "login") /\ RequestsCalm
      /\ \A h \in Gates, t \in Servers : toGs'[h][t] = toGs[h][t] \/ t = s
  BY <1>q, GsTakenCalm DEF Admission, OneLogin, OneRequest
<1>2. /\ SomeRequest /\ ~SomeBegun /\ ~SomeLoad /\ ~SomeMove /\ ~SomeChange
      /\ (\A h \in Gates : ~HasKind(bc[h], "on")) /\ (\A t \in Servers : ~Served(t))
  BY <1>1 DEF SomeRequest, Admission, OneLogin, OneForm, NoNews, OldGone
<1>3. OneRequest' /\ ~SomeRequest'
  <2>1. ASSUME NEW h \in Gates, NEW t \in Servers PROVE ~Has(toGs'[h][t], "login")
    <3>1. CASE h = g /\ t = s
      BY <1>1, <3>1
    <3>2. CASE ~(h = g /\ t = s)
      BY <1>1, <3>2 DEF Admission, OneLogin, OneRequest, RequestsCalm
    <3> QED BY <3>1, <3>2
  <2> QED BY <1>1, <2>1 DEF Admission, OneLogin, OneRequest, RequestsCalm, SomeRequest
<1>4. \A t \in Servers, h \in Gates : gs[t].loads[h] = 0
  BY <1>2, <1>p DEF SomeLoad
<1>5. \A t \in Servers, h \in Gates : gs'[t].loads[h] = IF t = s /\ h = g THEN 1 ELSE 0
  BY <1>4, <1>g, <1>m DEF ServerBecomes
<1>6. \A t \in Servers : ~Served(t)' /\ gs'[t].obj = "none" /\ gs'[t].saves = gs[t].saves
  <2>1. \A t \in Servers : gs[t].obj = "none"
    BY <1>2, ServerParts DEF Admission, OneServed, Served
  <2> QED BY <1>2, <1>g, <2>1 DEF ServerBecomes, Served
<1>7. OneServed' /\ OldGone' /\ Told'
  <2>1. OneServed'
    BY <1>6 DEF OneServed, Served
  <2> QED BY <1>6, <2>1, NobodyServed
<1>8. OneLogin'
  <2>1. OneLoad'
    BY <1>5 DEF OneLoad
  <2>2. OneBegun' /\ OneChange'
    BY <1>u DEF Admission, OneLogin, OneBegun, OneChange, Begun
  <2>3. ~SomeBegun' /\ ~SomeChange' /\ ~SomeMove'
    BY <1>2, <1>6, <1>u DEF SomeBegun, Begun, SomeChange, SomeMove
  <2> QED BY <1>3, <2>1, <2>2, <2>3 DEF OneLogin, OneForm
<1>9. NoNews'
  BY <1>2, <1>u DEF NoNews
<1>10. TokenStages' /\ Registered'
  BY <1>u, StagesSame
<1>11. Ended'
  <2>1. gs[s].up
    BY <1>q DEF Ended
  <2> QED BY <1>1, <1>g, <1>u, <2>1, ServerEnded DEF ServerBecomes
<1> QED BY <1>7, <1>8, <1>9, <1>10, <1>11 DEF Admission

\* What a broadcast from a server makes of the queues of the gates.
LEMMA SentToAll ==
  ASSUME TypeOK, Ended, NEW s \in Servers, NEW kind \in {"on", "off"}, SendToAll(s, kind)
  PROVE  \A g \in Gates :
           /\ gate[g].up => bc'[g] = Append(bc[g], [kind |-> kind, from |-> s])
           /\ ~gate[g].up => bc'[g] = bc[g]
           /\ bc[g] \in Seq(BroadcastType) /\ [kind |-> kind, from |-> s] \in BroadcastType
<1> SUFFICES ASSUME NEW g \in Gates
             PROVE  /\ gate[g].up => bc'[g] = Append(bc[g], [kind |-> kind, from |-> s])
                    /\ ~gate[g].up => bc'[g] = bc[g]
                    /\ bc[g] \in Seq(BroadcastType) /\ [kind |-> kind, from |-> s] \in BroadcastType
  OBVIOUS
<1>1. g # s /\ g \in Receivers /\ Up(g) = gate[g].up /\ Heeds(g, kind)
  BY NamesAssumption DEF Receivers, Up, Heeds
<1>2. bc[g] \in Seq(BroadcastType) /\ [kind |-> kind, from |-> s] \in BroadcastType
  BY <1>1 DEF TypeOK, BroadcastType
<1> QED BY <1>1, <1>2, SendToAllIs

\* The player is loaded and every gate is told so.
LEMMA OnLoginInv ==
  ASSUME TypeOK, GateInv, NEW s \in Servers, NEW g \in Gates, OnLogin(g, s) PROVE GateInv'
<1> USE DEF GateInv
<1>u. UNCHANGED <<conn, gate, toGs>> /\ gs[s].loads[g] > 0
  BY DEF OnLogin
<1>g. ServerBecomes(s, gs[s].up, "online", g, Less(gs[s].loads, g), gs[s].saves, Lost(s))
  BY OnLoginIs
<1>p. \A t \in Servers : gs[t].loads \in [Gates -> Nat] /\ gs[t].saves \in [Gates \cup {None} -> Nat]
  BY ServerParts
<1>m. /\ Less(gs[s].loads, g)[g] = gs[s].loads[g] - 1
      /\ \A h \in Gates : h # g => Less(gs[s].loads, g)[h] = gs[s].loads[h]
  BY <1>p, <1>u, MoreLess
<1>2. /\ SomeLoad /\ ~SomeBegun /\ ~SomeRequest /\ ~SomeMove /\ ~SomeChange
      /\ (\A h \in Gates : ~HasKind(bc[h], "on")) /\ (\A t \in Servers : ~Served(t))
  BY <1>u DEF SomeLoad, Admission, OneLogin, OneForm, NoNews, OldGone
<1>3. \A t \in Servers, h \in Gates : gs[t].loads[h] = IF t = s /\ h = g THEN 1 ELSE 0
  BY <1>p, <1>u DEF Admission, OneLogin, OneLoad
<1>4. \A t \in Servers, h \in Gates : gs'[t].loads[h] = 0
  BY <1>3, <1>g, <1>m DEF ServerBecomes
<1>5. \A t \in Servers, to \in Gates \cup {None} : gs'[t].saves[to] = 0
  BY <1>2, <1>p, <1>g DEF ServerBecomes, Served
<1>6. \A t \in Servers : /\ Served(t)' <=> t = s
                         /\ gs'[t].obj = "online" => gs'[t].gate \in Gates
                         /\ gs'[t].obj # "offline"
  <2>1. \A t \in Servers : gs[t].obj # "offline"
    BY <1>2 DEF Admission, OneServed, Served
  <2> QED BY <1>2, <1>5, <1>g, <2>1 DEF ServerBecomes, Served
<1>7. OneServed'
  BY <1>5, <1>6 DEF OneServed
<1>8. Told'
  <2> SUFFICES ASSUME NEW h \in Gates, NEW t \in Servers, gate'[h].up, Served(t)'
               PROVE  Hears(bc'[h], gate'[h].online, t)
    BY DEF Told
  <2> DEFINE m == [kind |-> "on", from |-> s]
  <2>1. t = s /\ gate[h].up
    BY <1>6, <1>u
  <2>2. bc'[h] = Append(bc[h], m) /\ bc[h] \in Seq(BroadcastType) /\ m \in BroadcastType
    BY <2>1, SentToAll DEF OnLogin
  <2>3. m.kind = "on" /\ m.from = s
    OBVIOUS
  <2> HIDE DEF m
  <2>4. Hears(Append(bc[h], m), gate'[h].online, s)
    BY <2>2, <2>3, HearsAppend
  <2> QED BY <2>1, <2>2, <2>4
<1>9. OneChange' /\ ~SomeChange'
  <2> DEFINE m == [kind |-> "rsp", to |-> None]
  <2>1. \A t \in Servers, h \in Gates :
          toGate'[t][h] = IF t = s /\ h = g /\ Up(g) THEN Append(toGate[t][h], m) ELSE toGate[t][h]
    BY SendToGateIs DEF OnLogin, OnlineAt
  <2>2. m \in GateMsgType /\ m.kind # "change"
    BY DEF GateMsgType, OnlineAt
  <2> HIDE DEF m
  <2>3. ASSUME NEW t \in Servers, NEW h \in Gates
        PROVE  /\ HasKind(toGate'[t][h], "change") => HasKind(toGate[t][h], "change")
               /\ OnceKind(toGate'[t][h], "change")
    <3>1. toGate[t][h] \in Seq(GateMsgType) /\ OnceKind(toGate[t][h], "change")
      BY DEF TypeOK, Admission, OneLogin, OneChange
    <3>2. /\ HasKind(Append(toGate[t][h], m), "change") => HasKind(toGate[t][h], "change")
          /\ OnceKind(Append(toGate[t][h], m), "change")
      BY <2>2, <3>1, HasKindAppend
    <3> QED BY <2>1, <3>1, <3>2
  <2> QED BY <1>2, <2>3 DEF OneChange, SomeChange
<1>10. ~SomeBegun' /\ ~SomeRequest' /\ ~SomeLoad' /\ ~SomeMove'
  <2>1. ~SomeBegun' /\ ~SomeRequest'
    BY <1>2, <1>u DEF SomeBegun, Begun, SomeRequest
  <2>2. ~SomeLoad' /\ ~SomeMove'
    BY <1>4, <1>5 DEF SomeLoad, SomeMove
  <2> QED BY <2>1, <2>2
<1>11. OneLogin'
  <2>1. OneLoad'
    BY <1>4 DEF OneLoad
  <2>2. OneBegun' /\ OneRequest'
    BY <1>u DEF Admission, OneLogin, OneBegun, OneRequest, Begun
  <2> QED BY <1>9, <1>10, <2>1, <2>2 DEF OneLogin, OneForm
<1>12. NoNews' /\ OldGone'
  BY <1>9, <1>10 DEF NoNews, OldGone, SomeBegun
<1>13. TokenStages' /\ Registered'
  BY <1>u, StagesSame
<1>14. Ended'
  <2>1. gs[s].up
    BY <1>u DEF Ended
  <2>2. \A h \in Gates : ~gate[h].up => bc'[h] = bc[h]
    BY SentToAll DEF OnLogin
  <2> QED BY <1>g, <1>u, <2>1, <2>2, ServerEnded DEF ServerBecomes
<1> QED BY <1>7, <1>8, <1>11, <1>12, <1>13, <1>14 DEF Admission

\* An online player that goes is saved on the same server, by one goroutine.
LEMMA LeavingIs ==
  ASSUME TypeOK, OneServed, NEW s \in Servers, NEW to \in Gates \cup {None},
         gs[s].obj = "online", OnUserOffline(s, to)
  PROVE  /\ OneServed'
         /\ \A t \in Servers : /\ Served(t)' <=> Served(t)
                               /\ t # s => gs'[t] = gs[t]
                               /\ gs'[t].up = gs[t].up /\ gs'[t].loads = gs[t].loads
                               /\ gs'[t].lost = gs[t].lost
                               /\ t = s => gs'[t].obj = "offline"
                               /\ \A o \in Gates \cup {None} :
                                    gs'[t].saves[o] = IF t = s /\ o = to THEN 1 ELSE gs[t].saves[o]
<1>g. ServerBecomes(s, gs[s].up, "offline", None, gs[s].loads, More(gs[s].saves, to), gs[s].lost)
  BY OnUserOfflineIs
<1>p. \A t \in Servers : gs[t].saves \in [Gates \cup {None} -> Nat]
  BY ServerParts
<1>m. /\ More(gs[s].saves, to)[to] = gs[s].saves[to] + 1
      /\ \A o \in Gates \cup {None} : o # to => More(gs[s].saves, to)[o] = gs[s].saves[o]
  BY <1>p, MoreLess
<1>1. \A o \in Gates \cup {None} : gs[s].saves[o] = 0
  BY <1>p DEF OneServed
<1>2. \A t \in Servers : \A o \in Gates \cup {None} :
        gs'[t].saves[o] = IF t = s /\ o = to THEN 1 ELSE gs[t].saves[o]
  BY <1>1, <1>g, <1>m DEF ServerBecomes
<1>3. \A t \in Servers : /\ t # s => gs'[t] = gs[t]
                         /\ gs'[t].up = gs[t].up /\ gs'[t].loads = gs[t].loads
                         /\ gs'[t].lost = gs[t].lost
                         /\ t = s => gs'[t].obj = "offline"
  BY <1>g DEF ServerBecomes
<1>4. \A t \in Servers : Served(t)' <=> Served(t)
  <2>1. Served(s)' /\ Served(s)
    BY <1>2 DEF Served
  <2>2. \A t \in Servers : t # s => (Served(t)' <=> Served(t))
    BY <1>3 DEF Served
  <2> QED BY <2>1, <2>2
<1>5. OneServed'
  <2>1. \A t, u \in Servers : Served(t)' /\ Served(u)' => t = u
    BY <1>4 DEF OneServed
  <2>2. ASSUME NEW t \in Servers, NEW o \in Gates \cup {None}, gs'[t].saves[o] > 0
        PROVE  /\ gs'[t].obj # "online" /\ gs'[t].saves[o] = 1
               /\ \A x \in Gates \cup {None} : gs'[t].saves[x] > 0 => x = o
    <3>1. CASE t = s
      BY <1>1, <1>2, <1>3, <2>2, <3>1
    <3>2. CASE t # s
      BY <1>3, <2>2, <3>2 DEF OneServed
    <3> QED BY <3>1, <3>2
  <2>3. \A t \in Servers : gs'[t].obj = "online" => gs'[t].gate \in Gates
    BY <1>3 DEF OneServed
  <2>4. \A t \in Servers : gs'[t].obj = "offline" => \E o \in Gates \cup {None} : gs'[t].saves[o] > 0
    BY <1>2, <1>3 DEF OneServed
  <2> QED BY <2>1, <2>2, <2>3, <2>4 DEF OneServed
<1> QED BY <1>2, <1>3, <1>4, <1>5

\* The client is gone, or sends no more pings: the player is saved where it is.
LEMMA LeaveInv ==
  ASSUME TypeOK, GateInv, NEW s \in Servers,
         KeepaliveTimeout(s) \/ \E g \in Gates : UserOfflineNotify(g, s)
  PROVE  GateInv'
<1> USE DEF GateInv
<1>u. UNCHANGED <<conn, gate, toGate, bc>> /\ None \in Gates \cup {None}
  BY DEF UserOfflineNotify, KeepaliveTimeout
<1>p. \A t \in Servers : gs[t].loads \in [Gates -> Nat] /\ gs[t].saves \in [Gates \cup {None} -> Nat]
  BY ServerParts
<1>1. RequestsCalm /\ \A h \in Gates, t \in Servers : toGs'[h][t] = toGs[h][t] \/ t = s
  <2>1. CASE KeepaliveTimeout(s)
    BY <2>1, UnchangedCalm DEF KeepaliveTimeout
  <2>2. ASSUME NEW g \in Gates, UserOfflineNotify(g, s)
        PROVE  RequestsCalm /\ \A h \in Gates, t \in Servers : toGs'[h][t] = toGs[h][t] \/ t = s
    BY <2>2, GsTakenCalm DEF UserOfflineNotify, GsMsg
  <2> QED BY <2>1, <2>2
<1>2. CASE gs[s].obj = "online" /\ OnUserOffline(s, None)
  <2>1. /\ OneServed'
        /\ \A t \in Servers : /\ Served(t)' <=> Served(t)
                              /\ t # s => gs'[t] = gs[t]
                              /\ gs'[t].up = gs[t].up /\ gs'[t].loads = gs[t].loads
                              /\ \A o \in Gates \cup {None} :
                                   gs'[t].saves[o] = IF t = s /\ o = None THEN 1 ELSE gs[t].saves[o]
    BY <1>2, <1>u, LeavingIs DEF Admission
  <2>2. ServedCalm
    <3>1. \A h \in Gates : h # None
      BY NamesAssumption
    <3> QED BY <1>p, <2>1, <3>1 DEF ServedCalm
  <2>3. BegunCalm
    BY <1>u DEF BegunCalm, Begun
  <2>4. NoOnCalm /\ HearsCalm /\ ChangesCalm /\ ConnsCalm
    BY <1>u, UnchangedCalm
  <2>5. /\ OneLogin' /\ NoNews' /\ Told'
        /\ SomeRequest' => SomeRequest
        /\ SomeLoad' => SomeLoad
        /\ SomeChange' => SomeChange
    BY <1>1, <2>2, <2>3, <2>4, CalmMost
  <2>6. OldGone'
    <3>1. (\E c \in Conns : Begun(c) /\ ~Waits(c))' => \E c \in Conns : Begun(c) /\ ~Waits(c)
      BY <2>4 DEF ConnsCalm
    <3> QED BY <2>1, <2>5, <3>1 DEF OldGone, Admission
  <2>7. Ended'
    <3>1. gs'[s].up
      BY <1>2, <2>1 DEF Ended
    <3> QED BY <1>1, <1>u, <2>1, <3>1, ServerEnded
  <2>8. TokenStages' /\ Registered'
    BY <1>u, StagesSame
  <2> QED BY <2>1, <2>5, <2>6, <2>7, <2>8 DEF Admission
<1>3. CASE UNCHANGED gs /\ \E g \in Gates : UserOfflineNotify(g, s)
  <2>1. gs[s].up
    BY <1>3 DEF UserOfflineNotify, GsMsg, Ended
  <2>2. Ended'
    BY <1>1, <1>3, <1>u, <2>1, ServerEnded
  <2>3. TokenStages' /\ Registered'
    BY <1>u, StagesSame
  <2> QED BY <1>1, <1>3, <1>u, <2>2, <2>3, UnchangedCalm, CalmNext
<1> QED BY <1>2, <1>3 DEF KeepaliveTimeout, UserOfflineNotify

\* The client is to go to another server: the goroutine that saves the player will tell its gate.
LEMMA MoveInv ==
  ASSUME TypeOK, GateInv, Orderly', NEW s \in Servers, JoinPlayerSceneReq(s) PROVE GateInv'
<1> USE DEF GateInv
<1>u. UNCHANGED <<conn, gate, toGs, toGate, bc>> /\ gs[s].obj = "online" /\ ~UnderWay
  BY DEF JoinPlayerSceneReq, Orderly, TypeOK, Events
<1>p. \A t \in Servers : gs[t].loads \in [Gates -> Nat] /\ gs[t].saves \in [Gates \cup {None} -> Nat]
  BY ServerParts
<1> DEFINE to == gs[s].gate
<1>1. to \in Gates /\ OnUserOffline(s, to)
  BY <1>u DEF JoinPlayerSceneReq, Admission, OneServed
<1>2. /\ OneServed'
      /\ \A t \in Servers : /\ Served(t)' <=> Served(t)
                            /\ t # s => gs'[t] = gs[t]
                            /\ gs'[t].up = gs[t].up /\ gs'[t].loads = gs[t].loads
                            /\ \A o \in Gates \cup {None} :
                                 gs'[t].saves[o] = IF t = s /\ o = to THEN 1 ELSE gs[t].saves[o]
  BY <1>1, <1>u, LeavingIs DEF Admission
<1> HIDE DEF to
<1>3. /\ ~SomeBegun /\ ~SomeRequest /\ ~SomeLoad /\ ~SomeChange
      /\ \A h \in Gates : ~HasKind(bc[h], "on")
  <2>1. ~SomeBegun
    BY <1>u DEF UnderWay, SomeBegun, Begun
  <2>2. ~SomeRequest /\ ~SomeChange
    BY <1>u DEF UnderWay, SomeRequest, SomeChange, Has, HasKind
  <2>3. ~SomeLoad
    BY <1>u DEF UnderWay, SomeLoad
  <2>4. \A h \in Gates : ~HasKind(bc[h], "on")
    BY <1>u DEF UnderWay, HasKind
  <2> QED BY <2>1, <2>2, <2>3, <2>4
<1>4. ~SomeBegun' /\ ~SomeRequest' /\ ~SomeLoad' /\ ~SomeChange'
  BY <1>2, <1>3, <1>u DEF SomeBegun, Begun, SomeRequest, SomeLoad, SomeChange
<1>5. OneLogin'
  <2>1. OneBegun' /\ OneRequest' /\ OneChange'
    BY <1>u DEF Admission, OneLogin, OneBegun, OneRequest, OneChange, Begun
  <2>2. OneLoad'
    BY <1>2 DEF Admission, OneLogin, OneLoad
  <2> QED BY <1>4, <2>1, <2>2 DEF OneLogin, OneForm
<1>6. NoNews' /\ OldGone'
  <2>1. \A c \in Conns : ~Begun(c)'
    BY <1>4 DEF SomeBegun
  <2> QED BY <1>3, <1>4, <1>u, <2>1 DEF NoNews, OldGone
<1>7. Told'
  BY <1>2, <1>u DEF Admission, Told
<1>8. Ended'
  <2>1. gs'[s].up
    BY <1>2, <1>u DEF Ended
  <2> QED BY <1>2, <1>u, <2>1, ServerEnded
<1>9. TokenStages' /\ Registered'
  BY <1>u, StagesSame
<1> QED BY <1>2, <1>5, <1>6, <1>7, <1>8, <1>9 DEF Admission

\* When the one that has the player lets it go, nobody has it.
LEMMA GoneIs ==
  ASSUME TypeOK, OneServed, NEW s \in Servers, Served(s), \A t \in Servers : t # s => gs'[t] = gs[t],
         gs'[s].obj = "none", \A to \in Gates \cup {None} : gs'[s].saves[to] = 0
  PROVE  OneServed' /\ \A t \in Servers : ~Served(t)'
<1>1. ~Served(s)'
  BY DEF Served
<1>2. \A t \in Servers : t # s => ~Served(t)'
  BY DEF Served, OneServed
<1>3. \A t \in Servers : ~Served(t)'
  BY <1>1, <1>2
<1>4. \A t \in Servers : gs'[t].obj # "offline"
  BY <1>2 DEF OneServed, Served
<1> QED BY <1>3, <1>4 DEF OneServed, Served

\* The player is saved: nobody has it, every gate is told so, and the gate of a client that
\* moves is told where to.
LEMMA OfflineFinishInv ==
  ASSUME TypeOK, GateInv, NEW s \in Servers, NEW to \in Gates \cup {None}, OfflineFinish(s, to)
  PROVE  GateInv'
<1> USE DEF GateInv
<1>u. UNCHANGED <<conn, gate, toGs>> /\ gs[s].saves[to] > 0 /\ SendToAll(s, "off")
  BY DEF OfflineFinish
<1>g. ServerBecomes(s, gs[s].up, "none", None, gs[s].loads, Less(gs[s].saves, to), Lost(s))
  BY OfflineFinishIs
<1>p. \A t \in Servers : gs[t].loads \in [Gates -> Nat] /\ gs[t].saves \in [Gates \cup {None} -> Nat]
  BY ServerParts
<1>m. /\ Less(gs[s].saves, to)[to] = gs[s].saves[to] - 1
      /\ \A o \in Gates \cup {None} : o # to => Less(gs[s].saves, to)[o] = gs[s].saves[o]
  BY <1>p, <1>u, MoreLess
<1>1. \A o \in Gates \cup {None} : gs[s].saves[o] = IF o = to THEN 1 ELSE 0
  BY <1>p, <1>u DEF Admission, OneServed
<1>2. \A o \in Gates \cup {None} : gs'[s].saves[o] = 0
  BY <1>1, <1>g, <1>m DEF ServerBecomes
<1>3. \A t \in Servers : /\ t # s => gs'[t] = gs[t]
                         /\ gs'[t].loads = gs[t].loads
  BY <1>g DEF ServerBecomes
<1>4. Served(s) /\ OneServed' /\ \A t \in Servers : ~Served(t)'
  <2>1. Served(s)
    BY <1>u DEF Served
  <2>2. gs'[s].obj = "none"
    BY <1>g DEF ServerBecomes
  <2> QED BY <1>2, <1>3, <2>1, <2>2, GoneIs DEF Admission
<1>5. OldGone' /\ Told'
  BY <1>4, NobodyServed
<1>6. NoOnCalm
  <2> SUFFICES ASSUME NEW g \in Gates, HasKind(bc'[g], "on") PROVE HasKind(bc[g], "on")
    BY DEF NoOnCalm
  <2> DEFINE m == [kind |-> "off", from |-> s]
  <2>1. /\ bc'[g] = Append(bc[g], m) \/ bc'[g] = bc[g]
        /\ bc[g] \in Seq(BroadcastType) /\ m \in BroadcastType /\ m.kind # "on"
        /\ gate[g].up \in BOOLEAN
    BY <1>u, SentToAll DEF TypeOK, GateType
  <2> HIDE DEF m
  <2>2. HasKind(Append(bc[g], m), "on") => HasKind(bc[g], "on")
    BY <2>1, HasKindAppend
  <2> QED BY <2>1, <2>2
<1>7. Ended'
  <2>1. gs[s].up /\ gs'[s].up
    BY <1>u, <1>g DEF Ended, ServerBecomes
  <2>2. \A h \in Gates : ~gate[h].up => bc'[h] = bc[h]
    BY <1>u, SentToAll
  <2> QED BY <1>3, <1>u, <2>1, <2>2, ServerEnded
<1>8. TokenStages' /\ Registered'
  BY <1>u, StagesSame
<1>9. CASE to = None
  <2>1. UNCHANGED toGate
    BY <1>9 DEF OfflineFinish
  <2>2. ServedCalm
    <3>1. \A t \in Servers, h \in Gates : gs'[t].saves[h] > 0 => gs[t].saves[h] > 0
      BY <1>2, <1>3
    <3> QED BY <1>3, <1>4, <1>p, <3>1 DEF ServedCalm
  <2>3. BegunCalm /\ HearsCalm
    BY <1>4, <1>u DEF BegunCalm, Begun, HearsCalm
  <2>4. OneLogin' /\ NoNews'
    BY <1>6, <1>u, <2>1, <2>2, <2>3, UnchangedCalm, CalmMost
  <2> QED BY <1>4, <1>5, <1>7, <1>8, <2>4 DEF Admission
<1>10. CASE to \in Gates
  <2>1. /\ SomeMove /\ ~SomeBegun /\ ~SomeRequest /\ ~SomeLoad /\ ~SomeChange
        /\ \A h \in Gates : ~HasKind(bc[h], "on")
    BY <1>u, <1>10 DEF SomeMove, Admission, OneLogin, OneForm, NoNews
  <2>2. to # None
    BY <1>10, NamesAssumption
  <2>3. PICK t \in OnlineAt \ {s} : SendToGate(s, to, "change", t)
    BY <2>2 DEF OfflineFinish
  <2>4. OneChange'
    <3> DEFINE m == [kind |-> "change", to |-> t]
    <3>1. \A u \in Servers, h \in Gates :
            /\ toGate'[u][h] = IF u = s /\ h = to /\ Up(to) THEN Append(toGate[u][h], m) ELSE toGate[u][h]
            /\ toGate[u][h] \in Seq(GateMsgType) /\ ~HasKind(toGate[u][h], "change")
      <4>1. \A u \in Servers, h \in Gates :
              toGate'[u][h] = IF u = s /\ h = to /\ Up(to) THEN Append(toGate[u][h], m) ELSE toGate[u][h]
        BY <2>3, SendToGateIs
      <4> QED BY <2>1, <4>1 DEF TypeOK, SomeChange
    <3>2. m \in GateMsgType
      BY DEF GateMsgType
    <3> HIDE DEF m
    <3>3. ASSUME NEW u \in Servers, NEW h \in Gates
          PROVE  /\ OnceKind(toGate'[u][h], "change")
                 /\ HasKind(toGate'[u][h], "change") => u = s /\ h = to
      <4>1. OnceKind(toGate[u][h], "change")
        BY <3>1 DEF HasKind, OnceKind
      <4> QED BY <3>1, <3>2, <4>1, HasKindAppend
    <3> QED BY <3>3 DEF OneChange
  <2>5. ~SomeBegun' /\ ~SomeRequest' /\ ~SomeLoad' /\ ~SomeMove'
    <3>1. ~SomeBegun' /\ ~SomeRequest'
      BY <1>u, <2>1 DEF SomeBegun, Begun, SomeRequest
    <3>2. ~SomeLoad'
      BY <1>3, <2>1 DEF SomeLoad
    <3>3. ~SomeMove'
      BY <1>4 DEF SomeMove, Served
    <3> QED BY <3>1, <3>2, <3>3
  <2>6. OneLogin'
    <3>1. OneBegun' /\ OneRequest' /\ OneLoad'
      BY <1>3, <1>u DEF Admission, OneLogin, OneBegun, OneRequest, OneLoad, Begun
    <3> QED BY <2>4, <2>5, <3>1 DEF OneLogin, OneForm
  <2>7. NoNews'
    BY <1>6, <2>1 DEF NoNews, NoOnCalm
  <2> QED BY <1>4, <1>5, <1>7, <1>8, <2>6, <2>7 DEF Admission
<1> QED BY <1>9, <1>10

\* The object is deleted where another server's offline broadcast is heard.
LEMMA SetRemoteInv ==
  ASSUME TypeOK, GateInv, NEW s \in Servers, SetRemoteUserOnlineState(s) PROVE GateInv'
<1>u. UNCHANGED <<conn, gate, toGs, toGate>>
  BY DEF SetRemoteUserOnlineState
<1>g. ServerBecomes(s, gs[s].up, "none", None, gs[s].loads, gs[s].saves, Lost(s))
  BY SetRemoteIs
<1>p. \A t \in Servers : gs[t].loads \in [Gates -> Nat] /\ gs[t].saves \in [Gates \cup {None} -> Nat]
  BY ServerParts
<1>b. \A h \in Gates : bc'[h] = bc[h]
  <2>1. \A h \in Gates : h # s /\ h \in Receivers
    BY NamesAssumption DEF Receivers
  <2> QED BY <2>1 DEF SetRemoteUserOnlineState, TypeOK
<1>1. ServersCalm
  <2>1. \A t \in Servers : /\ gs'[t].loads = gs[t].loads /\ gs'[t].saves = gs[t].saves
                           /\ gs'[t].obj = "online" => gs[t].obj = "online" /\ gs'[t].gate = gs[t].gate
                           /\ gs'[t].obj = "offline" => gs[t].obj = "offline"
    BY <1>g DEF ServerBecomes
  <2>2. \A t \in Servers, h \in Gates : gs[t].loads[h] <= gs[t].loads[h]
    BY <1>p
  <2> QED BY <1>p, <2>1, <2>2 DEF ServersCalm
<1>2. NoOnCalm /\ HearsSame
  BY <1>b, <1>u DEF NoOnCalm, HearsSame
<1>3. Ended'
  <2>1. gs[s].up \in BOOLEAN
    BY ServerParts
  <2>2. \A t \in Servers : gs'[t].up = gs[t].up /\ gs'[t].loads = gs[t].loads
                           /\ gs'[t].saves = gs[t].saves /\ (gs'[t].obj = gs[t].obj \/ gs'[t].obj = "none")
    BY <1>g DEF ServerBecomes
  <2> QED BY <1>b, <1>u, <2>2 DEF GateInv, Ended
<1>4. TokenStages' /\ Registered'
  BY <1>u, StagesSame DEF GateInv
<1> QED BY <1>u, <1>1, <1>2, <1>3, <1>4, UnchangedCalm, CalmNext DEF GateInv

\* A game server's process ends: of its own will it tells the gate and all the others.
LEMMA GsEndsInv ==
  ASSUME TypeOK, GateInv, NEW s \in Servers, GsCrash(s) \/ GsClose(s) PROVE GateInv'
<1> USE DEF GateInv
<1>u. UNCHANGED <<conn, gate>> /\ GsDown(s)
  BY DEF GsCrash, GsClose
<1>g. /\ ServerBecomes(s, FALSE, "none", None, [g \in Gates |-> 0], [g \in Gates \cup {None} |-> 0], gs[s].lost)
      /\ \A g \in Gates, t \in Servers : toGs'[g][t] = IF t = s THEN <<>> ELSE toGs[g][t]
  BY <1>u, GsDownIs
<1>p. \A t \in Servers : gs[t].loads \in [Gates -> Nat] /\ gs[t].saves \in [Gates \cup {None} -> Nat]
  BY ServerParts
<1>1. /\ \A t \in Servers : t # s => gs'[t] = gs[t]
      /\ ~gs'[s].up /\ gs'[s].obj = "none"
      /\ \A g \in Gates : gs'[s].loads[g] = 0
      /\ \A to \in Gates \cup {None} : gs'[s].saves[to] = 0
      /\ gs'[s].loads \in [Gates -> Nat] /\ gs'[s].saves \in [Gates \cup {None} -> Nat]
  BY <1>g DEF ServerBecomes
<1>2. ServersCalm
  BY <1>1, <1>p DEF ServersCalm
<1>3. RequestsCalm
  BY <1>g, NothingHas DEF RequestsCalm
<1>4. ConnsCalm
  BY <1>u, UnchangedCalm
<1>5. TokenStages' /\ Registered'
  BY <1>u, StagesSame
<1>6. ChangesCalm
  <2>1. CASE UNCHANGED toGate
    BY <2>1, UnchangedCalm
  <2>2. CASE SendToGate(s, gs[s].gate, "kick", None)
    <3> DEFINE m == [kind |-> "kick", to |-> None]
    <3>1. \A t \in Servers, h \in Gates :
            /\ toGate'[t][h] = Append(toGate[t][h], m) \/ toGate'[t][h] = toGate[t][h]
            /\ toGate[t][h] \in Seq(GateMsgType)
      <4>1. None \in OnlineAt
        BY DEF OnlineAt
      <4>2. \A t \in Servers, h \in Gates :
              toGate'[t][h] = IF t = s /\ h = gs[s].gate /\ Up(gs[s].gate)
                              THEN Append(toGate[t][h], m) ELSE toGate[t][h]
        BY <2>2, <4>1, SendToGateIs
      <4> QED BY <4>2 DEF TypeOK
    <3>2. m \in GateMsgType /\ m.kind # "change"
      BY DEF GateMsgType, OnlineAt
    <3> HIDE DEF m
    <3>3. ASSUME NEW t \in Servers, NEW h \in Gates
          PROVE  /\ HasKind(Append(toGate[t][h], m), "change") => HasKind(toGate[t][h], "change")
                 /\ OnceKind(toGate[t][h], "change") => OnceKind(Append(toGate[t][h], m), "change")
      BY <3>1, <3>2, HasKindAppend
    <3>4. ASSUME NEW t \in Servers, NEW h \in Gates
          PROVE  /\ HasKind(toGate'[t][h], "change") => HasKind(toGate[t][h], "change")
                 /\ OnceKind(toGate[t][h], "change") => OnceKind(toGate'[t][h], "change")
      BY <3>1, <3>3
    <3> QED BY <3>4 DEF ChangesCalm
  <2> QED BY <2>1, <2>2 DEF GsCrash, GsClose
<1>7. CASE \A h \in Gates : bc'[h] = bc[h]
  <2>1. NoOnCalm /\ HearsSame
    BY <1>7, <1>u DEF NoOnCalm, HearsSame
  <2>2. Ended'
    BY <1>1, <1>7, <1>g, <1>u DEF Ended
  <2> QED BY <1>2, <1>3, <1>4, <1>5, <1>6, <2>1, <2>2, UnchangedCalm, CalmNext
<1>8. CASE SendToAll(s, "off") /\ gs[s].obj = "online"
  <2> DEFINE m == [kind |-> "off", from |-> s]
  <2>1. \A h \in Gates : /\ bc'[h] = Append(bc[h], m) \/ bc'[h] = bc[h]
                         /\ ~gate[h].up => bc'[h] = bc[h]
                         /\ bc[h] \in Seq(BroadcastType)
    BY <1>8, SentToAll DEF TypeOK, GateType
  <2>2. m \in BroadcastType /\ m.kind # "on"
    BY DEF BroadcastType
  <2> HIDE DEF m
  <2>3. NoOnCalm
    <3>1. ASSUME NEW h \in Gates PROVE HasKind(Append(bc[h], m), "on") => HasKind(bc[h], "on")
      BY <2>1, <2>2, HasKindAppend
    <3> QED BY <2>1, <3>1 DEF NoOnCalm
  <2>4. \A t \in Servers : ~Served(t)'
    <3>1. Served(s)
      BY <1>8 DEF Served
    <3> QED BY <1>1, <3>1, GoneIs DEF Admission
  <2>5. HearsCalm
    BY <2>4 DEF HearsCalm
  <2>6. Ended'
    BY <1>1, <2>1, <1>g, <1>u DEF Ended
  <2> QED BY <1>2, <1>3, <1>4, <1>5, <1>6, <2>3, <2>5, <2>6, CalmNext
<1>9. (\A h \in Gates : bc'[h] = bc[h]) \/ (SendToAll(s, "off") /\ gs[s].obj = "online")
  <2>1. \A h \in Gates : h # s /\ h \in Receivers
    BY NamesAssumption DEF Receivers
  <2>2. CASE GsCrash(s)
    BY <2>1, <2>2 DEF GsCrash, TypeOK
  <2>3. CASE GsClose(s)
    BY <2>3 DEF GsClose
  <2> QED BY <2>2, <2>3
<1> QED BY <1>7, <1>8, <1>9

-----------------------------------------------------------------------------
(* The admission invariant.                                                *)

\* A gate's online map changes only when it takes a broadcast or a refresh, or ends.
MapsSame ==
  \A g \in Gates : gate'[g].up = gate[g].up /\ gate'[g].online = gate[g].online
\* The steps of a connection leave every gate's map as it was.
LEMMA ConnMaps ==
  ASSUME TypeOK, NEW c \in Conns,
         \/ \E g \in Gates : Accept(c, g) \/ ForceClose(g, c)
         \/ TokenNext(c) \/ LoginReq(c) \/ ForceExitReq(c) \/ CloseNext(c)
  PROVE  MapsSame
<1>t. gate \in [Gates -> GateType]
  BY DEF TypeOK
<1>f. ASSUME NEW g, NEW d, gate' = [gate EXCEPT ![g].force = @ \cup {d}] PROVE MapsSame
  BY <1>t, <1>f DEF GateType, MapsSame
<1>u. UNCHANGED gate => MapsSame
  BY DEF MapsSame
<1>1. ASSUME NEW g \in Gates, Accept(c, g) PROVE MapsSame
  BY <1>u, <1>1 DEF Accept
<1>2. CASE TokenNext(c)
  <2>1. CASE TokenReq(c) \/ TokenRefuse(c) \/ TokenAwake(c)
    BY <1>u, <2>1 DEF TokenReq, TokenRefuse, TokenAwake
  <2>2. CASE RegTimeout(c) \/ TokenTimeout(c)
    BY <1>f, <2>2 DEF RegTimeout, TokenTimeout
  <2>3. CASE TokenCheck(c)
    BY <1>t, <2>3 DEF TokenCheck, GateType, MapsSame
  <2>4. CASE TokenKick(c)
    BY <1>f, <1>u, <2>4 DEF TokenKick
  <2>5. CASE TokenBind(c)
    BY <1>t, <2>5 DEF TokenBind, GateType, MapsSame
  <2>6. CASE TokenServer(c)
    BY <1>f, <1>u, <2>6 DEF TokenServer
  <2> QED BY <1>2, <2>1, <2>2, <2>3, <2>4, <2>5, <2>6 DEF TokenNext
<1>3. CASE LoginReq(c) \/ ForceExitReq(c)
  BY <1>f, <1>u, <1>3 DEF LoginReq, ForceExitReq
<1>4. ASSUME NEW who, CloseBegin(c, who) PROVE MapsSame
  BY <1>t, <1>4 DEF CloseBegin, GateType, MapsSame
<1>5. CASE CloseNext(c)
  <2>1. ASSUME NEW who, CloseEnd(c, who) PROVE MapsSame
    BY <1>t, <2>1 DEF CloseEnd, GateType, MapsSame
  <2> QED BY <1>4, <1>5, <2>1 DEF CloseNext, RecvClose, SendClose
<1>6. ASSUME NEW g \in Gates, ForceClose(g, c) PROVE MapsSame
  <2>1. CASE CloseBegin(c, "event")
    BY <1>4, <2>1
  <2>2. CASE gate' = [gate EXCEPT ![g].force = @ \ {c}]
    BY <1>t, <2>2 DEF GateType, MapsSame
  <2> QED BY <1>6, <2>1, <2>2 DEF ForceClose
<1> QED BY <1>1, <1>2, <1>3, <1>5, <1>6

\* Nor by the other steps of a gate's session loop.
LEMMA HandleMaps ==
  ASSUME TypeOK, NEW g \in Gates, ~GateDown(g),
         \/ CreateHandle(g) \/ DestroyHandle(g) \/ RegHandle(g)
         \/ \E s \in Servers : LoginRsp(s, g) \/ KickNotify(s, g) \/ GsChange(s, g)
  PROVE  MapsSame
<1>t. gate \in [Gates -> GateType]
  BY DEF TypeOK
<1>1. CASE CreateHandle(g)
  BY <1>t, <1>1 DEF CreateHandle, GateType, MapsSame
<1>2. CASE DestroyHandle(g)
  <2> DEFINE c == Head(gate[g].destroy)
             q == Tail(gate[g].destroy)
             user == IF conn[c].bound THEN None ELSE gate[g].user
  <2>1. gate' = [gate EXCEPT ![g] = [gate[g] EXCEPT !.destroy = q, !.conv = @ \ {c}, !.user = user]]
    BY <1>2, Zenon DEF DestroyHandle
  <2> HIDE DEF c, q, user
  <2> QED BY <1>t, <2>1 DEF GateType, MapsSame
<1>3. CASE RegHandle(g)
  BY <1>t, <1>3 DEF RegHandle, GateType, MapsSame
<1>4. ASSUME NEW s \in Servers, LoginRsp(s, g) \/ GsChange(s, g) PROVE MapsSame
  BY <1>4 DEF LoginRsp, GsChange, MapsSame
<1>5. ASSUME NEW s \in Servers, KickNotify(s, g) PROVE MapsSame
  BY <1>t, <1>5 DEF KickNotify, Kicked, GateType, MapsSame
<1> QED BY <1>1, <1>2, <1>3, <1>4, <1>5

\* A refresh that changes no map leaves all the rest of its gate as it was.
LEMMA SyncLike ==
  ASSUME TypeOK, Orderly', NEW g \in Gates, SyncBegin(g) \/ SyncEnd(g)
  PROVE  GateLike /\ UNCHANGED <<conn, gs, toGs, toGate, bc>>
<1>t. \A h \in Gates : gate[h] \in GateType
  BY DEF TypeOK
<1>1. CASE SyncBegin(g)
  BY <1>t, <1>1 DEF SyncBegin, TypeOK, GateType, GateLike
<1>2. CASE SyncEnd(g)
  <2>1. gate[g].snap = gate[g].online
    BY <1>2, NoMishap DEF SyncEnd, Orderly, Events
  <2> QED BY <1>t, <1>2, <2>1 DEF SyncEnd, TypeOK, GateType, GateLike
<1> QED BY <1>1, <1>2

\* Every step keeps the invariant, if with it no login or move has started while another is
\* under way and no refresh has changed a map.
LEMMA NextInv ==
  ASSUME TypeOK, GateInv, Orderly', [Next]_vars
  PROVE  GateInv'
<1>1. ASSUME NEW c \in Conns,
             \/ \E g \in Gates : Accept(c, g)
             \/ TokenNext(c) \/ LoginReq(c) \/ ForceExitReq(c) \/ CloseNext(c)
      PROVE  GateInv'
  BY <1>1, TokenInv, LoginReqInv, ClosingInv
<1>2. ASSUME NEW g \in Gates,
             \/ HandleNext(g) \/ SyncBegin(g) \/ SyncEnd(g) \/ GateCrash(g)
             \/ \E c \in Conns : ForceClose(g, c)
             \/ \E s \in Servers : LoginRsp(s, g) \/ KickNotify(s, g) \/ GsChange(s, g)
      PROVE  GateInv'
  <2>1. CASE HandleNext(g)
    BY <2>1, HandleInv, BroadcastInv DEF HandleNext
  <2>2. CASE SyncBegin(g) \/ SyncEnd(g)
    BY <2>2, SyncLike, UnchangedCalm, QuietGate
  <2>3. CASE GateCrash(g)
    BY <2>3, GateDownInv DEF GateCrash
  <2>4. ASSUME NEW c \in Conns, ForceClose(g, c) PROVE GateInv'
    BY <2>4, ClosingInv
  <2>5. ASSUME NEW s \in Servers, LoginRsp(s, g) \/ KickNotify(s, g) \/ GsChange(s, g) PROVE GateInv'
    BY <2>5, LoginRspInv, GsChangeInv
  <2> QED BY <1>2, <2>1, <2>2, <2>3, <2>4, <2>5
<1>3. ASSUME NEW s \in Servers, ServerNext(s) PROVE GateInv'
  <2>1. CASE \E g \in Gates : PlayerLoginReq(g, s) \/ OnLogin(g, s) \/ UserOfflineNotify(g, s)
    BY <2>1, PlayerLoginReqInv, OnLoginInv, LeaveInv
  <2>2. CASE \E to \in Gates \cup {None} : OfflineFinish(s, to)
    BY <2>2, OfflineFinishInv
  <2>3. CASE JoinPlayerSceneReq(s) \/ KeepaliveTimeout(s) \/ SetRemoteUserOnlineState(s)
    BY <2>3, MoveInv, LeaveInv, SetRemoteInv
  <2>4. CASE GsCrash(s) \/ GsClose(s)
    BY <2>4, GsEndsInv
  <2> QED BY <1>3, <2>1, <2>2, <2>3, <2>4 DEF ServerNext
<1>4. CASE NodeBroadcast
  BY <1>4, NodeInv
<1>5. CASE UNCHANGED vars
  <2>1. UNCHANGED <<conn, gate, gs, toGs, toGate, bc>>
    BY <1>5 DEF vars
  <2> QED BY <2>1, UnchangedCalm, QuietGate
<1> QED BY <1>1, <1>2, <1>3, <1>4, <1>5 DEF Next

\* It holds at the start.
LEMMA InitInv == Init => GateInv
<1> SUFFICES ASSUME Init PROVE GateInv
  OBVIOUS
<1>1. /\ \A c \in Conns : /\ conn[c].state = "none" /\ conn[c].tok = "none" /\ conn[c].bound = FALSE
                          /\ conn[c].asked = FALSE /\ conn[c].awake = FALSE
      /\ \A g \in Gates : /\ gate[g].up /\ gate[g].online = None /\ gate[g].reg = None
                          /\ gate[g].regQ = <<>>
  BY DEF Init
<1>2. \A s \in Servers : /\ gs[s].up /\ gs[s].obj = "none" /\ \A g \in Gates : gs[s].loads[g] = 0
                         /\ \A to \in Gates \cup {None} : gs[s].saves[to] = 0
  BY DEF Init
<1>3. /\ \A g \in Gates, s \in Servers : toGs[g][s] = <<>> /\ toGate[s][g] = <<>>
      /\ \A g \in Gates : bc[g] = <<>>
  BY DEF Init, Receivers
<1>4. TokenStages
  BY <1>1 DEF TokenStages
<1>5. Registered
  <2>1. \A c \in Conns : c # None
    BY NamesAssumption
  <2> QED BY <1>1, <2>1, NothingHas DEF Registered
<1>6. \A s \in Servers : ~Served(s)
  BY <1>2 DEF Served
<1>7. ~SomeBegun /\ ~SomeRequest /\ ~SomeLoad /\ ~SomeMove /\ ~SomeChange
  BY <1>1, <1>2, <1>3, NothingHas DEF SomeBegun, Begun, SomeRequest, SomeLoad, SomeMove, SomeChange
<1>8. OneLogin
  <2>1. OneBegun /\ OneLoad
    BY <1>1, <1>2 DEF OneBegun, Begun, OneLoad
  <2>2. OneRequest /\ OneChange
    BY <1>3, NothingHas DEF OneRequest, OneChange
  <2> QED BY <1>7, <2>1, <2>2 DEF OneLogin, OneForm
<1>9. NoNews
  BY <1>7 DEF NoNews
<1>10. OneServed /\ OldGone /\ Told /\ Ended
  BY <1>1, <1>2, <1>3, <1>6 DEF OneServed, OldGone, Told, Ended
<1> QED BY <1>1, <1>4, <1>5, <1>8, <1>9, <1>10 DEF GateInv, Admission

\* What it says of the servers.
LEMMA InvAdmits == TypeOK /\ GateInv => OneAdmitted
<1> SUFFICES ASSUME TypeOK, GateInv PROVE OneAdmitted
  OBVIOUS
<1> USE DEF GateInv, Admission
<1>p. \A s \in Servers : gs[s].loads \in [Gates -> Nat] /\ gs[s].saves \in [Gates \cup {None} -> Nat]
                         /\ gs[s].obj \in {"none", "online", "offline"}
  BY ServerParts
<1>1. \A s \in Servers : Busy(s) <=> Served(s) \/ \E g \in Gates : gs[s].loads[g] > 0
  BY DEF Busy, Served
<1>2. \A s, t \in Servers, g \in Gates : gs[s].loads[g] > 0 => ~Served(t)
  BY DEF OldGone, SomeLoad
<1>3. \A s, t \in Servers : Busy(s) /\ Busy(t) => s = t
  BY <1>1, <1>2 DEF OneServed, OneLogin, OneLoad
<1> QED BY <1>p, <1>2, <1>3 DEF OneAdmitted, OneServed, OneLogin, OneLoad, Served

\* And of the state after a step: how PlayerSession's steps find both ends of a step admitted.
LEMMA InvAdmitsNext == (TypeOK /\ GateInv => OneAdmitted)'
BY InvAdmits, PTL

\* What has been a mishap stays one.
Kept == \A e \in {"overlap", "late", "refresh"} : used'[e] = 0 => used[e] = 0
\* The counters only go up.
LEMMA UsedKept == ASSUME TypeOK, [Next]_vars PROVE Kept
<1> USE DEF Kept, TypeOK, Events
<1>1. ASSUME NEW e \in Events, Use(e) PROVE Kept
  BY <1>1 DEF Use
<1>2. ASSUME NEW e \in Events, NEW happens, Mishap(e, happens) PROVE Kept
  BY <1>2 DEF Mishap
<1>3. UNCHANGED used => Kept
  OBVIOUS
<1>4. ASSUME NEW c \in Conns, TokenNext(c) PROVE Kept
  BY <1>2, <1>3, <1>4 DEF TokenNext, TokenReq, TokenRefuse, TokenCheck, RegTimeout, TokenKick,
                          TokenAwake, TokenTimeout, TokenBind, TokenServer
<1>5. ASSUME NEW c \in Conns, MayClose(c) PROVE Kept
  BY <1>1, <1>3, <1>5 DEF MayClose
<1>6. ASSUME NEW c \in Conns, LoginReq(c) \/ ForceExitReq(c) \/ CloseNext(c) PROVE Kept
  BY <1>3, <1>5, <1>6 DEF LoginReq, ForceExitReq, CloseNext, RecvClose, SendClose, CloseEnd
<1>7. ASSUME NEW c \in Conns, NEW g \in Gates, Accept(c, g) \/ ForceClose(g, c) PROVE Kept
  BY <1>3, <1>5, <1>7 DEF Accept, ForceClose
<1>8. ASSUME NEW g \in Gates, HandleNext(g) \/ SyncBegin(g) \/ SyncEnd(g) \/ GateCrash(g) PROVE Kept
  BY <1>1, <1>2, <1>3, <1>8 DEF HandleNext, CreateHandle, DestroyHandle, RegHandle, GateBroadcast,
                                SyncBegin, SyncEnd, GateCrash
<1>9. ASSUME NEW g \in Gates, NEW s \in Servers, LoginRsp(s, g) \/ KickNotify(s, g) \/ GsChange(s, g)
      PROVE  Kept
  BY <1>3, <1>9 DEF LoginRsp, KickNotify, GsChange
<1>10. ASSUME NEW s \in Servers, ServerNext(s) PROVE Kept
  <2>1. CASE JoinPlayerSceneReq(s)
    BY <2>1, MoveUses
  <2>2. CASE \E g \in Gates : PlayerLoginReq(g, s) \/ OnLogin(g, s) \/ UserOfflineNotify(g, s)
    BY <1>2, <1>3, <2>2 DEF PlayerLoginReq, OnLogin, UserOfflineNotify
  <2>3. CASE \/ \E to \in Gates \cup {None} : OfflineFinish(s, to)
             \/ KeepaliveTimeout(s) \/ SetRemoteUserOnlineState(s) \/ GsCrash(s) \/ GsClose(s)
    BY <1>1, <1>3, <2>3 DEF OfflineFinish, KeepaliveTimeout, SetRemoteUserOnlineState, GsCrash, GsClose
  <2> QED BY <1>10, <2>1, <2>2, <2>3 DEF ServerNext
<1>11. CASE NodeBroadcast \/ UNCHANGED vars
  BY <1>3, <1>11 DEF NodeBroadcast, vars
<1> QED BY <1>4, <1>6, <1>7, <1>8, <1>9, <1>10, <1>11 DEF Next

\* So an orderly step starts in an orderly state, one on time in one on time.
LEMMA OrderKept ==
  ASSUME TypeOK, [Next]_vars PROVE (Orderly' => Orderly) /\ (OnTime' => OnTime)
BY UsedKept DEF Kept, Orderly, OnTime

\* The gates admit one session of the player at a time over all game servers, until a login
\* or a move of the player starts while another login is under way, or a refresh changes what
\* a gate's map says: GlobalGsOnlineMap, the registration of an interrupt login and the
\* offline broadcast that wakes it.  Late broadcasts do it no harm.
THEOREM AdmissionCorrect == Spec => []AdmissionTyped
<1>1. Init => TypeOK /\ (Orderly => GateInv)
  BY InitType, InitInv
<1>2. TypeOK /\ (Orderly => GateInv) /\ [Next]_vars => TypeOK' /\ (Orderly => GateInv)'
  BY NextType, NextInv, OrderKept
<1>3. TypeOK /\ (Orderly => GateInv) => AdmissionTyped
  BY InvAdmits DEF AdmissionTyped, AdmissionHolds
<1> QED BY <1>1, <1>2, <1>3, PTL DEF Spec

-----------------------------------------------------------------------------
(* While no broadcast has been late.                                       *)

\* A step that leaves the game servers alone and takes no gate's map further.
LEMMA QuietPrompt ==
  ASSUME PromptInv, UNCHANGED gs, \A s \in Servers : bc'[s] = bc[s],
         \A g \in Gates : /\ gate'[g].up => gate[g].up
                          /\ \A s \in Servers :
                               gate'[g].up /\ Hears(bc'[g], gate'[g].online, s) =>
                                 Hears(bc[g], gate[g].online, s)
  PROVE  PromptInv'
<1>1. Undisturbed'
  BY DEF PromptInv, Undisturbed
<1>2. KnownServed'
  BY DEF PromptInv, KnownServed, Served
<1>3. NothingLost'
  BY DEF PromptInv, NothingLost
<1> QED BY <1>1, <1>2, <1>3 DEF PromptInv

\* Such are the steps of a connection.
LEMMA ConnPrompt ==
  ASSUME TypeOK, PromptInv, NEW c \in Conns,
         \/ \E g \in Gates : Accept(c, g) \/ ForceClose(g, c)
         \/ TokenNext(c) \/ LoginReq(c) \/ ForceExitReq(c) \/ CloseNext(c)
  PROVE  PromptInv'
<1>1. MapsSame
  BY ConnMaps
<1>2. UNCHANGED gs
  BY DEF Accept, ForceClose, TokenNext, TokenReq, TokenRefuse, TokenCheck, RegTimeout, TokenKick,
         TokenAwake, TokenTimeout, TokenBind, TokenServer, LoginReq, ForceExitReq, CloseNext,
         RecvClose, SendClose, CloseEnd
<1>3. CASE UNCHANGED bc
  BY <1>1, <1>2, <1>3, QuietPrompt DEF MapsSame
<1>4. CASE TokenKick(c) /\ ~UNCHANGED bc
  <2> DEFINE g == conn[c].gate
             m == [kind |-> "kick", from |-> g]
  <2>1. g \in Gates /\ SendToAll(g, "kick")
    BY <1>4, UpIs DEF TokenKick, TokenStep
  <2>2. \A s \in Servers : bc'[s] = bc[s]
    <3>1. \A s \in Servers : s \in Receivers /\ ~Heeds(s, "kick")
      BY NamesAssumption DEF Receivers, Heeds
    <3> QED BY <2>1, <3>1, SendToAllIs
  <2>3. m \in BroadcastType /\ m.kind = "kick"
    BY <2>1 DEF BroadcastType
  <2>4. \A h \in Gates : bc'[h] \in {bc[h], Append(bc[h], m)} /\ bc[h] \in Seq(BroadcastType)
    <3>1. \A h \in Gates : h \in Receivers
      BY DEF Receivers
    <3> QED BY <2>1, <3>1, SendToAllIs DEF TypeOK
  <2> HIDE DEF m
  <2>5. ASSUME NEW h \in Gates, NEW s \in Servers, Hears(bc'[h], gate'[h].online, s)
        PROVE  Hears(bc[h], gate[h].online, s)
    <3>1. Hears(Append(bc[h], m), gate[h].online, s) <=> Hears(bc[h], gate[h].online, s)
      BY <2>3, <2>4, HearsAppend
    <3> QED BY <1>1, <2>4, <2>5, <3>1 DEF MapsSame
  <2> QED BY <1>1, <1>2, <2>2, <2>5, QuietPrompt DEF MapsSame
<1>5. UNCHANGED bc \/ TokenKick(c)
  BY DEF Accept, ForceClose, TokenNext, TokenReq, TokenRefuse, TokenCheck, RegTimeout,
         TokenAwake, TokenTimeout, TokenBind, TokenServer, LoginReq, ForceExitReq, CloseNext,
         RecvClose, SendClose, CloseEnd
<1> QED BY <1>3, <1>4, <1>5

\* And those of a gate, refreshes left out.
LEMMA GatePrompt ==
  ASSUME TypeOK, PromptInv, NEW g \in Gates,
         \/ HandleNext(g) \/ GateCrash(g)
         \/ \E s \in Servers : LoginRsp(s, g) \/ KickNotify(s, g) \/ GsChange(s, g)
  PROVE  PromptInv'
<1>r. \A s \in Servers : s \in Receivers /\ s # g
  BY NamesAssumption DEF Receivers
<1>1. CASE GateDown(g) /\ UNCHANGED gs
  <2>1. /\ \A h \in Gates : h # g => gate'[h] = gate[h]
        /\ ~gate'[g].up
        /\ \A r \in Receivers : bc'[r] = IF r = g THEN <<>> ELSE bc[r]
    BY <1>1, GateDownIs
  <2>2. \A h \in Gates : h \in Receivers
    BY DEF Receivers
  <2> QED BY <1>r, <1>1, <2>1, <2>2, QuietPrompt
<1>2. CASE GateBroadcast(g)
  <2>1. /\ \A r \in Receivers : r # g => bc'[r] = bc[r]
        /\ \A h \in Gates, s \in Servers :
             Hears(bc'[h], gate'[h].online, s) <=> Hears(bc[h], gate[h].online, s)
        /\ \A h \in Gates : gate'[h].up = gate[h].up
    BY <1>2, BroadcastIs
  <2>2. UNCHANGED gs
    BY <1>2 DEF GateBroadcast
  <2> QED BY <1>r, <2>1, <2>2, QuietPrompt
<1>3. CASE ~GateDown(g) /\ ~GateBroadcast(g)
  <2>1. MapsSame
    BY <1>3, HandleMaps DEF HandleNext, GateCrash
  <2>2. UNCHANGED <<gs, bc>>
    BY <1>3 DEF HandleNext, CreateHandle, DestroyHandle, RegHandle, GateCrash, LoginRsp, KickNotify, GsChange
  <2> QED BY <2>1, <2>2, QuietPrompt DEF MapsSame
<1>4. GateDown(g) => UNCHANGED gs
  BY DEF HandleNext, CreateHandle, DestroyHandle, RegHandle, GateBroadcast, GateCrash, LoginRsp,
         KickNotify, GsChange
<1> QED BY <1>1, <1>2, <1>3, <1>4

\* After a broadcast of a server the gates will say what it says, and no other server
\* that has the player is in its way.
LEMMA ToldIs ==
  ASSUME TypeOK, Ended, NEW s \in Servers, NEW kind \in {"on", "off"}, SendToAll(s, kind),
         UNCHANGED gate
  PROVE  /\ \A g \in Gates, t \in Servers :
              gate'[g].up /\ Hears(bc'[g], gate'[g].online, t) => kind = "on" /\ t = s
         /\ bc'[s] = bc[s]
<1>1. s \in Receivers
  BY DEF Receivers
<1>2. ASSUME NEW g \in Gates, NEW t \in Servers, gate'[g].up, Hears(bc'[g], gate'[g].online, t)
      PROVE  kind = "on" /\ t = s
  <2> DEFINE m == [kind |-> kind, from |-> s]
  <2>1. bc'[g] = Append(bc[g], m) /\ bc[g] \in Seq(BroadcastType) /\ m \in BroadcastType
    BY <1>2, SentToAll
  <2>2. m.kind = kind /\ m.from = s
    OBVIOUS
  <2> HIDE DEF m
  <2>3. /\ m.kind = "on" => (Hears(Append(bc[g], m), gate'[g].online, t) <=> m.from = t)
        /\ m.kind = "off" => ~Hears(Append(bc[g], m), gate'[g].online, t)
    BY <2>1, HearsAppend
  <2> QED BY <1>2, <2>1, <2>2, <2>3
<1> QED BY <1>1, <1>2, SendToAllIs

\* The steps of the game servers keep all this too.
LEMMA ServerPrompt ==
  ASSUME TypeOK, GateInv, GateInv', PromptInv, OnTime', NEW s \in Servers, ServerNext(s)
  PROVE  PromptInv'
<1> USE DEF GateInv, Admission, PromptInv
<1>p. \A t \in Servers : /\ gs[t].loads \in [Gates -> Nat]
                         /\ gs[t].saves \in [Gates \cup {None} -> Nat]
                         /\ gs[t].lost \in BOOLEAN
  BY ServerParts
<1>r. \A g \in Gates : g # s /\ g \in Receivers
  BY NamesAssumption DEF Receivers
<1>1. ASSUME NEW g \in Gates, PlayerLoginReq(g, s) PROVE PromptInv'
  <2>1. UNCHANGED <<gate, bc>> /\ bc[s] = <<>> /\ SomeRequest
    <3>1. toGs[g][s] \in Seq({"login", "offline"}) /\ toGs[g][s] # <<>> /\ Head(toGs[g][s]) = "login"
      BY <1>1 DEF PlayerLoginReq, GsMsg, TypeOK
    <3>2. SomeRequest
      BY <3>1, HasTail DEF SomeRequest
    <3>3. bc[s] = <<>>
      BY <1>1, NoMishap DEF PlayerLoginReq, OnTime, Events
    <3> QED BY <1>1, <3>2, <3>3 DEF PlayerLoginReq
  <2>2. \A t \in Servers : ~Served(t)
    BY <2>1 DEF OldGone
  <2>3. ServerBecomes(s, gs[s].up, "none", None, More(gs[s].loads, g), gs[s].saves, Lost(s))
    BY <1>1, PlayerLoginReqIs
  <2>4. Lost(s) = gs[s].lost
    BY <1>p, <2>2 DEF Lost, Served
  <2>5. Undisturbed'
    BY <2>1, <2>3 DEF Undisturbed, ServerBecomes
  <2>6. KnownServed'
    BY <2>1, <2>2, <2>3 DEF KnownServed, ServerBecomes
  <2>7. NothingLost'
    BY <2>3, <2>4 DEF NothingLost, ServerBecomes
  <2> QED BY <2>5, <2>6, <2>7
<1>2. ASSUME NEW g \in Gates, OnLogin(g, s) PROVE PromptInv'
  <2>1. SomeLoad /\ bc[s] = <<>> /\ UNCHANGED gate /\ SendToAll(s, "on")
    BY <1>2 DEF OnLogin, SomeLoad, Undisturbed
  <2>2. ~Served(s)
    BY <2>1 DEF OldGone
  <2>3. ServerBecomes(s, gs[s].up, "online", g, Less(gs[s].loads, g), gs[s].saves, Lost(s))
    BY <1>2, OnLoginIs
  <2>4. Lost(s) = gs[s].lost
    BY <1>p, <2>2 DEF Lost, Served
  <2>5. Served(s)' /\ ~SomeLoad'
    BY <2>3 DEF ServerBecomes, Served, OldGone
  <2>6. /\ \A h \in Gates, t \in Servers :
             gate'[h].up /\ Hears(bc'[h], gate'[h].online, t) => t = s
        /\ bc'[s] = <<>>
    BY <2>1, ToldIs
  <2>7. Undisturbed'
    <3>1. \A t \in Servers : gs'[t].obj = "online" => t = s
      BY <2>5 DEF OneServed, Served
    <3> QED BY <2>5, <2>6, <3>1 DEF Undisturbed, SomeLoad
  <2>8. KnownServed'
    BY <2>5, <2>6 DEF KnownServed
  <2>9. NothingLost'
    BY <2>3, <2>4 DEF NothingLost, ServerBecomes
  <2> QED BY <2>7, <2>8, <2>9
<1>3. ASSUME NEW to \in Gates \cup {None}, gs[s].obj = "online", OnUserOffline(s, to), UNCHANGED <<gate, bc>>
      PROVE  PromptInv'
  <2>1. \A t \in Servers : /\ Served(t)' <=> Served(t)
                           /\ t # s => gs'[t] = gs[t]
                           /\ gs'[t].up = gs[t].up /\ gs'[t].loads = gs[t].loads
                           /\ gs'[t].lost = gs[t].lost
                           /\ t = s => gs'[t].obj = "offline"
    BY <1>3, LeavingIs
  <2>2. Undisturbed'
    BY <1>3, <2>1 DEF Undisturbed
  <2>3. KnownServed' /\ NothingLost'
    BY <1>3, <2>1 DEF KnownServed, NothingLost
  <2> QED BY <2>2, <2>3
<1>4. CASE UNCHANGED <<gs, gate, bc>>
  BY <1>4, QuietPrompt
<1>5. ASSUME NEW to \in Gates \cup {None}, OfflineFinish(s, to) PROVE PromptInv'
  <2>1. gs[s].saves[to] > 0 /\ UNCHANGED gate /\ SendToAll(s, "off")
    BY <1>5 DEF OfflineFinish
  <2>2. Served(s) /\ gs[s].obj # "online" /\ ~SomeLoad
    BY <2>1 DEF Served, OneServed, OldGone
  <2>3. ServerBecomes(s, gs[s].up, "none", None, gs[s].loads, Less(gs[s].saves, to), Lost(s))
    BY <1>5, OfflineFinishIs
  <2>4. \A t \in Servers : /\ gs'[t].obj # "online" /\ gs'[t].loads = gs[t].loads
                           /\ gs'[t].lost = gs[t].lost
    BY <1>p, <2>2, <2>3 DEF ServerBecomes, Lost, Served, OneServed
  <2>5. Undisturbed'
    BY <2>2, <2>4 DEF Undisturbed, SomeLoad
  <2>6. KnownServed'
    BY <2>1, ToldIs DEF KnownServed
  <2>7. NothingLost'
    BY <2>4 DEF NothingLost
  <2> QED BY <2>5, <2>6, <2>7
<1>6. CASE SetRemoteUserOnlineState(s)
  <2>1. bc[s] # <<>> /\ UNCHANGED gate /\ bc' = [bc EXCEPT ![s] = Tail(@)]
    BY <1>6 DEF SetRemoteUserOnlineState
  <2>2. gs[s].obj # "online" /\ \A g \in Gates : ~(gs[s].loads[g] > 0)
    BY <2>1 DEF Undisturbed
  <2>3. ServerBecomes(s, gs[s].up, "none", None, gs[s].loads, gs[s].saves, Lost(s))
    BY <1>6, SetRemoteIs
  <2>4. \A t \in Servers : /\ gs'[t].loads = gs[t].loads /\ gs'[t].lost = gs[t].lost
                           /\ gs'[t].up = gs[t].up
                           /\ (gs'[t].obj = "online") = (gs[t].obj = "online")
                           /\ gs'[t].saves = gs[t].saves
    BY <1>p, <2>2, <2>3 DEF ServerBecomes, Lost
  <2>5. \A r \in Receivers : r # s => bc'[r] = bc[r]
    BY <2>1 DEF TypeOK
  <2>6. Undisturbed'
    <3>1. \A t \in Servers : t \in Receivers
      BY DEF Receivers
    <3> QED BY <2>2, <2>4, <2>5, <3>1 DEF Undisturbed
  <2>7. KnownServed' /\ NothingLost'
    <3>1. \A t \in Servers : Served(t)' <=> Served(t)
      BY <2>4 DEF Served
    <3> QED BY <1>r, <2>1, <2>4, <2>5, <3>1 DEF KnownServed, NothingLost
  <2> QED BY <2>6, <2>7
<1>7. CASE GsCrash(s) \/ GsClose(s)
  <2>1. GsDown(s) /\ UNCHANGED gate
    BY <1>7 DEF GsCrash, GsClose
  <2>2. ServerBecomes(s, FALSE, "none", None, [g \in Gates |-> 0], [g \in Gates \cup {None} |-> 0], gs[s].lost)
    BY <2>1, GsDownIs
  <2>3. /\ \A t \in Servers : t # s => gs'[t] = gs[t]
        /\ ~gs'[s].up /\ gs'[s].obj # "online" /\ gs'[s].lost = gs[s].lost
        /\ \A g \in Gates : gs'[s].loads[g] = 0
    BY <2>2 DEF ServerBecomes
  <2>4. NothingLost'
    BY <2>3 DEF NothingLost
  <2>5. CASE SendToAll(s, "off") /\ gs[s].obj = "online"
    <3>1. Served(s) /\ ~SomeLoad
      BY <2>5 DEF Served, OldGone
    <3>2. \A t \in Servers : gs'[t].obj # "online" /\ \A g \in Gates : ~(gs'[t].loads[g] > 0)
      BY <2>3, <3>1 DEF SomeLoad, Served, OneServed
    <3>3. Undisturbed'
      BY <3>2 DEF Undisturbed
    <3>4. KnownServed'
      BY <2>1, <2>5, ToldIs DEF KnownServed
    <3> QED BY <2>4, <3>3, <3>4
  <2>6. CASE \A r \in Receivers : r # s => bc'[r] = bc[r]
    <3>1. \A t \in Servers : t \in Receivers
      BY DEF Receivers
    <3>2. Undisturbed'
      BY <2>3, <2>6, <3>1 DEF Undisturbed
    <3>3. KnownServed'
      BY <1>r, <2>1, <2>3, <2>6 DEF KnownServed, Served
    <3> QED BY <2>4, <3>2, <3>3
  <2> QED BY <1>7, <2>5, <2>6 DEF GsCrash, GsClose, TypeOK
<1>8. None \in Gates \cup {None} /\ (gs[s].obj = "online" => gs[s].gate \in Gates \cup {None})
  BY DEF OneServed
<1>9. ASSUME NEW g \in Gates, UserOfflineNotify(g, s) PROVE PromptInv'
  BY <1>3, <1>4, <1>8, <1>9 DEF UserOfflineNotify
<1>10. CASE JoinPlayerSceneReq(s) \/ KeepaliveTimeout(s)
  BY <1>3, <1>8, <1>10 DEF JoinPlayerSceneReq, KeepaliveTimeout
<1> QED BY <1>1, <1>2, <1>5, <1>6, <1>7, <1>9, <1>10 DEF ServerNext

\* So does every step.
LEMMA NextPrompt ==
  ASSUME TypeOK, GateInv, GateInv', PromptInv, OnTime', [Next]_vars
  PROVE  PromptInv'
<1>1. ASSUME NEW g \in Gates, SyncBegin(g) \/ SyncEnd(g) PROVE PromptInv'
  <2>1. GateLike /\ UNCHANGED <<gs, bc>>
    BY <1>1, SyncLike DEF OnTime
  <2> QED BY <2>1, QuietPrompt DEF GateLike
<1>2. CASE NodeBroadcast
  <2>1. \A r \in Gates \cup Servers : r \in Receivers /\ r # Node
    BY NamesAssumption DEF Receivers
  <2> QED BY <1>2, <2>1, QuietPrompt DEF NodeBroadcast, TypeOK
<1>3. CASE UNCHANGED vars
  BY <1>3, QuietPrompt DEF vars
<1> QED BY <1>1, <1>2, <1>3, ConnPrompt, GatePrompt, ServerPrompt DEF Next

\* It holds at the start.
LEMMA InitPrompt == Init => PromptInv
<1> SUFFICES ASSUME Init PROVE PromptInv
  OBVIOUS
<1>1. /\ \A s \in Servers : s \in Receivers /\ s # None
      /\ \A g \in Gates : g \in Receivers
  BY NamesAssumption DEF Receivers
<1>2. Undisturbed
  BY <1>1 DEF Init, Undisturbed
<1>3. KnownServed
  BY <1>1 DEF Init, KnownServed, Hears
<1>4. NothingLost
  BY DEF Init, NothingLost
<1> QED BY <1>2, <1>3, <1>4 DEF PromptInv

\* What is proved of a gate's admission while nothing is late either.
PromptIInv == TypeOK /\ GateInv /\ PromptInv
\* A step on time keeps it,
LEMMA PromptNext ==
  ASSUME OnTime', PromptIInv, [Next]_vars PROVE PromptIInv'
<1>1. TypeOK' /\ GateInv'
  BY NextType, NextInv DEF PromptIInv, OnTime
<1> QED BY <1>1, NextPrompt DEF PromptIInv
\* and so it holds for as long as there has been no mishap.
LEMMA PromptHolds == Spec => [](TypeOK /\ (OnTime => PromptIInv))
<1>1. Init => TypeOK /\ (OnTime => PromptIInv)
  BY InitType, InitInv, InitPrompt DEF PromptIInv
<1>2. TypeOK /\ (OnTime => PromptIInv) /\ [Next]_vars => TypeOK' /\ (OnTime => PromptIInv)'
  BY NextType, PromptNext, OrderKept
<1> QED BY <1>1, <1>2, PTL DEF Spec

\* No game server throws away a player that is online, until there has been a mishap: an
\* offline broadcast of the server a player has left that comes late is one.
THEOREM SessionKept == Spec => []NoSessionLost
<1>1. (OnTime => PromptIInv) => NoSessionLost
  BY DEF PromptIInv, PromptInv, NothingLost, NoSessionLost
<1> QED BY <1>1, PromptHolds, PTL

\* A player's move to another game server is admitted once, late broadcasts or not, and loses
\* nothing unless there is one.
THEOREM MoveCorrect == Spec => []MoveHolds
<1>1. AdmissionTyped /\ NoSessionLost => MoveHolds
  BY DEF AdmissionTyped, MoveHolds
<1> QED BY <1>1, AdmissionCorrect, SessionKept, PTL

\* When nothing about the player is on its way, the online map of every gate names the server
\* that has it, and no other, refreshed or not, as long as no refresh was out of date.
THEOREM MapsCorrect == Spec => []MapsAgree
<1>1. (OnTime => PromptIInv) => MapsAgree
  <2> SUFFICES ASSUME PromptIInv, Quiet, NEW g \in Gates, NEW s \in Servers, Up(g), Up(s)
               PROVE  gate[g].online = s <=> gs[s].obj = "online"
    BY DEF MapsAgree
  <2>1. gate[g].up /\ gs[s].up
    BY NamesAssumption DEF Up
  <2>2. Hears(bc[g], gate[g].online, s) <=> gate[g].online = s
    BY DEF Quiet, Receivers, Hears
  <2>3. Served(s) <=> gs[s].obj = "online"
    BY DEF Quiet, Served
  <2>4. Served(s) <=> Hears(bc[g], gate[g].online, s)
    BY <2>1 DEF PromptIInv, GateInv, Admission, PromptInv, Told, KnownServed
  <2> QED BY <2>2, <2>3, <2>4
<1> QED BY <1>1, PromptHolds, PTL

-----------------------------------------------------------------------------
(* The refinement of PlayerSession.                                        *)

\* The session PlayerSession sees: where it is, and how far.
StageSeen == IF At = None THEN "free" ELSE Stage(At)
UpSet == {s \in Servers : Up(s)}
\* A busy server is where the session is; with none busy there is no session.
LEMMA AtNow ==
  ASSUME OneAdmitted
  PROVE  /\ \A s \in Servers : Busy(s) => At = s /\ StageSeen = Stage(s)
         /\ (\A s \in Servers : ~Busy(s)) => At = None /\ StageSeen = "free"
<1>1. ASSUME NEW s \in Servers, Busy(s) PROVE At = s
  <2>1. At \in Servers /\ Busy(At)
    BY <1>1 DEF At
  <2> QED BY <1>1, <2>1 DEF OneAdmitted
<1>2. \A s \in Servers : s # None
  BY NamesAssumption
<1> QED BY <1>1, <1>2 DEF At, StageSeen
\* The same after a step.
LEMMA AtNext ==
  ASSUME OneAdmitted'
  PROVE  /\ \A s \in Servers : Busy(s)' => At' = s /\ StageSeen' = Stage(s)'
         /\ (\A s \in Servers : ~Busy(s)') => At' = None /\ StageSeen' = "free"
<1>1. ASSUME NEW s \in Servers, Busy(s)' PROVE At' = s
  <2>1. \E t \in Servers : Busy(t)'
    BY <1>1
  <2>2. At' = CHOOSE t \in Servers : Busy(t)'
    BY <2>1 DEF At
  <2>3. At' \in Servers /\ (Busy(At))'
    BY <2>1 DEF At
  <2> QED BY <1>1, <2>3 DEF OneAdmitted
<1>2. \A s \in Servers : s # None
  BY NamesAssumption
<1> QED BY <1>1, <1>2 DEF At, StageSeen

\* How a step looks to PlayerSession.
SessionMoves(from, to) == StageSeen = from /\ StageSeen' = to /\ UpSet' = UpSet
\* Such a step is one of PlayerSession.
LEMMA StepIs ==
  ASSUME NEW from, NEW to, SessionMoves(from, to) PROVE Session!Step("player", from, to)
BY DEF SessionMoves, Session!Step, StageSeen, UpSet
\* PlayerLoginReq of a free player is its login.
LEMMA LoginSeen ==
  ASSUME NEW s \in Servers, Up(s), SessionMoves("free", "loading"), At' = s PROVE Session!Next
<1>1. Session!Step("player", "free", "loading")
  BY StepIs
<1>2. Session!Login("player", s)
  BY <1>1 DEF Session!Login
<1> QED BY <1>2 DEF Session!Next
\* OnLogin is its going online.
LEMMA OnlineSeen == ASSUME SessionMoves("loading", "online"), At' = At PROVE Session!Next
<1>1. Session!Step("player", "loading", "online")
  BY StepIs
<1>2. Session!Online("player")
  BY <1>1 DEF Session!Online
<1> QED BY <1>2 DEF Session!Next
\* OnUserOffline is its going offline.
LEMMA OfflineSeen == ASSUME SessionMoves("online", "saving"), At' = At PROVE Session!Next
<1>1. Session!Step("player", "online", "saving")
  BY StepIs
<1>2. Session!Offline("player")
  BY <1>1 DEF Session!Offline
<1> QED BY <1>2 DEF Session!Next
\* The end of the save is its leaving.
LEMMA LeaveSeen == ASSUME SessionMoves("saving", "free"), At' = None PROVE Session!Next
<1>1. Session!Step("player", "saving", "free")
  BY StepIs
<1>2. Session!Leave("player")
  BY <1>1 DEF Session!Leave
<1> QED BY <1>2 DEF Session!Next
\* The end of a server is a stop.
LEMMA StopSeen ==
  ASSUME NEW s \in Servers, Up(s), UpSet' = UpSet \ {s},
         At' = IF At = s THEN None ELSE At,
         StageSeen' = IF At = s THEN "free" ELSE StageSeen
  PROVE  Session!Next
<1>1. Session!Stop(s)
  BY DEF Session!Stop, StageSeen, UpSet
<1> QED BY <1>1 DEF Session!Next
\* A step that moves none of the three is not seen.
LEMMA NothingSeen ==
  ASSUME At' = At, StageSeen' = StageSeen, UpSet' = UpSet PROVE UNCHANGED Session!svars
BY DEF Session!svars, StageSeen, UpSet

\* A step that changes no server's business is not seen.
LEMMA SameSeen ==
  ASSUME OneAdmitted, OneAdmitted',
         \A s \in Servers : /\ gs'[s].up = gs[s].up
                            /\ Busy(s)' <=> Busy(s)
                            /\ Busy(s) => Stage(s)' = Stage(s)
  PROVE  UNCHANGED Session!svars
<1>1. UpSet' = UpSet
  BY NamesAssumption DEF UpSet, Up
<1>2. At' = At /\ StageSeen' = StageSeen
  <2>1. CASE \E s \in Servers : Busy(s)
    BY <2>1, AtNow, AtNext
  <2>2. CASE \A s \in Servers : ~Busy(s)
    BY <2>2, AtNow, AtNext
  <2> QED BY <2>1, <2>2
<1> QED BY <1>1, <1>2, NothingSeen

\* The servers a step leaves alone go on as they did.
LEMMA OtherServer ==
  ASSUME NEW s \in Servers, gs'[s] = gs[s]
  PROVE  /\ Busy(s)' <=> Busy(s)
         /\ Stage(s)' = Stage(s)
BY DEF Busy, Stage

\* The steps of a game server are those of PlayerSession, or not seen.
LEMMA ServerSeen ==
  ASSUME PromptIInv, PromptIInv', NEW s \in Servers, ServerNext(s)
  PROVE  Session!Next \/ UNCHANGED Session!svars
<1> USE DEF PromptIInv, GateInv, Admission, PromptInv
<1>a. OneAdmitted /\ OneAdmitted'
  <2>1. (TypeOK /\ GateInv) /\ (TypeOK' /\ GateInv')
    BY DEF PromptIInv
  <2> QED BY <2>1, InvAdmits, InvAdmitsNext
<1>p. \A t \in Servers : /\ gs[t].loads \in [Gates -> Nat] /\ gs[t].saves \in [Gates \cup {None} -> Nat]
                         /\ gs[t].up \in BOOLEAN
  BY ServerParts
<1>u. \A t \in Servers : (Up(t) <=> gs[t].up) /\ (Up(t)' <=> gs'[t].up)
  BY NamesAssumption DEF Up
<1>1. ASSUME NEW g \in Gates, PlayerLoginReq(g, s) PROVE Session!Next
  <2>1. /\ \A t \in Servers : t # s => gs'[t] = gs[t]
        /\ gs'[s].up = gs[s].up /\ gs'[s].loads = More(gs[s].loads, g)
    BY <1>1, PlayerLoginReqIs DEF ServerBecomes
  <2>2. SomeRequest /\ gs[s].up
    <3>1. toGs[g][s] \in Seq({"login", "offline"}) /\ toGs[g][s] # <<>> /\ Head(toGs[g][s]) = "login"
      BY <1>1 DEF PlayerLoginReq, GsMsg, TypeOK
    <3> QED BY <3>1, HasTail DEF SomeRequest, Ended
  <2>3. \A t \in Servers : ~Busy(t)
    BY <2>2 DEF OldGone, OneLogin, OneForm, SomeLoad, Busy, Served
  <2>4. Busy(s)' /\ Stage(s)' = "loading"
    <3>1. gs'[s].loads[g] > 0
      BY <1>p, <2>1, MoreLess
    <3> QED BY <3>1 DEF Busy, Stage
  <2>5. StageSeen = "free" /\ StageSeen' = "loading" /\ At' = s
    BY <1>a, <2>3, <2>4, AtNow, AtNext
  <2>6. UpSet' = UpSet
    BY <1>u, <2>1 DEF UpSet
  <2> QED BY <1>u, <2>2, <2>5, <2>6, LoginSeen DEF SessionMoves
<1>2. ASSUME NEW g \in Gates, OnLogin(g, s) PROVE Session!Next
  <2>1. /\ \A t \in Servers : t # s => gs'[t] = gs[t]
        /\ gs'[s].up = gs[s].up /\ gs'[s].obj = "online"
    BY <1>2, OnLoginIs DEF ServerBecomes
  <2>2. gs[s].loads[g] > 0
    BY <1>2 DEF OnLogin
  <2>3. Busy(s) /\ Stage(s) = "loading"
    BY <2>2 DEF Busy, Stage
  <2>4. Busy(s)' /\ Stage(s)' = "online"
    <3>1. Served(s)'
      BY <2>1 DEF Served
    <3>2. \A h \in Gates : ~(gs'[s].loads[h] > 0)
      BY <3>1 DEF OldGone, SomeLoad
    <3>3. \A to \in Gates \cup {None} : ~(gs'[s].saves[to] > 0)
      BY <2>1 DEF OneServed
    <3> QED BY <2>1, <3>2, <3>3 DEF Busy, Stage
  <2>5. StageSeen = "loading" /\ StageSeen' = "online" /\ At' = At
    BY <1>a, <2>3, <2>4, AtNow, AtNext
  <2>6. UpSet' = UpSet
    BY <1>u, <2>1 DEF UpSet
  <2> QED BY <2>5, <2>6, OnlineSeen DEF SessionMoves
<1>3. ASSUME NEW to \in Gates \cup {None}, gs[s].obj = "online", OnUserOffline(s, to) PROVE Session!Next
  <2>1. \A t \in Servers : /\ t # s => gs'[t] = gs[t]
                           /\ gs'[t].up = gs[t].up /\ gs'[t].loads = gs[t].loads
                           /\ t = s => gs'[t].saves[to] = 1
    BY <1>3, LeavingIs
  <2>2. \A h \in Gates : ~(gs[s].loads[h] > 0)
    BY <1>3 DEF OldGone, SomeLoad, Served
  <2>3. Busy(s) /\ Stage(s) = "online"
    BY <1>3, <2>2 DEF Busy, Stage, OneServed
  <2>4. Busy(s)' /\ Stage(s)' = "saving"
    <3>1. gs'[s].saves[to] > 0 /\ \A h \in Gates : ~(gs'[s].loads[h] > 0)
      BY <2>1, <2>2
    <3> QED BY <3>1 DEF Busy, Stage
  <2>5. StageSeen = "online" /\ StageSeen' = "saving" /\ At' = At
    BY <1>a, <2>3, <2>4, AtNow, AtNext
  <2>6. UpSet' = UpSet
    BY <1>u, <2>1 DEF UpSet
  <2> QED BY <2>5, <2>6, OfflineSeen DEF SessionMoves
<1>4. CASE UNCHANGED gs
  BY <1>4, <1>a, OtherServer, SameSeen
<1>5. ASSUME NEW to \in Gates \cup {None}, OfflineFinish(s, to) PROVE Session!Next
  <2>1. /\ \A t \in Servers : t # s => gs'[t] = gs[t]
        /\ gs'[s].up = gs[s].up /\ gs'[s].obj = "none" /\ gs'[s].loads = gs[s].loads
        /\ gs'[s].saves = Less(gs[s].saves, to)
    BY <1>5, OfflineFinishIs DEF ServerBecomes
  <2>2. gs[s].saves[to] > 0 /\ Served(s)
    BY <1>5 DEF OfflineFinish, Served
  <2>3. \A t \in Servers, h \in Gates : ~(gs[t].loads[h] > 0)
    BY <2>2 DEF OldGone, SomeLoad
  <2>4. Busy(s) /\ Stage(s) = "saving"
    BY <2>2, <2>3 DEF Busy, Stage
  <2>5. \A o \in Gates \cup {None} : gs'[s].saves[o] = 0
    <3>1. \A o \in Gates \cup {None} : gs[s].saves[o] = IF o = to THEN 1 ELSE 0
      BY <1>p, <2>2 DEF OneServed
    <3>2. /\ Less(gs[s].saves, to)[to] = gs[s].saves[to] - 1
          /\ \A o \in Gates \cup {None} : o # to => Less(gs[s].saves, to)[o] = gs[s].saves[o]
      BY <1>p, <2>2, MoreLess
    <3> QED BY <2>1, <3>1, <3>2
  <2>6. \A t \in Servers : ~Served(t)'
    BY <2>1, <2>2, <2>5, GoneIs
  <2>7. \A t \in Servers : ~Busy(t)'
    BY <2>1, <2>3, <2>6 DEF Busy, Served
  <2>8. StageSeen = "saving" /\ StageSeen' = "free" /\ At' = None
    BY <1>a, <2>4, <2>7, AtNow, AtNext
  <2>9. UpSet' = UpSet
    BY <1>u, <2>1 DEF UpSet
  <2> QED BY <2>8, <2>9, LeaveSeen DEF SessionMoves
<1>6. CASE SetRemoteUserOnlineState(s)
  <2>1. \A t \in Servers : /\ gs'[t].loads = gs[t].loads /\ gs'[t].up = gs[t].up
                           /\ gs'[t].saves = gs[t].saves /\ (t # s => gs'[t] = gs[t])
                           /\ t = s => gs'[t].obj = "none"
    BY <1>6, SetRemoteIs DEF ServerBecomes
  <2>2. gs[s].obj # "online"
    BY <1>6 DEF SetRemoteUserOnlineState, Undisturbed
  <2>3. \A t \in Servers : (Busy(t)' <=> Busy(t)) /\ Stage(t)' = Stage(t)
    BY <2>1, <2>2 DEF Busy, Stage
  <2> QED BY <1>a, <2>1, <2>3, SameSeen
<1>7. CASE GsCrash(s) \/ GsClose(s)
  <2>1. GsDown(s) /\ Up(s)
    BY <1>7 DEF GsCrash, GsClose
  <2>2. ServerBecomes(s, FALSE, "none", None, [g \in Gates |-> 0], [g \in Gates \cup {None} |-> 0], gs[s].lost)
    BY <2>1, GsDownIs
  <2>3. /\ \A t \in Servers : t # s => gs'[t] = gs[t]
        /\ ~gs'[s].up /\ gs'[s].obj # "online"
        /\ \A g \in Gates : gs'[s].loads[g] = 0
        /\ \A to \in Gates \cup {None} : gs'[s].saves[to] = 0
    BY <2>2 DEF ServerBecomes
  <2>4. ~Busy(s)'
    BY <2>3 DEF Busy
  <2>5. UpSet' = UpSet \ {s}
    BY <1>u, <2>3 DEF UpSet
  <2>6. \A t \in Servers : t # s => (Busy(t)' <=> Busy(t)) /\ Stage(t)' = Stage(t)
    BY <2>3, OtherServer
  <2>7. /\ At' = IF At = s THEN None ELSE At
        /\ StageSeen' = IF At = s THEN "free" ELSE StageSeen
    <3>1. CASE \E t \in Servers : t # s /\ Busy(t)
      BY <1>a, <2>6, <3>1, AtNow, AtNext
    <3>2. CASE \A t \in Servers : t # s => ~Busy(t)
      <4>1. At' = None /\ StageSeen' = "free"
        BY <1>a, <2>4, <2>6, <3>2, AtNext
      <4>2. CASE Busy(s)
        BY <1>a, <4>1, <4>2, AtNow
      <4>3. CASE ~Busy(s)
        BY <1>a, <3>2, <4>1, <4>3, AtNow
      <4> QED BY <4>2, <4>3
    <3> QED BY <3>1, <3>2
  <2> QED BY <2>1, <2>5, <2>7, StopSeen
<1>8. None \in Gates \cup {None} /\ (gs[s].obj = "online" => gs[s].gate \in Gates \cup {None})
  BY DEF OneServed
<1>9. ASSUME NEW g \in Gates, UserOfflineNotify(g, s) PROVE Session!Next \/ UNCHANGED Session!svars
  BY <1>3, <1>4, <1>8, <1>9 DEF UserOfflineNotify
<1>10. CASE JoinPlayerSceneReq(s) \/ KeepaliveTimeout(s)
  BY <1>3, <1>8, <1>10 DEF JoinPlayerSceneReq, KeepaliveTimeout
<1> QED BY <1>1, <1>2, <1>5, <1>6, <1>7, <1>9, <1>10 DEF ServerNext

\* No other step is seen: the gates and the node move nobody.
LEMMA OthersUnseen ==
  ASSUME OneAdmitted, OneAdmitted', UNCHANGED gs PROVE UNCHANGED Session!svars
BY OtherServer, SameSeen
\* Every other step of the system is one of a connection or a gate.
LEMMA GsLeftAlone ==
  ASSUME [Next]_vars, \A s \in Servers : ~ServerNext(s) PROVE UNCHANGED gs
<1>1. ASSUME NEW c \in Conns, TokenNext(c) PROVE UNCHANGED gs
  BY <1>1 DEF TokenNext, TokenReq, TokenRefuse, TokenCheck, RegTimeout, TokenKick, TokenAwake,
              TokenTimeout, TokenBind, TokenServer
<1>2. ASSUME NEW c \in Conns, NEW g \in Gates, Accept(c, g) \/ ForceClose(g, c) PROVE UNCHANGED gs
  BY <1>2 DEF Accept, ForceClose
<1>3. ASSUME NEW c \in Conns, LoginReq(c) \/ ForceExitReq(c) \/ CloseNext(c) PROVE UNCHANGED gs
  BY <1>3 DEF LoginReq, ForceExitReq, CloseNext, RecvClose, SendClose, CloseEnd
<1>4. ASSUME NEW g \in Gates, HandleNext(g) \/ SyncBegin(g) \/ SyncEnd(g) \/ GateCrash(g) PROVE UNCHANGED gs
  BY <1>4 DEF HandleNext, CreateHandle, DestroyHandle, RegHandle, GateBroadcast, SyncBegin, SyncEnd,
              GateCrash
<1>5. ASSUME NEW g \in Gates, NEW s \in Servers, LoginRsp(s, g) \/ KickNotify(s, g) \/ GsChange(s, g)
      PROVE  UNCHANGED gs
  BY <1>5 DEF LoginRsp, KickNotify, GsChange
<1>6. CASE NodeBroadcast \/ UNCHANGED vars
  BY <1>6 DEF NodeBroadcast, vars
<1> QED BY <1>1, <1>2, <1>3, <1>4, <1>5, <1>6 DEF Next

\* At the start every server runs and nobody has a session.
LEMMA InitSeen == Init => Session!Init
<1> SUFFICES ASSUME Init PROVE Session!Init
  OBVIOUS
<1>1. \A s \in Servers : Up(s) /\ ~Busy(s)
  BY NamesAssumption DEF Init, Up, Busy
<1>2. At = None
  BY <1>1 DEF At
<1> QED BY <1>1, <1>2 DEF Session!Init

\* The gates and game servers together implement PlayerSession for as long as there is no
\* mishap: OnlineUser, OnLogin, OnUserOffline and the end of a logout take the player through
\* one session at a time, over all servers, and only the end of a server's process cuts it
\* short.
THEOREM SessionRefined == Spec => OneSession
<1>1. Init => Session!Init
  BY InitSeen
<1>2. TypeOK /\ (OnTime => PromptIInv) /\ [Next]_vars => [OnTime' => Session!Next]_(Session!svars)
  <2> SUFFICES ASSUME TypeOK, OnTime => PromptIInv, [Next]_vars, OnTime'
               PROVE  Session!Next \/ UNCHANGED Session!svars
    OBVIOUS
  <2>1. PromptIInv /\ PromptIInv'
    BY PromptNext, OrderKept
  <2>2. OneAdmitted /\ OneAdmitted'
    BY <2>1, InvAdmits, InvAdmitsNext DEF PromptIInv
  <2> QED BY <2>1, <2>2, ServerSeen, OthersUnseen, GsLeftAlone
<1> QED BY <1>1, <1>2, PromptHolds, PTL DEF Spec, OneSession
=============================================================================
