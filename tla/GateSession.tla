----------------------------- MODULE GateSession -----------------------------
(***************************************************************************)
(* One player's connections to the gates (gate/net), the sessions the game *)
(* servers hold for them (gs/game), and the global online map that the     *)
(* gates and the node keep from the servers' broadcasts: token request,    *)
(* interrupt login, login, closing, logging out, moving to another server. *)
(*                                                                         *)
(* Goroutines of a gate: a receiver and a sender per connection (the       *)
(* receiver is inside getPlayerToken for all of a token request), the      *)
(* event handler, and sendMsgHandle, which picks at random among new and   *)
(* destroyed sessions, registrations and messages of other servers.        *)
(*                                                                         *)
(* Messages from one server to another go over TCP, in order (toGs,        *)
(* toGate).  Broadcasts go through the NATS server, which gives all        *)
(* receivers the same order (bc), and are unordered with the TCP messages. *)
(* A server that has stopped never comes back: a new process has a new     *)
(* appid, and would be another member of Servers or Gates.                 *)
(***************************************************************************)
EXTENDS Integers, Sequences, FiniteSets

CONSTANTS
  Conns,       \* connections the player's clients open, each once
  Gates,       \* gate servers
  Servers,     \* game servers
  Node,        \* the node server
  None,        \* no server, no connection
  MaxMoves,    \* bound: moves to another game server
  MaxStops,    \* bound: game servers that crash or close
  MaxGateStops,\* bound: gates that crash
  MaxFails,    \* bound: connections whose token request fails
  MaxRaces,    \* bound: closes that read connState before another wrote it
  MaxSyncs,    \* bound: refreshes of the gates' online maps from the node
  Steady,      \* whether refreshes go on beyond it, as in the code
  Mishaps      \* bound: which mishaps a run explores; the code excludes none

ASSUME BoundsAssumption ==
  /\ MaxMoves \in Nat
  /\ MaxStops \in Nat
  /\ MaxGateStops \in Nat
  /\ MaxFails \in Nat
  /\ MaxRaces \in Nat
  /\ MaxSyncs \in Nat
  /\ Steady \in BOOLEAN
ASSUME MishapsAssumption == Mishaps \subseteq {"overlap", "late", "refresh"}
ASSUME NamesAssumption ==
  /\ None \notin Conns \cup Gates \cup Servers \cup {Node}
  /\ Node \notin Gates \cup Servers
  /\ Gates \cap Servers = {}

VARIABLES
  conn,    \* Session: the state of each connection and of its goroutines
  gate,    \* KcpConnectManager and sendMsgHandle's own maps, of each gate
  gs,      \* what each game server holds of the player
  toGs,    \* TCP messages from a gate to a game server
  toGate,  \* TCP messages from a game server to a gate
  bc,      \* broadcasts not yet received, by receiver
  node,    \* the node's global online map: the player's server, or None
  used     \* bounded events used so far; ghost: the mishaps there have been

vars == <<conn, gate, gs, toGs, toGate, bc, node, used>>

Receivers == Gates \cup Servers \cup {Node}
Closers == {"recv", "event", "send"}
Events == {"move", "stop", "gatestop", "race", "sync", "overlap", "late", "refresh"}
OnlineAt == Servers \cup {None}

\* tok is where getPlayerToken is, life whether conn.Close() was called and
\* then kcpRawSendChan closed, recv and send whether recvHandle and sendHandle
\* may still close the connection, closing who is inside closeKcpConn.
ConnType == [gate: Gates \cup {None},
             state: {"none", "est", "wait", "active", "close"},
             tok: {"none", "check", "reg", "kick", "wait", "bind", "server", "done", "fail"},
             gs: OnlineAt, bound: BOOLEAN, asked: BOOLEAN, awake: BOOLEAN,
             life: {"open", "shut", "gone"}, recv: BOOLEAN, send: BOOLEAN,
             closing: SUBSET Closers]
\* sconv, suser: sessionConvIdMap, sessionUserIdMap.  conv, user:
\* sendMsgHandle's maps.  snap: the answer of a refresh, while it is pending.
GateType == [up: BOOLEAN, online: OnlineAt,
             sconv: SUBSET Conns, suser: Conns \cup {None},
             conv: SUBSET Conns, user: Conns \cup {None},
             create: Seq(Conns), destroy: Seq(Conns), regQ: Seq(Conns),
             reg: Conns \cup {None}, force: SUBSET Conns,
             syncing: BOOLEAN, snap: OnlineAt]
\* obj: no object in playerMap, or one with that Online.  loads: login
\* goroutines by gate.  saves: logout goroutines, by the gate of the client
\* that moves, or None.  lost: ghost, an online object was thrown away.
ServerType == [up: BOOLEAN, obj: {"none", "online", "offline"}, gate: Gates \cup {None},
               loads: [Gates -> Nat], saves: [Gates \cup {None} -> Nat], lost: BOOLEAN]
GateMsgType == [kind: {"rsp", "kick", "change"}, to: OnlineAt]
BroadcastType == [kind: {"on", "off"}, from: Servers] \cup [kind: {"kick"}, from: Gates]

TypeOK ==
  /\ conn \in [Conns -> ConnType]
  /\ gate \in [Gates -> GateType]
  /\ gs \in [Servers -> ServerType]
  /\ toGs \in [Gates -> [Servers -> Seq({"login", "offline"})]]
  /\ toGate \in [Servers -> [Gates -> Seq(GateMsgType)]]
  /\ bc \in [Receivers -> Seq(BroadcastType)]
  /\ node \in OnlineAt
  /\ used \in [Events -> Nat]

Init ==
  /\ conn = [c \in Conns |->
       [gate |-> None, state |-> "none", tok |-> "none", gs |-> None, bound |-> FALSE,
        asked |-> FALSE, awake |-> FALSE, life |-> "open", recv |-> TRUE, send |-> TRUE,
        closing |-> {}]]
  /\ gate = [g \in Gates |->
       [up |-> TRUE, online |-> None, sconv |-> {}, suser |-> None,
        conv |-> {}, user |-> None, create |-> <<>>, destroy |-> <<>>, regQ |-> <<>>,
        reg |-> None, force |-> {}, syncing |-> FALSE, snap |-> None]]
  /\ gs = [s \in Servers |->
       [up |-> TRUE, obj |-> "none", gate |-> None, loads |-> [g \in Gates |-> 0],
        saves |-> [g \in Gates \cup {None} |-> 0], lost |-> FALSE]]
  /\ toGs = [g \in Gates |-> [s \in Servers |-> <<>>]]
  /\ toGate = [s \in Servers |-> [g \in Gates |-> <<>>]]
  /\ bc = [r \in Receivers |-> <<>>]
  /\ node = None
  /\ used = [e \in Events |-> 0]

Bound(e) == CASE e = "move"     -> MaxMoves
              [] e = "stop"     -> MaxStops
              [] e = "gatestop" -> MaxGateStops
              [] e = "race"     -> MaxRaces
              [] e = "sync"     -> MaxSyncs
Use(e) == used[e] < Bound(e) /\ used' = [used EXCEPT ![e] = @ + 1]

\* What nothing in the code prevents, and what the properties name when they
\* do not hold after it: "overlap", a login or a move starts while a login is
\* under way; "late", a game server takes a login before a broadcast sent
\* earlier; "refresh", the node's answer changes what a gate's map says.
Mishap(e, happens) ==
  /\ happens => e \in Mishaps
  /\ used' = [used EXCEPT ![e] = IF happens THEN 1 ELSE @]

Up(r) == IF r \in Gates THEN gate[r].up ELSE IF r \in Servers THEN gs[r].up ELSE r = Node

\* A message to a server that is not there goes nowhere.
SendToGs(g, s, m) ==
  toGs' = IF s \in Servers /\ Up(s) THEN [toGs EXCEPT ![g][s] = Append(@, m)] ELSE toGs
SendToGate(s, g, kind, to) ==
  toGate' = IF g \in Gates /\ Up(g)
            THEN [toGate EXCEPT ![s][g] = Append(@, [kind |-> kind, to |-> to])] ELSE toGate
\* Who acts on a broadcast: only the gates on a kick; a game server keeps the
\* others' players in a map for other purposes, but acts on the offline ones.
Heeds(r, kind) ==
  \/ r \in Gates
  \/ r \in Servers /\ kind = "off"
  \/ r = Node /\ (Steady \/ MaxSyncs > 0) /\ kind # "kick"
\* SendToAll: every server but the sender gets it.
SendToAll(from, kind) ==
  bc' = [r \in Receivers |->
          IF r # from /\ Up(r) /\ Heeds(r, kind)
          THEN Append(bc[r], [kind |-> kind, from |-> from]) ELSE bc[r]]

-----------------------------------------------------------------------------
(* A connection on its gate: kcp_connect_manager.go.                       *)

\* acceptHandle
Accept(c, g) ==
  /\ conn[c].state = "none"
  /\ Up(g)
  /\ conn' = [conn EXCEPT ![c].gate = g, ![c].state = "est"]
  /\ UNCHANGED <<gate, gs, toGs, toGate, bc, node, used>>

\* closeKcpConn up to the offline notice: connState, DeleteSession (which
\* deletes the player's entry whichever connection it names), conn.Close().
CloseBegin(c, who) ==
  LET g == conn[c].gate IN
  /\ conn' = [conn EXCEPT ![c] = [conn[c] EXCEPT !.state = "close", !.closing = @ \cup {who},
                                                 !.life = IF @ = "open" THEN "shut" ELSE @,
                                                 !.recv = @ /\ who # "recv",
                                                 !.send = @ /\ who # "send"]]
  /\ gate' = [gate EXCEPT ![g] = [gate[g] EXCEPT !.sconv = @ \ {c},
                                                 !.suser = IF conn[c].bound THEN None ELSE @,
                                                 !.force = IF who = "event" THEN @ \ {c} ELSE @]]
  /\ SendToGs(g, conn[c].gs, "offline")

\* connState is read and written without a lock: two closers may both pass.
MayClose(c) ==
  \/ conn[c].state # "close" /\ UNCHANGED used
  \/ conn[c].closing # {} /\ Use("race")

\* The rest of closeKcpConn.
CloseEnd(c, who) ==
  /\ who \in conn[c].closing
  /\ conn' = [conn EXCEPT ![c].closing = @ \ {who}]
  /\ gate' = [gate EXCEPT ![conn[c].gate].destroy = Append(@, c)]
  /\ UNCHANGED <<gs, toGs, toGate, bc, node, used>>

InToken(c) == conn[c].tok \notin {"none", "done", "fail"}

\* recvHandle: the client is gone, or the connection was closed.  (When it was
\* closed by another goroutine closeKcpConn returns at once.)
RecvClose(c) ==
  /\ conn[c].state # "none" /\ conn[c].recv /\ ~InToken(c)
  /\ MayClose(c)
  /\ CloseBegin(c, "recv")
  /\ UNCHANGED <<gs, toGate, bc, node>>

\* sendHandle: the write on a closed connection failed, or the channel was
\* closed.
SendClose(c) ==
  /\ conn[c].life # "open" /\ conn[c].send
  /\ MayClose(c)
  /\ CloseBegin(c, "send")
  /\ UNCHANGED <<gs, toGate, bc, node>>

\* eventHandle: forceCloseKcpConn, which finds nothing before SetSession.
ForceClose(g, c) ==
  /\ c \in gate[g].force
  /\ \A d \in Conns : conn[d].gate = g => "event" \notin conn[d].closing
  /\ \/ c \in gate[g].sconv /\ MayClose(c) /\ CloseBegin(c, "event")
     \/ /\ c \notin gate[g].sconv \/ conn[c].state = "close"
        /\ gate' = [gate EXCEPT ![g].force = @ \ {c}]
        /\ UNCHANGED <<conn, toGs, used>>
  /\ UNCHANGED <<gs, toGate, bc, node>>

-----------------------------------------------------------------------------
(* getPlayerToken, step by step: session.go.                               *)

MayFail == Cardinality({d \in Conns : conn[d].tok = "fail"}) < MaxFails
TokenStep(c, from, to) ==
  /\ conn[c].tok = from
  /\ Up(conn[c].gate)
  /\ to = "fail" => MayFail
  /\ conn' = [conn EXCEPT ![c].tok = to]

\* GetPlayerTokenReq is heeded once.
TokenReq(c) ==
  /\ conn[c].recv /\ conn[c].state = "est"
  /\ conn' = [conn EXCEPT ![c].tok = "check", ![c].state = "wait"]
  /\ UNCHANGED <<gate, gs, toGs, toGate, bc, node, used>>

\* The token is refused, the player forbidden or the gate full: the recv loop
\* goes on with an unbound session.
TokenRefuse(c) ==
  /\ TokenStep(c, "check", "fail")
  /\ UNCHANGED <<gate, gs, toGs, toGate, bc, node, used>>

\* A login of the player is under way: from its look at the online map until
\* the gates have heard of its outcome.
UnderWay ==
  \/ \E d \in Conns : conn[d].tok \in {"reg", "kick", "wait", "bind", "server"}
  \/ \E d \in Conns : conn[d].bound /\ conn[d].state = "wait"
  \/ \E s \in Servers, g \in Gates :
       \/ gs[s].loads[g] > 0 \/ gs[s].saves[g] > 0
       \/ \E i \in DOMAIN toGs[g][s] : toGs[g][s][i] = "login"
       \/ \E i \in DOMAIN toGate[s][g] : toGate[s][g][i].kind = "change"
  \/ \E g \in Gates : \E i \in DOMAIN bc[g] : bc[g][i].kind = "on"

TokenCheck(c) ==
  /\ TokenStep(c, "check", IF gate[conn[c].gate].online = None THEN "bind" ELSE "reg")
  /\ Mishap("overlap", UnderWay)
  /\ gate' = [gate EXCEPT ![conn[c].gate].regQ =
                IF gate[conn[c].gate].online = None THEN @ ELSE Append(@, c)]
  /\ UNCHANGED <<gs, toGs, toGate, bc, node>>

\* One second without an answer to the registration, which stays queued.
RegTimeout(c) ==
  /\ TokenStep(c, "reg", "fail")
  /\ gate' = [gate EXCEPT ![conn[c].gate].force = @ \cup {c}]
  /\ UNCHANGED <<gs, toGs, toGate, bc, node, used>>

\* Mutant: the old session is told to go and not waited for.
TokenKickNoWait(c) ==
  /\ TokenStep(c, "kick", "bind")
  /\ UNCHANGED <<gate, gs, toGs, toGate, bc, node, used>>

\* The player's other session is on this gate, or else on any other.
TokenKick(c) ==
  LET g == conn[c].gate IN
  /\ TokenStep(c, "kick", "wait")
  /\ IF gate[g].suser # None
     THEN /\ gate' = [gate EXCEPT ![g].force = @ \cup {gate[g].suser}]
          /\ UNCHANGED bc
     ELSE SendToAll(g, "kick") /\ UNCHANGED gate
  /\ UNCHANGED <<gs, toGs, toGate, node, used>>

TokenAwake(c) ==
  /\ conn[c].awake
  /\ conn[c].tok = "wait"
  /\ conn' = [conn EXCEPT ![c].tok = "bind", ![c].awake = FALSE]
  /\ UNCHANGED <<gate, gs, toGs, toGate, bc, node, used>>

\* Mutant: the login goes on when its ten seconds are over.
TokenTimeoutGoesOn(c) ==
  /\ TokenStep(c, "wait", "bind")
  /\ UNCHANGED <<gate, gs, toGs, toGate, bc, node, used>>

\* Ten seconds without the offline broadcast.
TokenTimeout(c) ==
  /\ TokenStep(c, "wait", "fail")
  /\ gate' = [gate EXCEPT ![conn[c].gate].force = @ \cup {c}]
  /\ UNCHANGED <<gs, toGs, toGate, bc, node, used>>

\* userId, SetSession, createSessionChan.
TokenBind(c) ==
  LET g == conn[c].gate IN
  /\ conn[c].tok = "bind" /\ Up(g)
  /\ conn' = [conn EXCEPT ![c].tok = "server", ![c].bound = TRUE]
  /\ gate' = [gate EXCEPT ![g] = [gate[g] EXCEPT !.sconv = @ \cup {c}, !.suser = c,
                                                 !.create = Append(@, c)]]
  /\ UNCHANGED <<gs, toGs, toGate, bc, node, used>>

\* The node names a game server, or there is an error here or in the key
\* exchange that follows.
TokenServer(c) ==
  /\ conn[c].tok = "server" /\ Up(conn[c].gate)
  /\ \/ /\ \E s \in Servers : conn' = [conn EXCEPT ![c].tok = "done", ![c].gs = s]
        /\ UNCHANGED gate
     \/ /\ MayFail
        /\ \E s \in OnlineAt : conn' = [conn EXCEPT ![c].tok = "fail", ![c].gs = s]
        /\ gate' = [gate EXCEPT ![conn[c].gate].force = @ \cup {c}]
  /\ UNCHANGED <<gs, toGs, toGate, bc, node, used>>

\* PlayerLoginReq is passed on; a client sends it once.
LoginReq(c) ==
  /\ conn[c].recv /\ conn[c].tok = "done" /\ conn[c].state = "wait" /\ ~conn[c].asked
  /\ conn' = [conn EXCEPT ![c].asked = TRUE]
  /\ SendToGs(conn[c].gate, conn[c].gs, "login")
  /\ UNCHANGED <<gate, gs, toGate, bc, node, used>>

\* PlayerForceExitReq
ForceExitReq(c) ==
  /\ conn[c].recv /\ conn[c].state = "active" /\ c \notin gate[conn[c].gate].force
  /\ gate' = [gate EXCEPT ![conn[c].gate].force = @ \cup {c}]
  /\ UNCHANGED <<conn, gs, toGs, toGate, bc, node, used>>

-----------------------------------------------------------------------------
(* sendMsgHandle: session.go.                                              *)

\* The gate's process has ended: its connections and what it held are gone.
GateDown(g) ==
  /\ gate' = [gate EXCEPT ![g] =
       [gate[g] EXCEPT !.up = FALSE, !.online = None, !.sconv = {}, !.suser = None, !.conv = {},
                       !.user = None, !.create = <<>>, !.destroy = <<>>, !.regQ = <<>>,
                       !.reg = None, !.force = {}, !.syncing = FALSE, !.snap = None]]
  /\ conn' = [c \in Conns |->
       IF conn[c].gate # g THEN conn[c]
       ELSE [conn[c] EXCEPT !.state = "close", !.tok = IF InToken(c) THEN "done" ELSE @,
                            !.life = "gone", !.recv = FALSE, !.send = FALSE, !.closing = {}]]
  /\ toGate' = [s \in Servers |-> [toGate[s] EXCEPT ![g] = <<>>]]
  /\ bc' = [bc EXCEPT ![g] = <<>>]

CreateHandle(g) ==
  /\ gate[g].create # <<>>
  /\ LET c == Head(gate[g].create) IN
     gate' = [gate EXCEPT ![g] = [gate[g] EXCEPT !.create = Tail(@), !.conv = @ \cup {c},
                                                 !.user = c]]
  /\ UNCHANGED <<conn, gs, toGs, toGate, bc, node, used>>

\* The player's entry goes whichever connection it names.  Closing a closed
\* channel ends the process.
DestroyHandle(g) ==
  /\ gate[g].destroy # <<>>
  /\ LET c == Head(gate[g].destroy) IN
     IF conn[c].life # "gone"
     THEN /\ conn' = [conn EXCEPT ![c].life = "gone"]
          /\ gate' = [gate EXCEPT ![g] =
                        [gate[g] EXCEPT !.destroy = Tail(@), !.conv = @ \ {c},
                                        !.user = IF conn[c].bound THEN None ELSE @]]
          /\ UNCHANGED <<toGate, bc>>
     ELSE GateDown(g)
  /\ UNCHANGED <<gs, toGs, node, used>>

\* A registration replaces the one before it.
RegHandle(g) ==
  /\ gate[g].regQ # <<>>
  /\ LET c == Head(gate[g].regQ) IN
     /\ gate' = [gate EXCEPT ![g] = [gate[g] EXCEPT !.regQ = Tail(@), !.reg = c]]
     /\ conn' = [conn EXCEPT ![c].tok = IF @ = "reg" THEN "kick" ELSE @]
  /\ UNCHANGED <<gs, toGs, toGate, bc, node, used>>

GateMsg(s, g, kind) ==
  /\ toGate[s][g] # <<>>
  /\ Head(toGate[s][g]).kind = kind
Taken(s, g) == [toGate EXCEPT ![s][g] = Tail(@)]

\* PlayerLoginRsp makes the connection active, whatever it was; a message for
\* a closed channel ends the process.
LoginRsp(s, g) ==
  LET c == gate[g].user IN
  /\ GateMsg(s, g, "rsp")
  /\ \/ /\ c = None \/ c \notin gate[g].conv
        /\ toGate' = Taken(s, g)
        /\ UNCHANGED <<conn, gate, bc>>
     \/ /\ c \in gate[g].conv /\ conn[c].life # "gone"
        /\ toGate' = Taken(s, g)
        /\ conn' = [conn EXCEPT ![c].state = "active"]
        /\ UNCHANGED <<gate, bc>>
     \/ c \in gate[g].conv /\ conn[c].life = "gone" /\ GateDown(g)
  /\ UNCHANGED <<gs, toGs, node, used>>

\* KickPlayerNotify, from a game server or broadcast by another gate.
Kicked(g) ==
  [gate EXCEPT ![g].force = IF gate[g].user = None THEN @ ELSE @ \cup {gate[g].user}]
KickNotify(s, g) ==
  /\ GateMsg(s, g, "kick")
  /\ toGate' = Taken(s, g)
  /\ gate' = Kicked(g)
  /\ UNCHANGED <<conn, gs, toGs, bc, node, used>>

\* ServerUserGsChangeNotify: the gate logs in on the other server in the
\* client's name.
GsChange(s, g) ==
  LET c == gate[g].user
      t == Head(toGate[s][g]).to IN
  /\ GateMsg(s, g, "change")
  /\ toGate' = Taken(s, g)
  /\ IF c \in gate[g].conv
     THEN /\ conn' = [conn EXCEPT ![c].gs = t]
          /\ SendToGs(g, t, "login")
     ELSE UNCHANGED <<conn, toGs>>
  /\ UNCHANGED <<gate, gs, bc, node, used>>

\* Mutant: the waiting login is woken and the entry left in the map.
OfflineKeepsEntry(g) ==
  LET m == Head(bc[g]) IN
  /\ bc[g] # <<>>
  /\ bc' = [bc EXCEPT ![g] = Tail(@)]
  /\ IF m.kind = "kick"
     THEN gate' = Kicked(g) /\ UNCHANGED conn
     ELSE /\ gate' = [gate EXCEPT ![g] = [gate[g] EXCEPT
                !.online = IF m.kind = "on" THEN m.from ELSE @,
                !.reg = IF m.kind = "off" THEN None ELSE @]]
          /\ conn' = [c \in Conns |-> [conn[c] EXCEPT
                !.awake = @ \/ (m.kind = "off" /\ c = gate[g].reg /\ InToken(c))]]
  /\ UNCHANGED <<gs, toGs, toGate, node, used>>

\* ServerUserOnlineStateChangeNotify, or a kick.  An offline broadcast wakes
\* the login that waits.
GateBroadcast(g) ==
  LET m == Head(bc[g]) IN
  /\ bc[g] # <<>>
  /\ bc' = [bc EXCEPT ![g] = Tail(@)]
  /\ IF m.kind = "kick"
     THEN gate' = Kicked(g) /\ UNCHANGED conn
     ELSE /\ gate' = [gate EXCEPT ![g] = [gate[g] EXCEPT
                !.online = IF m.kind = "on" THEN m.from ELSE None,
                !.reg = IF m.kind = "off" THEN None ELSE @]]
          /\ conn' = [c \in Conns |-> [conn[c] EXCEPT
                !.awake = @ \/ (m.kind = "off" /\ c = gate[g].reg /\ InToken(c))]]
  /\ UNCHANGED <<gs, toGs, toGate, node, used>>

-----------------------------------------------------------------------------
(* The online map of the node, and its copies.                             *)

\* BroadcastReceiver
NodeBroadcast ==
  /\ bc[Node] # <<>>
  /\ node' = IF Head(bc[Node]).kind = "on" THEN Head(bc[Node]).from ELSE None
  /\ bc' = [bc EXCEPT ![Node] = Tail(@)]
  /\ UNCHANGED <<conn, gate, gs, toGs, toGate, used>>

\* syncGlobalGsOnlineMap: the node's answer replaces the map when it comes.
SyncBegin(g) ==
  /\ Up(g) /\ ~gate[g].syncing
  /\ IF Steady THEN UNCHANGED used ELSE Use("sync")
  /\ gate' = [gate EXCEPT ![g].syncing = TRUE, ![g].snap = node]
  /\ UNCHANGED <<conn, gs, toGs, toGate, bc, node>>
SyncEnd(g) ==
  /\ gate[g].syncing
  /\ Mishap("refresh", gate[g].snap # gate[g].online)
  /\ gate' = [gate EXCEPT ![g].syncing = FALSE, ![g].snap = None, ![g].online = gate[g].snap]
  /\ UNCHANGED <<conn, gs, toGs, toGate, bc, node>>

-----------------------------------------------------------------------------
(* The player on a game server.                                            *)

GsMsg(g, s, m) == toGs[g][s] # <<>> /\ Head(toGs[g][s]) = m
GsTaken(g, s) == [toGs EXCEPT ![g][s] = Tail(@)]

\* OnlineUser: an object that is still there is thrown away.
PlayerLoginReq(g, s) ==
  /\ GsMsg(g, s, "login")
  /\ Mishap("late", bc[s] # <<>>)
  /\ toGs' = GsTaken(g, s)
  /\ gs' = [gs EXCEPT ![s] = [gs[s] EXCEPT !.obj = "none", !.gate = None, !.loads[g] = @ + 1,
                                           !.lost = @ \/ gs[s].obj = "online"]]
  /\ UNCHANGED <<conn, gate, toGate, bc, node>>

\* OnLogin, once the goroutine has loaded the player.
OnLogin(g, s) ==
  /\ gs[s].loads[g] > 0
  /\ gs' = [gs EXCEPT ![s] = [gs[s] EXCEPT !.obj = "online", !.gate = g, !.loads[g] = @ - 1,
                                           !.lost = @ \/ gs[s].obj = "online"]]
  /\ SendToGate(s, g, "rsp", None)
  /\ SendToAll(s, "on")
  /\ UNCHANGED <<conn, gate, toGs, node, used>>

\* OnUserOffline of an online player; to is the gate of a client that moves.
OnUserOffline(s, to) ==
  gs' = [gs EXCEPT ![s] = [gs[s] EXCEPT !.obj = "offline", !.gate = None, !.saves[to] = @ + 1]]

UserOfflineNotify(g, s) ==
  /\ GsMsg(g, s, "offline")
  /\ toGs' = GsTaken(g, s)
  /\ IF gs[s].obj = "online" THEN OnUserOffline(s, None) ELSE UNCHANGED gs
  /\ UNCHANGED <<conn, gate, toGate, bc, node, used>>

\* UserOfflineSaveToDbFinish: DeleteUser, the offline broadcast, and for a
\* client that moves the change of server.  The host it joins may be gone.
OfflineFinish(s, to) ==
  /\ gs[s].saves[to] > 0
  /\ gs' = [gs EXCEPT ![s] = [gs[s] EXCEPT !.obj = "none", !.gate = None, !.saves[to] = @ - 1,
                                           !.lost = @ \/ gs[s].obj = "online"]]
  /\ SendToAll(s, "off")
  /\ IF to = None THEN UNCHANGED toGate
     ELSE \E t \in OnlineAt \ {s} : SendToGate(s, to, "change", t)
  /\ UNCHANGED <<conn, gate, toGs, node, used>>

\* Mutant: the gate is told to change servers before the player is saved.
JoinPlayerSceneReqAtOnce(s) ==
  /\ gs[s].obj = "online"
  /\ Use("move")
  /\ OnUserOffline(s, None)
  /\ \E t \in Servers \ {s} : SendToGate(s, gs[s].gate, "change", t)
  /\ UNCHANGED <<conn, gate, toGs, bc, node>>

\* JoinPlayerSceneReq to a host on another server.
JoinPlayerSceneReq(s) ==
  /\ gs[s].obj = "online"
  /\ \E c \in Conns : conn[c].gate = gs[s].gate /\ conn[c].gs = s /\ conn[c].state = "active"
  /\ used["move"] < MaxMoves
  /\ UnderWay => "overlap" \in Mishaps
  /\ used' = [used EXCEPT !["move"] = @ + 1, !["overlap"] = IF UnderWay THEN 1 ELSE @]
  /\ OnUserOffline(s, gs[s].gate)
  /\ UNCHANGED <<conn, gate, toGs, toGate, bc, node>>

\* A connection whose client is being served.
Live(c) == conn[c].state = "active" /\ conn[c].life = "open"

\* Mutant: no player is removed for want of pings.
KeepaliveNever(s) == FALSE /\ UNCHANGED vars

\* onUserTickMinute: no ping for a minute.  The client of an active connection
\* pings, or the gate has closed it after 30 s.
KeepaliveTimeout(s) ==
  /\ gs[s].obj = "online"
  /\ ~\E c \in Conns : Live(c) /\ conn[c].gs = s
  /\ \A g \in Gates : toGs[g][s] = <<>> /\ toGate[s][g] = <<>>
  /\ OnUserOffline(s, None)
  /\ UNCHANGED <<conn, gate, toGs, toGate, bc, node, used>>

\* SetRemoteUserOnlineState: an offline broadcast deletes the object here.
SetRemoteUserOnlineState(s) ==
  /\ s \in Servers /\ bc[s] # <<>>
  /\ bc' = [bc EXCEPT ![s] = Tail(@)]
  /\ gs' = [gs EXCEPT ![s] = [gs[s] EXCEPT !.obj = "none", !.gate = None,
                                           !.lost = @ \/ gs[s].obj = "online"]]
  /\ UNCHANGED <<conn, gate, toGs, toGate, node, used>>

GsDown(s) ==
  /\ gs' = [gs EXCEPT ![s] = [gs[s] EXCEPT !.up = FALSE, !.obj = "none", !.gate = None,
                                           !.loads = [g \in Gates |-> 0],
                                           !.saves = [g \in Gates \cup {None} |-> 0]]]
  /\ toGs' = [g \in Gates |-> [toGs[g] EXCEPT ![s] = <<>>]]

GsCrash(s) ==
  /\ Up(s) /\ Use("stop")
  /\ GsDown(s)
  /\ bc' = [bc EXCEPT ![s] = <<>>]
  /\ UNCHANGED <<conn, gate, toGate, node>>

\* Close, after the exit save: a kick and an offline broadcast for a player
\* that is online; the goroutines still running end with the process.
GsClose(s) ==
  /\ Up(s) /\ Use("stop")
  /\ GsDown(s)
  /\ IF gs[s].obj = "online"
     THEN SendToGate(s, gs[s].gate, "kick", None) /\ SendToAll(s, "off")
     ELSE UNCHANGED <<toGate, bc>>
  /\ UNCHANGED <<conn, gate, node>>

\* The gate's process ends.
GateCrash(g) ==
  /\ Up(g) /\ Use("gatestop")
  /\ GateDown(g)
  /\ UNCHANGED <<gs, toGs, node>>

-----------------------------------------------------------------------------
TokenNext(c) ==
  \/ TokenReq(c) \/ TokenRefuse(c) \/ TokenCheck(c) \/ RegTimeout(c) \/ TokenKick(c)
  \/ TokenAwake(c) \/ TokenTimeout(c) \/ TokenBind(c) \/ TokenServer(c)
CloseNext(c) ==
  \/ RecvClose(c) \/ SendClose(c)
  \/ \E who \in Closers : CloseEnd(c, who)
HandleNext(g) ==
  \/ CreateHandle(g) \/ DestroyHandle(g) \/ RegHandle(g) \/ GateBroadcast(g)
ServerNext(s) ==
  \/ \E g \in Gates : PlayerLoginReq(g, s) \/ OnLogin(g, s) \/ UserOfflineNotify(g, s)
  \/ \E to \in Gates \cup {None} : OfflineFinish(s, to)
  \/ JoinPlayerSceneReq(s) \/ KeepaliveTimeout(s) \/ SetRemoteUserOnlineState(s)
  \/ GsCrash(s) \/ GsClose(s)
Next ==
  \/ \E c \in Conns :
       \/ \E g \in Gates : Accept(c, g)
       \/ TokenNext(c) \/ LoginReq(c) \/ ForceExitReq(c) \/ CloseNext(c)
  \/ \E g \in Gates :
       \/ HandleNext(g) \/ SyncBegin(g) \/ SyncEnd(g) \/ GateCrash(g)
       \/ \E c \in Conns : ForceClose(g, c)
       \/ \E s \in Servers : LoginRsp(s, g) \/ KickNotify(s, g) \/ GsChange(s, g)
  \/ \E s \in Servers : ServerNext(s)
  \/ NodeBroadcast

Spec == Init /\ [][Next]_vars

-----------------------------------------------------------------------------
(***************************************************************************)
(* Fairness.  Goroutines that can go on do; messages arrive; sendMsgHandle *)
(* and the servers' main loops take what is there, and nothing they do     *)
(* disables another of their channels, so weak fairness is enough.  A      *)
(* client that is not let in gives up, or the 30 s receive timeout does it *)
(* for it.                                                                 *)
(***************************************************************************)
Fairness ==
  /\ \A c \in Conns :
       /\ WF_vars(TokenRefuse(c) \/ TokenCheck(c) \/ RegTimeout(c) \/ TokenKick(c)
                  \/ TokenAwake(c) \/ TokenTimeout(c) \/ TokenBind(c) \/ TokenServer(c))
       /\ WF_vars(RecvClose(c) /\ ~Live(c)) /\ WF_vars(SendClose(c))
       /\ WF_vars(\E who \in Closers : CloseEnd(c, who))
       /\ \A g \in Gates : WF_vars(ForceClose(g, c))
  /\ \A g \in Gates :
       /\ WF_vars(CreateHandle(g)) /\ WF_vars(DestroyHandle(g))
       /\ WF_vars(RegHandle(g)) /\ WF_vars(GateBroadcast(g))
       /\ \A s \in Servers : WF_vars(LoginRsp(s, g) \/ KickNotify(s, g) \/ GsChange(s, g))
       /\ WF_vars(SyncBegin(g)) /\ WF_vars(SyncEnd(g))
  /\ \A s \in Servers :
       /\ \A g \in Gates :
            WF_vars(PlayerLoginReq(g, s) \/ UserOfflineNotify(g, s)) /\ WF_vars(OnLogin(g, s))
       /\ \A to \in Gates \cup {None} : WF_vars(OfflineFinish(s, to))
       /\ WF_vars(KeepaliveTimeout(s)) /\ WF_vars(SetRemoteUserOnlineState(s))
  /\ WF_vars(NodeBroadcast)
FairSpec == Spec /\ Fairness

-----------------------------------------------------------------------------
(* Properties.                                                             *)

\* A server that has the player, or a goroutine loading or saving it.
Busy(s) ==
  \/ gs[s].obj = "online"
  \/ \E g \in Gates : gs[s].loads[g] > 0
  \/ \E to \in Gates \cup {None} : gs[s].saves[to] > 0

\* No login or move has overlapped a login, no refresh has changed a map; and
\* no login has overtaken a broadcast.
Orderly == used["overlap"] = 0 /\ used["refresh"] = 0
OnTime == Orderly /\ used["late"] = 0

\* The gates admit one session of the player at a time, over all game servers:
\* never two servers, two goroutines, or a goroutine beside an online player.
\* This is what UserManager takes for granted (GateAdmits).  It fails after an
\* overlap, two logins that each find the map empty, and after a refresh that
\* empties the map; not after a late broadcast.
OneAdmitted ==
  /\ \A s, t \in Servers : Busy(s) /\ Busy(t) => s = t
  /\ \A s \in Servers :
       /\ \A g, h \in Gates : gs[s].loads[g] > 0 /\ gs[s].loads[h] > 0 => g = h
       /\ \A g \in Gates, to \in Gates \cup {None} :
            /\ gs[s].loads[g] <= 1 /\ gs[s].saves[to] <= 1
            /\ gs[s].loads[g] > 0 => gs[s].obj = "none" /\ gs[s].saves[to] = 0
            /\ gs[s].saves[to] > 0 => gs[s].obj # "online"

AdmissionHolds == Orderly => OneAdmitted

\* Over all game servers the player has one session at a time, which is loaded,
\* served and saved before the next one is loaded, here or on another server
\* (PlayerSession); only the end of a server's process cuts it short.  So it is
\* for as long as nothing has overlapped, been late or changed a map.
Stage(s) ==
  IF \E g \in Gates : gs[s].loads[g] > 0 THEN "loading"
  ELSE IF \E to \in Gates \cup {None} : gs[s].saves[to] > 0 THEN "saving" ELSE "online"
At == IF \E s \in Servers : Busy(s) THEN CHOOSE s \in Servers : Busy(s) ELSE None
Session ==
  INSTANCE PlayerSession WITH
    Players <- {"player"}, up <- {s \in Servers : Up(s)},
    at <- [p \in {"player"} |-> At],
    stage <- [p \in {"player"} |-> IF At = None THEN "free" ELSE Stage(At)]
OneSession == Session!Init /\ [][OnTime' => Session!Next]_(Session!svars)

\* No server throws away a player that is online, which would lose all it did
\* since its last save; after a late broadcast it does, the one that says the
\* player has left the server it came from (SetRemoteUserOnlineState).
NoSessionLost == OnTime => \A s \in Servers : ~gs[s].lost

\* One session is admitted at a time, over records that stay what they are.
AdmissionTyped == TypeOK /\ AdmissionHolds
\* A move is admitted once, late broadcasts or not, and takes nobody's session
\* away but by a late broadcast.
MoveHolds == AdmissionHolds /\ NoSessionLost

\* Nothing about the player is on its way.
Quiet ==
  /\ \A g \in Gates, s \in Servers : toGs[g][s] = <<>> /\ toGate[s][g] = <<>>
  /\ \A r \in Receivers : bc[r] = <<>>
  /\ \A g \in Gates : ~gate[g].syncing
  /\ \A s \in Servers :
       /\ \A g \in Gates : gs[s].loads[g] = 0
       /\ \A to \in Gates \cup {None} : gs[s].saves[to] = 0

\* When nothing is on its way every gate's online map says where the player is,
\* whatever crashed, closed or raced, with the map refreshed every minute; but
\* a refresh whose answer is older than a broadcast the gate has heard since
\* (syncGlobalGsOnlineMap) leaves the map wrong until the next, and is excused.
MapsAgree ==
  (Quiet /\ OnTime) => \A g \in Gates, s \in Servers :
             (Up(g) /\ Up(s)) => (gate[g].online = s <=> gs[s].obj = "online")

\* An entry of a gate's online map goes once the player has no connection
\* that is being served: it locks the player out for as long as it is there.
EntryCleared ==
  \A g \in Gates :
    (Up(g) /\ gate[g].online # None) ~>
      (gate[g].online = None \/ \E c \in Conns : Live(c))

=============================================================================
