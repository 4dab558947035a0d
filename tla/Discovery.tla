------------------------------ MODULE Discovery ------------------------------
(***************************************************************************)
(* The node's register of server processes (src/node/service/discovery.go) *)
(* and the servers' side of it: registration at start, one keepalive every *)
(* 15 seconds, cancellation at exit.  Time is counted in those 15 seconds. *)
(***************************************************************************)
EXTENDS Naturals, FiniteSets, FiniteSetsExt

CONSTANTS
  GameServers, Gates, Others,  \* server processes by kind (Others: anticheat, pathfinding)
  Versions,       \* Versions[g]: the client versions gate g serves
  MaxGsId,        \* MaxGsId (1000 in the code)
  DeadAfter,      \* keepalive periods without one until an instance is dead (60 s / 15 s)
  Loads,          \* the loads a server reports
  MaxStarts,      \* bound: starts of processes
  MaxPauses,      \* bound: times a process loses the node for a while
  MaxNodeRestarts \* bound: restarts of the node

\* What they are: whoever instantiates the module sees to it.
DiscoveryAssumption ==
  /\ MaxGsId \in Nat \ {0} /\ DeadAfter \in Nat \ {0}
  /\ 0 \in Loads /\ Loads \subseteq Nat
  /\ GameServers \cap Gates = {} /\ Others \cap (GameServers \cup Gates) = {}

VARIABLES
  proc,      \* [process -> its stage, start number, gsId, main server's appid, connected]
  inst,      \* serverInstanceMap: appid -> instance
  phase,     \* periods since the last removeDeadServer
  pauses, nodeRestarts,
  disturbed  \* a history variable: registrations overlapped, or the node or a server was cut off

vars == <<proc, inst, phase, pauses, nodeRestarts, disturbed>>

Procs == GameServers \cup Gates \cup Others
\* An appid is random and new at every start (serverAppIdMap keeps the old ones).
AppIds == Procs \X Nat
NoApp == <<>>
AppId(p) == <<p, proc[p].starts>>
Instances(kind) == {a \in DOMAIN inst : a[1] \in kind}
\* Ages above this one are not told apart.
MaxAge == 2 * DeadAfter + 1

NewInstance == [age |-> 0, gsId |-> 0, load |-> 0]
Store(a, i) == [b \in DOMAIN inst \cup {a} |-> IF b = a THEN i ELSE inst[b]]
Delete(as) == [b \in DOMAIN inst \ as |-> inst[b]]

Down(n) == [stage |-> "down", starts |-> n, gsId |-> 0, main |-> NoApp, connected |-> TRUE]
At(p, stage) == [proc EXCEPT ![p].stage = stage]
End(p) == [proc EXCEPT ![p] = Down(proc[p].starts)]

Init ==
  /\ proc = [p \in Procs |-> Down(0)]
  /\ inst = [a \in {} |-> NewInstance]
  /\ phase = 0
  /\ pauses = 0 /\ nodeRestarts = 0 /\ disturbed = FALSE

Starts == MapThenSumSet(LAMBDA p : proc[p].starts, Procs)
Bounds == <<pauses, nodeRestarts>>
Serving(p) == proc[p].stage = "up"
Reaches(p) == proc[p].connected
-----------------------------------------------------------------------------
\* RegisterServer: the instance is stored first; a gate or another server has its appid then.
Register(p, stage) ==
  /\ proc[p].stage = "down" /\ Starts < MaxStarts
  /\ proc' = [proc EXCEPT ![p].stage = stage, ![p].starts = @ + 1]
  /\ inst' = Store(<<p, proc[p].starts + 1>>, NewInstance)
  /\ UNCHANGED <<phase, Bounds, disturbed>>

RunGate(p) == p \in Gates /\ Register(p, "up")
RunOther(p) == p \in Others /\ Register(p, "up")
RunGs(p) == p \in GameServers /\ Register(p, "scan")

\* Mutant: the ids are taken to be used in order.
UsedGsIdsCounted == {i \in 1 .. MaxGsId : i <= Cardinality({a \in Instances(GameServers) : inst[a].gsId # 0})}

UsedGsIds == {inst[a].gsId : a \in Instances(GameServers)}
FreeGsIds == (1 .. MaxGsId) \ UsedGsIds
Smallest(ids) == CHOOSE i \in ids : \A j \in ids : i <= j

\* The rest of a game server's registration: the smallest id no instance has.  Another
\* registration may run in between, as the handler holds no lock.
ScanGsIds(p) ==
  /\ proc[p].stage = "scan" /\ FreeGsIds # {}
  /\ proc' = [proc EXCEPT ![p].stage = "assign", ![p].gsId = Smallest(FreeGsIds)]
  /\ disturbed' = (disturbed \/ \E q \in GameServers \ {p} : proc[q].stage = "assign")
  /\ UNCHANGED <<inst, phase, Bounds>>

\* No id is free: the server ends, its instance stays until it is dead.
NoGsIdCanUse(p) ==
  /\ proc[p].stage = "scan" /\ FreeGsIds = {}
  /\ proc' = End(p)
  /\ UNCHANGED <<inst, phase, Bounds, disturbed>>

AssignGsId(p) ==
  /\ proc[p].stage = "assign"
  /\ proc' = At(p, "started")
  /\ inst' = IF AppId(p) \in DOMAIN inst
               THEN [inst EXCEPT ![AppId(p)].gsId = proc[p].gsId] ELSE inst
  /\ UNCHANGED <<phase, Bounds, disturbed>>

\* The answer of RegisterServer is lost: the process ends with an error and its instance stays.
RegisterFails(p) ==
  /\ proc[p].stage = "started"
  /\ proc' = End(p)
  /\ UNCHANGED <<inst, phase, Bounds, disturbed>>

\* GetMainGameServerAppId: the server learns once who the main server is, or ends again.
MainInstances == {a \in Instances(GameServers) : inst[a].gsId = 1}
GetMainGameServerAppId(p) ==
  /\ proc[p].stage = "started"
  /\ \E a \in MainInstances : proc' = [proc EXCEPT ![p].stage = "up", ![p].main = a]
  /\ UNCHANGED <<inst, phase, Bounds, disturbed>>

MainNotFound(p) ==
  /\ proc[p].stage = "started" /\ MainInstances = {}
  /\ proc' = End(p)
  /\ inst' = Delete({AppId(p)})
  /\ UNCHANGED <<phase, Bounds, disturbed>>

\* CancelServer, deferred in every server's Run.
CancelServer(p) ==
  /\ Serving(p) /\ Reaches(p)
  /\ proc' = End(p)
  /\ inst' = Delete({AppId(p)})
  /\ UNCHANGED <<phase, Bounds, disturbed>>

Crash(p) ==
  /\ Serving(p)
  /\ proc' = End(p)
  /\ UNCHANGED <<inst, phase, Bounds, disturbed>>
-----------------------------------------------------------------------------
\* 15 seconds: every server that reaches the node keeps its instance alive, and does not
\* register again when the node no longer knows it.
KeptAlive == {AppId(p) : p \in {q \in Procs : proc[q].stage # "down" /\ Reaches(q)}}
Aged(i) == [i EXCEPT !.age = IF @ < MaxAge THEN @ + 1 ELSE @]
KeepaliveServer(i, load) == [age |-> 0, gsId |-> i.gsId, load |-> load]
After15s ==
  {[a \in DOMAIN inst |-> IF a \in KeptAlive THEN KeepaliveServer(inst[a], load[a])
                                             ELSE Aged(inst[a])]
     : load \in [DOMAIN inst -> Loads]}

\* removeDeadServer runs at the last of DeadAfter periods.
Dead(i) == i.age > DeadAfter
\* Mutant: only game servers are removed.
RemoveDeadGs(is) == [a \in {b \in DOMAIN is : b[1] \notin GameServers \/ ~Dead(is[b])} |-> is[a]]

RemoveDeadServer(is) == [a \in {b \in DOMAIN is : ~Dead(is[b])} |-> is[a]]
Tick ==
  /\ phase' = (phase + 1) % DeadAfter
  /\ \E is \in After15s : inst' = IF phase' = 0 THEN RemoveDeadServer(is) ELSE is
  /\ UNCHANGED <<proc, Bounds, disturbed>>

\* A server loses the node (a paused process, a broken NATS connection) and finds it again.
Disconnect(p) ==
  /\ Serving(p) /\ Reaches(p) /\ pauses < MaxPauses
  /\ proc' = [proc EXCEPT ![p].connected = FALSE]
  /\ pauses' = pauses + 1 /\ disturbed' = TRUE
  /\ UNCHANGED <<inst, phase, nodeRestarts>>

Reconnect(p) ==
  /\ ~Reaches(p)
  /\ proc' = [proc EXCEPT ![p].connected = TRUE]
  /\ UNCHANGED <<inst, phase, Bounds, disturbed>>

\* NewDiscoveryService: the node starts with empty maps.
NodeRestart ==
  /\ nodeRestarts < MaxNodeRestarts
  /\ inst' = Delete(DOMAIN inst)
  /\ phase' = 0
  /\ nodeRestarts' = nodeRestarts + 1 /\ disturbed' = TRUE
  /\ UNCHANGED <<proc, pauses>>
-----------------------------------------------------------------------------
\* What a gate asks at a login, the dispatch server before it and a server every minute: the
\* instances that may be named.  (Equal loads are told apart by the random appid.)
LeastLoaded(as) == {a \in as : \A b \in as : inst[a].load <= inst[b].load}
GetServerAppId(kind) ==
  IF kind = Others THEN Instances(Others) ELSE LeastLoaded(Instances(kind))
GetGateServerAddr(v) == LeastLoaded({a \in Instances(Gates) : v \in Versions[a[1]]})
GetAllGateServerInfoList == Instances(Gates)
-----------------------------------------------------------------------------
Next ==
  \/ \E p \in Procs : \/ RunGate(p) \/ RunOther(p) \/ RunGs(p)
                      \/ ScanGsIds(p) \/ NoGsIdCanUse(p) \/ AssignGsId(p) \/ RegisterFails(p)
                      \/ GetMainGameServerAppId(p) \/ MainNotFound(p)
                      \/ CancelServer(p) \/ Crash(p) \/ Disconnect(p) \/ Reconnect(p)
  \/ Tick \/ NodeRestart

Spec == Init /\ [][Next]_vars
-----------------------------------------------------------------------------
Stages == {"down", "scan", "assign", "started", "up"}
TypeOK ==
  /\ proc \in [Procs -> [stage : Stages, starts : Nat, gsId : 0 .. MaxGsId,
                         main : AppIds \cup {NoApp}, connected : BOOLEAN]]
  /\ DOMAIN inst \subseteq AppIds
  /\ inst \in [DOMAIN inst -> [age : 0 .. MaxAge, gsId : 0 .. MaxGsId, load : Loads]]
  /\ phase \in 0 .. DeadAfter - 1
  /\ pauses \in Nat /\ nodeRestarts \in Nat
  /\ disturbed \in BOOLEAN

HasGsId(p) == proc[p].stage \in {"started", "up"}

\* Two running game servers never share a gsId, which is the snowflake worker's number and
\* the natsrpc topic of each (game.go:57, app.go:98), whatever crashes, cancellations, lost
\* answers and dead instances went before: unless two registrations ran at once, or the
\* node forgot a server that was running.
GsIdsUnique ==
  disturbed \/ \A p, q \in GameServers : HasGsId(p) /\ HasGsId(q) /\ p # q
                                          => proc[p].gsId # proc[q].gsId

\* Under the same conditions at most one game server takes itself for the main one
\* (Game.IsMainGs compares its appid with the one it was told when it started).
OneMain ==
  disturbed \/ Cardinality({p \in GameServers : Serving(p) /\ proc[p].main = AppId(p)}) <= 1

\* What the servers take their numbers and their main server to be, they are.
IdsAgree == GsIdsUnique /\ OneMain

\* A gate, a dispatch server or a game server is never sent to a server that has been silent
\* for two sweeps of removeDeadServer, however the sweep and the silence are aligned.
AnswersFresh ==
  \A a \in (UNION {GetServerAppId(kind) : kind \in {GameServers, Gates, Others}})
          \cup (UNION {GetGateServerAddr(v) : v \in UNION {Versions[g] : g \in Gates}})
          \cup GetAllGateServerInfoList
          \cup MainInstances :
    inst[a].age < 2 * DeadAfter
=============================================================================
