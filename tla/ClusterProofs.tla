---------------------------- MODULE ClusterProofs ----------------------------
(* Proofs about the services of the cluster.  MCCluster extends Discovery:   *)
(* first come the proofs about that, for every set of servers, every number *)
(* of ids and every length of a sweep, then what each of the other parts,   *)
(* proved in a module of its own, promises in their composition: a behaviour *)
(* that runs a part is, on the part's variables, one of the part.  Last are  *)
(* the proofs about Kcp, whose variables MCCluster has under their names.    *)
EXTENDS MCCluster, FiniteSetTheorems, SequenceTheorems, WellFoundedInduction, TLAPS

-----------------------------------------------------------------------------
(* Discovery.                                                              *)

InstType == [age : 0 .. MaxAge, gsId : 0 .. MaxGsId, load : Loads]
ProcType == [stage : Stages, starts : Nat, gsId : 0 .. MaxGsId,
             main : AppIds \cup {NoApp}, connected : BOOLEAN]

\* A new instance is one, and so is one that was kept alive or grew older.
LEMMA InstTypes ==
  ASSUME DiscoveryAssumption
  PROVE  /\ NewInstance \in InstType
         /\ \A i \in InstType, l \in Loads : KeepaliveServer(i, l) \in InstType
         /\ \A i \in InstType : Aged(i) \in InstType
<1>1. MaxAge \in Nat
  BY DEF DiscoveryAssumption, MaxAge
<1>2. NewInstance \in InstType
  BY <1>1 DEF DiscoveryAssumption, InstType, NewInstance
<1>3. ASSUME NEW i \in InstType, NEW l \in Loads PROVE KeepaliveServer(i, l) \in InstType
  BY <1>1 DEF InstType, KeepaliveServer
<1>4. ASSUME NEW i \in InstType PROVE Aged(i) \in InstType
  BY <1>1 DEF InstType, Aged
<1> QED BY <1>2, <1>3, <1>4

\* The smallest of a set of ids is one of them.
LEMMA SmallestIn == ASSUME NEW ids \in SUBSET Nat, ids # {} PROVE Smallest(ids) \in ids
<1>1. PICK i \in ids : \A j \in ids : <<j, i>> \notin OpToRel(<, Nat)
  BY NatLessThanWellFounded, WFMin
<1>2. ASSUME NEW j \in ids PROVE i <= j
  <2>1. <<j, i>> \in OpToRel(<, Nat) <=> j < i
    BY DEF OpToRel
  <2>2. ~ j < i
    BY <1>1, <2>1, Zenon
  <2> QED BY <2>2
<1> QED BY <1>2 DEF Smallest

\* The type invariant holds at the start.
LEMMA InitType == ASSUME DiscoveryAssumption PROVE Init => TypeOK
<1> SUFFICES ASSUME Init PROVE TypeOK
  OBVIOUS
<1>1. Down(0) \in ProcType
  BY DEF DiscoveryAssumption, Down, Stages, ProcType
<1>2. proc \in [Procs -> ProcType]
  BY <1>1 DEF Init
<1>3. DOMAIN inst = {} /\ inst \in [DOMAIN inst -> InstType]
  BY DEF Init
<1>4. phase \in 0 .. DeadAfter - 1
  BY DEF DiscoveryAssumption, Init
<1> QED BY <1>2, <1>3, <1>4 DEF Init, TypeOK, ProcType, InstType

\* What 15 seconds make of the register, and the sweep of what is dead.
LEMMA TickInst ==
  ASSUME DiscoveryAssumption, TypeOK, Tick
  PROVE  /\ \E is \in After15s : inst' = IF phase' = 0 THEN RemoveDeadServer(is) ELSE is
         /\ phase' = IF phase + 1 = DeadAfter THEN 0 ELSE phase + 1
         /\ UNCHANGED <<proc, pauses, nodeRestarts, disturbed>>
<1>1. phase \in Nat /\ phase < DeadAfter /\ DeadAfter \in Nat /\ phase' = (phase + 1) % DeadAfter
  BY DEF DiscoveryAssumption, TypeOK, Tick
<1>2. phase' = IF phase + 1 = DeadAfter THEN 0 ELSE phase + 1
  BY <1>1
<1> QED BY <1>2 DEF Tick, Bounds

\* What they leave of an instance: its id, a younger age if its server keeps it
\* alive, one period more if not, and at a sweep nothing that is dead.
LEMMA TickKeeps ==
  ASSUME DiscoveryAssumption, TypeOK, Tick
  PROVE  /\ DOMAIN inst' \subseteq DOMAIN inst /\ inst' \in [DOMAIN inst' -> InstType]
         /\ \A a \in DOMAIN inst' :
              /\ inst'[a].gsId = inst[a].gsId
              /\ inst'[a].age <= inst[a].age + 1
              /\ phase' = 0 => inst'[a].age <= DeadAfter
         /\ \A a \in DOMAIN inst \cap KeptAlive : a \in DOMAIN inst' /\ inst'[a].age = 0
<1> USE DEF DiscoveryAssumption
<1>t. inst \in [DOMAIN inst -> InstType]
  BY DEF TypeOK, InstType
<1>1. PICK is \in After15s : inst' = IF phase' = 0 THEN RemoveDeadServer(is) ELSE is
  BY TickInst
<1>2. PICK load \in [DOMAIN inst -> Loads] :
        is = [a \in DOMAIN inst |-> IF a \in KeptAlive THEN KeepaliveServer(inst[a], load[a])
                                                       ELSE Aged(inst[a])]
  BY <1>1 DEF After15s
<1>3. is \in [DOMAIN inst -> InstType]
  BY <1>t, <1>2, InstTypes
<1>4. ASSUME NEW a \in DOMAIN inst
      PROVE  /\ is[a].gsId = inst[a].gsId
             /\ is[a].age <= inst[a].age + 1
             /\ a \in KeptAlive => is[a].age = 0
  BY <1>t, <1>2 DEF KeepaliveServer, Aged, InstType, MaxAge
<1>5. CASE phase' # 0
  BY <1>1, <1>3, <1>4, <1>5
<1>6. CASE phase' = 0
  <2>1. inst' = RemoveDeadServer(is)
    BY <1>1, <1>6
  <2>2. DOMAIN is = DOMAIN inst
    BY <1>3
  <2>3. /\ DOMAIN inst' \subseteq DOMAIN inst
        /\ \A a \in DOMAIN inst' : inst'[a] = is[a] /\ ~Dead(is[a])
        /\ \A a \in DOMAIN inst : ~Dead(is[a]) => a \in DOMAIN inst'
    BY <2>1, <2>2 DEF RemoveDeadServer
  <2>4. inst' \in [DOMAIN inst' -> InstType]
    BY <1>3, <2>1, <2>2, <2>3 DEF RemoveDeadServer
  <2>5. \A a \in DOMAIN inst' : inst'[a].age <= DeadAfter
    BY <1>3, <2>2, <2>3 DEF Dead, InstType
  <2>6. \A a \in DOMAIN inst \cap KeptAlive : ~Dead(is[a])
    BY <1>4 DEF Dead
  <2> QED BY <1>4, <2>2, <2>3, <2>4, <2>5, <2>6
<1> QED BY <1>5, <1>6, Zenon

-----------------------------------------------------------------------------
\* What is stored and deleted.
LEMMA StoreType ==
  ASSUME DiscoveryAssumption, TypeOK, NEW a \in AppIds
  PROVE  /\ DOMAIN Store(a, NewInstance) = DOMAIN inst \cup {a}
         /\ Store(a, NewInstance) \in [DOMAIN inst \cup {a} -> InstType]
         /\ Store(a, NewInstance)[a] = NewInstance
         /\ \A b \in DOMAIN inst \ {a} : Store(a, NewInstance)[b] = inst[b]
BY InstTypes DEF Store, TypeOK, InstType

\* And what a removal from it leaves.
LEMMA DeleteType ==
  ASSUME TypeOK, NEW as
  PROVE  /\ DOMAIN Delete(as) = DOMAIN inst \ as
         /\ Delete(as) \in [DOMAIN inst \ as -> InstType]
         /\ \A b \in DOMAIN inst \ as : Delete(as)[b] = inst[b]
BY DEF Delete, TypeOK, InstType

\* In particular a part of the register.
LEMMA DeletedType ==
  ASSUME TypeOK, NEW as, inst' = Delete(as)
  PROVE  DOMAIN inst' \subseteq AppIds /\ inst' \in [DOMAIN inst' -> InstType]
<1>1. DOMAIN inst \subseteq AppIds
  BY DEF TypeOK
<1>2. DOMAIN inst' = DOMAIN inst \ as /\ inst' \in [DOMAIN inst \ as -> InstType]
  BY DeleteType
<1>3. inst' \in [DOMAIN inst' -> InstType]
  BY <1>2
<1> QED BY <1>1, <1>2, <1>3, Zenon

\* A process that starts, ends or goes on is still one.
LEMMA ProcTypes ==
  ASSUME DiscoveryAssumption, TypeOK, NEW p \in Procs
  PROVE  /\ proc \in [Procs -> ProcType]
         /\ AppId(p) \in AppIds /\ <<p, proc[p].starts + 1>> \in AppIds
         /\ End(p) \in [Procs -> ProcType]
         /\ \A stage \in Stages : At(p, stage) \in [Procs -> ProcType]
<1>1. proc \in [Procs -> ProcType]
  BY DEF TypeOK, ProcType
<1>2. Down(proc[p].starts) \in ProcType
  BY <1>1 DEF Down, ProcType, Stages, DiscoveryAssumption
<1>3. \A stage \in Stages : At(p, stage) \in [Procs -> ProcType]
  BY <1>1 DEF At, ProcType
<1> QED BY <1>1, <1>2, <1>3 DEF End, AppId, AppIds, ProcType

\* A server that starts has an instance of its own, new to the register.
LEMMA RegisterType ==
  ASSUME DiscoveryAssumption, TypeOK, NEW p \in Procs, NEW stage \in Stages, Register(p, stage)
  PROVE  TypeOK'
<1>1. proc' \in [Procs -> ProcType]
  <2>0. proc[p] \in ProcType
    BY ProcTypes
  <2>1. PICK n \in Nat : n = proc[p].starts + 1
    BY <2>0 DEF ProcType
  <2>2. [proc[p] EXCEPT !.stage = stage, !.starts = n] \in ProcType
    BY <2>0 DEF ProcType
  <2>3. proc' = [proc EXCEPT ![p] = [proc[p] EXCEPT !.stage = stage, !.starts = n]]
    BY <2>1 DEF Register
  <2> QED BY <2>2, <2>3, ProcTypes
<1>2. DOMAIN inst' \subseteq AppIds /\ inst' \in [DOMAIN inst' -> InstType]
  BY StoreType, ProcTypes DEF Register, TypeOK
<1> QED BY <1>1, <1>2 DEF Register, TypeOK, ProcType, InstType, Bounds

\* A game server's registration keeps the types,
LEMMA GsType ==
  ASSUME DiscoveryAssumption, TypeOK, NEW p \in Procs,
         \/ ScanGsIds(p) \/ NoGsIdCanUse(p) \/ AssignGsId(p) \/ RegisterFails(p)
         \/ GetMainGameServerAppId(p) \/ MainNotFound(p)
  PROVE  TypeOK'
<1>t. /\ proc \in [Procs -> ProcType] /\ inst \in [DOMAIN inst -> InstType]
      /\ DOMAIN inst \subseteq AppIds
  BY DEF TypeOK, ProcType, InstType
<1>1. /\ phase' \in 0 .. DeadAfter - 1 /\ pauses' \in Nat /\ nodeRestarts' \in Nat
      /\ disturbed' \in BOOLEAN
  BY DEF ScanGsIds, NoGsIdCanUse, AssignGsId, RegisterFails, GetMainGameServerAppId,
         MainNotFound, Bounds, TypeOK
<1>2. CASE ScanGsIds(p)
  <2>1. Smallest(FreeGsIds) \in 0 .. MaxGsId
    <3>1. FreeGsIds \in SUBSET Nat /\ FreeGsIds # {} /\ FreeGsIds \subseteq 0 .. MaxGsId
      BY <1>2 DEF ScanGsIds, FreeGsIds, DiscoveryAssumption
    <3> QED BY <3>1, SmallestIn
  <2>2. proc' \in [Procs -> ProcType]
    <3>1. [proc[p] EXCEPT !.stage = "assign", !.gsId = Smallest(FreeGsIds)] \in ProcType
      BY <1>t, <2>1 DEF ProcType, Stages
    <3>2. proc' = [proc EXCEPT ![p] = [proc[p] EXCEPT !.stage = "assign", !.gsId = Smallest(FreeGsIds)]]
      BY <1>2 DEF ScanGsIds
    <3> QED BY <1>t, <3>1, <3>2
  <2> QED BY <1>1, <1>2, <2>2 DEF ScanGsIds, TypeOK, ProcType
<1>3. CASE NoGsIdCanUse(p) \/ RegisterFails(p)
  BY <1>1, <1>3, ProcTypes DEF NoGsIdCanUse, RegisterFails, TypeOK, ProcType
<1>4. CASE AssignGsId(p)
  <2>1. proc' \in [Procs -> ProcType]
    BY <1>4, ProcTypes DEF AssignGsId, Stages
  <2>2. proc[p].gsId \in 0 .. MaxGsId
    BY <1>t DEF ProcType
  <2>3. DOMAIN inst' = DOMAIN inst /\ inst' \in [DOMAIN inst -> InstType]
    BY <1>4, <1>t, <2>2 DEF AssignGsId, InstType
  <2> QED BY <1>1, <1>t, <2>1, <2>3 DEF TypeOK, ProcType, InstType
<1>5. CASE GetMainGameServerAppId(p)
  <2>1. MainInstances \subseteq AppIds
    BY <1>t DEF MainInstances, Instances
  <2>2. proc' \in [Procs -> ProcType]
    <3>1. PICK a \in MainInstances : proc' = [proc EXCEPT ![p].stage = "up", ![p].main = a]
      BY <1>5 DEF GetMainGameServerAppId
    <3>2. [proc[p] EXCEPT !.stage = "up", !.main = a] \in ProcType
      BY <1>t, <2>1 DEF ProcType, Stages
    <3>3. proc' = [proc EXCEPT ![p] = [proc[p] EXCEPT !.stage = "up", !.main = a]]
      BY <3>1
    <3> QED BY <1>t, <3>2, <3>3
  <2> QED BY <1>1, <1>5, <2>2 DEF GetMainGameServerAppId, TypeOK, ProcType
<1>6. CASE MainNotFound(p)
  <2>1. DOMAIN inst' \subseteq AppIds /\ inst' \in [DOMAIN inst' -> InstType]
    <3>1. inst' = Delete({AppId(p)})
      BY <1>6 DEF MainNotFound
    <3> QED BY <3>1, DeletedType
  <2>2. proc' \in [Procs -> ProcType]
    BY <1>6, ProcTypes DEF MainNotFound
  <2> QED BY <1>1, <2>1, <2>2 DEF TypeOK, ProcType, InstType
<1> QED BY <1>2, <1>3, <1>4, <1>5, <1>6

\* and so do its end and its absences.
LEMMA EndType ==
  ASSUME DiscoveryAssumption, TypeOK, NEW p \in Procs,
         CancelServer(p) \/ Crash(p) \/ Disconnect(p) \/ Reconnect(p)
  PROVE  TypeOK'
<1>t. /\ proc \in [Procs -> ProcType] /\ inst \in [DOMAIN inst -> InstType]
      /\ DOMAIN inst \subseteq AppIds
  BY DEF TypeOK, ProcType, InstType
<1>1. CASE CancelServer(p)
  <2>1. DOMAIN inst' \subseteq AppIds /\ inst' \in [DOMAIN inst' -> InstType]
    <3>1. inst' = Delete({AppId(p)})
      BY <1>1 DEF CancelServer
    <3> QED BY <3>1, DeletedType
  <2> QED BY <1>1, <2>1, ProcTypes DEF CancelServer, Bounds, TypeOK, ProcType, InstType
<1>2. CASE Crash(p)
  BY <1>2, ProcTypes DEF Crash, Bounds, TypeOK, ProcType
<1>3. CASE Disconnect(p)
  <2>1. proc' \in [Procs -> ProcType]
    BY <1>3, <1>t DEF Disconnect, ProcType
  <2> QED BY <1>3, <2>1 DEF Disconnect, TypeOK, ProcType
<1>4. CASE Reconnect(p)
  <2>1. proc' \in [Procs -> ProcType]
    BY <1>4, <1>t DEF Reconnect, ProcType
  <2> QED BY <1>4, <2>1 DEF Reconnect, Bounds, TypeOK, ProcType
<1> QED BY <1>1, <1>2, <1>3, <1>4

\* A sweep and a restart of the node keep the types.
LEMMA NodeType == ASSUME DiscoveryAssumption, TypeOK, Tick \/ NodeRestart PROVE TypeOK'
<1>1. CASE Tick
  <2>1. DOMAIN inst' \subseteq AppIds /\ inst' \in [DOMAIN inst' -> InstType]
    BY <1>1, TickKeeps DEF TypeOK
  <2>2. phase' \in 0 .. DeadAfter - 1
    BY <1>1, TickInst DEF TypeOK, DiscoveryAssumption
  <2> QED BY <1>1, <2>1, <2>2, TickInst DEF TypeOK, InstType
<1>2. CASE NodeRestart
  <2>1. DOMAIN inst' \subseteq AppIds /\ inst' \in [DOMAIN inst' -> InstType]
    <3>1. inst' = Delete(DOMAIN inst)
      BY <1>2 DEF NodeRestart
    <3> QED BY <3>1, DeletedType
  <2> QED BY <1>2, <2>1 DEF NodeRestart, TypeOK, InstType, DiscoveryAssumption
<1> QED BY <1>1, <1>2

\* Every step keeps the types.
LEMMA NextType == ASSUME DiscoveryAssumption, TypeOK, [Next]_vars PROVE TypeOK'
<1>1. CASE UNCHANGED vars
  BY <1>1 DEF vars, TypeOK
<1>2. ASSUME NEW p \in Procs, RunGate(p) \/ RunOther(p) \/ RunGs(p) PROVE TypeOK'
  BY <1>2, RegisterType DEF RunGate, RunOther, RunGs, Stages
<1> QED BY <1>1, <1>2, GsType, EndType, NodeType DEF Next

\* Every variable keeps its type.
THEOREM TypeCorrect == ASSUME DiscoveryAssumption PROVE Spec => []TypeOK
<1>1. TypeOK /\ [Next]_vars => TypeOK'
  BY NextType
<1> QED BY <1>1, InitType, PTL DEF Spec
-----------------------------------------------------------------------------
(* Nobody is sent to a server long silent: between two sweeps an instance  *)
(* is no older than the sweep left it and the periods since then.          *)

AgeInv == \A a \in DOMAIN inst : inst[a].age <= DeadAfter + phase

\* What is stored is new, and nothing but 15 seconds makes an instance older.
LEMMA AgeNext == ASSUME DiscoveryAssumption, TypeOK, AgeInv, [Next]_vars PROVE AgeInv'
<1> USE DEF AgeInv
<1>n. DeadAfter \in Nat /\ phase \in Nat /\ phase' \in Nat
  BY NextType DEF TypeOK, DiscoveryAssumption
<1>1. ASSUME NEW p \in Procs, NEW stage, Register(p, stage) PROVE AgeInv'
  <2>1. inst' = Store(<<p, proc[p].starts + 1>>, NewInstance) /\ phase' = phase
    BY <1>1 DEF Register
  <2> QED BY <1>n, <2>1 DEF Store, NewInstance
<1>2. ASSUME NEW p \in Procs, AssignGsId(p) PROVE AgeInv'
  BY <1>2 DEF AssignGsId, TypeOK
<1>3. ASSUME NEW as, inst' = Delete(as), phase' = phase PROVE AgeInv'
  BY <1>3 DEF Delete
<1>4. ASSUME NEW p \in Procs,
             \/ ScanGsIds(p) \/ NoGsIdCanUse(p) \/ RegisterFails(p) \/ GetMainGameServerAppId(p)
             \/ MainNotFound(p) \/ CancelServer(p) \/ Crash(p) \/ Disconnect(p) \/ Reconnect(p)
      PROVE  AgeInv'
  BY <1>3, <1>4 DEF ScanGsIds, NoGsIdCanUse, RegisterFails, GetMainGameServerAppId, MainNotFound,
     CancelServer, Crash, Disconnect, Reconnect
<1>5. CASE Tick
  <2>1. \A a \in DOMAIN inst' : inst[a].age \in Nat /\ inst'[a].age \in Nat
    BY <1>5, TickKeeps DEF TypeOK, InstType
  <2> QED BY <1>5, <1>n, <2>1, TickKeeps, TickInst
<1>6. CASE NodeRestart
  BY <1>6 DEF NodeRestart, Delete
<1>7. CASE UNCHANGED vars
  BY <1>7 DEF vars
<1> QED BY <1>1, <1>2, <1>4, <1>5, <1>6, <1>7 DEF Next, RunGate, RunOther, RunGs

\* Whoever asks the node is given an instance it holds.
LEMMA Answers ==
  ASSUME TypeOK
  PROVE  (UNION {GetServerAppId(kind) : kind \in {GameServers, Gates, Others}})
           \cup (UNION {GetGateServerAddr(v) : v \in UNION {Versions[g] : g \in Gates}})
           \cup GetAllGateServerInfoList
           \cup MainInstances \subseteq DOMAIN inst
<1>1. \A kind : Instances(kind) \subseteq DOMAIN inst
  BY DEF Instances
<1>2. \A as : LeastLoaded(as) \subseteq as
  BY DEF LeastLoaded
<1>3. \A kind : GetServerAppId(kind) \subseteq DOMAIN inst
  BY <1>1, <1>2 DEF GetServerAppId
<1>4. \A v : GetGateServerAddr(v) \subseteq DOMAIN inst
  BY <1>1, <1>2 DEF GetGateServerAddr
<1>5. GetAllGateServerInfoList \subseteq DOMAIN inst /\ MainInstances \subseteq DOMAIN inst
  BY <1>1 DEF GetAllGateServerInfoList, MainInstances
<1> QED BY <1>3, <1>4, <1>5

\* Nobody is ever sent to a server that has been silent for two sweeps: for every
\* number of servers, every load, and however long a sweep takes.
THEOREM AnswersCorrect == ASSUME DiscoveryAssumption PROVE Spec => []AnswersFresh
<1>1. Init => AgeInv
  BY DEF Init, AgeInv
<1>2. TypeOK /\ AgeInv /\ [Next]_vars => AgeInv'
  BY AgeNext
<1>3. TypeOK /\ AgeInv => AnswersFresh
  <2> SUFFICES ASSUME TypeOK, AgeInv, NEW a \in DOMAIN inst PROVE inst[a].age < 2 * DeadAfter
    BY Answers DEF AnswersFresh
  <2>1. inst[a].age \in Nat /\ phase <= DeadAfter - 1 /\ DeadAfter \in Nat /\ phase \in Nat
    BY DEF TypeOK, DiscoveryAssumption, MaxAge
  <2> QED BY <2>1 DEF AgeInv
<1> QED BY <1>1, <1>2, <1>3, TypeCorrect, PTL DEF Spec

-----------------------------------------------------------------------------
(* The ids of the game servers.  As long as no two registrations overlapped *)
(* and nobody was cut off: a server that has an id has it in the register,  *)
(* its instance is kept alive, and one that is about to be given an id      *)
(* found it free and is alone.                                              *)

KindInv == \A p \in Procs : proc[p].stage \in {"scan", "assign", "started"} => p \in GameServers
Known(p) ==
  /\ Reaches(p)
  /\ proc[p].stage # "down" => AppId(p) \in DOMAIN inst /\ inst[AppId(p)].age = 0
IdOf(p) ==
  /\ HasGsId(p) => proc[p].gsId # 0 /\ inst[AppId(p)].gsId = proc[p].gsId
  /\ Serving(p) /\ proc[p].main = AppId(p) => proc[p].gsId = 1
Assigned(p) ==
  proc[p].stage = "assign" =>
    /\ proc[p].gsId # 0
    /\ \A a \in Instances(GameServers) : inst[a].gsId # proc[p].gsId
OneAssigned ==
  \A p, q \in GameServers : proc[p].stage = "assign" /\ proc[q].stage = "assign" => p = q
IdInv ==
  /\ KindInv
  /\ ~disturbed => /\ \A p \in Procs : Known(p)
                   /\ \A p \in GameServers : IdOf(p) /\ Assigned(p)
                   /\ OneAssigned
                   /\ GsIdsUnique

\* No server is there at the start.
LEMMA IdInit == Init => IdInv
BY DEF Init, IdInv, KindInv, Known, IdOf, Assigned, OneAssigned, GsIdsUnique, Down, Reaches,
       Serving, HasGsId, Procs
\* What a step has to leave of the others for their part of the invariant to hold.
LEMMA IdFrame ==
  ASSUME NEW p \in Procs, proc'[p] = proc[p],
         AppId(p) \in DOMAIN inst => AppId(p) \in DOMAIN inst' /\ inst'[AppId(p)] = inst[AppId(p)],
         Known(p)
  PROVE  Known(p)' /\ (p \in GameServers /\ IdOf(p) => IdOf(p)')
BY DEF Known, IdOf, AppId, Reaches, Serving, HasGsId

\* The appids of two servers differ.
LEMMA AppIdsDiffer == \A p, q : p # q => AppId(p) # AppId(q) /\ \A n : AppId(p) # <<q, n>>
BY DEF AppId

\* A server that starts has an instance without an id.
LEMMA IdRegister ==
  ASSUME DiscoveryAssumption, TypeOK, IdInv, NEW p \in Procs, RunGate(p) \/ RunOther(p) \/ RunGs(p)
  PROVE  IdInv'
<1>1. PICK stage \in {"scan", "up"} :
        Register(p, stage) /\ (p \in GameServers <=> stage = "scan")
  BY DEF RunGate, RunOther, RunGs, DiscoveryAssumption
<1> DEFINE a == <<p, proc[p].starts + 1>>
<1>2. /\ proc'[p].stage = stage /\ AppId(p)' = a
      /\ proc'[p].connected = proc[p].connected
      /\ \A q \in Procs \ {p} : proc'[q] = proc[q]
  BY <1>1 DEF Register, AppId, TypeOK
<1>3. /\ DOMAIN inst' = DOMAIN inst \cup {a} /\ inst'[a] = NewInstance
      /\ \A b \in DOMAIN inst \ {a} : inst'[b] = inst[b]
  BY <1>1 DEF Register, Store
<1>4. KindInv'
  BY <1>1, <1>2 DEF IdInv, KindInv
<1>5. ASSUME ~disturbed' PROVE /\ \A q \in Procs : Known(q)'
                               /\ \A q \in GameServers : IdOf(q)' /\ Assigned(q)'
                               /\ OneAssigned'
                               /\ GsIdsUnique'
  <2>1. ~disturbed
    BY <1>1, <1>5 DEF Register
  <2>2. ASSUME NEW q \in Procs \ {p} PROVE Known(q)' /\ (q \in GameServers => IdOf(q)')
    BY <1>2, <1>3, <2>1, IdFrame, AppIdsDiffer DEF IdInv
  <2>3. Known(p)' /\ (p \in GameServers => IdOf(p)')
    BY <1>1, <1>2, <1>3, <2>1 DEF IdInv, Known, IdOf, Reaches, HasGsId, Serving, NewInstance
  <2>4. ASSUME NEW q \in GameServers PROVE Assigned(q)'
    BY <1>1, <1>2, <1>3, <2>1 DEF IdInv, Assigned, Instances, NewInstance, Procs
  <2>5. OneAssigned' /\ GsIdsUnique'
    BY <1>1, <1>2, <2>1 DEF IdInv, OneAssigned, GsIdsUnique, HasGsId, Procs
  <2> QED BY <2>2, <2>3, <2>4, <2>5 DEF Procs
<1> QED BY <1>4, <1>5 DEF IdInv

\* The id found is free, and is still when it is stored: nobody else is at it.
LEMMA IdScan ==
  ASSUME DiscoveryAssumption, TypeOK, IdInv, NEW p \in Procs, ScanGsIds(p) PROVE IdInv'
<1>0. p \in GameServers
  BY DEF ScanGsIds, IdInv, KindInv
<1>1. proc'[p].gsId \in FreeGsIds
  <2>1. FreeGsIds \in SUBSET Nat /\ FreeGsIds # {}
    BY DEF ScanGsIds, FreeGsIds, DiscoveryAssumption
  <2> QED BY <2>1, SmallestIn DEF ScanGsIds, TypeOK
<1>2. /\ proc'[p].stage = "assign" /\ AppId(p)' = AppId(p)
      /\ proc'[p].connected = proc[p].connected
      /\ proc[p].stage = "scan"
      /\ \A q \in Procs \ {p} : proc'[q] = proc[q]
      /\ inst' = inst
  BY DEF ScanGsIds, AppId, TypeOK
<1>3. KindInv'
  BY <1>0, <1>2 DEF IdInv, KindInv
<1>4. ASSUME ~disturbed' PROVE /\ \A q \in Procs : Known(q)'
                               /\ \A q \in GameServers : IdOf(q)' /\ Assigned(q)'
                               /\ OneAssigned'
                               /\ GsIdsUnique'
  <2>1. ~disturbed /\ \A q \in GameServers \ {p} : proc[q].stage # "assign"
    BY <1>4 DEF ScanGsIds
  <2>2. ASSUME NEW q \in Procs \ {p} PROVE Known(q)' /\ (q \in GameServers => IdOf(q)')
    BY <1>2, <2>1, IdFrame DEF IdInv
  <2>3. Known(p)' /\ IdOf(p)'
    BY <1>2, <2>1 DEF IdInv, Known, IdOf, Reaches, HasGsId, Serving
  <2>4. Assigned(p)'
    BY <1>1, <1>2 DEF Assigned, FreeGsIds, UsedGsIds, Instances
  <2>5. ASSUME NEW q \in GameServers \ {p} PROVE Assigned(q)'
    BY <1>2, <2>1 DEF Assigned, Procs
  <2>6. OneAssigned' /\ GsIdsUnique'
    BY <1>0, <1>2, <2>1 DEF IdInv, OneAssigned, GsIdsUnique, HasGsId, Procs
  <2> QED BY <2>2, <2>3, <2>4, <2>5, <2>6 DEF Procs
<1> QED BY <1>3, <1>4 DEF IdInv

\* A game server given its number by the node has one no other has.
LEMMA IdAssign ==
  ASSUME DiscoveryAssumption, TypeOK, IdInv, NEW p \in Procs, AssignGsId(p) PROVE IdInv'
<1>0. p \in GameServers
  BY DEF AssignGsId, IdInv, KindInv
<1>2. /\ proc'[p].stage = "started" /\ AppId(p)' = AppId(p)
      /\ proc'[p].connected = proc[p].connected /\ proc'[p].gsId = proc[p].gsId
      /\ proc[p].stage = "assign"
      /\ \A q \in Procs \ {p} : proc'[q] = proc[q]
      /\ disturbed' = disturbed
  BY DEF AssignGsId, At, AppId, TypeOK
<1>3. KindInv'
  BY <1>0, <1>2 DEF IdInv, KindInv
<1>4. ASSUME ~disturbed' PROVE /\ \A q \in Procs : Known(q)'
                               /\ \A q \in GameServers : IdOf(q)' /\ Assigned(q)'
                               /\ OneAssigned'
                               /\ GsIdsUnique'
  <2>0. ~disturbed
    BY <1>2, <1>4
  <2>1. /\ AppId(p) \in DOMAIN inst /\ DOMAIN inst' = DOMAIN inst
        /\ inst'[AppId(p)].gsId = proc[p].gsId /\ inst'[AppId(p)].age = inst[AppId(p)].age
        /\ \A b \in DOMAIN inst \ {AppId(p)} : inst'[b] = inst[b]
    BY <1>2, <2>0 DEF AssignGsId, IdInv, Known, TypeOK
  <2>2. ASSUME NEW q \in Procs \ {p} PROVE Known(q)' /\ (q \in GameServers => IdOf(q)')
    BY <1>2, <2>0, <2>1, IdFrame, AppIdsDiffer DEF IdInv
  <2>3. Known(p)' /\ IdOf(p)'
    BY <1>0, <1>2, <2>0, <2>1 DEF IdInv, Known, IdOf, Assigned, Reaches, HasGsId, Serving
  <2>4. ASSUME NEW q \in GameServers PROVE proc'[q].stage # "assign"
    BY <1>0, <1>2, <2>0 DEF IdInv, OneAssigned, Procs
  <2>5. ASSUME NEW q \in GameServers \ {p}, HasGsId(q) PROVE proc[q].gsId # proc[p].gsId
    <3>1. AppId(q) \in Instances(GameServers) /\ inst[AppId(q)].gsId = proc[q].gsId
      BY <2>0, <2>5 DEF IdInv, Known, IdOf, HasGsId, Instances, AppId, Procs
    <3> QED BY <1>0, <1>2, <2>0, <3>1 DEF IdInv, Assigned
  <2>6. OneAssigned' /\ GsIdsUnique'
    BY <1>0, <1>2, <2>0, <2>4, <2>5 DEF IdInv, OneAssigned, GsIdsUnique, HasGsId, Procs
  <2> QED BY <2>2, <2>3, <2>4, <2>6 DEF Procs, Assigned
<1> QED BY <1>3, <1>4 DEF IdInv

\* A server that learns it has the first id is the one that has it.
LEMMA IdMain ==
  ASSUME DiscoveryAssumption, TypeOK, IdInv, NEW p \in Procs, GetMainGameServerAppId(p)
  PROVE  IdInv'
<1>0. p \in GameServers
  BY DEF GetMainGameServerAppId, IdInv, KindInv
<1>1. PICK a \in MainInstances : proc' = [proc EXCEPT ![p].stage = "up", ![p].main = a]
  BY DEF GetMainGameServerAppId
<1>2. /\ proc'[p].stage = "up" /\ AppId(p)' = AppId(p) /\ proc'[p].main = a
      /\ proc'[p].connected = proc[p].connected /\ proc'[p].gsId = proc[p].gsId
      /\ proc[p].stage = "started"
      /\ \A q \in Procs \ {p} : proc'[q] = proc[q]
      /\ inst' = inst /\ disturbed' = disturbed
  BY <1>1 DEF GetMainGameServerAppId, AppId, TypeOK
<1>3. KindInv'
  BY <1>0, <1>2 DEF IdInv, KindInv
<1>4. ASSUME ~disturbed' PROVE /\ \A q \in Procs : Known(q)'
                               /\ \A q \in GameServers : IdOf(q)' /\ Assigned(q)'
                               /\ OneAssigned'
                               /\ GsIdsUnique'
  <2>0. ~disturbed
    BY <1>2, <1>4
  <2>2. ASSUME NEW q \in Procs \ {p} PROVE Known(q)' /\ (q \in GameServers => IdOf(q)')
    BY <1>2, <2>0, IdFrame DEF IdInv
  <2>3. Known(p)' /\ IdOf(p)'
    BY <1>0, <1>2, <2>0 DEF IdInv, Known, IdOf, Reaches, HasGsId, Serving, MainInstances
  <2>4. ASSUME NEW q \in GameServers PROVE Assigned(q)'
    BY <1>2, <2>0 DEF IdInv, Assigned, Instances, Procs
  <2>5. OneAssigned' /\ GsIdsUnique'
    BY <1>0, <1>2, <2>0 DEF IdInv, OneAssigned, GsIdsUnique, HasGsId, Procs
  <2> QED BY <2>2, <2>3, <2>4, <2>5 DEF Procs
<1> QED BY <1>3, <1>4 DEF IdInv

\* A server that ends, its instance deleted or left behind, takes its id with it.
LEMMA IdEnd ==
  ASSUME TypeOK, IdInv, NEW p \in Procs, proc' = End(p), disturbed' = disturbed,
         inst' = inst \/ inst' = Delete({AppId(p)})
  PROVE  IdInv'
<1>1. /\ proc'[p].stage = "down" /\ proc'[p].connected
      /\ \A q \in Procs \ {p} : proc'[q] = proc[q]
  BY DEF End, Down, TypeOK
<1>2. /\ DOMAIN inst' \subseteq DOMAIN inst /\ DOMAIN inst \ {AppId(p)} \subseteq DOMAIN inst'
      /\ \A b \in DOMAIN inst' : inst'[b] = inst[b]
  BY DEF Delete
<1>3. KindInv'
  BY <1>1 DEF IdInv, KindInv
<1>4. ASSUME ~disturbed' PROVE /\ \A q \in Procs : Known(q)'
                               /\ \A q \in GameServers : IdOf(q)' /\ Assigned(q)'
                               /\ OneAssigned'
                               /\ GsIdsUnique'
  <2>2. ASSUME NEW q \in Procs \ {p} PROVE Known(q)' /\ (q \in GameServers => IdOf(q)')
    BY <1>1, <1>2, <1>4, IdFrame, AppIdsDiffer DEF IdInv
  <2>3. Known(p)' /\ IdOf(p)'
    BY <1>1 DEF Known, IdOf, Reaches, HasGsId, Serving
  <2>4. ASSUME NEW q \in GameServers PROVE Assigned(q)'
    BY <1>1, <1>2, <1>4 DEF IdInv, Assigned, Instances, Procs
  <2>5. OneAssigned' /\ GsIdsUnique'
    BY <1>1, <1>4 DEF IdInv, OneAssigned, GsIdsUnique, HasGsId, Procs
  <2> QED BY <2>2, <2>3, <2>4, <2>5 DEF Procs
<1> QED BY <1>3, <1>4 DEF IdInv

\* A sweep leaves alone whoever is kept alive.
LEMMA IdTick == ASSUME DiscoveryAssumption, TypeOK, IdInv, Tick PROVE IdInv'
<1>1. proc' = proc /\ disturbed' = disturbed
  BY TickInst
<1>2. KindInv'
  BY <1>1 DEF IdInv, KindInv
<1>3. ASSUME ~disturbed' PROVE /\ \A q \in Procs : Known(q)'
                               /\ \A q \in GameServers : IdOf(q)' /\ Assigned(q)'
                               /\ OneAssigned'
                               /\ GsIdsUnique'
  <2>1. ASSUME NEW q \in Procs, proc[q].stage # "down"
        PROVE  AppId(q) \in DOMAIN inst' /\ inst'[AppId(q)].age = 0
               /\ inst'[AppId(q)].gsId = inst[AppId(q)].gsId
    <3>1. AppId(q) \in DOMAIN inst \cap KeptAlive
      BY <1>1, <1>3, <2>1 DEF IdInv, Known, KeptAlive
    <3> QED BY <3>1, TickKeeps
  <2>2. ASSUME NEW q \in Procs PROVE Known(q)' /\ (q \in GameServers => IdOf(q)')
    BY <1>1, <1>3, <2>1 DEF IdInv, Known, IdOf, Reaches, AppId, HasGsId, Serving
  <2>4. ASSUME NEW q \in GameServers PROVE Assigned(q)'
    BY <1>1, <1>3, TickKeeps DEF IdInv, Assigned, Instances
  <2>5. OneAssigned' /\ GsIdsUnique'
    BY <1>1, <1>3 DEF IdInv, OneAssigned, GsIdsUnique, HasGsId
  <2> QED BY <2>2, <2>4, <2>5 DEF Procs
<1> QED BY <1>2, <1>3 DEF IdInv

\* Every step keeps the invariant of the ids.
LEMMA IdNext == ASSUME DiscoveryAssumption, TypeOK, IdInv, [Next]_vars PROVE IdInv'
<1>1. ASSUME NEW p \in Procs, NoGsIdCanUse(p) \/ RegisterFails(p) \/ MainNotFound(p)
                              \/ CancelServer(p) \/ Crash(p)
      PROVE  IdInv'
  BY <1>1, IdEnd DEF NoGsIdCanUse, RegisterFails, MainNotFound, CancelServer, Crash
<1>2. ASSUME NEW p \in Procs, Disconnect(p) PROVE IdInv'
  BY <1>2 DEF Disconnect, IdInv, KindInv, TypeOK
<1>3. ASSUME NEW p \in Procs, Reconnect(p) PROVE IdInv'
  <2>1. KindInv' /\ disturbed' = disturbed
    BY <1>3 DEF Reconnect, IdInv, KindInv, TypeOK
  <2>2. disturbed
    BY <1>3 DEF Reconnect, IdInv, Known
  <2> QED BY <2>1, <2>2 DEF IdInv
<1>4. CASE NodeRestart
  BY <1>4 DEF NodeRestart, IdInv, KindInv
<1>5. CASE UNCHANGED vars
  BY <1>5 DEF vars, IdInv, KindInv, Known, IdOf, Assigned, OneAssigned, GsIdsUnique, Reaches,
     AppId, Serving, HasGsId, Instances
<1> QED BY <1>1, <1>2, <1>3, <1>4, <1>5, IdRegister, IdScan, IdAssign, IdMain, IdTick DEF Next

\* The ids are unique and there is one main server: for every number of servers and
\* ids, whatever servers crash, end or lose their answer, and however long the dead
\* stay in the register, unless two registrations overlap or somebody is cut off.
THEOREM IdsCorrect == ASSUME DiscoveryAssumption PROVE Spec => []IdsAgree
<1>1. TypeOK /\ IdInv /\ [Next]_vars => IdInv'
  BY IdNext
<1>2. TypeOK /\ IdInv => IdsAgree
  <2> SUFFICES ASSUME TypeOK, IdInv PROVE GsIdsUnique /\ OneMain
    BY DEF IdsAgree
  <2>1. GsIdsUnique
    BY DEF IdInv, GsIdsUnique
  <2>2. ASSUME ~disturbed
        PROVE  Cardinality({p \in GameServers : Serving(p) /\ proc[p].main = AppId(p)}) <= 1
    <3> DEFINE mains == {p \in GameServers : Serving(p) /\ proc[p].main = AppId(p)}
    <3>1. \A p, q \in mains : p = q
      BY <2>1, <2>2 DEF IdInv, IdOf, GsIdsUnique, HasGsId, Serving
    <3>2. CASE mains = {}
      BY <3>2, FS_EmptySet
    <3>3. ASSUME NEW p \in mains PROVE Cardinality(mains) <= 1
      <4>1. mains = {p}
        BY <3>1, <3>3
      <4>2. Cardinality({p}) = 1
        BY FS_Singleton
      <4> QED BY <4>1, <4>2
    <3> QED BY <3>2, <3>3
  <2> QED BY <2>1, <2>2 DEF OneMain
<1> QED BY <1>1, <1>2, IdInit, TypeCorrect, PTL DEF Spec

-----------------------------------------------------------------------------
(* The composition.                                                        *)

\* A behaviour runs the part it has chosen.
LEMMA PartStays == ASSUME [ClusterNext]_ClusterVars PROVE part' = part
BY DEF ClusterNext, ClusterVars

\* Every behaviour is one of Discovery, which only stands still while another part runs.
LEMMA NodesRun == ClusterSpec => Spec
<1>1. ClusterInit => Init
  BY DEF ClusterInit
<1>2. [ClusterNext]_ClusterVars => [Next]_vars
  BY DEF ClusterNext, ClusterVars
<1> QED BY <1>1, <1>2, PTL DEF ClusterSpec, Spec

\* A behaviour of the queue's part is one of MessageQueue.
LEMMA QueueRuns == ClusterSpec /\ part = "queue" => [](part = "queue") /\ Queue!Spec
<1>1. ClusterInit /\ part = "queue" => Queue!Init
  BY DEF ClusterInit
<1>2. part = "queue" /\ [ClusterNext]_ClusterVars => (part = "queue")' /\ [Queue!Next]_Queue!vars
  <2>1. ASSUME part = "queue", ClusterNext PROVE part' = "queue" /\ Queue!Next
    BY <2>1 DEF ClusterNext
  <2>2. ASSUME part = "queue", UNCHANGED ClusterVars
        PROVE  part' = "queue" /\ UNCHANGED Queue!vars
    BY <2>2 DEF ClusterVars, Registers, After7, After10, Queue!vars
  <2> QED BY <2>1, <2>2
<1> QED BY <1>1, <1>2, PTL DEF ClusterSpec, Queue!Spec

\* A behaviour of the listener's part is one of the listener.
LEMMA ListenRuns == ClusterSpec /\ part = "listen" => [](part = "listen") /\ Listen!Spec
<1>1. ClusterInit /\ part = "listen" => Listen!Init
  BY DEF ClusterInit
<1>2. part = "listen" /\ [ClusterNext]_ClusterVars => (part = "listen")' /\ [Listen!Next]_Listen!vars
  <2>1. ASSUME part = "listen", ClusterNext PROVE part' = "listen" /\ Listen!Next
    BY <2>1 DEF ClusterNext
  <2>2. ASSUME part = "listen", UNCHANGED ClusterVars
        PROVE  part' = "listen" /\ UNCHANGED Listen!vars
    BY <2>2 DEF ClusterVars, Registers, After7, After10, After11, Listen!vars
  <2> QED BY <2>1, <2>2
<1> QED BY <1>1, <1>2, PTL DEF ClusterSpec, Listen!Spec

\* A behaviour of the accounts' part is one of Accounts.
LEMMA SdkRuns == ClusterSpec /\ part = "sdk" => [](part = "sdk") /\ Sdk!Spec
<1>1. ClusterInit /\ part = "sdk" => Sdk!Init
  BY DEF ClusterInit
<1>2. part = "sdk" /\ [ClusterNext]_ClusterVars => (part = "sdk")' /\ [Sdk!Next]_Sdk!vars
  <2>1. ASSUME part = "sdk", ClusterNext PROVE part' = "sdk" /\ Sdk!Next
    BY <2>1 DEF ClusterNext
  <2>2. ASSUME part = "sdk", UNCHANGED ClusterVars
        PROVE  part' = "sdk" /\ UNCHANGED Sdk!vars
    BY <2>2 DEF ClusterVars, Registers, Sdk!vars
  <2> QED BY <2>1, <2>2
<1> QED BY <1>1, <1>2, PTL DEF ClusterSpec, Sdk!Spec

\* A behaviour of the friends' part is one of Social.
LEMMA FriendsRun == ClusterSpec /\ part = "friends" => [](part = "friends") /\ Friends!Spec
<1>1. ClusterInit /\ part = "friends" => Friends!Init
  BY DEF ClusterInit
<1>2. part = "friends" /\ [ClusterNext]_ClusterVars => (part = "friends")' /\ [Friends!Next]_Friends!vars
  <2>1. ASSUME part = "friends", ClusterNext PROVE part' = "friends" /\ Friends!Next
    BY <2>1 DEF ClusterNext
  <2>2. ASSUME part = "friends", UNCHANGED ClusterVars
        PROVE  part' = "friends" /\ UNCHANGED Friends!vars
    BY <2>2 DEF ClusterVars, Registers, After7, After10, After11, Friends!vars, Friends!people, Friends!talk
  <2> QED BY <2>1, <2>2
<1> QED BY <1>1, <1>2, PTL DEF ClusterSpec, Friends!Spec

\* The ids of the game servers agree with the node's register, and no answer is older than
\* the sweep of dead servers lets it be.
THEOREM NodesCorrect ==
  ASSUME DiscoveryAssumption PROVE ClusterSpec => []IdsAgree /\ []AnswersFresh
BY NodesRun, IdsCorrect, AnswersCorrect, PTL

\* No message between two servers arrives twice, and the goroutine of a game server that
\* connects agrees with the one that sends.
THEOREM OneWayCorrect == ClusterSpec => []OneWay
<1>1. Queue!QueueAssumption
  BY DEF Queue!QueueAssumption
<1>2. Queue!Spec => []Queue!TypeOK
  BY <1>1, Queue!TypeCorrect
<1>3. Queue!Spec => []Queue!OneWay
  BY <1>1, Queue!OneWayCorrect
<1>4. Queue!Spec => []Queue!AddrMapAgrees
  BY <1>1, Queue!AddrCorrect
<1>5. ~(part = "queue") /\ [ClusterNext]_ClusterVars => (~(part = "queue"))'
  BY PartStays
<1> QED BY <1>2, <1>3, <1>4, <1>5, QueueRuns, PTL DEF ClusterSpec, OneWay

\* The listener's table holds exactly the live sessions, and the load a gate reports is the
\* number of its open connections.
THEOREM TableCorrect == ClusterSpec => []TableAgrees
<1>1. Listen!ListenerAssumption
  BY DEF Listen!ListenerAssumption
<1>2. Listen!Spec => []Listen!TypeOK
  BY <1>1, Listen!TypeCorrect
<1>3. Listen!Spec => []Listen!TableAgrees
  BY <1>1, Listen!TableCorrect
<1>4. Listen!Spec => []Listen!ConnNumAgrees
  BY <1>1, Listen!ConnNumCorrect
<1>5. ~(part = "listen") /\ [ClusterNext]_ClusterVars => (~(part = "listen"))'
  BY PartStays
<1> QED BY <1>2, <1>3, <1>4, <1>5, ListenRuns, PTL DEF ClusterSpec, TableAgrees

\* Whoever has a friend is that one's friend, but for what is on its way or came in vain.
THEOREM FriendsCorrect == ClusterSpec => []FriendsMutual
<1>1. Friends!Spec => []Friends!PeopleOK
  BY Friends!TypesCorrect
<1>2. Friends!Spec => []Friends!FriendsMutual
  BY Friends!FriendsCorrect
<1>3. ~(part = "friends") /\ [ClusterNext]_ClusterVars => (~(part = "friends"))'
  BY PartStays
<1> QED BY <1>1, <1>2, <1>3, FriendsRun, PTL DEF ClusterSpec, FriendsMutual

\* What a player that is on lacks of a conversation is on its way, was said while it was logging
\* in or out, or was pushed out by newer or late ones.
THEOREM ChatCorrect == ASSUME Friends!SocialAssumption PROVE ClusterSpec => []ChatComplete
<1>1. Friends!Spec => []Friends!TypeOK
  BY Friends!TypeCorrect
<1>2. Friends!Spec => []Friends!ChatComplete
  BY Friends!ChatCorrect
<1>3. ~(part = "friends") /\ [ClusterNext]_ClusterVars => (~(part = "friends"))'
  BY PartStays
<1> QED BY <1>1, <1>2, <1>3, FriendsRun, PTL DEF ClusterSpec, ChatComplete

\* Two accounts never have an id in common, and a name keeps its account.
THEOREM AccountsCorrect == ASSUME Sdk!NobodyAssumption PROVE ClusterSpec => []IdsUnique
<1>1. Sdk!Spec => []Sdk!TypeOK
  BY Sdk!TypeCorrect
<1>2. Sdk!Spec => []Sdk!IdsUnique
  BY Sdk!IdsCorrect
<1>3. Sdk!Spec => []Sdk!NameKeepsAccount
  BY Sdk!NamesCorrect
<1>4. ~(part = "sdk") /\ [ClusterNext]_ClusterVars => (~(part = "sdk"))'
  BY PartStays
<1> QED BY <1>1, <1>2, <1>3, <1>4, SdkRuns, PTL DEF ClusterSpec, IdsUnique

\* A token that no later one replaced is good until a day goes by.
THEOREM TokensCorrect == ASSUME Sdk!NobodyAssumption PROVE ClusterSpec => []TokensGood
<1>1. Sdk!Spec => []Sdk!TokensGood
  BY Sdk!TokensCorrect
<1>2. ~(part = "sdk") /\ [ClusterNext]_ClusterVars => (~(part = "sdk"))'
  BY PartStays
<1> QED BY <1>1, <1>2, SdkRuns, PTL DEF ClusterSpec, TokensGood
-----------------------------------------------------------------------------
(* Kcp.  The stream is what Send made of the messages so far; the sender and *)
(* the receiver are described by indexes into it, that count from the first  *)
(* segment of the connection and never wrap: what was given up, what was     *)
(* sent, what has come in order and what was read, and those that came too   *)
(* early.  Sequence numbers are the indexes modulo SnMod, and packets of any *)
(* age say what is true of the stream.                                       *)

\* Most segments a connection carries in the model.
Most == Window * MaxSent
\* The number of the segment with index k, counted from 0.
SnAt(f, k) == (f + k) % SnMod

\* What the assumption says of the numbers.
LEMMA Numbers ==
  ASSUME Stream!KcpAssumption
  PROVE  /\ Most \in Nat /\ SnMod \in Nat /\ SnMod > 2 * (Most + 1) /\ FirstSns \subseteq 0 .. SnMod - 1
         /\ Window \in Nat /\ Window >= 1 /\ MaxSent \in Nat
BY DEF Stream!KcpAssumption, Most

\* The remainder of what is at most one turn out.
LEMMA Wraps ==
  ASSUME NEW n \in Nat, NEW a \in Int, n > 0
  PROVE  /\ (0 <= a /\ a < n) => a % n = a
         /\ (n <= a /\ a < 2 * n) => a % n = a - n
         /\ (-n <= a /\ a < 0) => a % n = a + n
<1>1. ASSUME 0 <= a, a < n PROVE a % n = a
  BY <1>1
<1>2. ASSUME n <= a, a < 2 * n PROVE a % n = a - n
  <2>1. (1 * n + (a - n)) % n = a - n
    BY <1>2
  <2> QED BY <2>1
<1>3. ASSUME -n <= a, a < 0 PROVE a % n = a + n
  <2>1. ((-1) * n + (a + n)) % n = a + n
    BY <1>3
  <2> QED BY <2>1
<1> QED BY <1>1, <1>2, <1>3

\* A number of the stream is taken modulo SnMod at most once.
LEMMA AtIs ==
  ASSUME Stream!KcpAssumption, NEW f \in FirstSns, NEW a \in 0 .. Most + 1
  PROVE  /\ SnAt(f, a) = IF f + a < SnMod THEN f + a ELSE f + a - SnMod
         /\ SnAt(f, a) \in 0 .. SnMod - 1
<1>1. f \in Int /\ 0 <= f /\ f < SnMod /\ SnMod \in Nat /\ SnMod > 0 /\ Most \in Nat /\ a < SnMod
  BY Numbers
<1>2. f + a \in Int /\ 0 <= f + a /\ f + a < 2 * SnMod
  BY <1>1
<1> QED BY <1>1, <1>2, Wraps DEF SnAt

\* _itimediff of two numbers of the stream is the difference of their indexes.
LEMMA DiffAt ==
  ASSUME Stream!KcpAssumption, NEW f \in FirstSns, NEW a \in 0 .. Most, NEW b \in 0 .. Most
  PROVE  Stream!Diff(SnAt(f, a), SnAt(f, b)) = a - b
<1> DEFINE d == SnAt(f, a) - SnAt(f, b)
<1>1. /\ f \in Int /\ 0 <= f /\ f < SnMod /\ SnMod \in Nat /\ Most \in Nat
      /\ SnMod > 2 * (Most + 1) /\ a \in 0 .. Most + 1 /\ b \in 0 .. Most + 1
  BY Numbers
<1>2. d \in Int /\ d \in {a - b, a - b - SnMod, a - b + SnMod} /\ -SnMod < d /\ d < SnMod
  BY <1>1, AtIs
<1>3. d % SnMod = IF a >= b THEN a - b ELSE a - b + SnMod
  <2> HIDE DEF d
  <2>1. /\ (0 <= d /\ d < SnMod) => d % SnMod = d
        /\ (-SnMod <= d /\ d < 0) => d % SnMod = d + SnMod
    BY <1>1, <1>2, Wraps
  <2> QED BY <1>1, <1>2, <2>1
<1>4. a >= b => a - b < SnMod \div 2
  BY <1>1
<1>5. a < b => a - b + SnMod >= SnMod \div 2
  BY <1>1
<1>6. Stream!Diff(SnAt(f, a), SnAt(f, b)) = IF d % SnMod >= SnMod \div 2 THEN (d % SnMod) - SnMod ELSE d % SnMod
  BY DEF Stream!Diff
<1> HIDE DEF d
<1> QED BY <1>1, <1>3, <1>4, <1>5, <1>6

\* Two segments of the stream never have a number in common.
LEMMA AtDiffers ==
  ASSUME Stream!KcpAssumption, NEW f \in FirstSns, NEW a \in 0 .. Most, NEW b \in 0 .. Most,
         SnAt(f, a) = SnAt(f, b)
  PROVE  a = b
BY AtIs, Numbers

\* Counting on from a number of the stream.
LEMMA PlusAt ==
  ASSUME Stream!KcpAssumption, NEW f \in FirstSns, NEW a \in Nat, NEW n \in Nat, a + n <= Most
  PROVE  Stream!Plus(SnAt(f, a), n) = SnAt(f, a + n)
<1>1. /\ f \in Int /\ 0 <= f /\ f < SnMod /\ SnMod \in Nat /\ Most \in Nat /\ SnMod > 2 * (Most + 1)
      /\ a \in 0 .. Most + 1 /\ a + n \in 0 .. Most + 1
  BY Numbers
<1> DEFINE b == SnAt(f, a)
<1>2. b \in Int /\ 0 <= b + n /\ b + n < 2 * SnMod /\ b \in {f + a, f + a - SnMod}
  BY <1>1, AtIs
<1>3. (b + n) % SnMod = IF b + n < SnMod THEN b + n ELSE b + n - SnMod
  <2> HIDE DEF b
  <2> QED BY <1>1, <1>2, Wraps
<1>4. SnAt(f, a + n) = IF f + (a + n) < SnMod THEN f + (a + n) ELSE f + (a + n) - SnMod
  BY <1>1, AtIs
<1>5. b \in 0 .. SnMod - 1
  BY <1>1, AtIs
<1>6. Stream!Plus(b, n) = SnAt(f, a + n)
  <2> HIDE DEF b
  <2> QED BY <1>1, <1>2, <1>3, <1>4, <1>5 DEF Stream!Plus
<1> QED BY <1>6

\* The smallest of a set of numbers is one of them, and no greater than any.
LEMMA MinIn ==
  ASSUME NEW T, T \subseteq Nat, T # {}
  PROVE  Stream!Min(T) \in T /\ \A y \in T : Stream!Min(T) <= y
<1>1. PICK i \in T : \A j \in T : <<j, i>> \notin OpToRel(<, Nat)
  BY NatLessThanWellFounded, WFMin
<1>2. ASSUME NEW j \in T PROVE i <= j
  <2>1. <<j, i>> \in OpToRel(<, Nat) <=> j < i
    BY DEF OpToRel
  <2>2. ~ j < i
    BY <1>1, <2>1, Zenon
  <2> QED BY <2>2
<1> QED BY <1>2 DEF Stream!Min

\* The greatest of a bounded set of numbers is one of them, and no smaller than any.
LEMMA MaxIn ==
  ASSUME NEW n \in Nat, NEW T, T \subseteq 0 .. n, T # {}
  PROVE  Stream!Max(T) \in T /\ \A y \in T : Stream!Max(T) >= y
<1> DEFINE U == {k \in 0 .. n : n - k \in T}
<1>1. PICK t \in T : TRUE
  OBVIOUS
<1>2. n - (n - t) = t /\ n - t \in 0 .. n
  BY <1>1
<1>3. U # {} /\ U \subseteq Nat
  <2>1. n - t \in U
    BY <1>1, <1>2
  <2>2. \A k \in 0 .. n : k \in Nat
    OBVIOUS
  <2>3. U \subseteq 0 .. n
    BY Zenon
  <2> HIDE DEF U
  <2> QED BY <2>1, <2>2, <2>3, Zenon
<1>4. Stream!Min(U) \in U /\ \A y \in U : Stream!Min(U) <= y
  <2> HIDE DEF U
  <2> QED BY <1>3, MinIn
<1>5. n - Stream!Min(U) \in T /\ Stream!Min(U) \in 0 .. n
  BY <1>4
<1>6. ASSUME NEW y \in T PROVE n - Stream!Min(U) >= y
  <2>1. n - y \in 0 .. n /\ n - (n - y) = y
    OBVIOUS
  <2>2. Stream!Min(U) <= n - y
    BY <1>4, <2>1
  <2> HIDE DEF U
  <2> QED BY <1>5, <2>2
<1> HIDE DEF U
<1> QED BY <1>5, <1>6 DEF Stream!Max
\* A piece of a message, as it waits, as it is sent and as it is received.
Piece == [msg : Nat, frg : Nat]
OutSeg == [sn : Nat, acked : BOOLEAN, frg : Nat, msg : Nat]
InSeg == [sn : Nat, frg : Nat, msg : Nat]
Same(s, t) == s.frg = t.frg /\ s.msg = t.msg

\* The stream S is what Send made of the messages w: each cut into pieces, none left out.
Cut(S, w) ==
  /\ S \in Seq(Piece) /\ w \in Seq(1 .. MaxFrg) /\ Len(S) <= Window * Len(w)
  /\ \A i \in 1 .. Len(S) : S[i].msg \in 1 .. Len(w) /\ S[i].frg < w[S[i].msg]
  /\ \A i \in 1 .. Len(S), d \in Nat :
       d <= S[i].frg => i + d <= Len(S) /\ S[i + d].msg = S[i].msg /\ S[i + d].frg = S[i].frg - d
  /\ Len(S) > 0 => S[1].msg = 1 /\ S[1].frg = w[1] - 1 /\ S[Len(S)].msg = Len(w)
  /\ Len(S) = 0 => Len(w) = 0
  /\ \A i \in 1 .. Len(S) - 1 :
       S[i].frg = 0 => S[i + 1].msg = S[i].msg + 1 /\ S[i + 1].frg = w[S[i + 1].msg] - 1

\* The sender's end: what is before u was given up, what is from x on waits for the window.
Sent(f, S, u, x, queue, buf, una, nxt) ==
  /\ u \in Nat /\ x \in Nat /\ u <= x /\ x <= Len(S)
  /\ una = SnAt(f, u) /\ nxt = SnAt(f, x)
  /\ queue = SubSeq(S, x + 1, Len(S))
  /\ buf \in Seq(OutSeg) /\ Len(buf) = x - u
  /\ \A i \in 1 .. x - u : buf[i].sn = SnAt(f, u + i - 1) /\ Same(buf[i], S[u + i])

\* What came too early: the segments with the indexes K.
Early(f, S, x, r, K, buf) ==
  /\ K \in Seq(Nat) /\ buf \in Seq(InSeg) /\ Len(K) = Len(buf)
  /\ \A j \in 1 .. Len(K) :
       r <= K[j] /\ K[j] < x /\ buf[j].sn = SnAt(f, K[j]) /\ Same(buf[j], S[K[j] + 1])
  /\ \A i, j \in 1 .. Len(K) : i < j => K[j] - K[i] >= j - i
\* The receiver's queue: in order from q to r.
Queued(S, q, r, queue) ==
  /\ q \in Nat /\ r \in Nat /\ q <= r /\ r - q <= Window
  /\ queue \in Seq(InSeg) /\ Len(queue) = r - q
  /\ \A i \in 1 .. r - q : Same(queue[i], S[q + i])

Got(r, K, k) == k < r \/ \E j \in 1 .. Len(K) : K[j] = k
Kept(r, K, u, buf) == \A i \in 1 .. Len(buf) : buf[i].acked => Got(r, K, u + i - 1)
PacketOK(f, S, x, r, K, p) ==
  /\ p.cmd = "push" => \E k \in 0 .. x - 1 : p.sn = SnAt(f, k) /\ Same(p, S[k + 1])
  /\ p.cmd = "ack" => \E k \in 0 .. x - 1 : p.sn = SnAt(f, k) /\ Got(r, K, k)
  /\ p.cmd \in {"ack", "wins"} => p.wnd \in Nat /\ \E a \in 0 .. r : p.una = SnAt(f, a)
Packets(f, S, x, r, K, ps) == \A p \in ps : PacketOK(f, S, x, r, K, p)

ReadWell(S, q, w, rd) ==
  /\ rd \in Seq(Seq(InSeg)) /\ Len(rd) <= Len(w)
  /\ q = 0 => Len(rd) = 0
  /\ q > 0 => S[q].frg = 0 /\ S[q].msg = Len(rd)
  /\ \A m \in 1 .. Len(rd) :
       /\ Len(rd[m]) = w[m]
       /\ \A i \in 1 .. w[m] : rd[m][i].msg = m /\ rd[m][i].frg = w[m] - i

Bounded == dropped \in Nat /\ Len(written) + dropped <= MaxSent /\ rmtWnd \in Nat /\ cwnd \in Nat
Holds(f, S, u, x, r, q, K) ==
  /\ Cut(S, written) /\ Bounded
  /\ Sent(f, S, u, x, sndQueue, sndBuf, sndUna, sndNxt)
  /\ Early(f, S, x, r, K, rcvBuf) /\ Queued(S, q, r, rcvQueue) /\ rcvNxt = SnAt(f, r)
  /\ u <= r /\ r <= x
  /\ Kept(r, K, u, sndBuf) /\ Packets(f, S, x, r, K, net)
  /\ ReadWell(S, q, written, read)
StreamInv == \E f \in FirstSns : \E S, u, x, r, q, K : Holds(f, S, u, x, r, q, K)

-----------------------------------------------------------------------------
\* A new connection: nothing written, nothing sent.
LEMMA StreamStart == ASSUME Stream!KcpAssumption, Stream!Init PROVE StreamInv
<1>1. /\ FirstSns \subseteq 0 .. SnMod - 1 /\ SnMod \in Nat /\ Window \in Nat /\ MaxSent \in Nat
  BY Numbers
<1>2. SnAt(sndUna, 0) = sndUna
  BY <1>1, Numbers, AtIs DEF Stream!Init
<1>3. Cut(<<>>, written) /\ Bounded
  BY <1>1 DEF Stream!Init, Cut, Bounded, Piece
<1>4. Sent(sndUna, <<>>, 0, 0, sndQueue, sndBuf, sndUna, sndNxt)
  BY <1>1, <1>2 DEF Stream!Init, Sent
<1>5. Early(sndUna, <<>>, 0, 0, <<>>, rcvBuf) /\ Queued(<<>>, 0, 0, rcvQueue) /\ rcvNxt = SnAt(sndUna, 0)
  BY <1>1, <1>2 DEF Stream!Init, Early, Queued
<1>6. Kept(0, <<>>, 0, sndBuf) /\ Packets(sndUna, <<>>, 0, 0, <<>>, net)
  BY DEF Stream!Init, Kept, Packets
<1>7. ReadWell(<<>>, 0, written, read)
  BY DEF Stream!Init, ReadWell
<1>8. Holds(sndUna, <<>>, 0, 0, 0, 0, <<>>)
  BY <1>3, <1>4, <1>5, <1>6, <1>7 DEF Holds
<1> QED BY <1>8 DEF Stream!Init, StreamInv

\* The stream of the connections is never longer than Most.
LEMMA NotLong ==
  ASSUME Stream!KcpAssumption, NEW S, NEW w, Cut(S, w), Len(w) <= MaxSent
  PROVE  Len(S) \in Nat /\ Len(S) <= Most
<1>1. Len(w) \in Nat /\ Len(S) \in Nat /\ Len(S) <= Window * Len(w)
  BY DEF Cut
<1>2. Window * Len(w) <= Window * MaxSent
  <2>1. \A a, b, c \in Nat : a <= b => c * a <= c * b
    OBVIOUS
  <2> QED BY <1>1, <2>1, Numbers
<1> QED BY <1>1, <1>2, Numbers DEF Most

\* A function on 1 .. n is a sequence of length n.
LEMMA FcnSeq ==
  ASSUME NEW T, NEW n \in Nat, NEW g \in [1 .. n -> T]
  PROVE  g \in Seq(T) /\ Len(g) = n
<1>1. g \in Seq(T)
  BY SeqDef
<1>2. DOMAIN g = 1 .. n
  OBVIOUS
<1>3. Len(g) \in Nat /\ DOMAIN g = 1 .. Len(g)
  BY <1>1, LenProperties
<1> QED BY <1>1, <1>2, <1>3

\* The first n of a sequence.
LEMMA FrontOf ==
  ASSUME NEW T, NEW s \in Seq(T), NEW n \in 0 .. Len(s)
  PROVE  /\ SubSeq(s, 1, n) \in Seq(T) /\ Len(SubSeq(s, 1, n)) = n
         /\ \A i \in 1 .. n : SubSeq(s, 1, n)[i] = s[i]
<1>1. \A i \in 1 .. n : s[i] \in T
  BY ElementOfSeq
<1>2. /\ SubSeq(s, 1, n) \in Seq(T) /\ Len(SubSeq(s, 1, n)) = IF 1 <= n THEN n - 1 + 1 ELSE 0
      /\ \A i \in 1 .. n - 1 + 1 : SubSeq(s, 1, n)[i] = s[1 + i - 1]
  BY <1>1, SubSeqProperties
<1>3. ASSUME NEW i \in 1 .. n PROVE SubSeq(s, 1, n)[i] = s[i]
  <2>1. 1 + i - 1 = i /\ i \in 1 .. n - 1 + 1
    OBVIOUS
  <2> QED BY <1>2, <2>1
<1>4. Len(SubSeq(s, 1, n)) = n
  BY <1>2
<1> QED BY <1>2, <1>3, <1>4

\* All but the first n of a sequence.
LEMMA RestOf ==
  ASSUME NEW T, NEW s \in Seq(T), NEW n \in 0 .. Len(s)
  PROVE  /\ SubSeq(s, n + 1, Len(s)) \in Seq(T) /\ Len(SubSeq(s, n + 1, Len(s))) = Len(s) - n
         /\ \A i \in 1 .. Len(s) - n : SubSeq(s, n + 1, Len(s))[i] = s[n + i]
<1>0. n \in Nat /\ Len(s) \in Nat /\ n <= Len(s)
  BY LenProperties
<1>1. ASSUME NEW i \in n + 1 .. Len(s) PROVE s[i] \in T
  <2>1. i \in 1 .. Len(s)
    BY <1>0
  <2> QED BY <2>1, ElementOfSeq
<1>2. /\ SubSeq(s, n + 1, Len(s)) \in Seq(T)
      /\ Len(SubSeq(s, n + 1, Len(s))) = IF n + 1 <= Len(s) THEN Len(s) - (n + 1) + 1 ELSE 0
      /\ \A i \in 1 .. Len(s) - (n + 1) + 1 : SubSeq(s, n + 1, Len(s))[i] = s[n + 1 + i - 1]
  <2>1. n + 1 \in Int /\ Len(s) \in Int
    BY <1>0
  <2> QED BY <1>1, <2>1, SubSeqProperties
<1>3. ASSUME NEW i \in 1 .. Len(s) - n PROVE SubSeq(s, n + 1, Len(s))[i] = s[n + i]
  <2>1. n + 1 + i - 1 = n + i /\ i \in 1 .. Len(s) - (n + 1) + 1
    BY <1>0
  <2> QED BY <1>2, <2>1
<1>4. Len(SubSeq(s, n + 1, Len(s))) = Len(s) - n
  BY <1>0, <1>2
<1> QED BY <1>2, <1>3, <1>4

\* A message more, cut into pieces.
Cuts(m, n) == [i \in 1 .. n |-> [msg |-> m, frg |-> n - i]]
\* A message more: the stream is still what Send made of the messages.
LEMMA CutGrows ==
  ASSUME Stream!KcpAssumption, NEW S, NEW w, Cut(S, w), NEW n \in 1 .. MaxFrg
  PROVE  Cut(S \o Cuts(Len(w) + 1, n), Append(w, n))
<1> DEFINE T == Cuts(Len(w) + 1, n)
           R == S \o T
           v == Append(w, n)
<1>1. /\ S \in Seq(Piece) /\ w \in Seq(1 .. MaxFrg) /\ Len(S) \in Nat /\ Len(w) \in Nat /\ n \in Nat /\ n >= 1
      /\ MaxFrg \in Nat /\ Window \in Nat /\ n <= Window
  BY DEF Cut, Stream!KcpAssumption
<1>2. T \in Seq(Piece) /\ Len(T) = n /\ \A i \in 1 .. n : T[i].msg = Len(w) + 1 /\ T[i].frg = n - i
  <2>1. \A i \in 1 .. n : [msg |-> Len(w) + 1, frg |-> n - i] \in Piece
    BY <1>1 DEF Piece
  <2>2. \A i \in 1 .. n : T[i] = [msg |-> Len(w) + 1, frg |-> n - i]
    BY DEF Cuts
  <2>3. T \in [1 .. n -> Piece]
    BY <1>1, <2>1 DEF Cuts
  <2>4. T \in Seq(Piece) /\ Len(T) = n
    <3> HIDE DEF T
    <3> QED BY <1>1, <2>3, FcnSeq
  <2>5. \A i \in 1 .. n : T[i].msg = Len(w) + 1 /\ T[i].frg = n - i
    <3> HIDE DEF T
    <3>1. ASSUME NEW i \in 1 .. n PROVE T[i].msg = Len(w) + 1 /\ T[i].frg = n - i
      <4>1. T[i] = [msg |-> Len(w) + 1, frg |-> n - i]
        BY <2>2
      <4>2. \A a, b, c : a = [msg |-> b, frg |-> c] => a.msg = b /\ a.frg = c
        OBVIOUS
      <4> QED BY <4>1, <4>2, Zenon
    <3> QED BY <3>1
  <2> QED BY <2>4, <2>5
<1>3. /\ v \in Seq(1 .. MaxFrg) /\ Len(v) = Len(w) + 1 /\ v[Len(w) + 1] = n
      /\ \A i \in 1 .. Len(w) : v[i] = w[i]
  BY <1>1
<1> HIDE DEF T, v
<1>4. /\ R \in Seq(Piece) /\ Len(R) = Len(S) + n
      /\ \A i \in 1 .. Len(S) : R[i] = S[i]
      /\ \A i \in Len(S) + 1 .. Len(R) : R[i].msg = Len(w) + 1 /\ R[i].frg = n - (i - Len(S))
  <2>0. /\ R \in Seq(Piece) /\ Len(R) = Len(S) + Len(T)
        /\ \A i \in 1 .. Len(S) + Len(T) : R[i] = IF i <= Len(S) THEN S[i] ELSE T[i - Len(S)]
    BY <1>1, <1>2, ConcatProperties
  <2>1. /\ R \in Seq(Piece) /\ Len(R) = Len(S) + Len(T)
        /\ \A i \in 1 .. Len(S) : R[i] = S[i]
        /\ \A i \in Len(S) + 1 .. Len(S) + Len(T) : R[i] = T[i - Len(S)]
    BY <1>1, <1>2, <2>0
  <2>2. ASSUME NEW i \in Len(S) + 1 .. Len(R)
        PROVE  R[i].msg = Len(w) + 1 /\ R[i].frg = n - (i - Len(S))
    BY <1>1, <1>2, <2>1
  <2> QED BY <1>1, <1>2, <2>1, <2>2
<1> HIDE DEF R
<1>5. Len(R) <= Window * Len(v)
  <2>1. Window * (Len(w) + 1) = Window * Len(w) + Window
    BY <1>1
  <2>2. Len(S) <= Window * Len(w) /\ Window * Len(w) \in Nat
    BY <1>1 DEF Cut
  <2> QED BY <1>1, <1>3, <1>4, <2>1, <2>2
<1>6. \A i \in 1 .. Len(S) : S[i].msg \in 1 .. Len(w) /\ S[i].frg \in Nat /\ S[i].frg < w[S[i].msg]
  <2>1. \A i \in 1 .. Len(S) : S[i] \in Piece
    BY <1>1
  <2> QED BY <2>1 DEF Cut, Piece
<1>7. ASSUME NEW i \in 1 .. Len(R) PROVE R[i].msg \in 1 .. Len(v) /\ R[i].frg < v[R[i].msg]
  <2>1. CASE i <= Len(S)
    <3>1. R[i] = S[i] /\ i \in 1 .. Len(S)
      BY <1>1, <1>4, <2>1
    <3>2. S[i].msg \in 1 .. Len(w) /\ S[i].frg < w[S[i].msg] /\ v[S[i].msg] = w[S[i].msg]
      BY <1>3, <1>6, <3>1
    <3>3. \A j \in 1 .. Len(w) : j \in 1 .. Len(v)
      BY <1>1, <1>3
    <3>4. R[i].msg = S[i].msg /\ R[i].frg = S[i].frg
      BY <3>1, Zenon
    <3> QED BY <3>2, <3>3, <3>4, Zenon
  <2>2. CASE i > Len(S)
    <3>1. i \in Len(S) + 1 .. Len(R)
      BY <1>1, <1>4, <2>2
    <3>2. R[i].msg = Len(w) + 1 /\ R[i].frg = n - (i - Len(S))
      BY <1>4, <3>1
    <3>3. n - (i - Len(S)) < n
      BY <1>1, <3>1
    <3> QED BY <1>1, <1>3, <3>2, <3>3
  <2> QED BY <1>1, <1>4, <2>1, <2>2
<1>8. ASSUME NEW i \in 1 .. Len(R), NEW d \in Nat, d <= R[i].frg
      PROVE  i + d <= Len(R) /\ R[i + d].msg = R[i].msg /\ R[i + d].frg = R[i].frg - d
  <2>1. CASE i <= Len(S)
    <3>1. i + d <= Len(S) /\ S[i + d].msg = S[i].msg /\ S[i + d].frg = S[i].frg - d
      BY <1>1, <1>4, <1>8, <2>1 DEF Cut
    <3> QED BY <1>1, <1>4, <2>1, <3>1
  <2>2. CASE i > Len(S)
    <3>1. i \in Len(S) + 1 .. Len(R)
      BY <1>1, <1>4, <2>2
    <3>2. R[i].msg = Len(w) + 1 /\ R[i].frg = n - (i - Len(S))
      BY <1>4, <3>1
    <3>3. d <= n - (i - Len(S))
      BY <1>8, <3>2
    <3>4. /\ i + d \in Len(S) + 1 .. Len(R) /\ i + d <= Len(R)
          /\ n - ((i + d) - Len(S)) = (n - (i - Len(S))) - d
      <4>1. Len(S) \in Nat /\ n \in Nat /\ Len(R) \in Nat /\ Len(R) = Len(S) + n
        BY <1>1, <1>4
      <4>2. PICK a \in Nat, b \in Nat : a = Len(S) /\ b = Len(R)
        BY <4>1
      <4>3. i \in a + 1 .. b /\ i \in Int /\ d <= n - (i - a) /\ b = a + n /\ n \in Nat
        BY <3>1, <3>3, <4>1, <4>2
      <4>4. i + d \in a + 1 .. b /\ i + d <= b /\ n - ((i + d) - a) = (n - (i - a)) - d
        BY <1>8, <4>3
      <4> QED BY <4>2, <4>4
    <3>5. R[i + d].msg = Len(w) + 1 /\ R[i + d].frg = n - ((i + d) - Len(S))
      BY <1>4, <3>4
    <3> QED BY <3>2, <3>4, <3>5, Zenon
  <2> QED BY <1>1, <1>4, <2>1, <2>2
<1>9. R[1].msg = 1 /\ R[1].frg = v[1] - 1 /\ R[Len(R)].msg = Len(v)
  <2>1. R[Len(R)].msg = Len(v)
    <3>1. Len(R) \in Len(S) + 1 .. Len(R)
      BY <1>1, <1>4
    <3> QED BY <1>3, <1>4, <3>1
  <2>2. CASE Len(S) = 0
    <3>1. Len(w) = 0 /\ 1 \in Len(S) + 1 .. Len(R)
      BY <1>1, <1>4, <2>2 DEF Cut
    <3>2. R[1].msg = Len(w) + 1 /\ R[1].frg = n - (1 - Len(S))
      BY <1>4, <3>1
    <3> QED BY <1>1, <1>3, <2>1, <2>2, <3>1, <3>2
  <2>3. CASE Len(S) > 0
    <3>1. S[1].msg = 1 /\ S[1].frg = w[1] - 1 /\ 1 \in 1 .. Len(S)
      BY <1>1, <2>3 DEF Cut
    <3>2. 1 \in 1 .. Len(w)
      BY <1>6, <3>1
    <3>3. R[1] = S[1] /\ v[1] = w[1]
      BY <1>3, <1>4, <3>1, <3>2
    <3> QED BY <2>1, <3>1, <3>3
  <2> QED BY <1>1, <2>2, <2>3
<1>10. ASSUME NEW i \in 1 .. Len(R) - 1, R[i].frg = 0
       PROVE  R[i + 1].msg = R[i].msg + 1 /\ R[i + 1].frg = v[R[i + 1].msg] - 1
  <2>1. CASE i < Len(S)
    <3>1. i \in 1 .. Len(S) - 1 /\ i \in 1 .. Len(S) /\ i + 1 \in 1 .. Len(S)
      BY <1>1, <1>4, <2>1
    <3>2. R[i] = S[i] /\ R[i + 1] = S[i + 1]
      BY <1>4, <3>1
    <3>3. S[i + 1].msg = S[i].msg + 1 /\ S[i + 1].frg = w[S[i + 1].msg] - 1
      BY <1>10, <3>1, <3>2 DEF Cut
    <3>4. v[S[i + 1].msg] = w[S[i + 1].msg]
      BY <1>3, <1>6, <3>1
    <3> QED BY <3>2, <3>3, <3>4
  <2>2. CASE i = Len(S)
    <3>1. i \in 1 .. Len(S) /\ i + 1 \in Len(S) + 1 .. Len(R)
      BY <1>1, <1>4, <2>2
    <3>2. S[i].msg = Len(w) /\ R[i] = S[i]
      BY <1>1, <1>4, <2>2, <3>1 DEF Cut
    <3>3. R[i + 1].msg = Len(w) + 1 /\ R[i + 1].frg = n - (i + 1 - Len(S))
      BY <1>4, <3>1
    <3>4. n - (i + 1 - Len(S)) = n - 1
      BY <1>1, <2>2
    <3>5. v[R[i + 1].msg] = n /\ R[i].msg = Len(w)
      BY <1>3, <3>2, <3>3
    <3> QED BY <3>3, <3>4, <3>5
  <2>3. CASE i > Len(S)
    <3>1. i \in Len(S) + 1 .. Len(R)
      BY <1>1, <1>4, <2>3
    <3>2. R[i].frg = n - (i - Len(S))
      BY <1>4, <3>1
    <3>3. FALSE
      BY <1>1, <1>4, <1>10, <2>3, <3>2
    <3> QED BY <3>3
  <2> QED BY <1>1, <1>4, <2>1, <2>2, <2>3
<1>11. Len(R) > 0 /\ Len(R) \in Nat
  BY <1>1, <1>4
<1>12. Cut(R, v)
  BY <1>3, <1>4, <1>5, <1>7, <1>8, <1>9, <1>10, <1>11 DEF Cut
<1> QED BY <1>12 DEF R, T, v
-----------------------------------------------------------------------------
\* The sender between the handling of a packet and its flush, and after it.
Handled(f, S, u, x, r, K, queue, buf, una, wnd, cw, rest) ==
  /\ Sent(f, S, u, x, queue, buf, una, sndNxt) /\ wnd \in Nat /\ cw \in Nat
  /\ Kept(r, K, u, buf) /\ Packets(f, S, x, r, K, rest) /\ u <= r /\ r <= x
Flushed(f, S, u, y, r, K) ==
  /\ Sent(f, S, u, y, sndQueue, sndBuf, sndUna, sndNxt) /\ rmtWnd \in Nat /\ cwnd \in Nat
  /\ Kept(r, K, u, sndBuf) /\ Packets(f, S, y, r, K, net)

\* What a push packet carries.
LEMMA PushIs ==
  ASSUME NEW s
  PROVE  /\ Stream!Push(s).cmd = "push" /\ Stream!Push(s).sn = s.sn
         /\ Stream!Push(s).frg = s.frg /\ Stream!Push(s).msg = s.msg
BY DEF Stream!Push

\* A flush numbers the next segments of the stream and sends nothing else.
LEMMA FlushKeeps ==
  ASSUME Stream!KcpAssumption, NEW f \in FirstSns, NEW S \in Seq(Piece), Len(S) <= Most,
         NEW u, NEW x, NEW r \in Nat, NEW K, NEW queue, NEW buf, NEW una, NEW wnd, NEW cw, NEW rest,
         Handled(f, S, u, x, r, K, queue, buf, una, wnd, cw, rest),
         Stream!Flush(queue, buf, una, wnd, cw, rest)
  PROVE  \E y \in Nat : x <= y /\ Flushed(f, S, u, y, r, K)'
<1> DEFINE room  == Stream!Least(Stream!Least(Window, wnd), cw) - Stream!Diff(sndNxt, una)
           count == IF room < 0 THEN 0 ELSE Stream!Least(room, Len(queue))
           fresh == [i \in 1 .. count |-> [sn |-> Stream!Plus(sndNxt, i - 1), acked |-> FALSE,
                                           frg |-> queue[i].frg, msg |-> queue[i].msg]]
           onWay == {s \in Stream!Range(buf) : ~s.acked}
           asked == IF wnd = 0 THEN {Stream!Wask} ELSE {}
           y     == x + count
<1>1. PICK again \in SUBSET onWay :
        /\ sndQueue' = SubSeq(queue, count + 1, Len(queue))
        /\ sndBuf' = buf \o fresh
        /\ sndNxt' = Stream!Plus(sndNxt, count)
        /\ sndUna' = una /\ rmtWnd' = wnd
        /\ cwnd' \in IF again = {} THEN {IF cw < 1 THEN 1 ELSE cw} ELSE 1 .. Window
        /\ Stream!Emit(rest, {Stream!Push(s) : s \in again \cup Stream!Range(fresh)} \cup asked)
  BY DEF Stream!Flush
<1>2. /\ u \in Nat /\ x \in Nat /\ u <= x /\ x <= Len(S) /\ Len(S) \in Nat /\ Most \in Nat
      /\ una = SnAt(f, u) /\ sndNxt = SnAt(f, x) /\ queue = SubSeq(S, x + 1, Len(S))
      /\ buf \in Seq(OutSeg) /\ Len(buf) = x - u /\ wnd \in Nat /\ cw \in Nat
      /\ Window \in Nat /\ u <= r /\ r <= x
  BY Numbers DEF Handled, Sent
<1>3. \A i \in 1 .. x - u : buf[i].sn = SnAt(f, u + i - 1) /\ Same(buf[i], S[u + i])
  BY DEF Handled, Sent
<1>4. Stream!Diff(sndNxt, una) = x - u
  <2>1. x \in 0 .. Most /\ u \in 0 .. Most
    BY <1>2
  <2> QED BY <1>2, <2>1, DiffAt
<1>5. /\ queue \in Seq(Piece) /\ Len(queue) = Len(S) - x
      /\ \A i \in 1 .. Len(queue) : queue[i] = S[x + i] /\ S[x + i] \in Piece
  <2>1. S \in Seq(Piece) /\ x \in 0 .. Len(S)
    BY <1>2
  <2>2. /\ queue \in Seq(Piece) /\ Len(queue) = Len(S) - x
        /\ \A i \in 1 .. Len(S) - x : queue[i] = S[x + i]
    <3>1. queue = SubSeq(S, x + 1, Len(S))
      BY <1>2
    <3> QED BY <2>1, <3>1, RestOf
  <2>3. \A i \in 1 .. Len(S) - x : x + i \in 1 .. Len(S)
    BY <1>2
  <2>4. \A i \in 1 .. Len(S) : S[i] \in Piece
    BY <2>1, ElementOfSeq
  <2>5. ASSUME NEW i \in 1 .. Len(queue) PROVE queue[i] = S[x + i] /\ S[x + i] \in Piece
    <3>1. i \in 1 .. Len(S) - x
      BY <2>2
    <3>2. x + i \in 1 .. Len(S)
      BY <2>3, <3>1
    <3>3. queue[i] = S[x + i]
      BY <2>2, <3>1
    <3>4. S[x + i] \in Piece
      BY <2>4, <3>2
    <3> QED BY <3>3, <3>4
  <2> QED BY <2>2, <2>5
<1>6. count \in Nat /\ count <= Len(queue)
  <2>1. room \in Int
    BY <1>2, <1>4 DEF Stream!Least
  <2>2. Len(queue) \in Nat
    BY <1>2, <1>5
  <2> HIDE DEF room
  <2> QED BY <2>1, <2>2 DEF Stream!Least
<1> HIDE DEF count
<1>a. /\ u \in Nat /\ x \in Nat /\ u <= x /\ x <= Len(S) /\ Len(S) \in Nat /\ Most \in Nat
      /\ Len(S) <= Most /\ count \in Nat /\ Len(queue) = Len(S) - x /\ count <= Len(queue)
  BY <1>2, <1>5, <1>6
<1>7. y \in Nat /\ x <= y /\ y <= Len(S) /\ sndNxt' = SnAt(f, y)
  <2>1. x + count <= Most
    BY <1>2, <1>5, <1>6
  <2>2. x + count \in Nat /\ x <= x + count /\ x + count <= Len(S)
    BY <1>a
  <2>3. sndNxt' = SnAt(f, x + count)
    BY <1>1, <1>2, <1>a, <2>1, PlusAt
  <2> QED BY <2>2, <2>3
<1>8. sndQueue' = SubSeq(S, y + 1, Len(S))
  <2>1. count \in 0 .. Len(queue) /\ y \in 0 .. Len(S) /\ Len(S) - y = Len(queue) - count
    BY <1>a
  <2>2. /\ sndQueue' \in Seq(Piece) /\ Len(sndQueue') = Len(queue) - count
        /\ \A i \in 1 .. Len(queue) - count : sndQueue'[i] = queue[count + i]
    <3>1. queue \in Seq(Piece) /\ count \in 0 .. Len(queue)
      BY <1>5, <2>1
    <3>2. sndQueue' = SubSeq(queue, count + 1, Len(queue))
      BY <1>1
    <3> QED BY <3>1, <3>2, RestOf
  <2>3. /\ SubSeq(S, y + 1, Len(S)) \in Seq(Piece)
        /\ Len(SubSeq(S, y + 1, Len(S))) = Len(S) - y
        /\ \A i \in 1 .. Len(S) - y : SubSeq(S, y + 1, Len(S))[i] = S[y + i]
    <3> HIDE DEF y
    <3>1. y \in 0 .. Len(S)
      BY <2>1
    <3> QED BY <3>1, RestOf
  <2>4. ASSUME NEW i \in 1 .. Len(queue) - count
        PROVE  sndQueue'[i] = SubSeq(S, y + 1, Len(S))[i]
    <3>1. y + i = x + (count + i) /\ count + i \in 1 .. Len(queue)
      BY <1>a
    <3>2. queue[count + i] = S[x + (count + i)]
      BY <1>5, <3>1
    <3> HIDE DEF y
    <3> QED BY <2>1, <2>2, <2>3, <3>1, <3>2
  <2> HIDE DEF y
  <2> QED BY <2>1, <2>2, <2>3, <2>4, SeqEqual
<1>9. /\ fresh \in Seq(OutSeg) /\ Len(fresh) = count /\ DOMAIN fresh = 1 .. count
      /\ \A i \in 1 .. count : /\ fresh[i].sn = SnAt(f, x + i - 1) /\ fresh[i].acked = FALSE
                               /\ Same(fresh[i], S[x + i])
  <2>1. ASSUME NEW i \in 1 .. count
        PROVE  /\ Stream!Plus(sndNxt, i - 1) = SnAt(f, x + i - 1) /\ SnAt(f, x + i - 1) \in Nat
               /\ queue[i].frg \in Nat /\ queue[i].msg \in Nat /\ queue[i] = S[x + i]
    <3>1. x + (i - 1) <= Most /\ i - 1 \in Nat /\ x + (i - 1) = x + i - 1 /\ x + i - 1 \in 0 .. Most + 1
      BY <1>a
    <3>2. Stream!Plus(sndNxt, i - 1) = SnAt(f, x + (i - 1))
      BY <1>2, <3>1, PlusAt
    <3>3. SnAt(f, x + i - 1) \in Nat
      BY <3>1, AtIs, Numbers
    <3>4. queue[i] = S[x + i] /\ queue[i] \in Piece
      BY <1>5, <1>6
    <3>5. queue[i].frg \in Nat /\ queue[i].msg \in Nat
      BY <3>4 DEF Piece
    <3> QED BY <3>1, <3>2, <3>3, <3>4, <3>5
  <2>2. ASSUME NEW i \in 1 .. count
        PROVE  [sn |-> Stream!Plus(sndNxt, i - 1), acked |-> FALSE,
                frg |-> queue[i].frg, msg |-> queue[i].msg] \in OutSeg
    BY <2>1 DEF OutSeg
  <2>3. fresh \in [1 .. count -> OutSeg]
    BY <2>2
  <2>4. ASSUME NEW i \in 1 .. count
        PROVE  /\ fresh[i].sn = SnAt(f, x + i - 1) /\ fresh[i].acked = FALSE
               /\ Same(fresh[i], S[x + i])
    <3>1. fresh[i] = [sn |-> Stream!Plus(sndNxt, i - 1), acked |-> FALSE,
                      frg |-> queue[i].frg, msg |-> queue[i].msg]
      OBVIOUS
    <3>2. \A a, b, c, d, e : a = [sn |-> b, acked |-> c, frg |-> d, msg |-> e]
             => a.sn = b /\ a.acked = c /\ a.frg = d /\ a.msg = e
      OBVIOUS
    <3>3. /\ fresh[i].sn = Stream!Plus(sndNxt, i - 1) /\ fresh[i].acked = FALSE
          /\ fresh[i].frg = queue[i].frg /\ fresh[i].msg = queue[i].msg
      <4> HIDE DEF fresh
      <4> QED BY <3>1, <3>2
    <3> HIDE DEF fresh
    <3> QED BY <2>1, <3>3 DEF Same
  <2>5. DOMAIN fresh = 1 .. count
    OBVIOUS
  <2> HIDE DEF fresh
  <2> QED BY <1>6, <2>3, <2>4, <2>5, FcnSeq
<1> HIDE DEF fresh
<1>10. /\ sndBuf' \in Seq(OutSeg) /\ Len(sndBuf') = y - u
       /\ \A i \in 1 .. y - u : sndBuf'[i] = IF i <= x - u THEN buf[i] ELSE fresh[i - (x - u)]
  <2>1. /\ sndBuf' \in Seq(OutSeg) /\ Len(sndBuf') = (x - u) + count
        /\ \A i \in 1 .. (x - u) + count : sndBuf'[i] = IF i <= x - u THEN buf[i] ELSE fresh[i - (x - u)]
    <3>1. buf \in Seq(OutSeg) /\ fresh \in Seq(OutSeg) /\ Len(buf) = x - u /\ Len(fresh) = count
      BY <1>2, <1>9
    <3>2. sndBuf' = buf \o fresh
      BY <1>1
    <3>3. /\ buf \o fresh \in Seq(OutSeg) /\ Len(buf \o fresh) = Len(buf) + Len(fresh)
          /\ \A i \in 1 .. Len(buf) + Len(fresh) :
               (buf \o fresh)[i] = IF i <= Len(buf) THEN buf[i] ELSE fresh[i - Len(buf)]
      BY <3>1, ConcatProperties
    <3> QED BY <3>1, <3>2, <3>3
  <2>2. (x - u) + count = y - u
    BY <1>2, <1>6
  <2> HIDE DEF y
  <2> QED BY <2>1, <2>2
<1>11. ASSUME NEW i \in 1 .. y - u
       PROVE  /\ sndBuf'[i].sn = SnAt(f, u + i - 1) /\ Same(sndBuf'[i], S[u + i])
              /\ sndBuf'[i].acked => Got(r, K, u + i - 1)
  <2>1. CASE i <= x - u
    <3>1. sndBuf'[i] = buf[i] /\ i \in 1 .. x - u /\ i \in 1 .. Len(buf)
      BY <1>2, <1>10, <2>1
    <3>2. buf[i].acked => Got(r, K, u + i - 1)
      BY <3>1 DEF Handled, Kept
    <3> QED BY <1>3, <3>1, <3>2
  <2>2. CASE i > x - u
    <3> DEFINE j == i - (x - u)
    <3>1. j \in 1 .. count /\ x + j = u + i /\ x + j - 1 = u + i - 1
      BY <1>2, <1>6, <2>2
    <3>2. sndBuf'[i] = fresh[j]
      BY <1>2, <1>10, <2>2
    <3> HIDE DEF j
    <3>3. fresh[j].sn = SnAt(f, x + j - 1) /\ fresh[j].acked = FALSE /\ Same(fresh[j], S[x + j])
      BY <1>9, <3>1
    <3> QED BY <3>1, <3>2, <3>3
  <2> QED BY <1>2, <2>1, <2>2
<1>12. ASSUME NEW s \in again \cup Stream!Range(fresh) PROVE PacketOK(f, S, y, r, K, Stream!Push(s))
  <2>1. ASSUME NEW k \in 0 .. y - 1, s.sn = SnAt(f, k), Same(s, S[k + 1])
        PROVE  PacketOK(f, S, y, r, K, Stream!Push(s))
    <3> HIDE DEF y
    <3> QED BY <2>1, PushIs DEF PacketOK, Same
  <2>2. CASE s \in again
    <3>1. PICK i \in DOMAIN buf : s = buf[i]
      BY <2>2 DEF Stream!Range
    <3>2. i \in 1 .. x - u
      BY <1>2, <3>1
    <3>3. u + i - 1 \in 0 .. y - 1 /\ (u + i - 1) + 1 = u + i
      BY <1>a, <3>2
    <3>4. s.sn = SnAt(f, u + i - 1) /\ Same(s, S[(u + i - 1) + 1])
      BY <1>3, <3>1, <3>2, <3>3
    <3> QED BY <2>1, <3>3, <3>4
  <2>3. CASE s \in Stream!Range(fresh)
    <3>1. PICK i \in 1 .. count : s = fresh[i]
      BY <1>9, <2>3 DEF Stream!Range
    <3>3. x + i - 1 \in 0 .. y - 1 /\ (x + i - 1) + 1 = x + i
      BY <1>2, <1>6, <3>1
    <3>4. s.sn = SnAt(f, x + i - 1) /\ Same(s, S[(x + i - 1) + 1])
      BY <1>9, <3>1, <3>3
    <3> QED BY <2>1, <3>3, <3>4
  <2> QED BY <2>2, <2>3
<1>13. PacketOK(f, S, y, r, K, Stream!Wask)
  BY DEF PacketOK, Stream!Wask
<1>14. ASSUME NEW p \in rest PROVE PacketOK(f, S, y, r, K, p)
  <2>1. PacketOK(f, S, x, r, K, p)
    BY DEF Handled, Packets
  <2>2. \A k \in 0 .. x - 1 : k \in 0 .. y - 1
    BY <1>2, <1>7
  <2> HIDE DEF y
  <2> QED BY <2>1, <2>2 DEF PacketOK
<1>15. Packets(f, S, y, r, K, net')
  <2>1. ASSUME NEW p \in net' PROVE PacketOK(f, S, y, r, K, p)
    <3>1. p \in rest \/ p \in {Stream!Push(s) : s \in again \cup Stream!Range(fresh)} \/ p \in asked
      <4> HIDE DEF asked, y, onWay
      <4> QED BY <1>1 DEF Stream!Emit
    <3>2. p \in asked => p = Stream!Wask
      OBVIOUS
    <3> HIDE DEF asked, y, onWay
    <3> QED BY <1>12, <1>13, <1>14, <3>1, <3>2
  <2> QED BY <2>1 DEF Packets
<1>16. Sent(f, S, u, y, sndQueue', sndBuf', sndUna', sndNxt')
  <2>1. u <= y /\ sndUna' = SnAt(f, u)
    BY <1>1, <1>2, <1>7
  <2> HIDE DEF y
  <2> QED BY <1>2, <1>7, <1>8, <1>10, <1>11, <2>1 DEF Sent
<1>17. rmtWnd' \in Nat /\ cwnd' \in Nat
  <2>1. rmtWnd' \in Nat
    BY <1>1, <1>2
  <2>2. cwnd' = 1 \/ cwnd' = cw \/ cwnd' \in 1 .. Window
    BY <1>1
  <2> QED BY <1>2, <2>1, <2>2
<1>18. Kept(r, K, u, sndBuf')
  <2> HIDE DEF y
  <2> QED BY <1>10, <1>11 DEF Kept
<1> HIDE DEF y
<1>19. PICK z : z = y
  OBVIOUS
<1>20. Flushed(f, S, u, z, r, K)'
  BY <1>15, <1>16, <1>17, <1>18, <1>19 DEF Flushed
<1> QED BY <1>7, <1>19, <1>20
-----------------------------------------------------------------------------
\* Two sequences, one behind the other.
LEMMA Joined ==
  ASSUME NEW T, NEW s \in Seq(T), NEW t \in Seq(T)
  PROVE  /\ s \o t \in Seq(T) /\ Len(s \o t) = Len(s) + Len(t)
         /\ \A i \in 1 .. Len(s) : (s \o t)[i] = s[i]
         /\ \A i \in 1 .. Len(t) : (s \o t)[Len(s) + i] = t[i]
<1>1. /\ s \o t \in Seq(T) /\ Len(s \o t) = Len(s) + Len(t)
      /\ \A i \in 1 .. Len(s) + Len(t) : (s \o t)[i] = IF i <= Len(s) THEN s[i] ELSE t[i - Len(s)]
  BY ConcatProperties
<1>2. Len(s) \in Nat /\ Len(t) \in Nat
  BY LenProperties
<1>3. ASSUME NEW i \in 1 .. Len(s) PROVE (s \o t)[i] = s[i]
  <2>1. i \in 1 .. Len(s) + Len(t) /\ i <= Len(s)
    BY <1>2
  <2> QED BY <1>1, <2>1
<1>4. ASSUME NEW i \in 1 .. Len(t) PROVE (s \o t)[Len(s) + i] = t[i]
  <2>1. Len(s) + i \in 1 .. Len(s) + Len(t) /\ ~ Len(s) + i <= Len(s) /\ Len(s) + i - Len(s) = i
    BY <1>2
  <2> QED BY <1>1, <2>1
<1> QED BY <1>1, <1>3, <1>4

Holding(R, T, s, n, e) ==
  /\ R \in Seq(T) /\ Len(R) = Len(s) + 1 /\ R[n + 1] = e
  /\ \A i \in 1 .. n : R[i] = s[i]
  /\ \A i \in n + 1 .. Len(s) : R[i + 1] = s[i]
\* One more element behind the first n of a sequence.
LEMMA PutIn ==
  ASSUME NEW T, NEW s \in Seq(T), NEW n \in 0 .. Len(s), NEW e \in T
  PROVE  Holding(SubSeq(s, 1, n) \o <<e>> \o SubSeq(s, n + 1, Len(s)), T, s, n, e)
<1> PICK R : R = SubSeq(s, 1, n) \o <<e>> \o SubSeq(s, n + 1, Len(s))
  OBVIOUS
<1> DEFINE a == SubSeq(s, 1, n)
           b == <<e>>
           c == SubSeq(s, n + 1, Len(s))
<1>1. n \in Nat /\ Len(s) \in Nat /\ n <= Len(s)
  BY LenProperties
<1>2. a \in Seq(T) /\ Len(a) = n /\ \A i \in 1 .. n : a[i] = s[i]
  BY FrontOf
<1>3. b \in Seq(T) /\ Len(b) = 1 /\ b[1] = e
  OBVIOUS
<1>4. c \in Seq(T) /\ Len(c) = Len(s) - n /\ \A i \in 1 .. Len(s) - n : c[i] = s[n + i]
  BY RestOf
<1>5. R = (a \o b) \o c
  OBVIOUS
<1> HIDE DEF a, b, c
<1> DEFINE d == a \o b
<1>6. /\ d \in Seq(T) /\ Len(d) = Len(a) + Len(b)
      /\ \A i \in 1 .. Len(a) : d[i] = a[i]
      /\ \A i \in 1 .. Len(b) : d[Len(a) + i] = b[i]
  <2>1. a \in Seq(T) /\ b \in Seq(T)
    BY <1>2, <1>3
  <2> QED BY <2>1, Joined
<1>7. d \in Seq(T) /\ Len(d) = n + 1 /\ d[n + 1] = e /\ \A i \in 1 .. n : d[i] = s[i]
  <2>1. 1 \in 1 .. Len(b)
    BY <1>3
  <2> HIDE DEF d
  <2> QED BY <1>1, <1>2, <1>3, <1>6, <2>1
<1>8. R = d \o c
  BY <1>5
<1> HIDE DEF d
<1>9. /\ R \in Seq(T) /\ Len(R) = Len(d) + Len(c)
      /\ \A i \in 1 .. Len(d) : R[i] = d[i]
      /\ \A i \in 1 .. Len(c) : R[Len(d) + i] = c[i]
  <2>1. d \in Seq(T) /\ c \in Seq(T)
    BY <1>4, <1>7
  <2>2. /\ d \o c \in Seq(T) /\ Len(d \o c) = Len(d) + Len(c)
        /\ \A i \in 1 .. Len(d) : (d \o c)[i] = d[i]
        /\ \A i \in 1 .. Len(c) : (d \o c)[Len(d) + i] = c[i]
    BY <2>1, Joined
  <2> QED BY <1>8, <2>2
<1>10. \A i \in 1 .. n + 1 : R[i] = d[i]
  BY <1>7, <1>9
<1>11. Len(R) = Len(s) + 1
  <2>1. Len(R) = (n + 1) + (Len(s) - n)
    BY <1>4, <1>7, <1>9
  <2>2. \A m, l \in Nat : (m + 1) + (l - m) = l + 1
    OBVIOUS
  <2>3. (n + 1) + (Len(s) - n) = Len(s) + 1
    BY <1>1, <2>2
  <2> QED BY <2>1, <2>3
<1>12. ASSUME NEW i \in n + 1 .. Len(s) PROVE R[i + 1] = s[i]
  <2>1. i - n \in 1 .. Len(s) - n /\ n + 1 + (i - n) = i + 1 /\ n + (i - n) = i
    BY <1>1
  <2>2. R[n + 1 + (i - n)] = c[i - n] /\ c[i - n] = s[n + (i - n)]
    BY <1>4, <1>7, <1>9, <2>1
  <2> QED BY <2>1, <2>2
<1>13. n + 1 \in 1 .. n + 1 /\ \A i \in 1 .. n : i \in 1 .. n + 1
  BY <1>1
<1>14. Holding(R, T, s, n, e)
  BY <1>7, <1>9, <1>10, <1>11, <1>12, <1>13 DEF Holding
<1> QED BY <1>5, <1>14 DEF a, b, c

\* What came early comes in the order of its indexes, which are at least so far from the
\* number that is expected.
LEMMA EarlyAt ==
  ASSUME NEW f, NEW S, NEW x \in Nat, NEW r \in Nat, NEW K, NEW buf, Early(f, S, x, r, K, buf)
  PROVE  /\ K \in Seq(Nat) /\ buf \in Seq(InSeg) /\ Len(K) = Len(buf) /\ Len(K) \in Nat
         /\ \A j \in 1 .. Len(K) : /\ K[j] \in Nat /\ r + j - 1 <= K[j] /\ K[j] < x
                                   /\ buf[j].sn = SnAt(f, K[j]) /\ Same(buf[j], S[K[j] + 1])
<1>1. K \in Seq(Nat) /\ buf \in Seq(InSeg) /\ Len(K) = Len(buf) /\ Len(K) \in Nat
  BY DEF Early
<1>2. ASSUME NEW j \in 1 .. Len(K)
      PROVE  /\ K[j] \in Nat /\ r + j - 1 <= K[j] /\ K[j] < x
             /\ buf[j].sn = SnAt(f, K[j]) /\ Same(buf[j], S[K[j] + 1])
  <2>1. 1 \in 1 .. Len(K)
    BY <1>1
  <2>2. K[1] \in Nat /\ K[j] \in Nat
    BY <1>1, <2>1, ElementOfSeq
  <2>3. /\ r <= K[1] /\ r <= K[j] /\ K[j] < x /\ buf[j].sn = SnAt(f, K[j]) /\ Same(buf[j], S[K[j] + 1])
        /\ 1 < j => K[j] - K[1] >= j - 1
    BY <2>1 DEF Early
  <2>4. r + j - 1 <= K[j]
    BY <2>2, <2>3
  <2> QED BY <2>2, <2>3, <2>4
<1> QED BY <1>1, <1>2
-----------------------------------------------------------------------------
\* The receiver after a step.
Moved(f, S, x, r, q, K) ==
  /\ Early(f, S, x, r, K, rcvBuf) /\ Queued(S, q, r, rcvQueue) /\ rcvNxt = SnAt(f, r)
  /\ r \in Nat /\ r <= x
Keeps(r, K, rn, Kn) == r <= rn /\ \A k \in Nat : Got(r, K, k) => Got(rn, Kn, k)

\* What moves to rcv_queue is what the stream has next, and nothing the receiver had is lost.
LEMMA MoveKeeps ==
  ASSUME Stream!KcpAssumption, NEW f \in FirstSns, NEW S \in Seq(Piece), NEW x \in Nat, x <= Len(S),
         Len(S) <= Most, NEW r, NEW q, NEW K, NEW buf, NEW queue,
         Early(f, S, x, r, K, buf), Queued(S, q, r, queue), rcvNxt = SnAt(f, r), r <= x,
         Stream!Move(buf, queue)
  PROVE  \E rn, Kn : Moved(f, S, x, rn, q, Kn)' /\ Keeps(r, K, rn, Kn)
<1>1. /\ q \in Nat /\ r \in Nat /\ q <= r /\ r - q <= Window /\ Window \in Nat /\ Most \in Nat
      /\ queue \in Seq(InSeg) /\ Len(queue) = r - q /\ Len(S) \in Nat
  BY Numbers DEF Queued
<1>2. /\ K \in Seq(Nat) /\ buf \in Seq(InSeg) /\ Len(K) = Len(buf) /\ Len(K) \in Nat
      /\ \A j \in 1 .. Len(K) : /\ K[j] \in Nat /\ r + j - 1 <= K[j] /\ K[j] < x
                                /\ buf[j].sn = SnAt(f, K[j]) /\ Same(buf[j], S[K[j] + 1])
  BY <1>1, EarlyAt
<1> DEFINE ok(k) == /\ Len(queue) + k <= Window
                    /\ \A i \in 1 .. k : buf[i].sn = Stream!Plus(rcvNxt, i - 1)
           W == {k \in 0 .. Len(buf) : ok(k)}
           n == Stream!Ready(buf, queue, rcvNxt)
<1>3. n \in 0 .. Len(K) /\ Len(queue) + n <= Window /\ \A i \in 1 .. n : buf[i].sn = Stream!Plus(rcvNxt, i - 1)
  <2>1. 0 \in W
    BY <1>1, <1>2
  <2>2. n = Stream!Max(W)
    BY DEF Stream!Ready
  <2>3. W \subseteq 0 .. Len(buf) /\ W # {} /\ Len(buf) \in Nat
    BY <1>2, <2>1
  <2>4. Stream!Max(W) \in W
    <3> HIDE DEF W
    <3> QED BY <2>3, MaxIn
  <2>5. n \in 0 .. Len(buf) /\ ok(n)
    <3> HIDE DEF n
    <3> QED BY <2>2, <2>4
  <2> HIDE DEF n
  <2> QED BY <1>2, <2>5
<1>4. /\ rcvQueue' = queue \o SubSeq(buf, 1, n)
      /\ rcvBuf' = SubSeq(buf, n + 1, Len(buf))
      /\ rcvNxt' = Stream!Plus(rcvNxt, n)
  BY DEF Stream!Move
<1> HIDE DEF n
<1>a. n \in Nat /\ n <= Len(K)
  BY <1>2, <1>3
<1>5. ASSUME NEW i \in 1 .. n PROVE K[i] = r + i - 1
  <2>1. i \in 1 .. Len(K) /\ i - 1 \in Nat /\ r + (i - 1) = r + i - 1
    BY <1>1, <1>2, <1>a
  <2>2. K[i] \in Nat /\ r + i - 1 <= K[i] /\ K[i] < x /\ buf[i].sn = SnAt(f, K[i])
    BY <1>2, <2>1
  <2>3. r + (i - 1) <= Most /\ r + i - 1 \in 0 .. Most /\ K[i] \in 0 .. Most
    BY <1>1, <2>1, <2>2
  <2>4. Stream!Plus(SnAt(f, r), i - 1) = SnAt(f, r + (i - 1))
    BY <1>1, <2>1, <2>3, PlusAt
  <2>5. SnAt(f, K[i]) = SnAt(f, r + i - 1)
    BY <1>3, <2>1, <2>2, <2>4
  <2> QED BY <2>3, <2>5, AtDiffers
<1>6. r + n <= x
  <2>1. CASE n = 0
    BY <1>1, <2>1
  <2>2. CASE n > 0
    <3>1. n \in 1 .. n /\ n \in 1 .. Len(K)
      BY <1>a, <1>2, <2>2
    <3>2. K[n] = r + n - 1 /\ K[n] < x
      BY <1>2, <1>5, <3>1
    <3> QED BY <1>1, <1>a, <3>2
  <2> QED BY <1>a, <2>1, <2>2
<1>7. rcvNxt' = SnAt(f, r + n)
  <2>1. r + n <= Most
    BY <1>1, <1>a, <1>6
  <2> QED BY <1>1, <1>4, <1>a, <2>1, PlusAt
<1> DEFINE L == SubSeq(K, n + 1, Len(K))
<1>8. L \in Seq(Nat) /\ Len(L) = Len(K) - n /\ \A i \in 1 .. Len(K) - n : L[i] = K[n + i]
  BY <1>2, <1>3, RestOf
<1>9. /\ rcvBuf' \in Seq(InSeg) /\ Len(rcvBuf') = Len(K) - n
      /\ \A i \in 1 .. Len(K) - n : rcvBuf'[i] = buf[n + i]
  <2>1. n \in 0 .. Len(buf)
    BY <1>2, <1>3
  <2>2. /\ SubSeq(buf, n + 1, Len(buf)) \in Seq(InSeg)
        /\ Len(SubSeq(buf, n + 1, Len(buf))) = Len(buf) - n
        /\ \A i \in 1 .. Len(buf) - n : SubSeq(buf, n + 1, Len(buf))[i] = buf[n + i]
    BY <1>2, <2>1, RestOf
  <2> QED BY <1>2, <1>4, <2>2
<1>10. ASSUME NEW i \in 1 .. Len(K) - n
       PROVE  n + i \in 1 .. Len(K) /\ i \in 1 .. Len(L)
  BY <1>2, <1>8, <1>a
<1>11. Early(f, S, x, r + n, L, rcvBuf')
  <2>1. ASSUME NEW j \in 1 .. Len(L)
        PROVE  /\ r + n <= L[j] /\ L[j] < x /\ rcvBuf'[j].sn = SnAt(f, L[j])
               /\ Same(rcvBuf'[j], S[L[j] + 1])
    <3>1. j \in 1 .. Len(K) - n
      BY <1>8
    <3>2. L[j] = K[n + j] /\ rcvBuf'[j] = buf[n + j] /\ n + j \in 1 .. Len(K)
      BY <1>8, <1>9, <1>10, <3>1
    <3>3. /\ K[n + j] \in Nat /\ r + (n + j) - 1 <= K[n + j] /\ K[n + j] < x
          /\ buf[n + j].sn = SnAt(f, K[n + j]) /\ Same(buf[n + j], S[K[n + j] + 1])
      BY <1>2, <3>2
    <3>4. r + n <= K[n + j]
      <4>1. n + j >= n + 1 /\ n + j \in Nat
        BY <1>2, <1>a, <3>1
      <4>2. K[n + j] \in Nat /\ r + (n + j) - 1 <= K[n + j] /\ r \in Nat /\ n \in Nat
        BY <1>1, <1>a, <3>3
      <4> QED BY <4>1, <4>2
    <3> HIDE DEF L
    <3> QED BY <3>2, <3>3, <3>4
  <2>2. ASSUME NEW i \in 1 .. Len(L), NEW j \in 1 .. Len(L), i < j
        PROVE  L[j] - L[i] >= j - i
    <3>1. i \in 1 .. Len(K) - n /\ j \in 1 .. Len(K) - n
      BY <1>8
    <3>2. L[j] = K[n + j] /\ n + j \in 1 .. Len(K) /\ L[i] = K[n + i] /\ n + i \in 1 .. Len(K)
      BY <1>8, <1>10, <3>1
    <3>3. n + i < n + j /\ (n + j) - (n + i) = j - i
      BY <1>2, <1>a, <2>2, <3>1
    <3>4. K[n + j] - K[n + i] >= (n + j) - (n + i)
      BY <3>2, <3>3 DEF Early
    <3> HIDE DEF L
    <3> QED BY <3>2, <3>3, <3>4
  <2>3. Len(L) = Len(rcvBuf')
    BY <1>8, <1>9
  <2> HIDE DEF L
  <2> QED BY <1>8, <1>9, <2>1, <2>2, <2>3 DEF Early
<1>12. Queued(S, q, r + n, rcvQueue')
  <2> DEFINE front == SubSeq(buf, 1, n)
  <2>1. front \in Seq(InSeg) /\ Len(front) = n /\ \A i \in 1 .. n : front[i] = buf[i]
    <3>1. n \in 0 .. Len(buf)
      BY <1>2, <1>3
    <3> QED BY <1>2, <3>1, FrontOf
  <2> HIDE DEF front
  <2>2. rcvQueue' = queue \o front
    BY <1>4 DEF front
  <2>3. /\ queue \o front \in Seq(InSeg) /\ Len(queue \o front) = Len(queue) + Len(front)
        /\ \A i \in 1 .. Len(queue) : (queue \o front)[i] = queue[i]
        /\ \A i \in 1 .. Len(front) : (queue \o front)[Len(queue) + i] = front[i]
    <3>1. queue \in Seq(InSeg) /\ front \in Seq(InSeg)
      BY <1>1, <2>1
    <3> QED BY <3>1, Joined
  <2>4. /\ rcvQueue' \in Seq(InSeg) /\ Len(rcvQueue') = (r - q) + n
        /\ \A i \in 1 .. r - q : rcvQueue'[i] = queue[i]
        /\ \A i \in 1 .. n : rcvQueue'[(r - q) + i] = buf[i]
    BY <1>1, <2>1, <2>2, <2>3
  <2>5. (r - q) + n = (r + n) - q /\ q <= r + n /\ r + n \in Nat /\ (r + n) - q <= Window
    BY <1>1, <1>3, <1>a
  <2>6. ASSUME NEW i \in 1 .. (r + n) - q PROVE Same(rcvQueue'[i], S[q + i])
    <3>1. CASE i <= r - q
      <4>1. i \in 1 .. r - q
        BY <1>1, <3>1
      <4>2. Same(queue[i], S[q + i])
        BY <4>1 DEF Queued
      <4> QED BY <2>4, <4>1, <4>2
    <3>2. CASE i > r - q
      <4> DEFINE j == i - (r - q)
      <4>1. j \in 1 .. n /\ (r - q) + j = i /\ r + j = q + i /\ (r + j - 1) + 1 = r + j
        BY <1>1, <1>a, <3>2
      <4> HIDE DEF j
      <4>2. j \in 1 .. Len(K)
        BY <1>2, <1>a, <4>1
      <4>3. Same(buf[j], S[K[j] + 1]) /\ K[j] = r + j - 1
        BY <1>2, <1>5, <4>1, <4>2
      <4>4. rcvQueue'[i] = buf[j]
        BY <2>4, <4>1
      <4> QED BY <4>1, <4>3, <4>4
    <3> QED BY <1>1, <3>1, <3>2
  <2> QED BY <1>1, <2>4, <2>5, <2>6 DEF Queued
<1>13. Keeps(r, K, r + n, L)
  <2>1. ASSUME NEW k \in Nat, Got(r, K, k) PROVE Got(r + n, L, k)
    <3>1. CASE k < r
      BY <1>1, <1>a, <3>1 DEF Got
    <3>2. CASE \E j \in 1 .. Len(K) : K[j] = k
      <4>1. PICK j \in 1 .. Len(K) : K[j] = k
        BY <3>2
      <4>2. CASE j <= n
        <5>1. j \in 1 .. n
          BY <1>a, <4>2
        <5>2. k < r + n
          BY <1>1, <1>5, <1>a, <4>1, <5>1
        <5> QED BY <5>2 DEF Got
      <4>3. CASE j > n
        <5>1. j - n \in 1 .. Len(K) - n /\ n + (j - n) = j /\ j - n \in 1 .. Len(L)
          BY <1>2, <1>8, <1>a, <4>3
        <5>2. L[j - n] = k
          BY <1>8, <4>1, <5>1
        <5> HIDE DEF L
        <5> QED BY <5>1, <5>2 DEF Got
      <4> QED BY <1>2, <1>a, <4>2, <4>3
    <3> HIDE DEF L
    <3> QED BY <2>1, <3>1, <3>2 DEF Got
  <2>2. r <= r + n
    BY <1>1, <1>a
  <2> HIDE DEF L
  <2> QED BY <2>1, <2>2 DEF Keeps
<1> HIDE DEF L
<1>14. PICK rn, Kn : rn = r + n /\ Kn = L
  OBVIOUS
<1>15. rn \in Nat /\ rn <= x
  BY <1>1, <1>6, <1>14, <1>a
<1>16. Moved(f, S, x, rn, q, Kn)'
  BY <1>7, <1>11, <1>12, <1>14, <1>15 DEF Moved
<1> QED BY <1>13, <1>14, <1>16

\* A segment that was put in its place is there, with all that were there before.
LEMMA InsertKeeps ==
  ASSUME Stream!KcpAssumption, NEW f \in FirstSns, NEW S \in Seq(Piece), NEW x \in Nat, x <= Most,
         NEW r \in Nat, NEW K, NEW buf, Early(f, S, x, r, K, buf),
         NEW k \in Nat, r <= k, k < x, NEW seg \in InSeg, seg.sn = SnAt(f, k), Same(seg, S[k + 1])
  PROVE  \E Kn : Early(f, S, x, r, Kn, Stream!Insert(buf, seg)) /\ Keeps(r, K, r, Kn) /\ Got(r, Kn, k)
<1>1. /\ K \in Seq(Nat) /\ buf \in Seq(InSeg) /\ Len(K) = Len(buf) /\ Len(K) \in Nat
      /\ \A j \in 1 .. Len(K) : /\ K[j] \in Nat /\ r + j - 1 <= K[j] /\ K[j] < x
                                /\ buf[j].sn = SnAt(f, K[j]) /\ Same(buf[j], S[K[j] + 1])
  BY EarlyAt
<1>a. Most \in Nat
  BY Numbers
<1>b. \A i, j \in 1 .. Len(K) : i < j => K[j] - K[i] >= j - i
  BY DEF Early
<1> DEFINE W == {l \in 0 .. Len(buf) : l > 0 => Stream!Diff(seg.sn, buf[l].sn) >= 0}
           n == Stream!Place(buf, seg.sn)
<1>2. ASSUME NEW l \in 1 .. Len(K) PROVE Stream!Diff(seg.sn, buf[l].sn) = k - K[l]
  <2>1. K[l] \in Nat /\ K[l] < x /\ buf[l].sn = SnAt(f, K[l])
    BY <1>1
  <2>2. K[l] \in 0 .. Most /\ k \in 0 .. Most
    BY <1>a, <2>1
  <2> QED BY <2>1, <2>2, DiffAt
<1>3. n \in W /\ \A l \in W : n >= l
  <2>1. 0 \in W
    BY <1>1
  <2>2. n = Stream!Max(W)
    BY DEF Stream!Place
  <2>3. W \subseteq 0 .. Len(buf) /\ W # {} /\ Len(buf) \in Nat
    BY <1>1, <2>1
  <2> HIDE DEF W, n
  <2> QED BY <2>2, <2>3, MaxIn
<1>4. n \in Nat /\ n <= Len(K) /\ n \in 0 .. Len(buf)
  <2> HIDE DEF n
  <2> QED BY <1>1, <1>3
<1>5. n > 0 => K[n] <= k /\ n \in 1 .. Len(K)
  <2> HIDE DEF n
  <2> SUFFICES ASSUME n > 0 PROVE K[n] <= k /\ n \in 1 .. Len(K)
    OBVIOUS
  <2>1. n \in 1 .. Len(K)
    BY <1>4
  <2>2. Stream!Diff(seg.sn, buf[n].sn) >= 0 /\ Stream!Diff(seg.sn, buf[n].sn) = k - K[n] /\ K[n] \in Nat
    BY <1>1, <1>2, <1>3, <2>1
  <2> QED BY <2>1, <2>2
<1>6. ASSUME NEW l \in 1 .. Len(K), l > n PROVE k < K[l]
  <2> HIDE DEF n
  <2>1. l \in 0 .. Len(buf) /\ l \notin W
    <3>1. l \in 0 .. Len(buf) /\ ~ n >= l
      BY <1>1, <1>4, <1>6
    <3> HIDE DEF W
    <3> QED BY <1>3, <3>1
  <2>2. ~ Stream!Diff(seg.sn, buf[l].sn) >= 0
    BY <2>1
  <2>3. Stream!Diff(seg.sn, buf[l].sn) = k - K[l] /\ K[l] \in Nat
    BY <1>1, <1>2
  <2> QED BY <2>2, <2>3
<1>7. Stream!Insert(buf, seg) = IF n > 0 /\ buf[n].sn = seg.sn THEN buf
                         ELSE SubSeq(buf, 1, n) \o <<seg>> \o SubSeq(buf, n + 1, Len(buf))
  BY DEF Stream!Insert
<1> HIDE DEF n, W
<1>8. CASE n > 0 /\ buf[n].sn = seg.sn
  <2>1. n \in 1 .. Len(K) /\ buf[n].sn = SnAt(f, K[n]) /\ K[n] \in 0 .. Most /\ k \in 0 .. Most
    <3>1. n \in 1 .. Len(K)
      BY <1>5, <1>8
    <3>2. K[n] \in Nat /\ K[n] < x /\ buf[n].sn = SnAt(f, K[n])
      BY <1>1, <3>1
    <3> QED BY <1>a, <3>1, <3>2
  <2>2. K[n] = k
    BY <1>8, <2>1, AtDiffers
  <2>3. Got(r, K, k)
    BY <2>1, <2>2 DEF Got
  <2>4. Keeps(r, K, r, K)
    BY DEF Keeps
  <2>5. Stream!Insert(buf, seg) = buf
    BY <1>7, <1>8
  <2> QED BY <2>3, <2>4, <2>5
<1>9. CASE ~(n > 0 /\ buf[n].sn = seg.sn)
  <2>1. PICK b : b = Stream!Insert(buf, seg)
    OBVIOUS
  <2>2. b = SubSeq(buf, 1, n) \o <<seg>> \o SubSeq(buf, n + 1, Len(buf))
    BY <1>7, <1>9, <2>1
  <2>3. /\ b \in Seq(InSeg) /\ Len(b) = Len(buf) + 1 /\ b[n + 1] = seg
        /\ \A i \in 1 .. n : b[i] = buf[i]
        /\ \A i \in n + 1 .. Len(buf) : b[i + 1] = buf[i]
    <3>1. buf \in Seq(InSeg) /\ n \in 0 .. Len(buf) /\ seg \in InSeg
      BY <1>1, <1>4
    <3>2. Holding(b, InSeg, buf, n, seg)
      BY <2>2, <3>1, PutIn
    <3> QED BY <3>2 DEF Holding
  <2>4. PICK L : L = SubSeq(K, 1, n) \o <<k>> \o SubSeq(K, n + 1, Len(K))
    OBVIOUS
  <2>5. /\ L \in Seq(Nat) /\ Len(L) = Len(K) + 1 /\ L[n + 1] = k
        /\ \A i \in 1 .. n : L[i] = K[i]
        /\ \A i \in n + 1 .. Len(K) : L[i + 1] = K[i]
    <3>1. K \in Seq(Nat) /\ n \in 0 .. Len(K) /\ k \in Nat
      BY <1>1, <1>4
    <3>2. Holding(L, Nat, K, n, k)
      BY <2>4, <3>1, PutIn
    <3> QED BY <3>2 DEF Holding
  <2>6. ASSUME NEW i \in 1 .. Len(L)
        PROVE  \/ i \in 1 .. n /\ i \in 1 .. Len(K)
               \/ i = n + 1
               \/ i \in n + 2 .. Len(K) + 1 /\ i - 1 \in n + 1 .. Len(K) /\ i - 1 \in 1 .. Len(K) /\ (i - 1) + 1 = i
    BY <1>1, <1>4, <2>5
  <2>7. n > 0 => K[n] < k
    <3> SUFFICES ASSUME n > 0 PROVE K[n] < k
      OBVIOUS
    <3>1. n \in 1 .. Len(K) /\ K[n] <= k /\ buf[n].sn = SnAt(f, K[n]) /\ K[n] \in Nat
      BY <1>1, <1>5
    <3>2. K[n] # k
      BY <1>9, <3>1
    <3> QED BY <3>1, <3>2
  <2>8. ASSUME NEW i \in 1 .. n PROVE i \in 1 .. Len(K) /\ k - K[i] >= n + 1 - i
    <3>1. i \in 1 .. Len(K) /\ n \in 1 .. Len(K) /\ n > 0
      BY <1>1, <1>4
    <3>2. K[i] \in Nat /\ K[n] \in Nat /\ K[n] < k
      BY <1>1, <2>7, <3>1
    <3>3. i < n => K[n] - K[i] >= n - i
      BY <1>b, <3>1
    <3>4. i \in Nat /\ n \in Nat /\ i <= n
      BY <1>4
    <3>5. CASE i = n
      BY <3>1, <3>2, <3>5
    <3>6. CASE i < n
      <4>1. K[n] - K[i] >= n - i /\ k - K[n] >= 1
        BY <3>2, <3>3, <3>6
      <4> QED BY <3>1, <3>2, <3>4, <4>1
    <3> QED BY <3>4, <3>5, <3>6
  <2>9. ASSUME NEW i \in n + 1 .. Len(K) PROVE i \in 1 .. Len(K) /\ K[i] - k >= i - n
    <3>1. i \in 1 .. Len(K) /\ n + 1 \in 1 .. Len(K) /\ n + 1 > n /\ i > n
      BY <1>1, <1>4
    <3>2. K[i] \in Nat /\ K[n + 1] \in Nat /\ k < K[n + 1]
      BY <1>1, <1>6, <3>1
    <3>3. n + 1 < i => K[i] - K[n + 1] >= i - (n + 1)
      BY <1>b, <3>1
    <3>4. i \in Nat /\ n \in Nat /\ n + 1 <= i
      BY <1>4
    <3>5. CASE i = n + 1
      <4>1. K[i] = K[n + 1] /\ i - n = 1
        BY <3>4, <3>5
      <4>2. K[n + 1] - k >= 1
        BY <3>2
      <4> QED BY <3>1, <4>1, <4>2
    <3>6. CASE n + 1 < i
      <4>1. PICK e \in Nat : e = K[n + 1]
        BY <3>2
      <4>2. K[i] \in Nat /\ K[i] - e >= i - (n + 1) /\ e - k >= 1
        BY <3>2, <3>3, <3>6, <4>1
      <4>3. K[i] - k >= i - n
        BY <3>4, <4>2
      <4> QED BY <3>1, <4>3
    <3> QED BY <3>4, <3>5, <3>6
  <2>10. ASSUME NEW i \in 1 .. Len(L)
         PROVE  r <= L[i] /\ L[i] < x /\ b[i].sn = SnAt(f, L[i]) /\ Same(b[i], S[L[i] + 1])
    <3>1. CASE i \in 1 .. n /\ i \in 1 .. Len(K)
      <4>1. L[i] = K[i] /\ b[i] = buf[i]
        BY <2>3, <2>5, <3>1
      <4>2. r <= K[i] /\ K[i] < x /\ buf[i].sn = SnAt(f, K[i]) /\ Same(buf[i], S[K[i] + 1])
        BY <3>1 DEF Early
      <4> QED BY <4>1, <4>2
    <3>2. CASE i = n + 1
      BY <2>3, <2>5, <3>2
    <3>3. CASE i \in n + 2 .. Len(K) + 1 /\ i - 1 \in n + 1 .. Len(K) /\ i - 1 \in 1 .. Len(K) /\ (i - 1) + 1 = i
      <4> DEFINE j == i - 1
      <4>1. j \in n + 1 .. Len(K) /\ j \in n + 1 .. Len(buf) /\ j + 1 = i /\ j \in 1 .. Len(K)
        BY <1>1, <3>3
      <4> HIDE DEF j
      <4>2. L[i] = K[j] /\ b[i] = buf[j]
        BY <2>3, <2>5, <4>1
      <4>3. r <= K[j] /\ K[j] < x /\ buf[j].sn = SnAt(f, K[j]) /\ Same(buf[j], S[K[j] + 1])
        BY <4>1 DEF Early
      <4> QED BY <4>2, <4>3
    <3> QED BY <2>6, <3>1, <3>2, <3>3
  <2>11. ASSUME NEW i \in 1 .. Len(L), NEW j \in 1 .. Len(L), i < j PROVE L[j] - L[i] >= j - i
    <3>1. CASE j \in 1 .. n /\ j \in 1 .. Len(K)
      <4>1. i \in 1 .. n /\ i \in 1 .. Len(K)
        BY <1>1, <1>4, <2>11, <3>1
      <4>2. K[j] - K[i] >= j - i
        BY <2>11, <3>1, <4>1 DEF Early
      <4> QED BY <2>5, <3>1, <4>1, <4>2
    <3>2. CASE j = n + 1
      <4>1. i \in 1 .. n
        BY <1>4, <2>11, <3>2
      <4>2. L[i] = K[i] /\ L[j] = k /\ k - K[i] >= n + 1 - i
        BY <2>5, <2>8, <3>2, <4>1
      <4>3. j - i = n + 1 - i
        BY <1>4, <3>2, <4>1
      <4> QED BY <4>2, <4>3
    <3>3. CASE j \in n + 2 .. Len(K) + 1 /\ j - 1 \in n + 1 .. Len(K) /\ j - 1 \in 1 .. Len(K) /\ (j - 1) + 1 = j
      <4> DEFINE m == j - 1
      <4>1. m \in n + 1 .. Len(K) /\ m \in 1 .. Len(K) /\ m + 1 = j
        BY <3>3
      <4> HIDE DEF m
      <4>2. L[j] = K[m] /\ K[m] - k >= m - n /\ K[m] \in Nat
        BY <1>1, <2>5, <2>9, <4>1
      <4>3. CASE i \in 1 .. n /\ i \in 1 .. Len(K)
        <5>1. L[i] = K[i] /\ k - K[i] >= n + 1 - i /\ K[i] \in Nat
          BY <1>1, <2>5, <2>8, <4>3
        <5>2. m \in Nat /\ i \in Nat /\ n \in Nat /\ j = m + 1
          BY <1>4, <4>1, <4>3
        <5>3. /\ K[m] \in Nat /\ K[m] - k >= m - n /\ k \in Nat
              /\ K[i] \in Nat /\ k - K[i] >= n + 1 - i
          BY <4>2, <5>1
        <5>4. K[m] - K[i] >= j - i
          <6>1. PICK e \in Nat : e = K[m]
            BY <5>3
          <6>2. PICK g \in Nat : g = K[i]
            BY <5>3
          <6>3. e - k >= m - n /\ k - g >= n + 1 - i
            BY <5>3, <6>1, <6>2
          <6>4. e - g >= j - i
            BY <5>2, <6>3
          <6> QED BY <6>1, <6>2, <6>4
        <5> QED BY <4>2, <5>1, <5>4
      <4>4. CASE i = n + 1
        <5>1. L[i] = k /\ m - n = j - i
          BY <1>4, <2>5, <4>1, <4>4
        <5> QED BY <4>2, <5>1
      <4>5. CASE i \in n + 2 .. Len(K) + 1 /\ i - 1 \in n + 1 .. Len(K) /\ i - 1 \in 1 .. Len(K) /\ (i - 1) + 1 = i
        <5> DEFINE l == i - 1
        <5>1. l \in n + 1 .. Len(K) /\ l \in 1 .. Len(K) /\ l + 1 = i /\ l < m
          BY <1>4, <2>11, <4>1, <4>5
        <5> HIDE DEF l
        <5>2. L[i] = K[l] /\ K[m] - K[l] >= m - l
          BY <2>5, <4>1, <5>1 DEF Early
        <5>3. m - l = j - i
          BY <1>1, <1>4, <4>1, <5>1
        <5> QED BY <4>2, <5>2, <5>3
      <4> QED BY <2>6, <4>3, <4>4, <4>5
    <3> QED BY <2>6, <3>1, <3>2, <3>3
  <2>12. Early(f, S, x, r, L, b)
    BY <1>1, <2>3, <2>5, <2>10, <2>11 DEF Early
  <2>13. Got(r, L, k)
    <3>1. n + 1 \in 1 .. Len(L)
      BY <1>1, <1>4, <2>5
    <3> QED BY <2>5, <3>1 DEF Got
  <2>14. ASSUME NEW l \in Nat, Got(r, K, l) PROVE Got(r, L, l)
    <3>1. CASE l < r
      BY <3>1 DEF Got
    <3>2. ASSUME NEW j \in 1 .. Len(K), K[j] = l PROVE Got(r, L, l)
      <4>1. CASE j <= n
        <5>1. j \in 1 .. n /\ j \in 1 .. Len(L)
          BY <1>1, <1>4, <2>5, <4>1
        <5> QED BY <2>5, <3>2, <5>1 DEF Got
      <4>2. CASE j > n
        <5>1. j \in n + 1 .. Len(K) /\ j + 1 \in 1 .. Len(L)
          BY <1>1, <1>4, <2>5, <4>2
        <5> QED BY <2>5, <3>2, <5>1 DEF Got
      <4> QED BY <1>4, <4>1, <4>2
    <3> QED BY <2>14, <3>1, <3>2 DEF Got
  <2>15. Keeps(r, K, r, L)
    BY <2>14 DEF Keeps
  <2> QED BY <2>1, <2>12, <2>13, <2>15
<1> QED BY <1>8, <1>9
-----------------------------------------------------------------------------
\* A packet stays what it is when the stream grows and the receiver has more.
LEMMA PacketsGrow ==
  ASSUME NEW f, NEW S, NEW x \in Nat, NEW r \in Nat, NEW K, NEW ps, Packets(f, S, x, r, K, ps),
         NEW R, NEW y \in Nat, NEW rn \in Nat, NEW Kn, x <= y, Keeps(r, K, rn, Kn),
         \A k \in 1 .. x : R[k] = S[k]
  PROVE  Packets(f, R, y, rn, Kn, ps)
<1> SUFFICES ASSUME NEW p \in ps PROVE PacketOK(f, R, y, rn, Kn, p)
  BY DEF Packets
<1>1. PacketOK(f, S, x, r, K, p)
  BY DEF Packets
<1>2. ASSUME p.cmd = "push" PROVE \E k \in 0 .. y - 1 : p.sn = SnAt(f, k) /\ Same(p, R[k + 1])
  <2>1. PICK k \in 0 .. x - 1 : p.sn = SnAt(f, k) /\ Same(p, S[k + 1])
    BY <1>1, <1>2 DEF PacketOK
  <2>2. k \in 0 .. y - 1 /\ k + 1 \in 1 .. x
    OBVIOUS
  <2> QED BY <2>1, <2>2
<1>3. ASSUME p.cmd = "ack" PROVE \E k \in 0 .. y - 1 : p.sn = SnAt(f, k) /\ Got(rn, Kn, k)
  <2>1. PICK k \in 0 .. x - 1 : p.sn = SnAt(f, k) /\ Got(r, K, k)
    BY <1>1, <1>3 DEF PacketOK
  <2>2. k \in 0 .. y - 1 /\ k \in Nat
    OBVIOUS
  <2> QED BY <2>1, <2>2 DEF Keeps
<1>4. ASSUME p.cmd \in {"ack", "wins"} PROVE p.wnd \in Nat /\ \E a \in 0 .. rn : p.una = SnAt(f, a)
  <2>1. p.wnd \in Nat /\ \E a \in 0 .. r : p.una = SnAt(f, a)
    BY <1>1, <1>4 DEF PacketOK
  <2>2. \A a \in 0 .. r : a \in 0 .. rn
    BY DEF Keeps
  <2> QED BY <2>1, <2>2
<1> QED BY <1>2, <1>3, <1>4 DEF PacketOK

\* An acknowledged segment stays with the receiver.
LEMMA KeptStays ==
  ASSUME NEW r, NEW K, NEW rn, NEW Kn, NEW u \in Nat, NEW buf, Len(buf) \in Nat,
         Kept(r, K, u, buf), Keeps(r, K, rn, Kn)
  PROVE  Kept(rn, Kn, u, buf)
<1> SUFFICES ASSUME NEW i \in 1 .. Len(buf), buf[i].acked PROVE Got(rn, Kn, u + i - 1)
  BY DEF Kept
<1>1. Got(r, K, u + i - 1) /\ u + i - 1 \in Nat
  BY DEF Kept
<1> QED BY <1>1 DEF Keeps

\* A receiver that did nothing lost nothing.
LEMMA SameKept == ASSUME NEW r \in Nat, NEW K PROVE Keeps(r, K, r, K)
BY DEF Keeps

\* What every step may use of the invariant.
LEMMA Facts ==
  ASSUME Stream!KcpAssumption, NEW f \in FirstSns, NEW S, NEW u, NEW x, NEW r, NEW q, NEW K,
         Holds(f, S, u, x, r, q, K)
  PROVE  /\ S \in Seq(Piece) /\ Len(S) \in Nat /\ Len(S) <= Most /\ Most \in Nat
         /\ u \in Nat /\ x \in Nat /\ r \in Nat /\ q \in Nat
         /\ u <= r /\ q <= r /\ r <= x /\ x <= Len(S)
         /\ Len(written) \in Nat /\ dropped \in Nat /\ Len(written) + dropped <= MaxSent
         /\ rmtWnd \in Nat /\ cwnd \in Nat
<1>1. /\ S \in Seq(Piece) /\ Len(S) \in Nat /\ Len(written) \in Nat
      /\ dropped \in Nat /\ Len(written) + dropped <= MaxSent
      /\ rmtWnd \in Nat /\ cwnd \in Nat
  BY DEF Holds, Cut, Bounded
<1>2. Len(S) <= Most
  <2>1. Cut(S, written) /\ Len(written) <= MaxSent
    BY <1>1, Numbers DEF Holds
  <2> QED BY <2>1, NotLong
<1>3. u \in Nat /\ x \in Nat /\ x <= Len(S)
  BY DEF Holds, Sent
<1>4. r \in Nat /\ q \in Nat /\ q <= r
  BY DEF Holds, Queued
<1>5. u <= r /\ r <= x
  BY DEF Holds
<1> QED BY <1>1, <1>2, <1>3, <1>4, <1>5, Numbers

\* A flush, with the receiver at rest.
LEMMA SentAlong ==
  ASSUME Stream!KcpAssumption, NEW f \in FirstSns, NEW S, NEW u, NEW x, NEW r, NEW q, NEW K,
         NEW queue, NEW buf, NEW una, NEW wnd, NEW cw, NEW rest,
         Cut(S, written'), dropped' \in Nat, Len(written') + dropped' <= MaxSent,
         Handled(f, S, u, x, r, K, queue, buf, una, wnd, cw, rest),
         Stream!Flush(queue, buf, una, wnd, cw, rest),
         Early(f, S, x, r, K, rcvBuf), Queued(S, q, r, rcvQueue), rcvNxt = SnAt(f, r),
         ReadWell(S, q, written', read), UNCHANGED <<Stream!rcv, read>>
  PROVE  StreamInv'
<1>1. Len(written') \in Nat /\ S \in Seq(Piece) /\ Len(S) \in Nat
  BY DEF Cut
<1>2. Len(S) <= Most
  <2>1. Len(written') <= MaxSent
    BY <1>1, Numbers
  <2> QED BY <2>1, NotLong
<1>3. r \in Nat /\ u <= r /\ r <= x /\ x \in Nat
  BY DEF Handled, Queued, Sent
<1>4. PICK y \in Nat : x <= y /\ Flushed(f, S, u, y, r, K)'
  BY <1>1, <1>2, <1>3, FlushKeeps
<1>5. Early(f, S, y, r, K, rcvBuf')
  <2>1. rcvBuf' = rcvBuf
    BY DEF Stream!rcv
  <2>2. ASSUME NEW j \in 1 .. Len(K)
        PROVE  r <= K[j] /\ K[j] < y /\ rcvBuf[j].sn = SnAt(f, K[j]) /\ Same(rcvBuf[j], S[K[j] + 1])
    <3>1. /\ K[j] \in Nat /\ r <= K[j] /\ K[j] < x
          /\ rcvBuf[j].sn = SnAt(f, K[j]) /\ Same(rcvBuf[j], S[K[j] + 1])
      BY ElementOfSeq DEF Early
    <3> QED BY <1>3, <1>4, <3>1
  <2>3. /\ K \in Seq(Nat) /\ rcvBuf \in Seq(InSeg) /\ Len(K) = Len(rcvBuf)
        /\ \A i, j \in 1 .. Len(K) : i < j => K[j] - K[i] >= j - i
    BY DEF Early
  <2> QED BY <2>1, <2>2, <2>3 DEF Early
<1>6. Queued(S, q, r, rcvQueue') /\ rcvNxt' = SnAt(f, r) /\ ReadWell(S, q, written', read')
  BY DEF Stream!rcv
<1>7. u <= r /\ r <= y
  BY <1>3, <1>4
<1>8. Bounded'
  BY <1>4 DEF Bounded, Flushed
<1>9. /\ Sent(f, S, u, y, sndQueue', sndBuf', sndUna', sndNxt')
      /\ Kept(r, K, u, sndBuf') /\ Packets(f, S, y, r, K, net')
  BY <1>4 DEF Flushed
<1>10. Holds(f, S, u, y, r, q, K)'
  BY <1>5, <1>6, <1>7, <1>8, <1>9 DEF Holds
<1> QED BY <1>10 DEF StreamInv

\* Of the packets on their way, those that remain.
LEMMA FewerPackets ==
  ASSUME NEW f, NEW S, NEW x, NEW r, NEW K, NEW p, NEW rest \in Stream!Remains(p),
         Packets(f, S, x, r, K, net)
  PROVE  Packets(f, S, x, r, K, rest)
<1>1. rest \subseteq net
  BY DEF Stream!Remains
<1> QED BY <1>1 DEF Packets

\* The timer of the sending end.
LEMMA KeepsUpdate == ASSUME Stream!KcpAssumption, StreamInv, Stream!Update PROVE StreamInv'
<1>1. PICK f \in FirstSns : \E S, u, x, r, q, K : Holds(f, S, u, x, r, q, K)
  BY DEF StreamInv
<1>2. PICK S, u, x, r, q, K : Holds(f, S, u, x, r, q, K)
  BY <1>1
<1>3. Handled(f, S, u, x, r, K, sndQueue, sndBuf, sndUna, rmtWnd, cwnd, net)
  BY <1>2 DEF Holds, Handled, Bounded
<1>4. /\ Stream!Flush(sndQueue, sndBuf, sndUna, rmtWnd, cwnd, net) /\ written' = written /\ dropped' = dropped
      /\ UNCHANGED <<Stream!rcv, read>>
  BY DEF Stream!Update
<1>5. /\ Cut(S, written') /\ dropped' \in Nat /\ Len(written') + dropped' <= MaxSent
      /\ Early(f, S, x, r, K, rcvBuf) /\ Queued(S, q, r, rcvQueue) /\ rcvNxt = SnAt(f, r)
      /\ ReadWell(S, q, written', read)
  BY <1>2, <1>4 DEF Holds, Bounded
<1> QED BY <1>3, <1>4, <1>5, SentAlong

\* A message that Send refuses.
LEMMA KeepsWriteTooLong ==
  ASSUME Stream!KcpAssumption, StreamInv, NEW n \in 1 .. MaxPayload, Stream!WriteTooLong(n) PROVE StreamInv'
<1>1. PICK f \in FirstSns : \E S, u, x, r, q, K : Holds(f, S, u, x, r, q, K)
  BY DEF StreamInv
<1>2. PICK S, u, x, r, q, K : Holds(f, S, u, x, r, q, K)
  BY <1>1
<1>3. Handled(f, S, u, x, r, K, sndQueue, sndBuf, sndUna, rmtWnd, cwnd, net)
  BY <1>2 DEF Holds, Handled, Bounded
<1>4. /\ Stream!Flush(sndQueue, sndBuf, sndUna, rmtWnd, cwnd, net) /\ written' = written
      /\ dropped' = dropped + 1 /\ Len(written) + dropped < MaxSent
      /\ UNCHANGED <<Stream!rcv, read>>
  BY DEF Stream!WriteTooLong, Stream!MayWrite
<1>5. Len(written) \in Nat /\ dropped \in Nat
  BY <1>2, Facts
<1>6. /\ Cut(S, written') /\ dropped' \in Nat /\ Len(written') + dropped' <= MaxSent
      /\ Early(f, S, x, r, K, rcvBuf) /\ Queued(S, q, r, rcvQueue) /\ rcvNxt = SnAt(f, r)
      /\ ReadWell(S, q, written', read)
  BY <1>2, <1>4, <1>5, Numbers DEF Holds
<1> QED BY <1>3, <1>4, <1>6, SentAlong

\* What waits for the window is what the stream has left, also when it grows.
LEMMA SentGrows ==
  ASSUME NEW f, NEW S \in Seq(Piece), NEW u, NEW x, NEW queue, NEW buf, NEW una, NEW nxt,
         Sent(f, S, u, x, queue, buf, una, nxt), NEW T \in Seq(Piece)
  PROVE  Sent(f, S \o T, u, x, queue \o T, buf, una, nxt)
<1> DEFINE R == S \o T
<1>1. /\ u \in Nat /\ x \in Nat /\ u <= x /\ x <= Len(S) /\ Len(S) \in Nat /\ Len(T) \in Nat
      /\ queue = SubSeq(S, x + 1, Len(S)) /\ Len(buf) = x - u
  BY LenProperties DEF Sent
<1>2. /\ R \in Seq(Piece) /\ Len(R) = Len(S) + Len(T)
      /\ \A i \in 1 .. Len(S) : R[i] = S[i]
      /\ \A i \in 1 .. Len(T) : R[Len(S) + i] = T[i]
  BY Joined
<1> HIDE DEF R
<1>3. queue \in Seq(Piece) /\ Len(queue) = Len(S) - x /\ \A i \in 1 .. Len(S) - x : queue[i] = S[x + i]
  <2>1. x \in 0 .. Len(S)
    BY <1>1
  <2> QED BY <1>1, <2>1, RestOf
<1>4. /\ queue \o T \in Seq(Piece) /\ Len(queue \o T) = Len(queue) + Len(T)
      /\ \A i \in 1 .. Len(queue) : (queue \o T)[i] = queue[i]
      /\ \A i \in 1 .. Len(T) : (queue \o T)[Len(queue) + i] = T[i]
  <2>1. queue \in Seq(Piece)
    BY <1>3
  <2> QED BY <2>1, Joined
<1> DEFINE A == SubSeq(R, x + 1, Len(R))
           B == queue \o T
<1>5. A \in Seq(Piece) /\ Len(A) = Len(R) - x /\ \A i \in 1 .. Len(R) - x : A[i] = R[x + i]
  <2>1. x \in 0 .. Len(R)
    BY <1>1, <1>2
  <2> QED BY <1>2, <2>1, RestOf
<1>6. Len(A) = Len(B)
  <2> HIDE DEF A, B
  <2>0. Len(A) = Len(R) - x /\ Len(R) = Len(S) + Len(T)
    BY <1>2, <1>5
  <2>1. Len(A) = (Len(S) + Len(T)) - x
    BY <2>0, Zenon
  <2>2. Len(B) = Len(S) - x + Len(T)
    BY <1>3, <1>4 DEF B
  <2> QED BY <1>1, <2>1, <2>2
<1>7. ASSUME NEW i \in 1 .. Len(A) PROVE A[i] = B[i]
  <2> HIDE DEF A, B
  <2>a. Len(A) = Len(R) - x /\ Len(R) = Len(S) + Len(T) /\ Len(queue) = Len(S) - x
    BY <1>2, <1>3, <1>5
  <2>0. i \in 1 .. (Len(S) + Len(T)) - x /\ i \in 1 .. Len(R) - x /\ Len(queue) = Len(S) - x
    <3>1. 1 .. Len(A) = 1 .. Len(R) - x /\ 1 .. Len(A) = 1 .. (Len(S) + Len(T)) - x
      BY <2>a, Zenon
    <3> QED BY <2>a, <3>1
  <2>1. CASE i <= Len(S) - x
    <3>1. i \in 1 .. Len(S) - x /\ x + i \in 1 .. Len(S)
      BY <1>1, <2>0, <2>1
    <3>2. B[i] = queue[i] /\ queue[i] = S[x + i]
      BY <1>3, <1>4, <3>1 DEF B
    <3>3. A[i] = R[x + i] /\ R[x + i] = S[x + i]
      BY <1>2, <1>5, <3>1
    <3> QED BY <3>2, <3>3
  <2>2. CASE i > Len(S) - x
    <3> DEFINE j == i - (Len(S) - x)
    <3>1. j \in 1 .. Len(T) /\ Len(queue) + j = i /\ Len(S) + j = x + i
      <4>1. Len(S) \in Nat /\ Len(T) \in Nat /\ x \in Nat /\ x <= Len(S)
        BY <1>1
      <4> QED BY <2>0, <2>2, <4>1
    <3> HIDE DEF j
    <3>2. B[i] = T[j]
      BY <1>4, <3>1 DEF B
    <3>3. A[i] = R[x + i] /\ R[x + i] = T[j]
      BY <1>2, <1>5, <3>1
    <3> QED BY <3>2, <3>3
  <2> QED BY <1>1, <2>0, <2>1, <2>2
<1>8. B = A
  <2>1. B \in Seq(Piece)
    BY <1>4
  <2> HIDE DEF A, B
  <2> QED BY <1>5, <1>6, <1>7, <2>1, SeqEqual
<1>9. ASSUME NEW i \in 1 .. x - u PROVE buf[i].sn = SnAt(f, u + i - 1) /\ Same(buf[i], R[u + i])
  <2>1. u + i \in 1 .. Len(S)
    BY <1>1
  <2>2. buf[i].sn = SnAt(f, u + i - 1) /\ Same(buf[i], S[u + i])
    BY DEF Sent
  <2> QED BY <1>2, <2>1, <2>2
<1>10. x <= Len(R)
  BY <1>1, <1>2
<1>11. /\ una = SnAt(f, u) /\ nxt = SnAt(f, x) /\ buf \in Seq(OutSeg)
  BY DEF Sent
<1> HIDE DEF A, B
<1>12. Sent(f, R, u, x, B, buf, una, nxt)
  BY <1>1, <1>8, <1>9, <1>10, <1>11 DEF Sent, A
<1> QED BY <1>12 DEF R, B

\* The receiver with its queue and its reader, and a stream that has become longer.
Reader(f, S, x, r, q, K, buf, queue, w, rd) ==
  /\ Early(f, S, x, r, K, buf) /\ Queued(S, q, r, queue) /\ ReadWell(S, q, w, rd) /\ r <= x
  /\ w \in Seq(1 .. MaxFrg)
Prolongs(R, S, x, v, w) ==
  /\ \A k \in 1 .. x : R[k] = S[k]
  /\ v \in Seq(1 .. MaxFrg) /\ Len(w) <= Len(v) /\ \A m \in 1 .. Len(w) : v[m] = w[m]
\* The receiver's half does not mind a longer stream.
LEMMA RestGrows ==
  ASSUME NEW f, NEW S, NEW x \in Nat, NEW r, NEW q, NEW K, NEW buf, NEW queue, NEW w, NEW rd,
         Reader(f, S, x, r, q, K, buf, queue, w, rd), NEW R, NEW v, Prolongs(R, S, x, v, w)
  PROVE  Reader(f, R, x, r, q, K, buf, queue, v, rd)
<1> USE DEF Reader, Prolongs
<1>1. r \in Nat /\ q \in Nat /\ q <= r /\ Len(w) \in Nat /\ Len(v) \in Nat
  BY LenProperties DEF Queued
<1>2. Early(f, R, x, r, K, buf)
  <2>1. ASSUME NEW j \in 1 .. Len(K)
        PROVE  r <= K[j] /\ K[j] < x /\ buf[j].sn = SnAt(f, K[j]) /\ Same(buf[j], R[K[j] + 1])
    <3>1. /\ K[j] \in Nat /\ r <= K[j] /\ K[j] < x
          /\ buf[j].sn = SnAt(f, K[j]) /\ Same(buf[j], S[K[j] + 1])
      BY ElementOfSeq DEF Early
    <3>2. K[j] + 1 \in 1 .. x
      BY <3>1
    <3> QED BY <3>1, <3>2
  <2> QED BY <2>1 DEF Early
<1>3. Queued(R, q, r, queue)
  <2>1. ASSUME NEW i \in 1 .. r - q PROVE Same(queue[i], R[q + i])
    <3>1. q + i \in 1 .. x
      BY <1>1
    <3>2. Same(queue[i], S[q + i])
      BY DEF Queued
    <3> QED BY <3>1, <3>2
  <2> QED BY <2>1 DEF Queued
<1>4. ReadWell(R, q, v, rd)
  <2>1. rd \in Seq(Seq(InSeg)) /\ Len(rd) <= Len(w) /\ Len(rd) \in Nat /\ (q = 0 => Len(rd) = 0)
    BY LenProperties DEF ReadWell
  <2>2. Len(rd) <= Len(v)
    BY <1>1, <2>1
  <2>3. ASSUME q > 0 PROVE R[q].frg = 0 /\ R[q].msg = Len(rd)
    <3>1. q \in 1 .. x
      BY <1>1, <2>3
    <3> QED BY <2>3, <3>1 DEF ReadWell
  <2>4. ASSUME NEW m \in 1 .. Len(rd)
        PROVE  /\ Len(rd[m]) = v[m]
               /\ \A i \in 1 .. v[m] : rd[m][i].msg = m /\ rd[m][i].frg = v[m] - i
    <3>1. m \in 1 .. Len(w)
      BY <1>1, <2>1
    <3> QED BY <3>1 DEF ReadWell
  <2> QED BY <2>1, <2>2, <2>3, <2>4 DEF ReadWell
<1> QED BY <1>2, <1>3, <1>4

\* A message that Send takes.
LEMMA KeepsWrite ==
  ASSUME Stream!KcpAssumption, StreamInv, NEW n \in 1 .. MaxPayload, Stream!Write(n) PROVE StreamInv'
<1>1. PICK f \in FirstSns : \E S, u, x, r, q, K : Holds(f, S, u, x, r, q, K)
  BY DEF StreamInv
<1>2. PICK S, u, x, r, q, K : Holds(f, S, u, x, r, q, K)
  BY <1>1
<1> DEFINE m == Len(written) + 1
           T == Cuts(m, n)
           R == S \o T
<1>3. /\ S \in Seq(Piece) /\ Len(S) \in Nat /\ Len(S) <= Most /\ Most \in Nat
      /\ u \in Nat /\ x \in Nat /\ r \in Nat /\ q \in Nat
      /\ u <= r /\ q <= r /\ r <= x /\ x <= Len(S)
      /\ Len(written) \in Nat /\ dropped \in Nat /\ Len(written) + dropped <= MaxSent
      /\ rmtWnd \in Nat /\ cwnd \in Nat
  BY <1>2, Facts
<1>4. /\ Stream!Flush(sndQueue \o T, sndBuf, sndUna, rmtWnd, cwnd, net) /\ written' = Append(written, n)
      /\ n <= MaxFrg /\ dropped' = dropped /\ Len(written) + dropped < MaxSent
      /\ UNCHANGED <<Stream!rcv, read>>
  BY DEF Stream!Write, Stream!MayWrite, Stream!Segments, Cuts
<1>5. n \in 1 .. MaxFrg /\ written \in Seq(1 .. MaxFrg)
  BY <1>2, <1>4 DEF Holds, Cut
<1>6. /\ written' \in Seq(1 .. MaxFrg) /\ Len(written') = Len(written) + 1
      /\ \A i \in 1 .. Len(written) : written'[i] = written[i]
  BY <1>4, <1>5
<1>7. Cut(R, written')
  <2>1. Cut(S, written)
    BY <1>2 DEF Holds
  <2> QED BY <1>4, <1>5, <2>1, CutGrows
<1>8. T \in Seq(Piece)
  <2>1. ASSUME NEW i \in 1 .. n PROVE [msg |-> m, frg |-> n - i] \in Piece
    BY <1>3 DEF Piece
  <2>2. T = [i \in 1 .. n |-> [msg |-> m, frg |-> n - i]]
    BY DEF Cuts
  <2>3. T \in [1 .. n -> Piece]
    BY <2>1, <2>2, Zenon
  <2>4. n \in Nat
    OBVIOUS
  <2> HIDE DEF T
  <2> QED BY <2>3, <2>4, FcnSeq
<1> HIDE DEF T
<1>9. \A k \in 1 .. x : R[k] = S[k]
  <2>1. \A k \in 1 .. Len(S) : R[k] = S[k]
    BY <1>3, <1>8, Joined
  <2>2. \A k \in 1 .. x : k \in 1 .. Len(S)
    BY <1>3
  <2> QED BY <2>1, <2>2
<1>10. Handled(f, R, u, x, r, K, sndQueue \o T, sndBuf, sndUna, rmtWnd, cwnd, net)
  <2>1. Sent(f, S, u, x, sndQueue, sndBuf, sndUna, sndNxt)
    BY <1>2 DEF Holds
  <2>2. Sent(f, R, u, x, sndQueue \o T, sndBuf, sndUna, sndNxt)
    BY <1>3, <1>8, <2>1, SentGrows
  <2>3. Packets(f, R, x, r, K, net)
    <3>1. Packets(f, S, x, r, K, net) /\ Keeps(r, K, r, K)
      BY <1>2, <1>3, SameKept DEF Holds
    <3> HIDE DEF R
    <3> QED BY <1>3, <1>9, <3>1, PacketsGrow
  <2>4. Kept(r, K, u, sndBuf)
    BY <1>2 DEF Holds
  <2> HIDE DEF R
  <2> QED BY <1>3, <2>2, <2>3, <2>4 DEF Handled
<1>11. Early(f, R, x, r, K, rcvBuf) /\ Queued(R, q, r, rcvQueue) /\ ReadWell(R, q, written', read)
  <2>1. Early(f, S, x, r, K, rcvBuf) /\ Queued(S, q, r, rcvQueue) /\ ReadWell(S, q, written, read)
    BY <1>2 DEF Holds
  <2>2. PICK v : v = written'
    OBVIOUS
  <2>3. Len(written) <= Len(v) /\ v \in Seq(1 .. MaxFrg) /\ \A i \in 1 .. Len(written) : v[i] = written[i]
    BY <1>3, <1>6, <2>2
  <2> HIDE DEF R
  <2>4. Early(f, R, x, r, K, rcvBuf) /\ Queued(R, q, r, rcvQueue) /\ ReadWell(R, q, v, read)
    <3>1. Reader(f, S, x, r, q, K, rcvBuf, rcvQueue, written, read)
      BY <1>3, <1>5, <2>1 DEF Reader
    <3>2. Prolongs(R, S, x, v, written)
      BY <1>9, <2>3 DEF Prolongs
    <3>3. Reader(f, R, x, r, q, K, rcvBuf, rcvQueue, v, read)
      BY <1>3, <3>1, <3>2, RestGrows
    <3> QED BY <3>3 DEF Reader
  <2> QED BY <2>2, <2>4
<1>12. rcvNxt = SnAt(f, r)
  BY <1>2 DEF Holds
<1>13. dropped' \in Nat /\ Len(written') + dropped' <= MaxSent
  <2>1. /\ Len(written) \in Nat /\ dropped \in Nat /\ MaxSent \in Nat
        /\ Len(written) + dropped < MaxSent
    BY <1>3, <1>4, Numbers
  <2>2. Len(written') = Len(written) + 1 /\ dropped' = dropped
    BY <1>4, <1>6
  <2>3. dropped' \in Nat /\ Len(written) + 1 + dropped <= MaxSent
    BY <2>1, <2>2
  <2> QED BY <2>2, <2>3
<1> HIDE DEF R
<1> QED BY <1>4, <1>7, <1>10, <1>11, <1>12, <1>13, SentAlong
-----------------------------------------------------------------------------
\* An acknowledgement marks the segment of its number, which the receiver has.
LEMMA ParseAckKeeps ==
  ASSUME Stream!KcpAssumption, NEW f \in FirstSns, NEW S, Len(S) <= Most, Len(S) \in Nat,
         NEW u, NEW x, NEW r, NEW K, NEW queue, NEW buf, NEW una, NEW p,
         Sent(f, S, u, x, queue, buf, una, sndNxt), Kept(r, K, u, buf), PacketOK(f, S, x, r, K, p)
  PROVE  Sent(f, S, u, x, queue, Stream!ParseAck(buf, p), una, sndNxt) /\ Kept(r, K, u, Stream!ParseAck(buf, p))
<1>1. CASE Stream!ParseAck(buf, p) = buf
  BY <1>1
<1>2. CASE p.cmd = "ack" /\ Stream!ParseAck(buf, p) # buf
  <2> DEFINE g == [i \in DOMAIN buf |-> [buf[i] EXCEPT !.acked = @ \/ buf[i].sn = p.sn]]
  <2>1. Stream!ParseAck(buf, p) = g
    BY <1>2 DEF Stream!ParseAck
  <2>2. /\ u \in Nat /\ x \in Nat /\ u <= x /\ x <= Len(S) /\ buf \in Seq(OutSeg) /\ Len(buf) = x - u
        /\ DOMAIN buf = 1 .. x - u /\ x - u \in Nat
    BY DEF Sent
  <2>3. ASSUME NEW i \in 1 .. x - u
        PROVE  /\ g[i] \in OutSeg /\ g[i].sn = buf[i].sn /\ g[i].frg = buf[i].frg /\ g[i].msg = buf[i].msg
               /\ g[i].acked => buf[i].acked \/ buf[i].sn = p.sn
    <3>1. buf[i] \in OutSeg
      BY <2>2, ElementOfSeq
    <3>2. g[i] = [buf[i] EXCEPT !.acked = @ \/ buf[i].sn = p.sn]
      BY <2>2
    <3> HIDE DEF g
    <3> QED BY <3>1, <3>2 DEF OutSeg
  <2>4. g \in [1 .. x - u -> OutSeg]
    BY <2>2, <2>3
  <2> HIDE DEF g
  <2>5. g \in Seq(OutSeg) /\ Len(g) = x - u
    BY <2>2, <2>4, FcnSeq
  <2>6. PICK k \in 0 .. x - 1 : p.sn = SnAt(f, k) /\ Got(r, K, k)
    BY <1>2 DEF PacketOK
  <2>7. ASSUME NEW i \in 1 .. x - u
        PROVE  /\ g[i].sn = SnAt(f, u + i - 1) /\ Same(g[i], S[u + i])
               /\ g[i].acked => Got(r, K, u + i - 1)
    <3>1. buf[i].sn = SnAt(f, u + i - 1) /\ Same(buf[i], S[u + i])
      BY DEF Sent
    <3>2. i \in 1 .. Len(buf)
      BY <2>2
    <3>3. buf[i].acked => Got(r, K, u + i - 1)
      BY <3>2 DEF Kept
    <3>4. ASSUME buf[i].sn = p.sn PROVE Got(r, K, u + i - 1)
      <4>0. Most \in Nat /\ Len(S) <= Most
        BY Numbers
      <4>1. u + i - 1 \in 0 .. Most /\ k \in 0 .. Most
        BY <2>2, <4>0
      <4>2. u + i - 1 = k
        BY <2>6, <3>1, <3>4, <4>1, AtDiffers
      <4> QED BY <2>6, <4>2
    <3> QED BY <2>3, <3>1, <3>3, <3>4 DEF Same
  <2>8. Sent(f, S, u, x, queue, g, una, sndNxt)
    BY <2>5, <2>7 DEF Sent
  <2>9. Kept(r, K, u, g)
    BY <2>5, <2>7 DEF Kept
  <2> QED BY <2>1, <2>8, <2>9
<1> QED BY <1>1, <1>2 DEF Stream!ParseAck

\* parse_una gives up no segment that the receiver does not have.
LEMMA AfterUnaKeeps ==
  ASSUME Stream!KcpAssumption, NEW f \in FirstSns, NEW S, Len(S) <= Most, Len(S) \in Nat,
         NEW u, NEW x, NEW r \in Nat, NEW K, NEW queue, r <= x, u <= r,
         Sent(f, S, u, x, queue, sndBuf, sndUna, sndNxt), Kept(r, K, u, sndBuf),
         NEW a \in 0 .. r, NEW no, no = SnAt(f, a)
  PROVE  \E v : /\ v \in Nat /\ v <= r /\ Kept(r, K, v, Stream!AfterUna(no))
                /\ Sent(f, S, v, x, queue, Stream!AfterUna(no), Stream!ShrinkBuf(Stream!AfterUna(no)), sndNxt)
<1> DEFINE W == {k \in 0 .. Len(sndBuf) : \A i \in 1 .. k : Stream!Diff(no, sndBuf[i].sn) > 0}
           c == Stream!Confirmed(no)
           buf == Stream!AfterUna(no)
<1>1. /\ u \in Nat /\ x \in Nat /\ u <= x /\ x <= Len(S) /\ sndBuf \in Seq(OutSeg)
      /\ Len(sndBuf) = x - u /\ x - u \in Nat /\ sndNxt = SnAt(f, x) /\ queue = SubSeq(S, x + 1, Len(S))
  BY DEF Sent
<1>2. \A i \in 1 .. x - u : sndBuf[i].sn = SnAt(f, u + i - 1) /\ Same(sndBuf[i], S[u + i])
  BY DEF Sent
<1>3. c \in 0 .. Len(sndBuf) /\ \A i \in 1 .. c : Stream!Diff(no, sndBuf[i].sn) > 0
  <2>1. 0 \in W
    BY <1>1
  <2>2. c = Stream!Max(W)
    BY DEF Stream!Confirmed
  <2>3. W \subseteq 0 .. Len(sndBuf) /\ W # {} /\ Len(sndBuf) \in Nat
    BY <1>1, <2>1
  <2>4. Stream!Max(W) \in W
    <3> HIDE DEF W
    <3> QED BY <2>3, MaxIn
  <2> HIDE DEF c
  <2> QED BY <2>2, <2>4
<1>4. buf = SubSeq(sndBuf, c + 1, Len(sndBuf))
  BY DEF Stream!AfterUna
<1> HIDE DEF c, W, buf
<1>5. c \in Nat /\ c <= x - u
  BY <1>1, <1>3
<1>6. u + c <= r
  <2>1. CASE c = 0
    BY <1>1, <2>1
  <2>2. CASE c > 0
    <3>1. c \in 1 .. c /\ c \in 1 .. x - u
      BY <1>1, <1>5, <2>2
    <3>2. Stream!Diff(no, sndBuf[c].sn) > 0 /\ sndBuf[c].sn = SnAt(f, u + c - 1)
      BY <1>2, <1>3, <3>1
    <3>3. a \in 0 .. Most /\ u + c - 1 \in 0 .. Most
      <4>1. Most \in Nat
        BY Numbers
      <4>2. a \in 0 .. Most
        BY <1>1, <4>1
      <4> QED BY <1>1, <1>5, <3>1, <4>1, <4>2
    <3>4. Stream!Diff(no, sndBuf[c].sn) = a - (u + c - 1)
      BY <3>2, <3>3, DiffAt
    <3>5. a - (u + c - 1) > 0
      BY <3>2, <3>4
    <3> QED BY <1>1, <1>5, <3>5
  <2> QED BY <1>5, <2>1, <2>2
<1>7. /\ buf \in Seq(OutSeg) /\ Len(buf) = (x - u) - c
      /\ \A i \in 1 .. (x - u) - c : buf[i] = sndBuf[c + i]
  <2>1. /\ SubSeq(sndBuf, c + 1, Len(sndBuf)) \in Seq(OutSeg)
        /\ Len(SubSeq(sndBuf, c + 1, Len(sndBuf))) = Len(sndBuf) - c
        /\ \A i \in 1 .. Len(sndBuf) - c : SubSeq(sndBuf, c + 1, Len(sndBuf))[i] = sndBuf[c + i]
    BY <1>1, <1>3, RestOf
  <2> QED BY <1>1, <1>4, <2>1
<1> DEFINE v == u + c
<1>8. v \in Nat /\ v <= x /\ v <= r /\ (x - u) - c = x - v
  BY <1>1, <1>5, <1>6
<1>9. ASSUME NEW i \in 1 .. x - v
      PROVE  /\ buf[i].sn = SnAt(f, v + i - 1) /\ Same(buf[i], S[v + i])
             /\ buf[i].acked => Got(r, K, v + i - 1)
  <2>1. i \in 1 .. (x - u) - c /\ c + i \in 1 .. x - u /\ u + (c + i) = v + i /\ u + (c + i) - 1 = v + i - 1
    BY <1>1, <1>5
  <2> HIDE DEF v
  <2>2. buf[i] = sndBuf[c + i]
    BY <1>7, <2>1
  <2>3. sndBuf[c + i].sn = SnAt(f, u + (c + i) - 1) /\ Same(sndBuf[c + i], S[u + (c + i)])
    BY <1>2, <2>1
  <2>4. sndBuf[c + i].acked => Got(r, K, u + (c + i) - 1)
    <3>1. c + i \in 1 .. Len(sndBuf)
      BY <1>1, <2>1
    <3> QED BY <3>1 DEF Kept
  <2> QED BY <2>1, <2>2, <2>3, <2>4
<1> HIDE DEF v
<1>10. Stream!ShrinkBuf(buf) = SnAt(f, v)
  <2>1. CASE buf = <<>>
    <3>1. v = x
      BY <1>1, <1>7, <1>8, <2>1
    <3> QED BY <1>1, <2>1, <3>1 DEF Stream!ShrinkBuf
  <2>2. CASE buf # <<>>
    <3>1. 1 \in 1 .. x - v /\ v + 1 - 1 = v
      BY <1>1, <1>7, <1>8, <2>2
    <3>2. buf[1].sn = SnAt(f, v + 1 - 1)
      BY <1>9, <3>1
    <3> QED BY <2>2, <3>1, <3>2 DEF Stream!ShrinkBuf
  <2> QED BY <2>1, <2>2
<1>11. Sent(f, S, v, x, queue, buf, Stream!ShrinkBuf(buf), sndNxt)
  BY <1>1, <1>7, <1>8, <1>9, <1>10 DEF Sent
<1>12. Kept(r, K, v, buf)
  BY <1>7, <1>8, <1>9 DEF Kept
<1>13. v \in Nat /\ v <= r /\ Kept(r, K, v, buf) /\ Sent(f, S, v, x, queue, buf, Stream!ShrinkBuf(buf), sndNxt)
  BY <1>8, <1>11, <1>12
<1> QED BY <1>13 DEF buf

\* A packet for the sender, however old.
LEMMA KeepsInputAck == ASSUME Stream!KcpAssumption, StreamInv, NEW p, Stream!InputAck(p) PROVE StreamInv'
<1>1. PICK f \in FirstSns : \E S, u, x, r, q, K : Holds(f, S, u, x, r, q, K)
  BY DEF StreamInv
<1>2. PICK S, u, x, r, q, K : Holds(f, S, u, x, r, q, K)
  BY <1>1
<1>3. /\ S \in Seq(Piece) /\ Len(S) \in Nat /\ Len(S) <= Most /\ Most \in Nat
      /\ u \in Nat /\ x \in Nat /\ r \in Nat /\ q \in Nat
      /\ u <= r /\ q <= r /\ r <= x /\ x <= Len(S)
      /\ Len(written) \in Nat /\ dropped \in Nat /\ Len(written) + dropped <= MaxSent
      /\ rmtWnd \in Nat /\ cwnd \in Nat
  BY <1>2, Facts
<1> DEFINE buf == Stream!AfterUna(p.una)
           una == Stream!ShrinkBuf(buf)
<1>4. /\ p \in net /\ p.cmd \in {"ack", "wins"}
      /\ UNCHANGED <<written, dropped, Stream!rcv, read>>
  BY DEF Stream!InputAck
<1>5. PICK rest \in Stream!Remains(p) :
        IF Stream!Slides(p.una)
          THEN \E c \in Stream!CwndUpdate(una, p.wnd) : Stream!Flush(sndQueue, Stream!ParseAck(buf, p), una, p.wnd, c, rest)
          ELSE /\ sndBuf' = Stream!ParseAck(buf, p) /\ sndUna' = una /\ rmtWnd' = p.wnd
               /\ net' = rest
               /\ UNCHANGED <<sndQueue, sndNxt, cwnd>>
  BY DEF Stream!InputAck
<1>6. PacketOK(f, S, x, r, K, p)
  BY <1>2, <1>4 DEF Holds, Packets
<1>7. p.wnd \in Nat /\ \E a \in 0 .. r : p.una = SnAt(f, a)
  BY <1>4, <1>6 DEF PacketOK
<1>8. PICK a \in 0 .. r : p.una = SnAt(f, a)
  BY <1>7
<1>9. Sent(f, S, u, x, sndQueue, sndBuf, sndUna, sndNxt) /\ Kept(r, K, u, sndBuf)
  BY <1>2 DEF Holds
<1>10. PICK v : v \in Nat /\ v <= r /\ Kept(r, K, v, buf) /\ Sent(f, S, v, x, sndQueue, buf, una, sndNxt)
  BY <1>3, <1>8, <1>9, AfterUnaKeeps
<1> HIDE DEF buf, una
<1> DEFINE got == Stream!ParseAck(buf, p)
<1>11. Sent(f, S, v, x, sndQueue, got, una, sndNxt) /\ Kept(r, K, v, got)
  BY <1>3, <1>6, <1>10, ParseAckKeeps
<1> HIDE DEF got
<1>12. Packets(f, S, x, r, K, rest)
  BY <1>2, <1>5, FewerPackets DEF Holds
<1>13. /\ Cut(S, written') /\ dropped' \in Nat /\ Len(written') + dropped' <= MaxSent
       /\ Early(f, S, x, r, K, rcvBuf) /\ Queued(S, q, r, rcvQueue) /\ rcvNxt = SnAt(f, r)
       /\ ReadWell(S, q, written', read) /\ UNCHANGED <<Stream!rcv, read>>
  BY <1>2, <1>4 DEF Holds, Bounded
<1>14. CASE Stream!Slides(p.una)
  <2>1. PICK c \in Stream!CwndUpdate(una, p.wnd) : Stream!Flush(sndQueue, got, una, p.wnd, c, rest)
    BY <1>5, <1>14 DEF got
  <2>2. c \in Nat
    BY <1>3 DEF Stream!CwndUpdate
  <2>3. Handled(f, S, v, x, r, K, sndQueue, got, una, p.wnd, c, rest)
    BY <1>3, <1>7, <1>10, <1>11, <1>12, <2>2 DEF Handled
  <2> QED BY <1>13, <2>1, <2>3, SentAlong
<1>15. CASE ~Stream!Slides(p.una)
  <2>1. /\ sndBuf' = got /\ sndUna' = una /\ rmtWnd' = p.wnd /\ net' = rest
        /\ sndQueue' = sndQueue /\ sndNxt' = sndNxt /\ cwnd' = cwnd
    BY <1>5, <1>15 DEF got
  <2>2. Sent(f, S, v, x, sndQueue', sndBuf', sndUna', sndNxt') /\ Kept(r, K, v, sndBuf')
        /\ Packets(f, S, x, r, K, net')
    BY <1>11, <1>12, <2>1
  <2>3. Bounded'
    BY <1>3, <1>7, <1>13, <2>1 DEF Bounded
  <2>4. /\ Early(f, S, x, r, K, rcvBuf') /\ Queued(S, q, r, rcvQueue') /\ rcvNxt' = SnAt(f, r)
        /\ ReadWell(S, q, written', read') /\ Cut(S, written')
    BY <1>13 DEF Stream!rcv
  <2>5. Holds(f, S, v, x, r, q, K)'
    BY <1>3, <1>10, <2>2, <2>3, <2>4 DEF Holds
  <2> QED BY <2>5 DEF StreamInv
<1> QED BY <1>14, <1>15
-----------------------------------------------------------------------------
\* A step of the receiver.
LEMMA ReceivedAlong ==
  ASSUME NEW f \in FirstSns, NEW S, NEW u, NEW x, NEW r, NEW q, NEW K, Holds(f, S, u, x, r, q, K),
         NEW rn, NEW qn, NEW Kn, Moved(f, S, x, rn, qn, Kn)', Keeps(r, K, rn, Kn),
         Packets(f, S, x, rn, Kn, net'), ReadWell(S, qn, written, read'),
         UNCHANGED <<written, dropped, Stream!snd>>
  PROVE  StreamInv'
<1>1. /\ written' = written /\ dropped' = dropped /\ sndQueue' = sndQueue /\ sndBuf' = sndBuf
      /\ sndUna' = sndUna /\ sndNxt' = sndNxt /\ rmtWnd' = rmtWnd /\ cwnd' = cwnd
  BY DEF Stream!snd
<1>2. Cut(S, written') /\ Bounded' /\ ReadWell(S, qn, written', read')
  BY <1>1 DEF Holds, Bounded
<1>3. Sent(f, S, u, x, sndQueue', sndBuf', sndUna', sndNxt')
  BY <1>1 DEF Holds
<1>4. Early(f, S, x, rn, Kn, rcvBuf') /\ Queued(S, qn, rn, rcvQueue') /\ rcvNxt' = SnAt(f, rn) /\ rn <= x
  BY DEF Moved
<1>5. u \in Nat /\ r \in Nat /\ rn \in Nat /\ u <= r /\ r <= rn
  BY DEF Holds, Sent, Queued, Moved, Keeps
<1>6. Kept(rn, Kn, u, sndBuf')
  <2>1. Kept(r, K, u, sndBuf) /\ Len(sndBuf) \in Nat
    BY LenProperties DEF Holds, Sent
  <2>2. Kept(rn, Kn, u, sndBuf)
    BY <1>5, <2>1, KeptStays
  <2> QED BY <1>1, <2>2
<1>7. u <= rn
  BY <1>5
<1>8. Holds(f, S, u, x, rn, qn, Kn)'
  BY <1>2, <1>3, <1>4, <1>6, <1>7 DEF Holds
<1> QED BY <1>8 DEF StreamInv

\* The window that is announced.
LEMMA UnusedIs == ASSUME Stream!KcpAssumption, NEW l, NEW m \in Seq(l) PROVE Stream!WndUnused(m) \in Nat
<1>1. Len(m) \in Nat /\ Window \in Nat
  BY LenProperties, Numbers
<1> QED BY <1>1 DEF Stream!WndUnused

\* A segment for the receiver: new, early, late or beyond the window.
LEMMA KeepsInputPush == ASSUME Stream!KcpAssumption, StreamInv, NEW p, Stream!InputPush(p) PROVE StreamInv'
<1>1. PICK f \in FirstSns : \E S, u, x, r, q, K : Holds(f, S, u, x, r, q, K)
  BY DEF StreamInv
<1>2. PICK S, u, x, r, q, K : Holds(f, S, u, x, r, q, K)
  BY <1>1
<1>3. /\ S \in Seq(Piece) /\ Len(S) \in Nat /\ Len(S) <= Most /\ Most \in Nat
      /\ u \in Nat /\ x \in Nat /\ r \in Nat /\ q \in Nat
      /\ u <= r /\ q <= r /\ r <= x /\ x <= Len(S)
  BY <1>2, Facts
<1>4. p \in net /\ p.cmd = "push" /\ UNCHANGED <<written, dropped, Stream!snd, read>>
  BY DEF Stream!InputPush
<1>5. Packets(f, S, x, r, K, net) /\ ReadWell(S, q, written, read)
  BY <1>2 DEF Holds
<1>6. Early(f, S, x, r, K, rcvBuf) /\ Queued(S, q, r, rcvQueue) /\ rcvNxt = SnAt(f, r)
  BY <1>2 DEF Holds
<1>7. ReadWell(S, q, written, read') /\ UNCHANGED <<written, dropped, Stream!snd>>
  BY <1>4, <1>5
<1>8. ASSUME UNCHANGED <<rcvBuf, rcvQueue, rcvNxt>> PROVE Moved(f, S, x, r, q, K)'
  BY <1>3, <1>6, <1>8 DEF Moved
<1>9. CASE ~Stream!InWindow(p.sn)
  <2>1. net' \in Stream!Remains(p) /\ UNCHANGED Stream!rcv
    BY <1>9 DEF Stream!InputPush
  <2>2. Packets(f, S, x, r, K, net')
    BY <1>5, <2>1, FewerPackets
  <2>3. Moved(f, S, x, r, q, K)'
    BY <1>8, <2>1 DEF Stream!rcv
  <2> QED BY <1>2, <1>3, <1>7, <2>2, <2>3, SameKept, ReceivedAlong
<1>10. CASE Stream!InWindow(p.sn)
  <2> DEFINE seg == [sn |-> p.sn, frg |-> p.frg, msg |-> p.msg]
  <2>1. /\ IF Stream!Diff(p.sn, rcvNxt) >= 0 THEN Stream!Move(Stream!Insert(rcvBuf, seg), rcvQueue)
                                      ELSE UNCHANGED <<rcvBuf, rcvQueue, rcvNxt>>
        /\ \E rest \in Stream!Remains(p) : Stream!Emit(rest, {Stream!Ack(p.sn, rcvNxt', Stream!WndUnused(rcvQueue'))})
    BY <1>10 DEF Stream!InputPush
  <2>2. PICK k \in 0 .. x - 1 : p.sn = SnAt(f, k) /\ Same(p, S[k + 1])
    BY <1>4, <1>5 DEF Packets, PacketOK
  <2>3. Stream!Diff(p.sn, rcvNxt) = k - r
    <3>1. k \in 0 .. Most /\ r \in 0 .. Most
      BY <1>3
    <3> QED BY <1>6, <2>2, <3>1, DiffAt
  <2>4. PICK rn, Kn : Moved(f, S, x, rn, q, Kn)' /\ Keeps(r, K, rn, Kn) /\ Got(rn, Kn, k)
    <3>1. CASE k >= r
      <4>1. Stream!Move(Stream!Insert(rcvBuf, seg), rcvQueue)
        BY <1>3, <2>1, <2>3, <3>1
      <4>2. k \in Nat /\ r <= k /\ k < x /\ x <= Most
        BY <1>3, <3>1
      <4>3. seg \in InSeg /\ seg.sn = SnAt(f, k) /\ Same(seg, S[k + 1])
        <5>1. S[k + 1] \in Piece
          <6>1. k + 1 \in 1 .. Len(S)
            BY <1>3, <4>2
          <6> QED BY <1>3, <6>1, ElementOfSeq
        <5>2. p.frg \in Nat /\ p.msg \in Nat
          BY <2>2, <5>1 DEF Same, Piece
        <5>3. p.sn \in Nat
          <6>1. k \in 0 .. Most + 1
            BY <1>3, <4>2
          <6>2. SnAt(f, k) \in 0 .. SnMod - 1 /\ SnMod \in Nat
            BY <6>1, AtIs, Numbers
          <6> QED BY <2>2, <6>2
        <5> QED BY <2>2, <5>2, <5>3 DEF InSeg, Same
      <4> HIDE DEF seg
      <4>4. PICK K1 : /\ Early(f, S, x, r, K1, Stream!Insert(rcvBuf, seg)) /\ Keeps(r, K, r, K1)
                      /\ Got(r, K1, k)
        BY <1>3, <1>6, <4>2, <4>3, InsertKeeps
      <4>5. PICK rn, Kn : Moved(f, S, x, rn, q, Kn)' /\ Keeps(r, K1, rn, Kn)
        BY <1>3, <1>6, <4>1, <4>4, MoveKeeps
      <4>6. Keeps(r, K, rn, Kn) /\ Got(rn, Kn, k)
        BY <4>2, <4>4, <4>5 DEF Keeps
      <4> QED BY <4>5, <4>6
    <3>2. CASE k < r
      <4>1. UNCHANGED <<rcvBuf, rcvQueue, rcvNxt>>
        BY <1>3, <2>1, <2>3, <3>2
      <4>2. Got(r, K, k)
        BY <3>2 DEF Got
      <4> QED BY <1>3, <1>8, <4>1, <4>2, SameKept
    <3> QED BY <1>3, <3>1, <3>2
  <2>5. rn \in Nat /\ rcvNxt' = SnAt(f, rn) /\ rcvQueue' \in Seq(InSeg)
    BY <2>4 DEF Moved, Queued
  <2>6. PICK rest \in Stream!Remains(p) : Stream!Emit(rest, {Stream!Ack(p.sn, rcvNxt', Stream!WndUnused(rcvQueue'))})
    BY <2>1
  <2> DEFINE ack == Stream!Ack(p.sn, rcvNxt', Stream!WndUnused(rcvQueue'))
  <2>7. PacketOK(f, S, x, rn, Kn, ack)
    <3>1. ack.cmd = "ack" /\ ack.sn = p.sn /\ ack.una = rcvNxt' /\ ack.wnd = Stream!WndUnused(rcvQueue')
      BY DEF Stream!Ack
    <3>2. ack.wnd \in Nat
      BY <2>5, <3>1, UnusedIs
    <3> HIDE DEF ack
    <3>3. rn \in 0 .. rn /\ ack.una = SnAt(f, rn) /\ ack.sn = SnAt(f, k) /\ ack.cmd # "push"
      BY <2>2, <2>5, <3>1
    <3> QED BY <2>4, <3>1, <3>2, <3>3 DEF PacketOK
  <2>8. Packets(f, S, x, rn, Kn, net')
    <3>1. Packets(f, S, x, r, K, rest)
      BY <1>5, FewerPackets
    <3>2. Packets(f, S, x, rn, Kn, rest)
      BY <1>3, <2>4, <2>5, <3>1, PacketsGrow
    <3>3. \A o \in net' : o \in rest \/ o = ack
      BY <2>6 DEF Stream!Emit
    <3> HIDE DEF ack
    <3> QED BY <2>7, <3>2, <3>3 DEF Packets
  <2> QED BY <1>2, <1>7, <2>4, <2>8, ReceivedAlong
<1> QED BY <1>9, <1>10

\* A window probe and its answer.
LEMMA KeepsProbe == ASSUME Stream!KcpAssumption, StreamInv, Stream!InputWask \/ Stream!Tell PROVE StreamInv'
<1>1. PICK f \in FirstSns : \E S, u, x, r, q, K : Holds(f, S, u, x, r, q, K)
  BY DEF StreamInv
<1>2. PICK S, u, x, r, q, K : Holds(f, S, u, x, r, q, K)
  BY <1>1
<1>3. /\ S \in Seq(Piece) /\ Len(S) \in Nat /\ Len(S) <= Most /\ Most \in Nat
      /\ u \in Nat /\ x \in Nat /\ r \in Nat /\ q \in Nat
      /\ u <= r /\ q <= r /\ r <= x /\ x <= Len(S)
  BY <1>2, Facts
<1>4. UNCHANGED <<written, dropped, Stream!snd, rcvBuf, rcvQueue, rcvNxt, read>>
  BY DEF Stream!InputWask, Stream!Tell
<1>5. /\ Early(f, S, x, r, K, rcvBuf) /\ Queued(S, q, r, rcvQueue) /\ rcvNxt = SnAt(f, r)
      /\ Packets(f, S, x, r, K, net) /\ ReadWell(S, q, written, read)
  BY <1>2 DEF Holds
<1>6. Moved(f, S, x, r, q, K)'
  BY <1>3, <1>4, <1>5 DEF Moved
<1>7. Packets(f, S, x, r, K, net')
  <2>1. CASE Stream!InputWask
    <3>1. net' \in Stream!Remains(Stream!Wask)
      BY <2>1 DEF Stream!InputWask
    <3> QED BY <1>5, <3>1, FewerPackets
  <2>2. CASE Stream!Tell
    <3> DEFINE wins == Stream!Wins(rcvNxt, Stream!WndUnused(rcvQueue))
    <3>1. Stream!Emit(net, {wins})
      BY <2>2 DEF Stream!Tell
    <3>2. \A o \in net' : o \in net \/ o = wins
      BY <3>1 DEF Stream!Emit
    <3>3. wins.cmd = "wins" /\ wins.una = rcvNxt /\ wins.wnd = Stream!WndUnused(rcvQueue)
      BY DEF Stream!Wins
    <3> HIDE DEF wins
    <3>4. wins.wnd \in Nat
      <4>1. rcvQueue \in Seq(InSeg)
        BY <1>5 DEF Queued
      <4> QED BY <3>3, <4>1, UnusedIs
    <3>5. PacketOK(f, S, x, r, K, wins)
      <4>1. wins.cmd # "push" /\ wins.cmd # "ack" /\ r \in 0 .. r /\ wins.una = SnAt(f, r)
        BY <1>3, <1>5, <3>3
      <4> QED BY <3>4, <4>1 DEF PacketOK
    <3> QED BY <1>5, <3>2, <3>5 DEF Packets
  <2> QED BY <2>1, <2>2
<1>8. ReadWell(S, q, written, read') /\ UNCHANGED <<written, dropped, Stream!snd>>
  BY <1>4, <1>5
<1> QED BY <1>2, <1>3, <1>6, <1>7, <1>8, SameKept, ReceivedAlong
-----------------------------------------------------------------------------
\* What the queue begins with is the message that comes next.
LEMMA NextMessage ==
  ASSUME NEW S, NEW w, NEW q \in Nat, NEW rd, Cut(S, w), ReadWell(S, q, w, rd), q < Len(S)
  PROVE  /\ Len(rd) + 1 \in 1 .. Len(w) /\ w[Len(rd) + 1] \in Nat /\ 1 <= w[Len(rd) + 1]
         /\ w[Len(rd) + 1] <= MaxFrg
         /\ \A i \in 1 .. w[Len(rd) + 1] :
              /\ q + i <= Len(S)
              /\ S[q + i].msg = Len(rd) + 1 /\ S[q + i].frg = w[Len(rd) + 1] - i
<1> DEFINE m == Len(rd) + 1
<1>1. /\ S \in Seq(Piece) /\ w \in Seq(1 .. MaxFrg) /\ Len(S) \in Nat /\ Len(rd) \in Nat
      /\ Len(w) \in Nat
  BY LenProperties DEF Cut, ReadWell
<1>2. q + 1 \in 1 .. Len(S)
  BY <1>1
<1>3. S[q + 1].msg = m /\ S[q + 1].frg = w[S[q + 1].msg] - 1
  <2>1. CASE q = 0
    <3>1. Len(rd) = 0 /\ q + 1 = 1
      BY <2>1 DEF ReadWell
    <3>2. S[1].msg = 1 /\ S[1].frg = w[1] - 1
      BY <1>2, <2>1 DEF Cut
    <3> QED BY <3>1, <3>2
  <2>2. CASE q > 0
    <3>1. S[q].frg = 0 /\ S[q].msg = Len(rd) /\ q \in 1 .. Len(S) - 1
      BY <1>1, <2>2 DEF ReadWell
    <3> QED BY <3>1 DEF Cut
  <2> QED BY <2>1, <2>2
<1>4. m \in 1 .. Len(w) /\ S[q + 1].frg = w[m] - 1
  BY <1>2, <1>3 DEF Cut
<1> HIDE DEF m
<1>5. w[m] \in 1 .. MaxFrg
  BY <1>1, <1>4, ElementOfSeq
<1>6. w[m] \in Nat /\ 1 <= w[m] /\ w[m] <= MaxFrg
  BY <1>5
<1>7. ASSUME NEW i \in 1 .. w[m]
      PROVE  q + i <= Len(S) /\ S[q + i].msg = m /\ S[q + i].frg = w[m] - i
  <2> DEFINE d == i - 1
  <2>1. d \in Nat /\ d <= w[m] - 1 /\ (q + 1) + d = q + i /\ (w[m] - 1) - d = w[m] - i
    BY <1>6
  <2> HIDE DEF d
  <2>2. d <= S[q + 1].frg
    BY <1>4, <2>1
  <2>3. /\ (q + 1) + d <= Len(S) /\ S[(q + 1) + d].msg = S[q + 1].msg
        /\ S[(q + 1) + d].frg = S[q + 1].frg - d
    BY <1>2, <2>1, <2>2 DEF Cut
  <2> QED BY <1>3, <1>4, <2>1, <2>3
<1> QED BY <1>4, <1>6, <1>7 DEF m

\* The first piece in the queue tells how long the message is, and its last is found there.
LEMMA FirstWhole ==
  ASSUME NEW S, NEW w, NEW q, NEW r, NEW rd, Cut(S, w), ReadWell(S, q, w, rd),
         Queued(S, q, r, rcvQueue), r <= Len(S), rcvQueue # <<>>
  PROVE  /\ rcvQueue[1].frg = w[Len(rd) + 1] - 1
         /\ Len(rcvQueue) >= w[Len(rd) + 1] => /\ Stream!Min(Stream!LastOfFirst) = w[Len(rd) + 1]
                                               /\ Stream!LastOfFirst # {}
<1> DEFINE n == w[Len(rd) + 1]
<1>1. /\ q \in Nat /\ r \in Nat /\ rcvQueue \in Seq(InSeg) /\ Len(rcvQueue) = r - q /\ Len(S) \in Nat
      /\ DOMAIN rcvQueue = 1 .. r - q
  BY LenProperties DEF Queued, Cut
<1>2. r - q >= 1 /\ q < Len(S)
  BY <1>1
<1>3. /\ n \in Nat /\ 1 <= n
      /\ \A i \in 1 .. n : q + i <= Len(S) /\ S[q + i].frg = n - i
  BY <1>1, <1>2, NextMessage
<1> HIDE DEF n
<1>4. \A i \in 1 .. r - q : i <= n => rcvQueue[i].frg = n - i
  BY <1>3 DEF Queued, Same
<1>5. rcvQueue[1].frg = n - 1
  BY <1>1, <1>2, <1>3, <1>4
<1>6. ASSUME Len(rcvQueue) >= n PROVE Stream!Min(Stream!LastOfFirst) = n /\ Stream!LastOfFirst # {}
  <2>1. n \in Stream!LastOfFirst
    BY <1>1, <1>3, <1>4, <1>6 DEF Stream!LastOfFirst
  <2>2. Stream!LastOfFirst \subseteq Nat
    BY <1>1 DEF Stream!LastOfFirst
  <2>3. Stream!Min(Stream!LastOfFirst) \in Stream!LastOfFirst /\ Stream!Min(Stream!LastOfFirst) <= n
    BY <2>1, <2>2, MinIn
  <2>4. ASSUME NEW i \in Stream!LastOfFirst, i < n PROVE FALSE
    <3>1. i \in 1 .. r - q /\ rcvQueue[i].frg = 0
      BY <1>1 DEF Stream!LastOfFirst
    <3>2. rcvQueue[i].frg = n - i
      BY <1>3, <1>4, <2>4, <3>1
    <3> QED BY <1>3, <2>4, <3>1, <3>2
  <2>5. Stream!Min(Stream!LastOfFirst) \in Nat
    BY <2>2, <2>3
  <2> QED BY <1>3, <2>1, <2>3, <2>4, <2>5
<1> QED BY <1>5, <1>6 DEF n

\* The application reads the next message, and only when all of it is there.
LEMMA KeepsRead == ASSUME Stream!KcpAssumption, StreamInv, Stream!Read PROVE StreamInv'
<1>1. PICK f \in FirstSns : \E S, u, x, r, q, K : Holds(f, S, u, x, r, q, K)
  BY DEF StreamInv
<1>2. PICK S, u, x, r, q, K : Holds(f, S, u, x, r, q, K)
  BY <1>1
<1>3. /\ S \in Seq(Piece) /\ Len(S) \in Nat /\ Len(S) <= Most /\ Most \in Nat
      /\ u \in Nat /\ x \in Nat /\ r \in Nat /\ q \in Nat
      /\ u <= r /\ q <= r /\ r <= x /\ x <= Len(S)
  BY <1>2, Facts
<1>4. /\ Cut(S, written) /\ ReadWell(S, q, written, read) /\ Queued(S, q, r, rcvQueue)
      /\ Early(f, S, x, r, K, rcvBuf) /\ rcvNxt = SnAt(f, r) /\ Packets(f, S, x, r, K, net)
  BY <1>2 DEF Holds
<1> DEFINE m == Len(read) + 1
           n == written[m]
           out == SubSeq(rcvQueue, 1, n)
           queue == SubSeq(rcvQueue, n + 1, Len(rcvQueue))
<1>5. /\ rcvQueue \in Seq(InSeg) /\ Len(rcvQueue) = r - q /\ r - q <= Window /\ Window \in Nat
      /\ \A i \in 1 .. r - q : Same(rcvQueue[i], S[q + i])
  BY <1>4, Numbers DEF Queued
<1>6. rcvQueue # <<>> /\ Len(rcvQueue) >= rcvQueue[1].frg + 1
  BY DEF Stream!Read, Stream!PeekSize
<1>7. q < Len(S) /\ r <= Len(S)
  BY <1>3, <1>5, <1>6
<1>8. /\ m \in 1 .. Len(written) /\ n \in Nat /\ 1 <= n
      /\ \A i \in 1 .. n : q + i <= Len(S) /\ S[q + i].msg = m /\ S[q + i].frg = n - i
  BY <1>3, <1>4, <1>7, NextMessage
<1>9. /\ rcvQueue[1].frg = n - 1
      /\ Len(rcvQueue) >= n => Stream!Min(Stream!LastOfFirst) = n
  BY <1>4, <1>6, <1>7, FirstWhole
<1> HIDE DEF n, m
<1>10. n <= r - q /\ Stream!Min(Stream!LastOfFirst) = n /\ n \in 0 .. Len(rcvQueue)
  BY <1>3, <1>5, <1>6, <1>8, <1>9
<1>11. /\ read' = Append(read, out) /\ Stream!Move(rcvBuf, queue)
       /\ UNCHANGED <<written, dropped, Stream!snd, net>>
  BY <1>10 DEF Stream!Read, Stream!Recv
<1>12. out \in Seq(InSeg) /\ Len(out) = n /\ \A i \in 1 .. n : out[i] = rcvQueue[i]
  BY <1>5, <1>10, FrontOf
<1>13. /\ queue \in Seq(InSeg) /\ Len(queue) = Len(rcvQueue) - n
       /\ \A i \in 1 .. Len(rcvQueue) - n : queue[i] = rcvQueue[n + i]
  BY <1>5, <1>10, RestOf
<1> HIDE DEF out, queue
<1> DEFINE qn == q + n
<1>14. qn \in Nat /\ qn <= r /\ r - qn <= Window /\ (r - q) - n = r - qn
  <2>1. /\ q \in Nat /\ r \in Nat /\ n \in Nat /\ Window \in Nat
        /\ n <= r - q /\ r - q <= Window
    BY <1>3, <1>5, <1>8, <1>10
  <2> QED BY <2>1
<1>15. Queued(S, qn, r, queue)
  <2>1. ASSUME NEW i \in 1 .. r - qn PROVE Same(queue[i], S[qn + i])
    <3>1. i \in 1 .. (r - q) - n /\ n + i \in 1 .. r - q /\ q + (n + i) = qn + i
      BY <1>3, <1>8, <1>10
    <3> HIDE DEF qn
    <3>2. queue[i] = rcvQueue[n + i] /\ Same(rcvQueue[n + i], S[q + (n + i)])
      BY <1>5, <1>13, <3>1
    <3> QED BY <3>1, <3>2
  <2>2. Len(queue) = r - qn
    BY <1>5, <1>13, <1>14
  <2> HIDE DEF qn
  <2> QED BY <1>3, <1>13, <1>14, <2>1, <2>2 DEF Queued
<1>16. PICK p : p = qn
  OBVIOUS
<1>17. PICK rn, Kn : Moved(f, S, x, rn, p, Kn)' /\ Keeps(r, K, rn, Kn)
  <2>1. Queued(S, p, r, queue)
    BY <1>15, <1>16
  <2> HIDE DEF qn
  <2> QED BY <1>3, <1>4, <1>11, <2>1, MoveKeeps
<1>18. Packets(f, S, x, rn, Kn, net')
  <2>1. net' = net /\ rn \in Nat
    BY <1>11, <1>17 DEF Moved
  <2>2. Packets(f, S, x, rn, Kn, net)
    BY <1>3, <1>4, <1>17, <2>1, PacketsGrow
  <2> QED BY <2>1, <2>2
<1>19. ReadWell(S, p, written, read')
  <2>0. /\ Len(read) \in Nat /\ read \in Seq(Seq(InSeg)) /\ m = Len(read) + 1 /\ Len(written) \in Nat
    BY <1>4, LenProperties DEF ReadWell, Cut, m
  <2>1. /\ read' \in Seq(Seq(InSeg)) /\ Len(read') = m
        /\ \A i \in 1 .. Len(read) : read'[i] = read[i]
        /\ read'[m] = out
    BY <1>11, <1>12, <2>0
  <2>2. n \in 1 .. n /\ q + n = p
    BY <1>8, <1>16
  <2>3. S[p].frg = 0 /\ S[p].msg = m
    <3>1. S[q + n].msg = m /\ S[q + n].frg = n - n
      BY <1>8, <2>2
    <3> QED BY <1>8, <2>2, <3>1
  <2>4. ASSUME NEW i \in 1 .. n PROVE out[i].msg = m /\ out[i].frg = n - i
    <3>1. i \in 1 .. r - q
      BY <1>3, <1>10, <1>8
    <3>2. out[i] = rcvQueue[i] /\ Same(rcvQueue[i], S[q + i])
      BY <1>5, <1>12, <3>1
    <3> QED BY <1>8, <3>2 DEF Same
  <2>5. ASSUME NEW j \in 1 .. Len(read')
        PROVE  /\ Len(read'[j]) = written[j]
               /\ \A i \in 1 .. written[j] : read'[j][i].msg = j /\ read'[j][i].frg = written[j] - i
    <3>1. CASE j = m
      <4>1. written[j] = n
        BY <3>1 DEF n
      <4> QED BY <1>12, <2>1, <2>4, <3>1, <4>1
    <3>2. CASE j # m
      <4>1. j \in 1 .. Len(read)
        BY <2>0, <2>1, <3>2
      <4>2. read'[j] = read[j]
        BY <2>1, <4>1
      <4>3. /\ Len(read[j]) = written[j]
            /\ \A i \in 1 .. written[j] : read[j][i].msg = j /\ read[j][i].frg = written[j] - i
        BY <1>4, <4>1 DEF ReadWell
      <4> QED BY <4>2, <4>3
    <3> QED BY <3>1, <3>2
  <2>6. Len(read') <= Len(written) /\ p \in Nat /\ p > 0
    <3>1. p = q + n
      BY <1>16
    <3> QED BY <1>3, <1>8, <2>0, <2>1, <3>1
  <2> QED BY <2>1, <2>3, <2>5, <2>6 DEF ReadWell
<1>20. UNCHANGED <<written, dropped, Stream!snd>>
  BY <1>11
<1> QED BY <1>2, <1>17, <1>18, <1>19, <1>20, ReceivedAlong
-----------------------------------------------------------------------------
\* Every step keeps the invariant.
LEMMA StreamNext == ASSUME Stream!KcpAssumption, StreamInv, Stream!Next PROVE StreamInv'
<1>1. ASSUME NEW n \in 1 .. MaxPayload, Stream!Write(n) \/ Stream!WriteTooLong(n) PROVE StreamInv'
  BY <1>1, KeepsWrite, KeepsWriteTooLong
<1>2. ASSUME NEW p \in net, Stream!InputAck(p) \/ Stream!InputPush(p) PROVE StreamInv'
  BY <1>2, KeepsInputAck, KeepsInputPush
<1> QED BY <1>1, <1>2, KeepsUpdate, KeepsProbe, KeepsRead DEF Stream!Next

\* The rest of the cluster does not touch the connection.
LEMMA StreamStutters == ASSUME StreamInv, UNCHANGED Stream!vars PROVE StreamInv'
<1>1. PICK f \in FirstSns : \E S, u, x, r, q, K : Holds(f, S, u, x, r, q, K)
  BY DEF StreamInv
<1>2. PICK S, u, x, r, q, K : Holds(f, S, u, x, r, q, K)
  BY <1>1
<1>3. Holds(f, S, u, x, r, q, K)'
  BY <1>2 DEF Holds, Bounded, Stream!vars, Stream!snd, Stream!rcv
<1> QED BY <1>3 DEF StreamInv

\* What was read is what was written.
LEMMA FifoFollows == ASSUME Stream!KcpAssumption, StreamInv PROVE Stream!Fifo
<1>1. PICK f \in FirstSns : \E S, u, x, r, q, K : Holds(f, S, u, x, r, q, K)
  BY DEF StreamInv
<1>2. PICK S, u, x, r, q, K : Holds(f, S, u, x, r, q, K)
  BY <1>1
<1>3. Cut(S, written) /\ ReadWell(S, q, written, read)
  BY <1>2 DEF Holds
<1>4. read \in Seq(Seq(InSeg)) /\ Len(read) <= Len(written) /\ DOMAIN read = 1 .. Len(read) /\ Len(read) \in Nat
      /\ written \in Seq(1 .. MaxFrg) /\ Len(written) \in Nat
  BY <1>3, LenProperties DEF ReadWell, Cut
<1>5. ASSUME NEW m \in 1 .. Len(read)
      PROVE  /\ Stream!MsgsOf(read[m]) = {m}
             /\ [i \in DOMAIN read[m] |-> read[m][i].frg] = [i \in 1 .. written[m] |-> written[m] - i]
  <2>1. m \in 1 .. Len(written)
    BY <1>4
  <2>2. read[m] \in Seq(InSeg)
    BY <1>4, ElementOfSeq
  <2>3. written[m] \in 1 .. MaxFrg
    BY <1>4, <2>1, ElementOfSeq
  <2>4. /\ Len(read[m]) = written[m]
        /\ \A i \in 1 .. written[m] : read[m][i].msg = m /\ read[m][i].frg = written[m] - i
    BY <1>3 DEF ReadWell
  <2>5. DOMAIN read[m] = 1 .. written[m]
    BY <2>2, <2>4, LenProperties
  <2>6. 1 \in 1 .. written[m]
    BY <2>3
  <2>7. Stream!MsgsOf(read[m]) = {m}
    BY <2>4, <2>5, <2>6 DEF Stream!MsgsOf
  <2> QED BY <2>4, <2>5, <2>7
<1> QED BY <1>4, <1>5 DEF Stream!Fifo

\* What was given up or acknowledged is with the receiver.
LEMMA NothingForgottenFollows == ASSUME Stream!KcpAssumption, StreamInv PROVE Stream!NothingForgotten
<1>1. PICK f \in FirstSns : \E S, u, x, r, q, K : Holds(f, S, u, x, r, q, K)
  BY DEF StreamInv
<1>2. PICK S, u, x, r, q, K : Holds(f, S, u, x, r, q, K)
  BY <1>1
<1>3. /\ S \in Seq(Piece) /\ Len(S) \in Nat /\ Len(S) <= Most /\ Most \in Nat
      /\ u \in Nat /\ x \in Nat /\ r \in Nat /\ q \in Nat
      /\ u <= r /\ q <= r /\ r <= x /\ x <= Len(S)
  BY <1>2, Facts
<1>4. u \in 0 .. Most /\ x \in 0 .. Most /\ r \in 0 .. Most
  BY <1>3
<1>5. /\ Sent(f, S, u, x, sndQueue, sndBuf, sndUna, sndNxt) /\ Early(f, S, x, r, K, rcvBuf)
      /\ rcvNxt = SnAt(f, r) /\ Kept(r, K, u, sndBuf)
  BY <1>2 DEF Holds
<1>6. /\ sndUna = SnAt(f, u) /\ sndNxt = SnAt(f, x) /\ sndBuf \in Seq(OutSeg) /\ Len(sndBuf) = x - u
      /\ DOMAIN sndBuf = 1 .. x - u /\ \A i \in 1 .. x - u : sndBuf[i].sn = SnAt(f, u + i - 1)
  BY <1>5, LenProperties DEF Sent
<1>7. Stream!Diff(rcvNxt, sndUna) = r - u /\ Stream!Diff(sndNxt, rcvNxt) = x - r
  BY <1>4, <1>5, <1>6, DiffAt
<1>8. ASSUME NEW i \in 1 .. x - u, sndBuf[i].acked
      PROVE  \/ Stream!Diff(sndBuf[i].sn, rcvNxt) < 0
             \/ \E j \in DOMAIN rcvBuf : rcvBuf[j].sn = sndBuf[i].sn
  <2>1. Got(r, K, u + i - 1)
    <3>1. i \in 1 .. Len(sndBuf)
      BY <1>6
    <3> QED BY <1>5, <1>8, <3>1 DEF Kept
  <2>2. u + i - 1 \in 0 .. Most /\ sndBuf[i].sn = SnAt(f, u + i - 1)
    BY <1>3, <1>6
  <2>3. CASE u + i - 1 < r
    <3>1. Stream!Diff(sndBuf[i].sn, rcvNxt) = (u + i - 1) - r
      BY <1>4, <1>5, <2>2, DiffAt
    <3> QED BY <1>3, <2>2, <2>3, <3>1
  <2>4. ASSUME NEW j \in 1 .. Len(K), K[j] = u + i - 1
        PROVE  \E l \in DOMAIN rcvBuf : rcvBuf[l].sn = sndBuf[i].sn
    <3>1. rcvBuf \in Seq(InSeg) /\ Len(rcvBuf) = Len(K) /\ rcvBuf[j].sn = SnAt(f, K[j])
      BY <1>5 DEF Early
    <3>2. j \in DOMAIN rcvBuf
      BY <3>1, LenProperties
    <3> QED BY <2>2, <2>4, <3>1, <3>2
  <2> QED BY <2>1, <2>3, <2>4 DEF Got
<1> QED BY <1>3, <1>6, <1>7, <1>8 DEF Stream!NothingForgotten

\* A full queue has a whole message in front.
LEMMA NeverFullFollows == ASSUME Stream!KcpAssumption, StreamInv PROVE Stream!NeverFull
<1> SUFFICES ASSUME Len(rcvQueue) >= Window PROVE Stream!PeekSize
  <2>1. Len(rcvQueue) \in Nat /\ Window \in Nat
    BY Numbers DEF StreamInv, Holds, Queued
  <2> QED BY <2>1 DEF Stream!NeverFull
<1>1. PICK f \in FirstSns : \E S, u, x, r, q, K : Holds(f, S, u, x, r, q, K)
  BY DEF StreamInv
<1>2. PICK S, u, x, r, q, K : Holds(f, S, u, x, r, q, K)
  BY <1>1
<1>3. Cut(S, written) /\ ReadWell(S, q, written, read) /\ Queued(S, q, r, rcvQueue)
  BY <1>2 DEF Holds
<1>4. q \in Nat /\ r \in Nat /\ q <= r /\ r <= Len(S) /\ Len(S) \in Nat
  BY <1>2, Facts
<1>5. rcvQueue \in Seq(InSeg) /\ Len(rcvQueue) = r - q
  BY <1>3 DEF Queued
<1>6. r - q >= Window /\ Window >= 1 /\ Window \in Nat
  BY <1>5, Numbers
<1>7. q < Len(S) /\ rcvQueue # <<>>
  BY <1>4, <1>5, <1>6
<1> DEFINE n == written[Len(read) + 1]
<1>8. n \in Nat /\ n <= MaxFrg
  BY <1>3, <1>4, <1>7, NextMessage
<1>9. rcvQueue[1].frg = n - 1 /\ (Len(rcvQueue) >= n => Stream!LastOfFirst # {})
  BY <1>3, <1>4, <1>7, FirstWhole
<1> HIDE DEF n
<1>10. MaxFrg <= Window /\ MaxFrg \in Nat
  BY DEF Stream!KcpAssumption
<1>11. Len(rcvQueue) >= n /\ n - 1 + 1 = n
  BY <1>4, <1>5, <1>6, <1>8, <1>10
<1> QED BY <1>7, <1>9, <1>11 DEF Stream!PeekSize

\* What the application reads is what was written, whole messages, each once, in order,
\* whatever the network lost, repeated and reordered and wherever the numbers wrap; nothing is
\* forgotten, and the receiver's queue is never full without a whole message in front.
THEOREM FifoCorrect == ASSUME Stream!KcpAssumption PROVE ClusterSpec => []Fifo
<1>1. ClusterInit /\ part = "stream" => StreamInv
  BY StreamStart DEF ClusterInit
<1>2. part = "stream" /\ StreamInv /\ [ClusterNext]_ClusterVars => StreamInv' /\ (part = "stream")'
  <2>1. ASSUME part = "stream", StreamInv, ClusterNext PROVE StreamInv' /\ part' = "stream"
    <3>1. Stream!Next /\ part' = part
      BY <2>1 DEF ClusterNext
    <3> QED BY <2>1, <3>1, StreamNext
  <2>2. ASSUME part = "stream", StreamInv, UNCHANGED ClusterVars PROVE StreamInv' /\ part' = "stream"
    <3>1. UNCHANGED Stream!vars /\ part' = part
      BY <2>2 DEF ClusterVars, StreamVars, Stream!vars, Stream!snd, Stream!rcv
    <3> QED BY <2>2, <3>1, StreamStutters
  <2> QED BY <2>1, <2>2
<1>3. StreamInv => Stream!Fifo /\ Stream!NothingForgotten /\ Stream!NeverFull
  BY FifoFollows, NothingForgottenFollows, NeverFullFollows
<1>4. ~(part = "stream") /\ [ClusterNext]_ClusterVars => (~(part = "stream"))'
  BY PartStays
<1> QED BY <1>1, <1>2, <1>3, <1>4, PTL DEF ClusterSpec, Fifo
=============================================================================
