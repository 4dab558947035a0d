------------------------- MODULE UserManagerProofs -------------------------
(* Proofs about UserManager for every set of players and every bound. *)
EXTENDS UserManager, FiniteSetTheorems, TLAPS

\* The empty batch is a batch.
LEMMA NoBatchType == NoBatch \in BatchType
BY DEF NoBatch, BatchType

\* Counting a bounded event keeps the counters natural numbers.
LEMMA SpendType == ASSUME TypeOK, NEW e \in Events, Spend(e) PROVE spent' \in [Events -> Nat]
BY DEF TypeOK, Spend

\* The type invariant holds at the start.
LEMMA InitType == Init => TypeOK
<1> SUFFICES ASSUME Init PROVE TypeOK
  OBVIOUS
<1>1. temp \in [Temps -> TempType]
  BY DEF Init, TempType
<1>2. player \in [Users -> PlayerType] /\ login \in [Users -> LoginType]
  BY DEF Init, PlayerType, LoginType, NoLogin
<1> QED BY <1>1, <1>2, NoBatchType DEF Init, TypeOK, Events

\* A login step keeps the types.
LEMMA LoginNextType == ASSUME TypeOK, NEW u \in Users, LoginNext(u) PROVE TypeOK'
<1> USE DEF TypeOK, store, ghosts
<1>1. CASE OnlineUser(u)
  BY <1>1 DEF OnlineUser, LoginType
<1>2. CASE LoginLock(u)
  BY <1>2, SpendType DEF LoginLock, LoginStep, DistLockSync, RunOut, LoginType, Events
<1>3. CASE LoginLockError(u)
  BY <1>3, SpendType DEF LoginLockError, LoginStep, LoginType, Events
<1>4. CASE LoginLoad(u)
  <2>1. spent' \in [Events -> Nat]
    BY <1>4, SpendType DEF LoginLoad, Events
  <2>2. [stage |-> "cache", found |-> TRUE, ver |-> db[u]] \in LoginType
    BY DEF LoginType
  <2>3. [stage |-> "unlock", found |-> FALSE, ver |-> 0] \in LoginType
    BY DEF LoginType
  <2>4. login' \in [Users -> LoginType]
    BY <1>4, <2>2, <2>3 DEF LoginLoad
  <2> QED BY <2>1, <2>4, <1>4 DEF LoginLoad
<1>5. CASE LoginCache(u)
  BY <1>5 DEF LoginCache, LoginStep, LoginType
<1>6. CASE LoginUnlock(u)
  BY <1>6 DEF LoginUnlock, LoginStep, LoginType
<1>7. CASE OnLogin(u)
  <2>1. login' \in [Users -> LoginType]
    BY <1>7 DEF OnLogin, NoLogin, LoginType
  <2>2. player' \in [Users -> PlayerType]
    <3>1. player[u].sess + 1 \in Nat /\ login[u].ver \in Nat /\ latest[u] + 1 \in Nat
      BY DEF PlayerType, LoginType
    <3>2. /\ [state |-> "online", dbState |-> "normal", ver |-> login[u].ver,
              sess |-> player[u].sess + 1] \in PlayerType
          /\ [state |-> "online", dbState |-> "insert", ver |-> latest[u] + 1,
              sess |-> player[u].sess + 1] \in PlayerType
      BY <3>1 DEF PlayerType
    <3> QED BY <3>2, <1>7 DEF OnLogin
  <2>3. latest' \in [Users -> Nat] /\ created' \in [Users -> Nat]
    BY <1>7 DEF OnLogin
  <2> QED BY <2>1, <2>2, <2>3, <1>7 DEF OnLogin
<1> QED BY <1>1, <1>2, <1>3, <1>4, <1>5, <1>6, <1>7 DEF LoginNext

\* So does a write to the player collection.
LEMMA SaveUserToDbType ==
  ASSUME TypeOK, NEW u \in Users, NEW v \in Nat, NEW k, SaveUserToDb(u, k, v)
  PROVE  db' \in [Users -> Nat] /\ docs' \in [Users -> Nat]
BY DEF TypeOK, SaveUserToDb, Insert, Update

\* A step of a session, its logout included, keeps the types.
LEMMA SessionNextType == ASSUME TypeOK, NEW u \in Users, SessionNext(u) PROVE TypeOK'
<1> USE DEF TypeOK, store, ghosts
<1>1. CASE Play(u)
  <2>1. latest[u] + 1 \in Nat
    OBVIOUS
  <2>2. player' = [player EXCEPT ![u].ver = latest[u] + 1] /\ player \in [Users -> PlayerType]
    BY <1>1 DEF Play
  <2>3. player' \in [Users -> PlayerType]
    BY <2>1, <2>2 DEF PlayerType
  <2> QED BY <2>1, <2>3, <1>1 DEF Play
<1>2. CASE OfflineUser(u)
  BY <1>2 DEF OfflineUser, LogoutStep, PlayerType
<1>3. CASE OfflineSaveDb(u)
  <2>1. player' \in [Users -> PlayerType]
    BY <1>3 DEF OfflineSaveDb, LogoutStep, PlayerType
  <2>2. player[u].ver \in Nat
    BY DEF PlayerType
  <2>3. db' \in [Users -> Nat] /\ docs' \in [Users -> Nat] /\ spent' \in [Events -> Nat]
    BY <1>3, <2>2, SaveUserToDbType, SpendType DEF OfflineSaveDb, CanWriteFail, Events
  <2> QED BY <2>1, <2>3, <1>3 DEF OfflineSaveDb
<1>4. CASE OfflineSaveRedis(u)
  BY <1>4 DEF OfflineSaveRedis, LogoutStep, PlayerType
<1>5. CASE UserOfflineSaveToDbFinish(u)
  BY <1>5 DEF UserOfflineSaveToDbFinish, LogoutStep, PlayerType
<1> QED BY <1>1, <1>2, <1>3, <1>4, <1>5 DEF SessionNext

\* What a copy of the online players leaves behind.
CopyOf(exit, copied) == hand' = BatchOf(copied, exit) /\ player' = ToNormal(copied)

\* A copy names the set of players copied.
LEMMA CopyExists ==
  ASSUME NEW exit \in BOOLEAN, RunUserCopyAndSave(exit)
  PROVE  \E copied \in SUBSET {u \in Users : Online(u)} : CopyOf(exit, copied)
BY DEF RunUserCopyAndSave, CopyOf

\* A copy of the online players keeps the types.
LEMMA RunUserCopyAndSaveType ==
  ASSUME TypeOK, NEW exit \in BOOLEAN, RunUserCopyAndSave(exit) PROVE TypeOK'
<1> USE DEF TypeOK, store, ghosts
<1>1. PICK copied \in SUBSET {u \in Users : Online(u)} : CopyOf(exit, copied)
  BY CopyExists
<1>2. hand' \in BatchType
  BY <1>1 DEF CopyOf, BatchOf, ToNormal, BatchType, PlayerType
<1>3. player' \in [Users -> PlayerType]
  BY <1>1 DEF CopyOf, BatchOf, ToNormal, PlayerType
<1>4. spent' \in [Events -> Nat]
  BY SpendType DEF RunUserCopyAndSave, Events
<1>5. main' \in {"exit", "handoff"}
  BY DEF RunUserCopyAndSave
<1> QED BY <1>2, <1>3, <1>4, <1>5 DEF RunUserCopyAndSave

\* So does a write of the saver,
LEMMA SaverNextType == ASSUME TypeOK, NEW u \in Users, SaverNext(u) PROVE TypeOK'
<1> USE DEF TypeOK, store, ghosts, BatchType
<1>1. CASE SaverInsert(u)
  BY <1>1 DEF SaverInsert, Insert, Land
<1>2. CASE SaverUpdate(u)
  BY <1>2 DEF SaverUpdate, Update, Land
<1>3. CASE SaverSetRedis(u)
  BY <1>3 DEF SaverSetRedis
<1> QED BY <1>1, <1>2, <1>3 DEF SaverNext

\* and taking or finishing a batch.
LEMMA SaverType ==
  ASSUME TypeOK, SaverReceive \/ SaverFault \/ SaverDone PROVE TypeOK'
<1> USE DEF TypeOK, store, ghosts
<1>1. CASE SaverReceive
  BY <1>1, NoBatchType DEF SaverReceive
<1>2. CASE SaverFault
  BY <1>2, SpendType DEF SaverFault, CanWriteFail, BatchType, Events
<1>3. CASE SaverDone
  BY <1>3, NoBatchType DEF SaverDone
<1> QED BY <1>1, <1>2, <1>3

\* An access to an offline player keeps the types.
LEMMA TempNextType == ASSUME TypeOK, NEW t \in Temps, TempNext(t) PROVE TypeOK'
<1> USE DEF TypeOK, store, ghosts
<1>u. temp[t].user \in Users
  BY DEF TempType
<1>1. CASE LoadTempOfflineUser(t)
  BY <1>1 DEF LoadTempOfflineUser, TempStep, TempType
<1>2. CASE TempLock(t)
  BY <1>2, SpendType DEF TempLock, TempStep, DistLockSync, RunOut, TempType, Events
<1>3. CASE TempLoad(t)
  <2>1. temp' \in [Temps -> TempType]
    BY <1>3, <1>u DEF TempLoad, TempType
  <2>2. main' \in {main, "run"}
    BY <1>3 DEF TempLoad
  <2>3. spent' \in [Events -> Nat]
    BY <1>3, SpendType DEF TempLoad, Events
  <2> QED BY <2>1, <2>2, <2>3, <1>3 DEF TempLoad
<1>4. CASE TempFill(t)
  <2>1. redis' \in [Users -> Nat]
    BY <1>4 DEF TempFill, TempType
  <2>2. temp' \in [Temps -> TempType]
    BY <1>4 DEF TempFill, TempStep, TempType
  <2> QED BY <2>1, <2>2, <1>4 DEF TempFill
<1>5. CASE TempEarlyReturn(t)
  BY <1>5 DEF TempEarlyReturn, TempStep, TempType
<1>6. CASE SaveTempOfflineUser(t)
  <2>1. latest[temp[t].user] + 1 \in Nat
    BY <1>u
  <2>2. temp' \in [Temps -> TempType]
    <3>1. [temp[t] EXCEPT !.stage = "db", !.ver = latest[temp[t].user] + 1] \in TempType
      BY <2>1 DEF TempType
    <3>2. temp' = [temp EXCEPT ![t] = [temp[t] EXCEPT !.stage = "db", !.ver = latest[temp[t].user] + 1]]
      BY <1>6 DEF SaveTempOfflineUser
    <3> QED BY <3>1, <3>2
  <2> QED BY <2>1, <2>2, <1>6, <1>u DEF SaveTempOfflineUser
<1>7. CASE TempSaveDb(t)
  <2>1. temp' \in [Temps -> TempType]
    BY <1>7 DEF TempSaveDb, TempStep, TempType
  <2>2. temp[t].ver \in Nat
    BY DEF TempType
  <2>3. db' \in [Users -> Nat] /\ docs' \in [Users -> Nat] /\ spent' \in [Events -> Nat]
    BY <1>7, <1>u, <2>2, SaveUserToDbType, SpendType DEF TempSaveDb, CanWriteFail, Events
  <2> QED BY <2>1, <2>3, <1>7 DEF TempSaveDb
<1>8. CASE TempUnlock(t)
  BY <1>8 DEF TempUnlock, TempStep, TempType
<1>9. CASE TempLockError(t)
  BY <1>9, SpendType DEF TempLockError, TempStep, TempType, Events
<1> QED BY <1>1, <1>2, <1>3, <1>4, <1>5, <1>6, <1>7, <1>8, <1>9 DEF TempNext

\* The expiry of a redis key keeps the types.
LEMMA ExpireType ==
  ASSUME TypeOK, NEW u \in Users, LockExpire(u) \/ RedisExpire(u) PROVE TypeOK'
<1>1. CASE LockExpire(u)
  <2>1. spent' \in [Events -> Nat]
    BY <1>1, SpendType DEF TypeOK, LockExpire, Events
  <2> QED BY <1>1, <2>1 DEF TypeOK, store, ghosts, LockExpire
<1>2. CASE RedisExpire(u)
  BY <1>2 DEF TypeOK, store, ghosts, RedisExpire
<1> QED BY <1>1, <1>2

\* Losing the memory keeps the types.
LEMMA LoseMemoryType ==
  ASSUME TypeOK, LoseMemory
  PROVE  /\ player' \in [Users -> PlayerType] /\ login' \in [Users -> LoginType]
         /\ temp' \in [Temps -> TempType] /\ hand' \in BatchType /\ saver' \in BatchType
<1> USE DEF TypeOK, LoseMemory
<1>1. player' \in [Users -> PlayerType]
  BY DEF PlayerType
<1>2. login' \in [Users -> LoginType]
  BY DEF NoLogin, LoginType
<1>3. temp' \in [Temps -> TempType]
  BY DEF TempType
<1> QED BY <1>1, <1>2, <1>3, NoBatchType

\* So does a stop or a restart.
LEMMA StopType == ASSUME TypeOK, Crash \/ ProcessExit \/ Restart PROVE TypeOK'
<1>1. CASE Crash
  BY <1>1, LoseMemoryType, SpendType DEF TypeOK, store, ghosts, Crash, LoseMemory, Events
<1>2. CASE ProcessExit
  BY <1>2, LoseMemoryType DEF TypeOK, store, ghosts, ProcessExit, LoseMemory
<1>3. CASE Restart
  BY <1>3 DEF TypeOK, store, ghosts, Restart
<1> QED BY <1>1, <1>2, <1>3

\* Every step keeps the types.
LEMMA NextType == ASSUME TypeOK, [Next]_vars PROVE TypeOK'
<1>1. CASE UNCHANGED vars
  BY <1>1 DEF vars, TypeOK
<1>2. CASE Next
  BY <1>2, LoginNextType, SessionNextType, SaverNextType, ExpireType, TempNextType,
     RunUserCopyAndSaveType, SaverType, StopType DEF Next
<1> QED BY <1>1, <1>2

\* Every variable keeps its type.
THEOREM TypeCorrect == Spec => []TypeOK
<1>1. Init => TypeOK
  BY InitType
<1>2. TypeOK /\ [Next]_vars => TypeOK'
  BY NextType
<1> QED BY <1>1, <1>2, PTL DEF Spec

-----------------------------------------------------------------------------
(* One insert per fresh character.  The property is inductive: every step  *)
(* that adds a document takes the insert it stood for out of Pending.      *)

\* No insert is pending and no document there at the start.
LEMMA InsertsInit == Init => OneInsertPerCharacter
BY DEF Init, OneInsertPerCharacter, Pending, NoBatch

\* A step never adds more inserts than fresh characters.
LEMMA InsertsNext ==
  ASSUME TypeOK, OneInsertPerCharacter, Next PROVE OneInsertPerCharacter'
<1> SUFFICES ASSUME NEW u \in Users PROVE (docs[u] + Pending(u) <= created[u])'
  BY DEF OneInsertPerCharacter
<1>0. /\ docs[u] \in Nat /\ created[u] \in Nat
      /\ docs[u] + Pending(u) <= created[u]
  BY DEF TypeOK, OneInsertPerCharacter
<1>t. /\ player \in [Users -> PlayerType] /\ docs \in [Users -> Nat] /\ created \in [Users -> Nat]
      /\ saver \in BatchType /\ hand \in BatchType
  BY DEF TypeOK
<1> USE DEF store, ghosts, Pending
<1>1. ASSUME NEW w \in Users, LoginNext(w) PROVE (docs[u] + Pending(u) <= created[u])'
  <2>1. CASE OnLogin(w)
    BY <2>1, <1>0, <1>t DEF OnLogin, PlayerType
  <2>2. CASE ~OnLogin(w)
    <3>1. UNCHANGED <<player, docs, hand, saver, created>>
      BY <1>1, <2>2 DEF LoginNext, OnlineUser, LoginLock, LoginLockError, LoginLoad,
                        LoginCache, LoginUnlock
    <3> QED BY <3>1, <1>0
  <2> QED BY <2>1, <2>2
<1>2. ASSUME NEW w \in Users, SessionNext(w) PROVE (docs[u] + Pending(u) <= created[u])'
  <2>1. CASE OfflineSaveDb(w)
    BY <2>1, <1>0, <1>t DEF OfflineSaveDb, LogoutStep, SaveUserToDb, Insert, Update,
                            CanWriteFail, PlayerType
  <2>2. CASE Play(w)
    BY <2>2, <1>0, <1>t DEF Play, PlayerType
  <2>3. CASE OfflineUser(w) \/ OfflineSaveRedis(w) \/ UserOfflineSaveToDbFinish(w)
    BY <2>3, <1>0, <1>t DEF OfflineUser, OfflineSaveRedis, UserOfflineSaveToDbFinish,
                            LogoutStep, PlayerType
  <2> QED BY <1>2, <2>1, <2>2, <2>3 DEF SessionNext
<1>3. ASSUME NEW w \in Users, SaverNext(w) PROVE (docs[u] + Pending(u) <= created[u])'
  <2>1. CASE SaverInsert(w)
    BY <2>1, <1>0, <1>t DEF SaverInsert, Insert, BatchType
  <2>2. CASE SaverUpdate(w)
    BY <2>2, <1>0, <1>t DEF SaverUpdate, Update, BatchType
  <2>3. CASE SaverSetRedis(w)
    BY <2>3, <1>0, <1>t DEF SaverSetRedis, BatchType
  <2> QED BY <1>3, <2>1, <2>2, <2>3 DEF SaverNext
<1>4. ASSUME NEW exit \in BOOLEAN, RunUserCopyAndSave(exit)
      PROVE  (docs[u] + Pending(u) <= created[u])'
  <2>1. PICK copied \in SUBSET {v \in Users : Online(v)} : CopyOf(exit, copied)
    BY <1>4, CopyExists
  <2>2. CASE u \in copied
    <3>1. player[u].state = "online" /\ player'[u].dbState = "normal"
      BY <2>1, <2>2, <1>t DEF CopyOf, BatchOf, ToNormal, Online, PlayerType
    <3>2. u \in hand'.ins => player[u].dbState = "insert"
      BY <2>1 DEF CopyOf, BatchOf, ToNormal
    <3>3. UNCHANGED <<docs, saver, created>>
      BY <1>4 DEF RunUserCopyAndSave
    <3> QED BY <3>1, <3>2, <3>3, <1>0
  <2>3. CASE u \notin copied
    <3>1. player'[u] = player[u] /\ u \notin hand'.ins
      BY <2>1, <2>3 DEF CopyOf, BatchOf, ToNormal
    <3>2. UNCHANGED <<docs, saver, created>>
      BY <1>4 DEF RunUserCopyAndSave
    <3> QED BY <3>1, <3>2, <1>0
  <2> QED BY <2>2, <2>3
<1>5. ASSUME SaverReceive \/ SaverFault \/ SaverDone PROVE (docs[u] + Pending(u) <= created[u])'
  <2>1. CASE SaverReceive
    BY <2>1, <1>0 DEF SaverReceive, NoBatch
  <2>2. CASE SaverFault
    BY <2>2, <1>0, <1>t DEF SaverFault, CanWriteFail, BatchType
  <2>3. CASE SaverDone
    BY <2>3, <1>0 DEF SaverDone, NoBatch
  <2> QED BY <1>5, <2>1, <2>2, <2>3
<1>6. ASSUME NEW t \in Temps, TempNext(t) PROVE (docs[u] + Pending(u) <= created[u])'
  <2>1. UNCHANGED <<player, docs, hand, saver, created>>
    BY <1>6 DEF TempNext, LoadTempOfflineUser, TempLock, TempLockError, TempLoad, TempFill, TempEarlyReturn,
                SaveTempOfflineUser, TempSaveDb, SaveUserToDb, Update, CanWriteFail, TempUnlock
  <2> QED BY <2>1, <1>0
<1>7. ASSUME NEW w \in Users, LockExpire(w) \/ RedisExpire(w)
      PROVE  (docs[u] + Pending(u) <= created[u])'
  BY <1>7, <1>0 DEF LockExpire, RedisExpire
<1>8. ASSUME Crash \/ ProcessExit \/ Restart PROVE (docs[u] + Pending(u) <= created[u])'
  <2>1. CASE Restart
    BY <2>1, <1>0 DEF Restart
  <2>2. CASE Crash \/ ProcessExit
    BY <2>2, <1>0, <1>t DEF Crash, ProcessExit, LoseMemory, NoBatch, PlayerType
  <2> QED BY <1>8, <2>1, <2>2
<1> QED BY <1>1, <1>2, <1>3, <1>4, <1>5, <1>6, <1>7, <1>8 DEF Next

\* No fresh character is ever inserted twice, whichever of the saver and the
\* logout goroutine writes it and whatever fails.
THEOREM InsertsCorrect == Spec => []OneInsertPerCharacter
<1>1. TypeOK /\ OneInsertPerCharacter /\ [Next]_vars => OneInsertPerCharacter'
  <2>1. CASE UNCHANGED vars
    BY <2>1 DEF vars, OneInsertPerCharacter, Pending
  <2> QED BY <2>1, InsertsNext
<1> QED BY <1>1, InsertsInit, TypeCorrect, PTL DEF Spec

-----------------------------------------------------------------------------
(* The bound on what a player can lose, FloorInv being inductive.          *)

FloorOf(u) ==
  /\ SessionFloor(u) /\ LoginFloor(u) /\ StoreFloor(u)
  /\ BatchFloor(u, hand) /\ BatchFloor(u, saver) /\ BatchOrder(u)

\* The facts about one player that the steps below compare.
PlayerFacts(u) ==
  /\ floor[u] \in Nat /\ latest[u] \in Nat /\ db[u] \in Nat /\ docs[u] \in Nat
  /\ player[u].ver \in Nat /\ player[u].sess \in Nat /\ login[u].ver \in Nat
  /\ hand.ver[u] \in Nat /\ hand.sess[u] \in Nat
  /\ saver.ver[u] \in Nat /\ saver.sess[u] \in Nat

\* The numbers kept for a player are natural numbers.
LEMMA PlayerNumbers == ASSUME TypeOK, NEW u \in Users PROVE PlayerFacts(u)
BY DEF TypeOK, PlayerFacts, PlayerType, LoginType, BatchType

\* A step that leaves a player's records alone keeps its invariant.
LEMMA FloorFrame ==
  ASSUME NEW u \in Users, FloorOf(u),
         player'[u] = player[u], login'[u] = login[u], UNCHANGED <<hand, saver>>,
         db'[u] = db[u], docs'[u] = docs[u], floor'[u] = floor[u], latest'[u] = latest[u]
  PROVE  FloorOf(u)'
BY DEF FloorOf, SessionFloor, LoginFloor, StoreFloor, BatchFloor, BatchOrder, InBatch

\* The invariant of the floor holds at the start.
LEMMA FloorInit == Init => FloorInv
BY DEF Init, FloorInv, SessionFloor, LoginFloor, StoreFloor, BatchFloor, BatchOrder,
       InBatch, NoBatch, NoLogin

\* A login reads db, which is never below the floor.
LEMMA LoginFloorNext ==
  ASSUME MaxReadFaults = 0, TypeOK, NEW u \in Users, FloorOf(u),
         NEW w \in Users, LoginNext(w)
  PROVE  FloorOf(u)'
<1> USE DEF store, ghosts
<1>t. /\ login \in [Users -> LoginType] /\ player \in [Users -> PlayerType]
      /\ spent \in [Events -> Nat] /\ PlayerFacts(u)
  BY PlayerNumbers DEF TypeOK
<1>1. CASE u # w
  <2>1. login'[u] = login[u] /\ player'[u] = player[u] /\ latest'[u] = latest[u]
    BY <1>1, <1>t DEF LoginNext, OnlineUser, LoginLock, LoginLockError, LoginLoad, LoginCache,
              LoginUnlock, LoginStep, OnLogin, TypeOK
  <2>2. UNCHANGED <<hand, saver, db, docs, floor>>
    BY DEF LoginNext, OnlineUser, LoginLock, LoginLockError, LoginLoad, LoginCache,
              LoginUnlock, OnLogin
  <2> QED BY <2>1, <2>2, FloorFrame
<1>2. CASE u = w
  <2> USE DEF FloorOf, SessionFloor, LoginFloor, StoreFloor, BatchFloor, BatchOrder, InBatch
  <2>1. CASE OnlineUser(w)
    BY <1>2, <2>1, <1>t DEF OnlineUser, GateAdmits
  <2>2. CASE LoginLock(w)
    BY <1>2, <2>2, <1>t DEF LoginLock, LoginStep, LoginType
  <2>3. CASE LoginLockError(w)
    BY <1>2, <2>3, <1>t DEF LoginLockError, LoginStep, LoginType
  <2>4. CASE LoginLoad(w)
    <3>1. ~Spend("read")
      BY <1>t DEF Spend, Bound, Events
    <3>2. CASE docs[u] > 0
      BY <1>2, <2>4, <3>1, <3>2, <1>t DEF LoginLoad, PlayerFacts
    <3>3. CASE docs[u] = 0
      BY <1>2, <2>4, <3>1, <3>3, <1>t DEF LoginLoad, PlayerFacts
    <3> QED BY <3>2, <3>3, <1>t DEF PlayerFacts
  <2>5. CASE LoginCache(w)
    BY <1>2, <2>5, <1>t DEF LoginCache, LoginStep, LoginType
  <2>6. CASE LoginUnlock(w)
    BY <1>2, <2>6, <1>t DEF LoginUnlock, LoginStep, LoginType
  <2>7. CASE OnLogin(w)
    <3>1. player[u].state = "out"
      BY <1>2, <2>7 DEF OnLogin
    <3>3. /\ login'[u] = NoLogin /\ player'[u].sess = player[u].sess + 1
          /\ player'[u].state = "online"
          /\ UNCHANGED <<hand, saver, db, docs, floor>>
      BY <1>2, <2>7, <1>t DEF OnLogin
    <3>4. CASE login[u].found
      <4>1. player'[u].ver = login[u].ver /\ latest'[u] = latest[u]
        BY <1>2, <2>7, <3>4, <1>t DEF OnLogin
      <4>2. floor[u] <= login[u].ver /\ login[u].ver <= latest[u]
        BY <1>2, <2>7, <3>4 DEF OnLogin
      <4> QED BY <3>1, <3>3, <4>1, <4>2, <1>t DEF PlayerFacts, NoLogin
    <3>5. CASE ~login[u].found
      <4>1. player'[u].ver = latest[u] + 1 /\ latest'[u] = latest[u] + 1
        BY <1>2, <2>7, <3>5, <1>t DEF OnLogin, TypeOK
      <4>2. floor[u] = 0
        BY <1>2, <2>7, <3>5 DEF OnLogin
      <4> QED BY <3>1, <3>3, <4>1, <4>2, <1>t DEF PlayerFacts, NoLogin
    <3> QED BY <3>4, <3>5
  <2> QED BY <2>1, <2>2, <2>3, <2>4, <2>5, <2>6, <2>7 DEF LoginNext
<1> QED BY <1>1, <1>2

\* A session only moves forward, and its logout writes its newest version.
LEMMA SessionFloorNext ==
  ASSUME TypeOK, NEW u \in Users, FloorOf(u), NEW w \in Users, SessionNext(w)
  PROVE  FloorOf(u)'
<1> USE DEF store, ghosts
<1>t. /\ player \in [Users -> PlayerType] /\ PlayerFacts(u)
      /\ db \in [Users -> Nat] /\ docs \in [Users -> Nat] /\ latest \in [Users -> Nat]
  BY PlayerNumbers DEF TypeOK
<1>0. UNCHANGED <<login, hand, saver, floor>>
  BY DEF SessionNext, Play, OfflineUser, OfflineSaveDb, OfflineSaveRedis,
         UserOfflineSaveToDbFinish
<1>1. CASE u # w
  <2>1. player'[u] = player[u]
    BY <1>1, <1>t DEF SessionNext, Play, OfflineUser, OfflineSaveDb, OfflineSaveRedis,
              UserOfflineSaveToDbFinish, LogoutStep
  <2>2. db'[u] = db[u] /\ docs'[u] = docs[u] /\ latest'[u] = latest[u]
    BY <1>1, <1>t DEF SessionNext, Play, OfflineUser, OfflineSaveDb, OfflineSaveRedis,
              UserOfflineSaveToDbFinish, SaveUserToDb, Insert, Update, CanWriteFail
  <2> QED BY <2>1, <2>2, <1>0, FloorFrame
<1>2. CASE u = w
  <2> USE DEF FloorOf, SessionFloor, LoginFloor, StoreFloor, BatchFloor, BatchOrder, InBatch
  <2>1. CASE Play(w)
    BY <1>0, <1>2, <2>1, <1>t DEF Play, Online, PlayerFacts, PlayerType
  <2>2. CASE OfflineUser(w)
    BY <1>0, <1>2, <2>2, <1>t DEF OfflineUser, LogoutStep, PlayerType
  <2>3. CASE OfflineSaveDb(w)
    BY <1>0, <1>2, <2>3, <1>t DEF OfflineSaveDb, LogoutStep, SaveUserToDb, Insert, Update,
                            CanWriteFail, PlayerType, PlayerFacts
  <2>4. CASE OfflineSaveRedis(w)
    BY <1>0, <1>2, <2>4, <1>t DEF OfflineSaveRedis, LogoutStep, PlayerType
  <2>5. CASE UserOfflineSaveToDbFinish(w)
    BY <1>0, <1>2, <2>5, <1>t DEF UserOfflineSaveToDbFinish, LogoutStep, PlayerType
  <2> QED BY <2>1, <2>2, <2>3, <2>4, <2>5 DEF SessionNext
<1> QED BY <1>1, <1>2

\* A copy offers the current versions, the youngest there are.
LEMMA CopyFloorNext ==
  ASSUME TypeOK, NEW u \in Users, FloorOf(u), NEW exit \in BOOLEAN, RunUserCopyAndSave(exit)
  PROVE  FloorOf(u)'
<1> USE DEF FloorOf, SessionFloor, LoginFloor, StoreFloor, BatchFloor, BatchOrder, InBatch
<1>t. player \in [Users -> PlayerType] /\ PlayerFacts(u)
  BY PlayerNumbers DEF TypeOK
<1>1. PICK copied \in SUBSET {v \in Users : Online(v)} : CopyOf(exit, copied)
  BY CopyExists
<1>2. UNCHANGED <<login, saver, db, docs, floor, latest>>
  BY DEF RunUserCopyAndSave, store, ghosts
<1>3. /\ player'[u].state = player[u].state
      /\ player'[u].ver = player[u].ver /\ player'[u].sess = player[u].sess
  BY <1>1, <1>t DEF CopyOf, BatchOf, ToNormal, PlayerType
<1>4. CASE u \in copied
  <2>1. hand'.ver[u] = player[u].ver /\ hand'.sess[u] = player[u].sess
    BY <1>1, <1>4 DEF CopyOf, BatchOf, ToNormal
  <2>2. player[u].state = "online"
    BY <1>1, <1>4 DEF Online
  <2> QED BY <1>2, <1>3, <2>1, <2>2, <1>t DEF PlayerFacts
<1>5. CASE u \notin copied
  <2>1. u \notin hand'.ins /\ u \notin hand'.upd
    BY <1>1, <1>5 DEF CopyOf, BatchOf, ToNormal
  <2> QED BY <1>2, <1>3, <2>1, <1>t DEF PlayerFacts
<1> QED BY <1>4, <1>5

\* A write of the saver: it may raise the floor of w, never that of another.
LEMMA SaverFloorNext ==
  ASSUME TypeOK, NEW u \in Users, FloorOf(u), NEW w \in Users, SaverNext(w)
  PROVE  FloorOf(u)'
<1> USE DEF FloorOf, SessionFloor, LoginFloor, StoreFloor, BatchFloor, BatchOrder, InBatch
<1>t. /\ saver \in BatchType /\ PlayerFacts(u)
      /\ db \in [Users -> Nat] /\ docs \in [Users -> Nat] /\ floor \in [Users -> Nat]
  BY PlayerNumbers DEF TypeOK
<1>0. UNCHANGED <<login, player, hand, latest>>
  BY DEF SaverNext, SaverInsert, SaverUpdate, SaverSetRedis, store, ghosts
<1>1. /\ saver'.ver = saver.ver /\ saver'.sess = saver.sess
      /\ saver'.ins \subseteq saver.ins /\ saver'.upd \subseteq saver.upd
  BY <1>t DEF SaverNext, SaverInsert, SaverUpdate, SaverSetRedis, BatchType
<1>2. CASE db'[u] = db[u] /\ docs'[u] = docs[u] /\ floor'[u] = floor[u]
  BY <1>0, <1>1, <1>2, <1>t DEF PlayerFacts
<1>3. CASE SaverInsert(w) /\ u = w
  <2>1. /\ InBatch(u, saver)
        /\ docs'[u] = docs[u] + 1
        /\ db'[u] = IF docs[u] = 0 THEN saver.ver[u] ELSE db[u]
        /\ floor'[u] = IF docs[u] = 0 /\ Online(u) /\ player[u].sess = saver.sess[u]
                       THEN saver.ver[u] ELSE floor[u]
    BY <1>3, <1>t DEF SaverInsert, Insert, Land
  <2> QED BY <1>0, <1>1, <2>1, <1>t DEF PlayerFacts, Online
<1>4. CASE SaverUpdate(w) /\ u = w
  <2>1. /\ InBatch(u, saver)
        /\ docs'[u] = docs[u]
        /\ db'[u] = IF docs[u] = 0 THEN db[u] ELSE saver.ver[u]
        /\ floor'[u] = IF docs[u] > 0 /\ Online(u) /\ player[u].sess = saver.sess[u]
                       THEN saver.ver[u] ELSE floor[u]
    BY <1>4, <1>t DEF SaverUpdate, Update, Land
  <2> QED BY <1>0, <1>1, <2>1, <1>t DEF PlayerFacts, Online
<1>5. CASE u # w
  BY <1>2, <1>5, <1>t DEF SaverNext, SaverInsert, SaverUpdate, SaverSetRedis, Insert, Update,
                           Land, ghosts
<1>6. CASE SaverSetRedis(w)
  BY <1>2, <1>6 DEF SaverSetRedis, ghosts
<1> QED BY <1>3, <1>4, <1>5, <1>6 DEF SaverNext

\* Handing a batch over keeps the two in order.
LEMMA SaverHandFloorNext ==
  ASSUME TypeOK, NEW u \in Users, FloorOf(u), SaverReceive \/ SaverFault \/ SaverDone
  PROVE  FloorOf(u)'
<1> USE DEF FloorOf, SessionFloor, LoginFloor, StoreFloor, BatchFloor, BatchOrder, InBatch
<1>t. saver \in BatchType
  BY DEF TypeOK
<1>1. CASE SaverReceive
  BY <1>1 DEF SaverReceive, NoBatch, store, ghosts
<1>2. CASE SaverFault
  BY <1>2, <1>t DEF SaverFault, CanWriteFail, BatchType, ghosts
<1>3. CASE SaverDone
  BY <1>3 DEF SaverDone, NoBatch, store, ghosts
<1> QED BY <1>1, <1>2, <1>3

\* A stop loses memory and batches but no record.
LEMMA StopFloorNext ==
  ASSUME TypeOK, NEW u \in Users, FloorOf(u), Crash \/ ProcessExit \/ Restart
  PROVE  FloorOf(u)'
<1> USE DEF FloorOf, SessionFloor, LoginFloor, StoreFloor, BatchFloor, BatchOrder, InBatch
<1>1. CASE Restart
  BY <1>1 DEF Restart, store, ghosts
<1>2. CASE Crash \/ ProcessExit
  <2>1. /\ player'[u].state = "out" /\ login'[u] = NoLogin
        /\ hand' = NoBatch /\ saver' = NoBatch
    BY <1>2 DEF Crash, ProcessExit, LoseMemory, TypeOK, PlayerType
  <2>2. UNCHANGED <<db, docs, floor, latest>>
    BY <1>2 DEF Crash, ProcessExit, LoseMemory, store, ghosts
  <2> QED BY <2>1, <2>2 DEF NoBatch, NoLogin
<1> QED BY <1>1, <1>2

\* Every step keeps the invariant of the floor.
LEMMA FloorNext ==
  ASSUME Temps = {}, MaxReadFaults = 0, TypeOK, FloorInv, [Next]_vars
  PROVE  FloorInv'
<1> SUFFICES ASSUME NEW u \in Users PROVE FloorOf(u)'
  BY DEF FloorInv, FloorOf
<1>0. FloorOf(u)
  BY DEF FloorInv, FloorOf
<1>1. CASE UNCHANGED vars
  BY <1>0, <1>1, FloorFrame DEF vars
<1>2. ASSUME NEW w \in Users, LockExpire(w) \/ RedisExpire(w) PROVE FloorOf(u)'
  <2>1. UNCHANGED <<player, login, hand, saver, db, docs, floor, latest>>
    BY <1>2 DEF LockExpire, RedisExpire, store, ghosts
  <2> QED BY <2>1, <1>0, FloorFrame
<1>3. CASE Next
  BY <1>0, <1>2, <1>3, LoginFloorNext, SessionFloorNext, SaverFloorNext, CopyFloorNext,
     SaverHandFloorNext, StopFloorNext DEF Next
<1> QED BY <1>1, <1>3

\* While nobody edits the player offline and no read fails, what a save has
\* landed during a session is never rolled back, nor replaced by a fresh
\* character: for any number of players, sessions, failed writes and crashes.
THEOREM RollbackCorrect ==
  ASSUME Temps = {}, MaxReadFaults = 0
  PROVE  Spec => []RollbackBounded
<1>1. TypeOK /\ FloorInv /\ [Next]_vars => FloorInv'
  BY FloorNext
<1>2. FloorInv => RollbackBounded
  BY DEF FloorInv, RollbackBounded, StoreFloor, LoginFloor
<1> QED BY <1>1, <1>2, FloorInit, TypeCorrect, PTL DEF Spec

-----------------------------------------------------------------------------
(* The lock on a player's offline data: as long as no lock was taken over   *)
(* after the retries and none expired under its holder, the key is there    *)
(* for as long as somebody holds it, and there is one holder.               *)

\* A step spends nothing, or one of the bounded events.
LEMMA SpentNext == ASSUME [Next]_vars PROVE UNCHANGED spent \/ \E e \in Events : Spend(e)
<1> USE DEF store, ghosts, Events
<1>1. ASSUME NEW u \in Users, LoginNext(u) PROVE UNCHANGED spent \/ \E e \in Events : Spend(e)
  BY <1>1 DEF LoginNext, OnlineUser, LoginLock, LoginLockError, LoginLoad, LoginCache,
              LoginUnlock, OnLogin, DistLockSync, RunOut
<1>2. ASSUME NEW u \in Users, SessionNext(u) PROVE UNCHANGED spent \/ \E e \in Events : Spend(e)
  BY <1>2 DEF SessionNext, Play, OfflineUser, OfflineSaveDb, OfflineSaveRedis,
              UserOfflineSaveToDbFinish, CanWriteFail
<1>3. ASSUME NEW u \in Users, SaverNext(u) \/ LockExpire(u) \/ RedisExpire(u)
      PROVE  UNCHANGED spent \/ \E e \in Events : Spend(e)
  BY <1>3 DEF SaverNext, SaverInsert, SaverUpdate, SaverSetRedis, LockExpire, RedisExpire
<1>4. ASSUME NEW t \in Temps, TempNext(t) PROVE UNCHANGED spent \/ \E e \in Events : Spend(e)
  BY <1>4 DEF TempNext, LoadTempOfflineUser, TempLock, TempLockError, TempLoad, TempFill,
              TempEarlyReturn, SaveTempOfflineUser, TempSaveDb, TempUnlock, DistLockSync,
              RunOut, CanWriteFail
<1>5. ASSUME NEW exit \in BOOLEAN, RunUserCopyAndSave(exit)
      PROVE  UNCHANGED spent \/ \E e \in Events : Spend(e)
  BY <1>5 DEF RunUserCopyAndSave
<1>6. CASE SaverReceive \/ SaverFault \/ SaverDone \/ Crash \/ ProcessExit \/ Restart
  BY <1>6 DEF SaverReceive, SaverFault, SaverDone, Crash, ProcessExit, Restart, CanWriteFail
<1>7. CASE UNCHANGED vars
  BY <1>7 DEF vars
<1> QED BY <1>1, <1>2, <1>3, <1>4, <1>5, <1>6, <1>7 DEF Next

NoTimeout == spent["timeout"] = 0

\* While no lock has timed out, none had before, and this step is no timeout.
LEMMA NoTimeoutNext ==
  ASSUME TypeOK, [Next]_vars, NoTimeout' PROVE NoTimeout /\ ~RunOut
<1> USE CountsAssumption DEF TypeOK, NoTimeout, Spend, RunOut, Events
<1>1. CASE UNCHANGED spent
  BY <1>1
<1>2. ASSUME NEW e \in Events, Spend(e) PROVE NoTimeout /\ ~RunOut
  BY <1>2
<1> QED BY <1>1, <1>2, SpentNext

\* Only an access that edits asks for the lock and writes back.
EditsLock == \A t \in Temps : temp[t].stage \in {"lock", "logic", "db", "unlock"} => temp[t].edit
LockOf(u) ==
  /\ Held(u) => lock[u]
  /\ \A s, t \in Holders(u) : s = t
  /\ LoginHolds(u) => Holders(u) = {}
LockInv == EditsLock /\ \A u \in Users : LockOf(u)

\* Nobody holds a lock at the start.
LEMMA LockInit == Init => LockInv
<1> SUFFICES ASSUME Init PROVE LockInv
  OBVIOUS
<1>1. \A t \in Temps : temp[t].stage = "new"
  BY DEF Init
<1>2. \A u \in Users : login[u].stage = "idle"
  BY DEF Init, NoLogin
<1> QED BY <1>1, <1>2 DEF LockInv, EditsLock, LockOf, Held, Holders, LoginHolds

\* What does not change who holds a player's lock, nor its key, keeps the rest.
LEMMA LockFrame ==
  ASSUME NEW u \in Users, LockOf(u), LoginHolds(u)' = LoginHolds(u), lock'[u] = lock[u],
         Holders(u)' = Holders(u)
  PROVE  LockOf(u)'
BY DEF LockOf, Held

\* A login takes a free lock and gives back its own.
LEMMA LockLoginNext ==
  ASSUME TypeOK, ~RunOut, NEW u \in Users, LockOf(u), NEW w \in Users, LoginNext(w)
  PROVE  LockOf(u)'
<1> USE DEF store, ghosts, TypeOK
<1>1. temp' = temp
  BY DEF LoginNext, OnlineUser, LoginLock, LoginLockError, LoginLoad, LoginCache, LoginUnlock,
         OnLogin
<1>2. Holders(u)' = Holders(u)
  BY <1>1 DEF Holders
<1>3. CASE u # w
  BY <1>2, <1>3, LockFrame DEF LoginNext, OnlineUser, LoginLock, LoginLockError, LoginLoad,
     LoginCache, LoginUnlock, OnLogin, LoginStep, DistLockSync, LoginHolds
<1>4. CASE u = w
  <2> USE <1>2, <1>4 DEF LoginType, LockOf, Held, LoginHolds
  <2>1. CASE OnlineUser(w)
    BY <2>1 DEF OnlineUser, GateAdmits
  <2>2. CASE LoginLock(w)
    BY <2>2 DEF LoginLock, LoginStep, DistLockSync
  <2>3. CASE LoginLockError(w)
    BY <2>3 DEF LoginLockError, LoginStep
  <2>4. CASE LoginLoad(w)
    BY <2>4 DEF LoginLoad
  <2>5. CASE LoginCache(w)
    BY <2>5 DEF LoginCache, LoginStep
  <2>6. CASE LoginUnlock(w)
    BY <2>6 DEF LoginUnlock, LoginStep
  <2>7. CASE OnLogin(w)
    BY <2>7 DEF OnLogin, NoLogin
  <2> QED BY <2>1, <2>2, <2>3, <2>4, <2>5, <2>6, <2>7 DEF LoginNext
<1> QED BY <1>3, <1>4

\* An access to an offline player holds the lock from TempLock to TempUnlock, or
\* to the return that forgets it.
LEMMA LockTempNext ==
  ASSUME TypeOK, ~RunOut, EditsLock, NEW t \in Temps, TempNext(t),
         NEW u \in Users, LockOf(u)
  PROVE  EditsLock' /\ LockOf(u)'
<1> USE DEF store, ghosts, TypeOK
<1>1. /\ login' = login
      /\ \A s \in Temps \ {t} : temp'[s] = temp[s]
      /\ temp'[t].user = temp[t].user /\ temp'[t].edit = temp[t].edit
  BY DEF TempNext, LoadTempOfflineUser, TempLock, TempLockError, TempLoad, TempFill,
         TempEarlyReturn, SaveTempOfflineUser, TempSaveDb, TempUnlock, TempStep, TempType
<1>2. EditsLock'
  <2>1. temp'[t].stage \in {"lock", "logic", "db", "unlock"} => temp[t].edit
    BY DEF TempNext, LoadTempOfflineUser, TempLock, TempLockError, TempLoad, TempFill,
           TempEarlyReturn, SaveTempOfflineUser, TempSaveDb, TempUnlock, TempStep, TempType,
           EditsLock
  <2> QED BY <1>1, <2>1 DEF EditsLock
<1>3. LoginHolds(u)' = LoginHolds(u)
  BY <1>1 DEF LoginHolds
<1>4. \A s \in Temps \ {t} : s \in Holders(u)' <=> s \in Holders(u)
  BY <1>1 DEF Holders
<1>5. CASE temp[t].user # u
  <2>1. Holders(u)' = Holders(u)
    BY <1>1, <1>4, <1>5 DEF Holders
  <2>2. lock'[u] = lock[u]
    BY <1>5 DEF TempNext, LoadTempOfflineUser, TempLock, TempLockError, TempLoad, TempFill,
         TempEarlyReturn, SaveTempOfflineUser, TempSaveDb, TempUnlock, DistLockSync
  <2> QED BY <1>2, <1>3, <2>1, <2>2, LockFrame
<1>6. CASE temp[t].user = u
  <2>1. CASE TempLock(t)
    <3>1. ~lock[u] /\ lock'[u]
      BY <1>6, <2>1 DEF TempLock, DistLockSync
    <3>2. Holders(u) = {} /\ ~LoginHolds(u)
      BY <3>1 DEF LockOf, Held
    <3> QED BY <1>2, <1>3, <1>4, <3>1, <3>2 DEF LockOf, Held, Holders
  <2>2. CASE TempUnlock(t)
    <3>1. t \in Holders(u) /\ t \notin Holders(u)'
      BY <1>1, <1>6, <2>2 DEF TempUnlock, TempStep, TempType, Holders, EditsLock
    <3>2. Holders(u)' = {} /\ ~LoginHolds(u)
      BY <1>4, <3>1 DEF LockOf, Holders
    <3> QED BY <1>2, <1>3, <3>2 DEF LockOf, Held
  <2>3. CASE ~TempLock(t) /\ ~TempUnlock(t)
    <3>1. lock' = lock
      BY <2>3 DEF TempNext, LoadTempOfflineUser, TempLockError, TempLoad, TempFill,
         TempEarlyReturn, SaveTempOfflineUser, TempSaveDb
    <3>2. t \in Holders(u)' => t \in Holders(u)
      BY <1>1, <2>3 DEF TempNext, LoadTempOfflineUser, TempLockError, TempLoad, TempFill,
         TempEarlyReturn, SaveTempOfflineUser, TempSaveDb, TempStep, TempType, Holders, EditsLock
    <3>3. Holders(u)' \subseteq Holders(u)
      BY <1>4, <3>2 DEF Holders
    <3> QED BY <1>2, <1>3, <3>1, <3>3 DEF LockOf, Held
  <2> QED BY <2>1, <2>2, <2>3
<1> QED BY <1>5, <1>6

\* Losing the memory ends every hold, with the keys left to expire.
LEMMA LockLoseMemory ==
  ASSUME TypeOK, LoseMemory, NEW u \in Users PROVE EditsLock' /\ LockOf(u)'
<1>1. login'[u].stage = "idle"
  BY DEF LoseMemory, NoLogin
<1>2. \A t \in Temps : temp'[t].stage \in {"new", "done"}
  BY DEF LoseMemory, TypeOK, TempType
<1> QED BY <1>1, <1>2 DEF EditsLock, LockOf, Held, Holders, LoginHolds

\* A step that is no timeout keeps the invariant of the locks.
LEMMA LockNext ==
  ASSUME TypeOK, LockInv, [Next]_vars, ~RunOut PROVE LockInv'
<1> SUFFICES ASSUME NEW u \in Users PROVE EditsLock' /\ LockOf(u)'
  <2>1. CASE Users = {}
    BY <2>1 DEF LockInv, EditsLock, TypeOK, TempType
  <2> QED BY <2>1 DEF LockInv
<1>0. EditsLock /\ LockOf(u)
  BY DEF LockInv
<1>1. ASSUME UNCHANGED <<login, temp>>, lock'[u] = lock[u] PROVE EditsLock' /\ LockOf(u)'
  BY <1>0, <1>1, LockFrame DEF EditsLock, LoginHolds, Holders
<1>2. ASSUME NEW w \in Users, LoginNext(w) PROVE EditsLock' /\ LockOf(u)'
  <2>1. EditsLock'
    BY <1>0, <1>2 DEF LoginNext, OnlineUser, LoginLock, LoginLockError, LoginLoad, LoginCache,
       LoginUnlock, OnLogin, EditsLock
  <2> QED BY <1>0, <1>2, <2>1, LockLoginNext
<1>3. ASSUME NEW w \in Users, SessionNext(w) \/ SaverNext(w) \/ RedisExpire(w)
      PROVE  EditsLock' /\ LockOf(u)'
  BY <1>1, <1>3 DEF SessionNext, Play, OfflineUser, OfflineSaveDb, OfflineSaveRedis,
     UserOfflineSaveToDbFinish, SaverNext, SaverInsert, SaverUpdate, SaverSetRedis, RedisExpire
<1>4. ASSUME NEW w \in Users, LockExpire(w) PROVE EditsLock' /\ LockOf(u)'
  <2>1. CASE u # w
    BY <1>1, <1>4, <2>1 DEF LockExpire, TypeOK
  <2>2. CASE u = w
    <3>1. ~Held(u) /\ UNCHANGED <<login, temp>>
      BY <1>4, <2>2 DEF LockExpire, RunOut
    <3> QED BY <1>0, <3>1 DEF EditsLock, LockOf, Held, Holders, LoginHolds
  <2> QED BY <2>1, <2>2
<1>5. ASSUME NEW exit \in BOOLEAN, RunUserCopyAndSave(exit) PROVE EditsLock' /\ LockOf(u)'
  BY <1>1, <1>5 DEF RunUserCopyAndSave
<1>6. CASE SaverReceive \/ SaverFault \/ SaverDone \/ Restart \/ UNCHANGED vars
  BY <1>1, <1>6 DEF SaverReceive, SaverFault, SaverDone, Restart, vars
<1>7. CASE Crash \/ ProcessExit
  BY <1>7, LockLoseMemory DEF Crash, ProcessExit
<1> QED BY <1>0, <1>2, <1>3, <1>4, <1>5, <1>6, <1>7, LockTempNext DEF Next

\* A set whose members are all the same has at most one.
LEMMA AtMostOne ==
  ASSUME NEW S, \A s, t \in S : s = t
  PROVE  Cardinality(S) \in Nat /\ Cardinality(S) <= 1 /\ (S # {} => Cardinality(S) = 1)
<1>1. CASE S = {}
  BY <1>1, FS_EmptySet
<1>2. ASSUME NEW s \in S PROVE Cardinality(S) = 1
  <2>1. S = {s}
    BY <1>2
  <2> QED BY <2>1, FS_Singleton
<1> QED BY <1>1, <1>2

\* The invariant says who may hold a lock: one login, or one access.
LEMMA LockInvExclusive == TypeOK /\ LockInv => LockExclusive
<1> SUFFICES ASSUME TypeOK, LockInv, NEW u \in Users
             PROVE  Cardinality(Holders(u)) + (IF LoginHolds(u) THEN 1 ELSE 0) <= 1
  BY DEF LockExclusive
<1>1. LockOf(u)
  BY DEF LockInv
<1>2. /\ Cardinality(Holders(u)) \in Nat /\ Cardinality(Holders(u)) <= 1
  BY <1>1, AtMostOne DEF LockOf
<1>3. CASE LoginHolds(u)
  BY <1>1, <1>3, FS_EmptySet DEF LockOf
<1> QED BY <1>2, <1>3

\* A player's offline data has one holder until a lock has timed out, whatever
\* logins, accesses and crashes there are: what DistLockSync gives up after its
\* retries, or redis after ten seconds, is the only way two get in.
THEOREM LockCorrect == Spec => []LockExclusive
<1>1. Init => (NoTimeout => LockInv)
  BY LockInit
<1>2. TypeOK /\ (NoTimeout => LockInv) /\ [Next]_vars => (NoTimeout => LockInv)'
  BY NoTimeoutNext, LockNext
<1>3. TypeOK /\ (NoTimeout => LockInv) => LockExclusive
  BY LockInvExclusive DEF NoTimeout, LockExclusive
<1> QED BY <1>1, <1>2, <1>3, TypeCorrect, PTL DEF Spec
-----------------------------------------------------------------------------
(* A game server implements PlayerSession.                                 *)

\* A login is under way only while the player is out, and a process that has
\* ended has no batch left, so nothing can set it running but Restart.
LoginAlone == \A u \in Users : login[u].stage # "idle" => player[u].state = "out"
BatchAlone == ~Running => ~hand.busy /\ ~saver.busy
SessionInv == LoginAlone /\ BatchAlone

\* Both hold at the start.
LEMMA SessionInit == Init => SessionInv
BY DEF Init, SessionInv, LoginAlone, BatchAlone, NoLogin, Running

\* What a step may do to the login and the session of the players: nothing, or
\* change those of one player.
SameLogins == \A u \in Users : login'[u].stage = login[u].stage
SameStates == \A u \in Users : player'[u].state = player[u].state

\* Copying the online players changes nobody's state.
LEMMA ToNormalStates ==
  ASSUME TypeOK, NEW copied, player' = ToNormal(copied) PROVE SameStates
BY DEF TypeOK, PlayerType, ToNormal, SameStates

\* A batch is empty once the process has ended, whatever the step.
LEMMA BatchAloneNext == ASSUME TypeOK, SessionInv, [Next]_vars PROVE BatchAlone'
<1> USE DEF SessionInv, BatchAlone, Running, store, ghosts
<1>1. ASSUME NEW u \in Users, LoginNext(u) PROVE BatchAlone'
  BY <1>1 DEF LoginNext, OnlineUser, LoginLock, LoginLockError, LoginLoad, LoginCache,
              LoginUnlock, OnLogin, LoginStep
<1>2. ASSUME NEW u \in Users, SessionNext(u) PROVE BatchAlone'
  BY <1>2 DEF SessionNext, Play, OfflineUser, OfflineSaveDb, OfflineSaveRedis,
              UserOfflineSaveToDbFinish, LogoutStep
<1>3. ASSUME NEW u \in Users, SaverNext(u) PROVE BatchAlone'
  BY <1>3 DEF SaverNext, SaverInsert, SaverUpdate, SaverSetRedis, TypeOK, BatchType
<1>4. ASSUME NEW u \in Users, LockExpire(u) \/ RedisExpire(u) PROVE BatchAlone'
  BY <1>4 DEF LockExpire, RedisExpire
<1>5. ASSUME NEW t \in Temps, TempNext(t) PROVE BatchAlone'
  BY <1>5 DEF TempNext, LoadTempOfflineUser, TempLock, TempLockError, TempLoad, TempFill,
              TempEarlyReturn, SaveTempOfflineUser, TempSaveDb, TempUnlock, TempStep
<1>6. ASSUME NEW exit \in BOOLEAN, RunUserCopyAndSave(exit) PROVE BatchAlone'
  BY <1>6 DEF RunUserCopyAndSave
<1>7. CASE SaverReceive \/ SaverFault \/ SaverDone
  BY <1>7 DEF SaverReceive, SaverFault, SaverDone, NoBatch, TypeOK, BatchType
<1>8. CASE Crash \/ ProcessExit \/ Restart
  BY <1>8 DEF Crash, ProcessExit, Restart, LoseMemory, NoBatch
<1>9. CASE UNCHANGED vars
  BY <1>9 DEF vars
<1> QED BY <1>1, <1>2, <1>3, <1>4, <1>5, <1>6, <1>7, <1>8, <1>9 DEF Next
\* How a step looks to PlayerSession: nothing changes, or one player moves on.
Unseen == (\A v \in Users : Stage(v)' = Stage(v)) /\ Running' = Running
Moves(u, from, to) ==
  /\ Stage(u) = from /\ Stage(u)' = to
  /\ \A v \in Users \ {u} : Stage(v)' = Stage(v)
  /\ Running' = Running

\* A stage is computed from the state of the session and that of the login.
LEMMA SameStages ==
  ASSUME SameLogins, SameStates PROVE \A v \in Users : Stage(v)' = Stage(v)
BY DEF SameLogins, SameStates, Stage

\* A step of a login: OnlineUser begins it, OnLogin or a lock error ends it, and
\* between them nothing is seen.
LEMMA LoginNextSeen ==
  ASSUME TypeOK, SessionInv, NEW u \in Users, LoginNext(u)
  PROVE  /\ LoginAlone'
         /\ \/ Unseen
            \/ Running /\ Moves(u, "free", "loading")
            \/ Moves(u, "loading", "free")
            \/ Moves(u, "loading", "online")
<1> USE DEF SessionInv, LoginAlone, Running, TypeOK, LoginType, PlayerType
<1>1. CASE OnlineUser(u)
  BY <1>1 DEF OnlineUser, GateAdmits, Moves, Stage
<1>2. CASE LoginLock(u)
  BY <1>2 DEF LoginLock, LoginStep, Unseen, Stage
<1>3. CASE LoginLockError(u)
  BY <1>3 DEF LoginLockError, LoginStep, Moves, Stage
<1>4. CASE LoginLoad(u)
  BY <1>4 DEF LoginLoad, Unseen, Stage
<1>5. CASE LoginCache(u)
  BY <1>5 DEF LoginCache, LoginStep, Unseen, Stage
<1>6. CASE LoginUnlock(u)
  BY <1>6 DEF LoginUnlock, LoginStep, Unseen, Stage
<1>7. CASE OnLogin(u)
  BY <1>7 DEF OnLogin, NoLogin, Moves, Stage
<1> QED BY <1>1, <1>2, <1>3, <1>4, <1>5, <1>6, <1>7 DEF LoginNext

\* A step of a session: only going offline and being deleted are seen.
LEMMA SessionNextSeen ==
  ASSUME TypeOK, SessionInv, NEW u \in Users, SessionNext(u)
  PROVE  /\ LoginAlone'
         /\ \/ Unseen
            \/ Moves(u, "online", "saving")
            \/ Moves(u, "saving", "free")
<1> USE DEF SessionInv, LoginAlone, Running, TypeOK, LoginType, PlayerType
<1>1. CASE Play(u)
  BY <1>1 DEF Play, Unseen, Stage
<1>2. CASE OfflineUser(u)
  BY <1>2 DEF OfflineUser, LogoutStep, Moves, Stage
<1>3. CASE OfflineSaveDb(u)
  BY <1>3 DEF OfflineSaveDb, LogoutStep, Unseen, Stage
<1>4. CASE OfflineSaveRedis(u)
  BY <1>4 DEF OfflineSaveRedis, LogoutStep, Unseen, Stage
<1>5. CASE UserOfflineSaveToDbFinish(u)
  BY <1>5 DEF UserOfflineSaveToDbFinish, LogoutStep, Moves, Stage
<1> QED BY <1>1, <1>2, <1>3, <1>4, <1>5 DEF SessionNext

\* The saver, the accesses to offline players and the stores' own steps are not
\* seen.
LEMMA OthersUnseen ==
  ASSUME TypeOK, SessionInv,
         \/ \E u \in Users : SaverNext(u) \/ LockExpire(u) \/ RedisExpire(u)
         \/ \E t \in Temps : TempNext(t)
         \/ \E exit \in BOOLEAN : RunUserCopyAndSave(exit)
         \/ SaverReceive \/ SaverFault \/ SaverDone
         \/ UNCHANGED vars
  PROVE  LoginAlone' /\ Unseen
<1> SUFFICES SameLogins /\ SameStates /\ Running' = Running
  BY SameStages DEF SessionInv, LoginAlone, Unseen, SameLogins, SameStates
<1> USE DEF store, ghosts, SameLogins, SameStates, Running
<1>1. ASSUME NEW u \in Users, SaverNext(u) PROVE SameLogins /\ SameStates /\ Running' = Running
  BY <1>1 DEF SaverNext, SaverInsert, SaverUpdate, SaverSetRedis
<1>2. ASSUME NEW u \in Users, LockExpire(u) \/ RedisExpire(u)
      PROVE  SameLogins /\ SameStates /\ Running' = Running
  BY <1>2 DEF LockExpire, RedisExpire
<1>3. ASSUME NEW t \in Temps, TempNext(t) PROVE SameLogins /\ SameStates /\ Running' = Running
  BY <1>3 DEF TempNext, LoadTempOfflineUser, TempLock, TempLockError, TempLoad, TempFill,
              TempEarlyReturn, SaveTempOfflineUser, TempSaveDb, TempUnlock, TempStep
<1>4. ASSUME NEW exit \in BOOLEAN, RunUserCopyAndSave(exit)
      PROVE  SameLogins /\ SameStates /\ Running' = Running
  <2>1. PICK copied \in SUBSET {u \in Users : Online(u)} : CopyOf(exit, copied)
    BY <1>4, CopyExists
  <2>2. SameStates
    BY <2>1, ToNormalStates DEF CopyOf
  <2> QED BY <1>4, <2>2 DEF RunUserCopyAndSave
<1>5. CASE SaverReceive \/ SaverFault \/ SaverDone
  BY <1>5 DEF SaverReceive, SaverFault, SaverDone, SessionInv, BatchAlone, TypeOK, BatchType
<1>6. CASE UNCHANGED vars
  BY <1>6 DEF vars
<1> QED BY <1>1, <1>2, <1>3, <1>4, <1>5, <1>6

\* The end of the process frees every player.
LEMMA StopSeen ==
  ASSUME TypeOK, SessionInv, Crash \/ ProcessExit
  PROVE  /\ LoginAlone'
         /\ Running /\ ~Running'
         /\ \A u \in Users : Stage(u)' = "free"
BY DEF Crash, ProcessExit, LoseMemory, NoLogin, LoginAlone, Running, Stage, TypeOK, PlayerType

\* A restart changes nobody.
LEMMA RestartSeen ==
  ASSUME SessionInv, Restart
  PROVE  /\ LoginAlone'
         /\ ~Running /\ Running'
         /\ \A u \in Users : Stage(u)' = Stage(u)
BY DEF Restart, SessionInv, LoginAlone, Running, Stage
\* The strengthened invariant holds in every step.
LEMMA SessionNextInv == ASSUME TypeOK, SessionInv, [Next]_vars PROVE SessionInv'
<1>1. LoginAlone'
  BY LoginNextSeen, SessionNextSeen, OthersUnseen, StopSeen, RestartSeen DEF Next
<1> QED BY <1>1, BatchAloneNext DEF SessionInv

\* A player that moves on does so in PlayerSession.
LEMMA MovesStep ==
  ASSUME NEW u \in Users, NEW from, NEW to, Moves(u, from, to) PROVE Session!Step(u, from, to)
BY DEF Moves, Session!Step

\* What a server's process holds is at its own place and nowhere else.
LEMMA MovesAt ==
  ASSUME NEW u \in Users, NEW from, NEW to, Moves(u, from, to)
  PROVE  [v \in Users |-> IF Stage(v) = "free" THEN "none" ELSE "gs"]'
           = [[v \in Users |-> IF Stage(v) = "free" THEN "none" ELSE "gs"]
                EXCEPT ![u] = IF to = "free" THEN "none" ELSE "gs"]
BY DEF Moves

\* Each way one player moves on is an action of PlayerSession.
LEMMA MovesSeen ==
  ASSUME NEW u \in Users,
         \/ Running /\ Moves(u, "free", "loading")
         \/ Moves(u, "loading", "free")
         \/ Moves(u, "loading", "online")
         \/ Moves(u, "online", "saving")
         \/ Moves(u, "saving", "free")
  PROVE  Session!Next
<1>1. CASE Running /\ Moves(u, "free", "loading")
  <2>1. Session!Login(u, "gs")
    BY <1>1, MovesStep, MovesAt DEF Session!Login
  <2> QED BY <2>1 DEF Session!Next
<1>2. CASE Moves(u, "loading", "free")
  <2>1. Session!LoginFails(u)
    BY <1>2, MovesStep, MovesAt DEF Session!LoginFails
  <2> QED BY <2>1 DEF Session!Next
<1>3. CASE Moves(u, "loading", "online")
  <2>1. Session!Online(u)
    BY <1>3, MovesStep, MovesAt DEF Session!Online, Moves
  <2> QED BY <2>1 DEF Session!Next
<1>4. CASE Moves(u, "online", "saving")
  <2>1. Session!Offline(u)
    BY <1>4, MovesStep, MovesAt DEF Session!Offline, Moves
  <2> QED BY <2>1 DEF Session!Next
<1>5. CASE Moves(u, "saving", "free")
  <2>1. Session!Leave(u)
    BY <1>5, MovesStep, MovesAt DEF Session!Leave
  <2> QED BY <2>1 DEF Session!Next
<1> QED BY <1>1, <1>2, <1>3, <1>4, <1>5

\* A step PlayerSession does not see leaves its variables alone.
LEMMA UnseenSeen == ASSUME Unseen PROVE UNCHANGED Session!svars
BY DEF Unseen, Session!svars

\* The end of the process is Stop.
LEMMA StopStep == ASSUME TypeOK, SessionInv, Crash \/ ProcessExit PROVE Session!Next
<1>1. Session!Stop("gs")
  BY StopSeen DEF Session!Stop
<1> QED BY <1>1 DEF Session!Next

\* A restart is Start.
LEMMA RestartStep == ASSUME SessionInv, Restart PROVE Session!Next
<1>1. Session!Start("gs")
  BY RestartSeen DEF Session!Start
<1> QED BY <1>1 DEF Session!Next

\* Every step of the server is a step of PlayerSession or is not seen by it.
LEMMA StepRefines ==
  ASSUME TypeOK, SessionInv, [Next]_vars PROVE [Session!Next]_(Session!svars)
<1>1. ASSUME NEW u \in Users, LoginNext(u) PROVE Session!Next \/ UNCHANGED Session!svars
  BY <1>1, LoginNextSeen, MovesSeen, UnseenSeen
<1>2. ASSUME NEW u \in Users, SessionNext(u) PROVE Session!Next \/ UNCHANGED Session!svars
  BY <1>2, SessionNextSeen, MovesSeen, UnseenSeen
<1>3. CASE \/ \E u \in Users : SaverNext(u) \/ LockExpire(u) \/ RedisExpire(u)
           \/ \E t \in Temps : TempNext(t)
           \/ \E exit \in BOOLEAN : RunUserCopyAndSave(exit)
           \/ SaverReceive \/ SaverFault \/ SaverDone
           \/ UNCHANGED vars
  BY <1>3, OthersUnseen, UnseenSeen
<1>4. CASE Crash \/ ProcessExit \/ Restart
  BY <1>4, StopStep, RestartStep
<1> QED BY <1>1, <1>2, <1>3, <1>4 DEF Next

\* At the start no player has a session, here or in PlayerSession.
LEMMA InitRefines == Init => Session!Init
BY DEF Init, Session!Init, Stage, Running, NoLogin

\* A game server implements PlayerSession: OnlineUser, OnLogin, OnUserOffline and
\* the end of a logout take its players through loading, serving and saving, one
\* session at a time, whatever the saver, the offline accesses, the stores and
\* the process do in between, and whatever fails.
THEOREM SessionRefined == Spec => OneSession
<1>1. Init => SessionInv /\ Session!Init
  BY SessionInit, InitRefines
<1>2. TypeOK /\ SessionInv /\ [Next]_vars => SessionInv'
  BY SessionNextInv
<1>3. TypeOK /\ SessionInv /\ [Next]_vars => [Session!Next]_(Session!svars)
  BY StepRefines
<1> QED BY <1>1, <1>2, <1>3, TypeCorrect, PTL DEF Spec, OneSession, Session!Spec
=============================================================================
