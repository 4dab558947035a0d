----------------------------- MODULE UserManager -----------------------------
(***************************************************************************)
(* Player records of one game server (gs/game/game_user_manager.go): the   *)
(* in-memory object of a session, the goroutines that load and save it,    *)
(* and the two stores it is copied to, mongo (db) and redis (cache).       *)
(*                                                                         *)
(* The main loop is single-threaded; it is one process here and every      *)
(* goroutine it starts is another.  What runs concurrently:                *)
(*   - a login goroutine per player (OnlineUser): lock, load, cache,       *)
(*     unlock, post the result to the main loop;                           *)
(*   - a logout goroutine per player (OfflineUser): write db, write redis, *)
(*     post the end;                                                       *)
(*   - the saver goroutine (saveUserHandle), fed by the main loop through  *)
(*     an unbuffered channel with a batch of copied players;               *)
(*   - accesses to offline players (LoadTempOfflineUser), which block the  *)
(*     main loop and leave a goroutine behind that writes db and unlocks.  *)
(*                                                                         *)
(* A player's data is a version number: every change to it makes a new     *)
(* one, so "which data" is the only thing a step can get wrong.            *)
(* The gate admits one session of a player at a time (GateAdmits).         *)
(***************************************************************************)
EXTENDS Naturals, FiniteSets

CONSTANTS
  Users,           \* player ids
  Temps,           \* accesses to offline players, each made at most once
  MaxVer,          \* bound: changes made to one player's data
  MaxSess,         \* bound: sessions of one player
  MaxWriteFaults,  \* bound: writes to db that return an error
  MaxReadFaults,   \* bound: reads from db, or lock calls, that return an error
  MaxTimeouts,     \* bound: keys that expire under their holder; where lock
                   \* calls that run out of their retries cease to be counted
  MaxStops,        \* bound: process stops
  StopKinds,       \* the ways the process may stop
  Overrun,         \* whether the copy loop may be cut short by its 10 ms budget
  SaverOvertaken   \* whether a logout may write before the saver's older batch

ASSUME CountsAssumption ==
  /\ MaxVer \in Nat
  /\ MaxSess \in Nat
  /\ MaxWriteFaults \in Nat
  /\ MaxReadFaults \in Nat
  /\ MaxTimeouts \in Nat \ {0}
  /\ MaxStops \in Nat
ASSUME FlagsAssumption ==
  /\ StopKinds \subseteq {"crash", "exit"}
  /\ Overrun \in BOOLEAN
  /\ SaverOvertaken \in BOOLEAN

VARIABLES
  main,     \* what the main loop is doing
  player,   \* the session object of each player in playerMap, and its logout
  login,    \* the login goroutine of each player
  temp,     \* the accesses to offline players
  hand,     \* the batch offered on saveUserChan, the main loop blocked on it
  saver,    \* the batch the saver goroutine is writing
  db,       \* the version FindOne returns, 0 when there is no document
  docs,     \* how many documents the player collection holds for a player
  redis,    \* the cached version, 0 when there is no key
  lock,     \* whether the offline-data lock key of a player exists
  latest,   \* ghost: the newest version of a player's data
  floor,    \* ghost: the newest version a periodic save has landed in a session
  created,  \* ghost: how many fresh characters were made for a player
  spent     \* bounded environment events used so far

store == <<db, docs, redis>>
ghosts == <<latest, floor, created>>
vars == <<main, player, login, temp, hand, saver, db, docs, redis, lock,
          latest, floor, created, spent>>

\* "out": no session.  "online": Online is true.  The other three are the
\* stages of OfflineUser's goroutine, during which Online is false.
PlayerType == [state: {"out", "online", "saving", "caching", "saved"},
               dbState: {"insert", "normal"},
               ver: Nat, sess: Nat]
LoginType == [stage: {"idle", "lock", "load", "cache", "unlock", "posted"},
              found: BOOLEAN, ver: Nat]
TempType == [stage: {"new", "lock", "load", "fill", "logic", "db", "unlock", "done"},
             user: Users, edit: BOOLEAN, ver: Nat]
BatchType == [busy: BOOLEAN, exit: BOOLEAN,
              ins: SUBSET Users, upd: SUBSET Users, set: SUBSET Users,
              ver: [Users -> Nat], sess: [Users -> Nat]]

NoBatch == [busy |-> FALSE, exit |-> FALSE, ins |-> {}, upd |-> {}, set |-> {},
            ver |-> [u \in Users |-> 0], sess |-> [u \in Users |-> 0]]
NoLogin == [stage |-> "idle", found |-> FALSE, ver |-> 0]

Events == {"write", "read", "timeout", "stop"}
Bound(e) == CASE e = "write"   -> MaxWriteFaults
              [] e = "read"    -> MaxReadFaults
              [] e = "timeout" -> MaxTimeouts
              [] e = "stop"    -> MaxStops
Spend(e) == spent[e] < Bound(e) /\ spent' = [spent EXCEPT ![e] = @ + 1]

TypeOK ==
  /\ main \in {"run", "handoff", "temp", "exit", "halt", "fin", "closed", "down"}
  /\ player \in [Users -> PlayerType]
  /\ login \in [Users -> LoginType]
  /\ temp \in [Temps -> TempType]
  /\ hand \in BatchType
  /\ saver \in BatchType
  /\ db \in [Users -> Nat]
  /\ docs \in [Users -> Nat]
  /\ redis \in [Users -> Nat]
  /\ lock \in [Users -> BOOLEAN]
  /\ latest \in [Users -> Nat]
  /\ floor \in [Users -> Nat]
  /\ created \in [Users -> Nat]
  /\ spent \in [Events -> Nat]

Init ==
  /\ main = "run"
  /\ player = [u \in Users |-> [state |-> "out", dbState |-> "normal", ver |-> 0, sess |-> 0]]
  /\ login = [u \in Users |-> NoLogin]
  /\ temp \in [Temps -> [stage: {"new"}, user: Users, edit: BOOLEAN, ver: {0}]]
  /\ hand = NoBatch
  /\ saver = NoBatch
  /\ db = [u \in Users |-> 0]
  /\ docs = [u \in Users |-> 0]
  /\ redis = [u \in Users |-> 0]
  /\ lock = [u \in Users |-> FALSE]
  /\ latest = [u \in Users |-> 0]
  /\ floor = [u \in Users |-> 0]
  /\ created = [u \in Users |-> 0]
  /\ spent = [e \in Events |-> 0]

Running == main \notin {"closed", "down"}
Online(u) == player[u].state = "online"
InBatch(u, b) == u \in b.ins \cup b.upd

(***************************************************************************)
(* The player collection.  It has no unique index: an insert always adds a *)
(* document and FindOne keeps returning the first; an update that matches  *)
(* no document is not an error.                                            *)
(***************************************************************************)
Insert(u, v) ==
  /\ docs' = [docs EXCEPT ![u] = @ + 1]
  /\ db' = [db EXCEPT ![u] = IF docs[u] = 0 THEN v ELSE @]
Update(u, v) ==
  /\ db' = [db EXCEPT ![u] = IF docs[u] = 0 THEN @ ELSE v]
  /\ UNCHANGED docs
\* SaveUserToDbSync, on a player of the given dbState
SaveUserToDb(u, dbState, v) ==
  IF dbState = "insert" THEN Insert(u, v) ELSE Update(u, v)
CanWriteFail == Spend("write") /\ UNCHANGED <<db, docs>>

-----------------------------------------------------------------------------
(* Logging in: OnlineUser, its goroutine, OnLogin.                         *)

\* Mutant: the gate lets a player in once the last session is being saved.
GateAdmitsEarly(u) == player[u].state # "online" /\ login[u].stage = "idle"

\* The gate lets a player in once the offline broadcast of the last session
\* has been received, and holds one connection per player.
GateAdmits(u) == player[u].state = "out" /\ login[u].stage = "idle"

LoginStep(u, from, to) ==
  /\ Running
  /\ login[u].stage = from
  /\ login' = [login EXCEPT ![u].stage = to]

OnlineUser(u) ==
  /\ main = "run"
  /\ GateAdmits(u)
  /\ player[u].sess < MaxSess
  /\ login' = [login EXCEPT ![u] = [stage |-> "lock", found |-> FALSE, ver |-> 0]]
  /\ UNCHANGED <<main, player, temp, hand, saver, store, lock, ghosts, spent>>

\* Mutant: the key is set without NX.
DistLockNoNX(u) == lock' = [lock EXCEPT ![u] = TRUE] /\ UNCHANGED spent

\* DistLockSync: taken when free; after two tries 50 ms apart it returns true
\* without the lock, however often.
RunOut == Spend("timeout") \/ (spent["timeout"] = MaxTimeouts /\ UNCHANGED spent)
DistLockSync(u) ==
  /\ lock' = [lock EXCEPT ![u] = TRUE]
  /\ IF lock[u] THEN RunOut ELSE UNCHANGED spent

LoginLock(u) ==
  /\ LoginStep(u, "lock", "load")
  /\ DistLockSync(u)
  /\ UNCHANGED <<main, player, temp, hand, saver, store, ghosts>>

\* DistLockSync returned false: the goroutine ends without posting anything.
LoginLockError(u) ==
  /\ LoginStep(u, "lock", "idle")
  /\ Spend("read")
  /\ UNCHANGED <<main, player, temp, hand, saver, store, lock, ghosts>>

\* Mutant: a login is served from the cache when the player is there.
LoginLoadCached(u) ==
  /\ Running
  /\ login[u].stage = "load"
  /\ login' = [login EXCEPT ![u] =
       IF docs[u] > 0
       THEN [stage |-> "cache", found |-> TRUE, ver |-> IF redis[u] # 0 THEN redis[u] ELSE db[u]]
       ELSE [stage |-> "unlock", found |-> FALSE, ver |-> 0]]
  /\ UNCHANGED <<main, player, temp, hand, saver, store, lock, ghosts, spent>>

\* Mutant: a login whose player is not found ends there, like a failed lock.
LoginLoadReturns(u) ==
  /\ Running
  /\ login[u].stage = "load"
  /\ login' = [login EXCEPT ![u] =
       IF docs[u] > 0 THEN [stage |-> "cache", found |-> TRUE, ver |-> db[u]] ELSE NoLogin]
  /\ UNCHANGED <<main, player, temp, hand, saver, store, lock, ghosts, spent>>

\* LoadUserFromDbSync: any error reads as "no such player".
LoginLoad(u) ==
  /\ Running
  /\ login[u].stage = "load"
  /\ \/ /\ docs[u] > 0
        /\ login' = [login EXCEPT ![u] = [stage |-> "cache", found |-> TRUE, ver |-> db[u]]]
        /\ UNCHANGED spent
     \/ /\ login' = [login EXCEPT ![u] = [stage |-> "unlock", found |-> FALSE, ver |-> 0]]
        /\ IF docs[u] = 0 THEN UNCHANGED spent ELSE Spend("read")
  /\ UNCHANGED <<main, player, temp, hand, saver, store, lock, ghosts>>

LoginCache(u) ==
  /\ LoginStep(u, "cache", "unlock")
  /\ redis' = [redis EXCEPT ![u] = login[u].ver]
  /\ UNCHANGED <<main, player, temp, hand, saver, db, docs, lock, ghosts, spent>>

\* DistUnlock deletes the key whoever set it; then the result is posted.
LoginUnlock(u) ==
  /\ LoginStep(u, "unlock", "posted")
  /\ lock' = [lock EXCEPT ![u] = FALSE]
  /\ UNCHANGED <<main, player, temp, hand, saver, store, ghosts, spent>>

\* LoadLoginUserFromDbFinish: a player that was not found is created.
OnLogin(u) ==
  /\ main = "run"
  /\ login[u].stage = "posted"
  /\ login' = [login EXCEPT ![u] = NoLogin]
  /\ IF login[u].found
     THEN /\ player' = [player EXCEPT ![u] = [state |-> "online", dbState |-> "normal",
                                              ver |-> login[u].ver, sess |-> @.sess + 1]]
          /\ UNCHANGED <<latest, created>>
     ELSE /\ player' = [player EXCEPT ![u] = [state |-> "online", dbState |-> "insert",
                                              ver |-> latest[u] + 1, sess |-> @.sess + 1]]
          /\ latest' = [latest EXCEPT ![u] = @ + 1]
          /\ created' = [created EXCEPT ![u] = @ + 1]
  /\ UNCHANGED <<main, temp, hand, saver, store, lock, floor, spent>>

\* Any request handler that changes the player.
Play(u) ==
  /\ main = "run"
  /\ Online(u)
  /\ latest[u] < MaxVer
  /\ latest' = [latest EXCEPT ![u] = @ + 1]
  /\ player' = [player EXCEPT ![u].ver = latest[u] + 1]
  /\ UNCHANGED <<main, login, temp, hand, saver, store, lock, floor, created, spent>>

-----------------------------------------------------------------------------
(* Logging out: OnUserOffline copies the player and starts the goroutine   *)
(* that writes the copy.                                                   *)

LogoutStep(u, from, to) ==
  /\ Running
  /\ player[u].state = from
  /\ player' = [player EXCEPT ![u].state = to]

\* Mutant: the player is marked offline and no goroutine is started.
OfflineUserNoSave(u) ==
  /\ main = "run"
  /\ LogoutStep(u, "online", "offline")
  /\ UNCHANGED <<main, login, temp, hand, saver, store, lock, ghosts, spent>>

OfflineUser(u) ==
  /\ main = "run"
  /\ LogoutStep(u, "online", "saving")
  /\ UNCHANGED <<main, login, temp, hand, saver, store, lock, ghosts, spent>>

OfflineSaveDb(u) ==
  /\ LogoutStep(u, "saving", "caching")
  /\ SaverOvertaken \/ ~InBatch(u, saver)
  /\ \/ SaveUserToDb(u, player[u].dbState, player[u].ver) /\ UNCHANGED spent
     \/ CanWriteFail
  /\ UNCHANGED <<main, login, temp, hand, saver, redis, lock, ghosts>>

\* Mutant: a player already cached is not written again, and nothing posted.
OfflineSaveRedisOnce(u) ==
  /\ redis[u] # player[u].ver
  /\ LogoutStep(u, "caching", "saved")
  /\ redis' = [redis EXCEPT ![u] = player[u].ver]
  /\ UNCHANGED <<main, login, temp, hand, saver, db, docs, lock, ghosts, spent>>

OfflineSaveRedis(u) ==
  /\ LogoutStep(u, "caching", "saved")
  /\ redis' = [redis EXCEPT ![u] = player[u].ver]
  /\ UNCHANGED <<main, login, temp, hand, saver, db, docs, lock, ghosts, spent>>

\* UserOfflineSaveToDbFinish: DeleteUser and the offline broadcast.
UserOfflineSaveToDbFinish(u) ==
  /\ main = "run"
  /\ LogoutStep(u, "saved", "out")
  /\ UNCHANGED <<main, login, temp, hand, saver, store, lock, ghosts, spent>>

-----------------------------------------------------------------------------
(* Periodic and exit save.                                                 *)

\* Mutant: only new players are put in the batch.
BatchOfFresh(copied, exit) ==
  [NoBatch EXCEPT !.busy = TRUE, !.exit = exit,
                  !.ins = {u \in copied : player[u].dbState = "insert"}, !.set = copied]

\* The copies: players with DbInsert are to be inserted, the others updated,
\* and all of them cached.
BatchOf(copied, exit) ==
  LET fresh == {u \in copied : player[u].dbState = "insert"}
  IN [busy |-> TRUE, exit |-> exit, ins |-> fresh, upd |-> copied \ fresh, set |-> copied,
      ver |-> [u \in Users |-> IF u \in copied THEN player[u].ver ELSE 0],
      sess |-> [u \in Users |-> IF u \in copied THEN player[u].sess ELSE 0]]

\* Mutant: a new player stays new until it logs out.
StaysInsert(copied) == player

\* ChangeUserDbState on the players copied: DbInsert becomes DbNormal.
ToNormal(copied) ==
  [u \in Users |-> IF u \in copied THEN [player[u] EXCEPT !.dbState = "normal"] ELSE player[u]]

\* RunUserCopyAndSave and ExitRunUserCopyAndSave: the online players are
\* copied and the main loop blocks on the channel.  The copy loop is left when
\* its budget is spent.
RunUserCopyAndSave(exit) ==
  /\ main = "run"
  /\ IF exit THEN "exit" \in StopKinds /\ Spend("stop") ELSE UNCHANGED spent
  /\ \E copied \in SUBSET {u \in Users : Online(u)} :
       /\ Overrun \/ copied = {u \in Users : Online(u)}
       /\ hand' = BatchOf(copied, exit)
       /\ player' = ToNormal(copied)
  /\ main' = IF exit THEN "exit" ELSE "handoff"
  /\ UNCHANGED <<login, temp, saver, store, lock, ghosts>>

\* The saver receives the batch: the main loop goes on, or after an exit
\* save stays blocked for good.
SaverReceive ==
  /\ hand.busy
  /\ ~saver.busy
  /\ saver' = hand
  /\ hand' = NoBatch
  /\ main' = IF hand.exit THEN "halt" ELSE "run"
  /\ UNCHANGED <<player, login, temp, store, lock, ghosts, spent>>

\* A version has landed in the session that produced it.
Land(u, lands) ==
  floor' = [floor EXCEPT ![u] = IF lands /\ Online(u) /\ player[u].sess = saver.sess[u]
                                THEN saver.ver[u] ELSE @]

SaverInsert(u) ==
  /\ u \in saver.ins
  /\ Insert(u, saver.ver[u])
  /\ Land(u, docs[u] = 0)
  /\ saver' = [saver EXCEPT !.ins = @ \ {u}]
  /\ UNCHANGED <<main, player, login, temp, hand, redis, lock, latest, created, spent>>

\* The ordered bulk write ends at the first player whose update errors; one
\* with several documents does, $set cannot change the _id of the second.
SaverUpdate(u) ==
  /\ saver.ins = {}
  /\ u \in saver.upd
  /\ Update(u, saver.ver[u])
  /\ Land(u, docs[u] > 0)
  /\ \/ saver' = [saver EXCEPT !.upd = @ \ {u}]
     \/ docs[u] > 1 /\ saver' = [saver EXCEPT !.upd = {}]
  /\ UNCHANGED <<main, player, login, temp, hand, redis, lock, latest, created, spent>>

\* SaveUserListToDbSync returns at the first error: a failed insert leaves out
\* the rest of the inserts and every update.
SaverFault ==
  /\ saver.ins \cup saver.upd # {}
  /\ CanWriteFail
  /\ saver' = [saver EXCEPT !.ins = {}, !.upd = {}]
  /\ UNCHANGED <<main, player, login, temp, hand, redis, lock, ghosts>>

SaverSetRedis(u) ==
  /\ saver.ins = {} /\ saver.upd = {}
  /\ u \in saver.set
  /\ redis' = [redis EXCEPT ![u] = saver.ver[u]]
  /\ saver' = [saver EXCEPT !.set = @ \ {u}]
  /\ UNCHANGED <<main, player, login, temp, hand, db, docs, lock, ghosts, spent>>

\* After an exit save EXIT_SAVE_FIN_CHAN tells Close to go on.
SaverDone ==
  /\ saver.busy
  /\ saver.ins = {} /\ saver.upd = {} /\ saver.set = {}
  /\ saver' = NoBatch
  /\ main' = IF saver.exit THEN "fin" ELSE main
  /\ UNCHANGED <<player, login, temp, hand, store, lock, ghosts, spent>>

-----------------------------------------------------------------------------
(* Accesses to offline players: LoadTempOfflineUser with the lock and then *)
(* SaveTempOfflineUser (edit), or without it to read (LoadGlobalPlayer).   *)
(* The main loop is blocked until the redis write or the early return.     *)

TempStep(t, from, to) ==
  /\ Running
  /\ temp[t].stage = from
  /\ temp' = [temp EXCEPT ![t].stage = to]

LoadTempOfflineUser(t) ==
  /\ main = "run"
  /\ ~Online(temp[t].user)
  /\ TempStep(t, "new", IF temp[t].edit THEN "lock" ELSE "load")
  /\ main' = "temp"
  /\ UNCHANGED <<player, login, hand, saver, store, lock, ghosts, spent>>

TempLock(t) ==
  /\ TempStep(t, "lock", "load")
  /\ DistLockSync(temp[t].user)
  /\ UNCHANGED <<main, player, login, hand, saver, store, ghosts>>

\* DistLockSync returned false: the caller is given no player.
TempLockError(t) ==
  /\ TempStep(t, "lock", "done")
  /\ Spend("read")
  /\ main' = "run"
  /\ UNCHANGED <<player, login, hand, saver, store, lock, ghosts>>

\* Redis first, then db, an error being read as a miss; a player in neither
\* ends the access, lock kept.
TempLoad(t) ==
  LET u == temp[t].user IN
  /\ Running
  /\ temp[t].stage = "load"
  /\ \/ /\ redis[u] # 0
        /\ temp' = [temp EXCEPT ![t].stage = IF temp[t].edit THEN "logic" ELSE "done",
                                ![t].ver = redis[u]]
        /\ main' = IF temp[t].edit THEN main ELSE "run"
        /\ UNCHANGED spent
     \/ /\ docs[u] > 0
        /\ IF redis[u] = 0 THEN UNCHANGED spent ELSE Spend("read")
        /\ temp' = [temp EXCEPT ![t].stage = "fill", ![t].ver = db[u]]
        /\ UNCHANGED main
     \/ /\ redis[u] = 0
        /\ IF docs[u] = 0 THEN UNCHANGED spent ELSE Spend("read")
        /\ temp' = [temp EXCEPT ![t].stage = "done"]
        /\ main' = "run"
  /\ UNCHANGED <<player, login, hand, saver, store, lock, ghosts>>

TempFill(t) ==
  /\ TempStep(t, "fill", IF temp[t].edit THEN "logic" ELSE "done")
  /\ redis' = [redis EXCEPT ![temp[t].user] = temp[t].ver]
  /\ main' = IF temp[t].edit THEN main ELSE "run"
  /\ UNCHANGED <<player, login, hand, saver, db, docs, lock, ghosts, spent>>

\* AskAddFriendReq returns when the apply is already there: no write back,
\* no unlock.
TempEarlyReturn(t) ==
  /\ TempStep(t, "logic", "done")
  /\ main' = "run"
  /\ UNCHANGED <<player, login, hand, saver, store, lock, ghosts, spent>>

SaveTempOfflineUser(t) ==
  LET u == temp[t].user IN
  /\ Running
  /\ temp[t].stage = "logic"
  /\ latest[u] < MaxVer
  /\ latest' = [latest EXCEPT ![u] = @ + 1]
  /\ temp' = [temp EXCEPT ![t].stage = "db", ![t].ver = latest[u] + 1]
  /\ redis' = [redis EXCEPT ![u] = latest[u] + 1]
  /\ main' = "run"
  /\ UNCHANGED <<player, login, hand, saver, db, docs, lock, floor, created, spent>>

TempSaveDb(t) ==
  /\ TempStep(t, "db", "unlock")
  /\ \/ SaveUserToDb(temp[t].user, "normal", temp[t].ver) /\ UNCHANGED spent
     \/ CanWriteFail
  /\ UNCHANGED <<main, player, login, hand, saver, redis, lock, ghosts>>

TempUnlock(t) ==
  /\ TempStep(t, "unlock", "done")
  /\ lock' = [lock EXCEPT ![temp[t].user] = FALSE]
  /\ UNCHANGED <<main, player, login, hand, saver, store, ghosts, spent>>

-----------------------------------------------------------------------------
(* Redis expiry, process stop and restart.                                 *)

\* Who is between DistLockSync and DistUnlock for a player.
Holders(u) ==
  {t \in Temps : temp[t].user = u /\ temp[t].edit
                 /\ temp[t].stage \in {"load", "fill", "logic", "db", "unlock"}}
LoginHolds(u) == login[u].stage \in {"load", "cache", "unlock"}
Held(u) == LoginHolds(u) \/ Holders(u) # {}

\* The lock key lives 10 s.  A key nobody will delete goes for sure; one that
\* goes under its holder is a bounded event.
LockExpire(u) ==
  /\ lock[u]
  /\ lock' = [lock EXCEPT ![u] = FALSE]
  /\ IF Held(u) THEN Spend("timeout") ELSE UNCHANGED spent
  /\ UNCHANGED <<main, player, login, temp, hand, saver, store, ghosts>>

\* The player key lives 30 days after the last write.
RedisExpire(u) ==
  /\ Temps # {}
  /\ redis[u] # 0
  /\ redis' = [redis EXCEPT ![u] = 0]
  /\ UNCHANGED <<main, player, login, temp, hand, saver, db, docs, lock, ghosts, spent>>

\* The process ends: everything it held in memory is gone.
LoseMemory ==
  /\ player' = [u \in Users |-> [player[u] EXCEPT !.state = "out"]]
  /\ login' = [u \in Users |-> NoLogin]
  /\ temp' = [t \in Temps |-> IF temp[t].stage = "new" THEN temp[t]
                              ELSE [temp[t] EXCEPT !.stage = "done"]]
  /\ hand' = NoBatch
  /\ saver' = NoBatch
  /\ UNCHANGED <<store, lock, ghosts>>

Crash ==
  /\ Running /\ "crash" \in StopKinds
  /\ Spend("stop")
  /\ LoseMemory
  /\ main' = "down"

\* Close waits for the exit save and nothing else.
ProcessExit ==
  /\ main = "fin"
  /\ LoseMemory
  /\ main' = "closed"
  /\ UNCHANGED spent

Restart ==
  /\ ~Running
  /\ main' = "run"
  /\ UNCHANGED <<player, login, temp, hand, saver, store, lock, ghosts, spent>>

-----------------------------------------------------------------------------
LoginNext(u) ==
  \/ OnlineUser(u) \/ LoginLock(u) \/ LoginLockError(u) \/ LoginLoad(u)
  \/ LoginCache(u) \/ LoginUnlock(u) \/ OnLogin(u)
SessionNext(u) ==
  \/ Play(u) \/ OfflineUser(u) \/ OfflineSaveDb(u) \/ OfflineSaveRedis(u)
  \/ UserOfflineSaveToDbFinish(u)
SaverNext(u) == SaverInsert(u) \/ SaverUpdate(u) \/ SaverSetRedis(u)
TempNext(t) ==
  \/ LoadTempOfflineUser(t) \/ TempLock(t) \/ TempLockError(t) \/ TempLoad(t)
  \/ TempFill(t) \/ TempEarlyReturn(t) \/ SaveTempOfflineUser(t) \/ TempSaveDb(t) \/ TempUnlock(t)
Next ==
  \/ \E u \in Users : LoginNext(u) \/ SessionNext(u) \/ SaverNext(u)
                      \/ LockExpire(u) \/ RedisExpire(u)
  \/ \E t \in Temps : TempNext(t)
  \/ \E exit \in BOOLEAN : RunUserCopyAndSave(exit)
  \/ SaverReceive \/ SaverFault \/ SaverDone
  \/ Crash \/ ProcessExit \/ Restart

Spec == Init /\ [][Next]_vars

-----------------------------------------------------------------------------
(***************************************************************************)
(* Fairness.  A goroutine that can go on does, so weak fairness for each.  *)
(* The main loop picks among its channels at random (Go's select) and      *)
(* localEventChan is FIFO, so an event that is there whenever the loop     *)
(* comes round is handled: strong fairness, since the loop is blocked in   *)
(* between by the saver and by accesses to offline players.                *)
(***************************************************************************)
Fairness ==
  /\ \A u \in Users :
       /\ WF_vars(LoginLock(u) \/ LoginLoad(u) \/ LoginCache(u) \/ LoginUnlock(u))
       /\ SF_vars(OnLogin(u))
       /\ WF_vars(OfflineSaveDb(u) \/ OfflineSaveRedis(u))
       /\ SF_vars(UserOfflineSaveToDbFinish(u))
       /\ WF_vars(SaverNext(u))
  /\ SF_vars(RunUserCopyAndSave(FALSE))
  /\ WF_vars(SaverReceive \/ SaverDone)
  /\ \A t \in Temps :
       WF_vars(TempLock(t) \/ TempLoad(t) \/ TempFill(t) \/ TempEarlyReturn(t)
               \/ TempSaveDb(t) \/ TempUnlock(t))
FairSpec == Spec /\ Fairness

-----------------------------------------------------------------------------
(* Properties.                                                             *)

\* Inserts of a player's document that are still to come: the logout of a
\* session never saved, and the batches.
Pending(u) ==
  (IF player[u].dbState = "insert" /\ player[u].state \in {"online", "saving"} THEN 1 ELSE 0)
  + (IF u \in hand.ins THEN 1 ELSE 0)
  + (IF u \in saver.ins THEN 1 ELSE 0)

\* A fresh character is inserted at most once, although the saver and the
\* logout goroutine both insert and the copy loop flips DbInsert to DbNormal
\* before anything was written (ChangeUserDbState, LocalEventHandle).
OneInsertPerCharacter == \A u \in Users : docs[u] + Pending(u) <= created[u]

\* What a player can lose is bounded by the periodic save: once a save has
\* landed in a session, nothing written later, by the saver, by a logout or
\* after a crash, brings the stored record back before it, and no login makes
\* a fresh character in its place.  (It is about sessions only: an access to
\* the offline player may well write old data back, see LoginLoadsLatest.)
RollbackBounded ==
  \A u \in Users :
    /\ docs[u] > 0 => floor[u] <= db[u]
    /\ (login[u].stage \in {"unlock", "posted"} /\ ~login[u].found) => floor[u] = 0

\* Why it holds, as an inductive invariant: a version that can still reach
\* the record is never older than the last one landed, and of two batches the
\* one still offered is the younger.
SessionFloor(u) ==
  player[u].state # "out" =>
    /\ login[u].stage = "idle"
    /\ floor[u] <= player[u].ver
    /\ player[u].ver <= latest[u]
LoginFloor(u) ==
  /\ login[u].stage = "cache" => login[u].found
  /\ login[u].stage \in {"cache", "unlock", "posted"} =>
       IF login[u].found THEN floor[u] <= login[u].ver /\ login[u].ver <= latest[u]
                         ELSE floor[u] = 0
StoreFloor(u) ==
  /\ docs[u] = 0 => floor[u] = 0
  /\ docs[u] > 0 => floor[u] <= db[u]
  /\ db[u] <= latest[u]
BatchFloor(u, b) ==
  InBatch(u, b) =>
    /\ floor[u] <= b.ver[u]
    /\ b.ver[u] <= latest[u]
    /\ b.sess[u] <= player[u].sess
    /\ (player[u].state # "out" /\ b.sess[u] = player[u].sess) => b.ver[u] <= player[u].ver
BatchOrder(u) ==
  (InBatch(u, saver) /\ InBatch(u, hand)) =>
    /\ saver.sess[u] <= hand.sess[u]
    /\ saver.sess[u] = hand.sess[u] => saver.ver[u] <= hand.ver[u]
FloorInv ==
  \A u \in Users :
    /\ SessionFloor(u) /\ LoginFloor(u) /\ StoreFloor(u)
    /\ BatchFloor(u, hand) /\ BatchFloor(u, saver) /\ BatchOrder(u)

\* Every login is given the newest record of the player ("每次玩家上线必须从
\* 数据库加载最新的档", OnlineUser).
LoginLoadsLatest ==
  \A u \in Users : login[u].stage \in {"cache", "unlock"} => login[u].ver = latest[u]

\* Between DistLockSync and DistUnlock a player's offline data has one holder
\* ("加锁同步阻塞直到成功或超时", DistLockSync), as long as no call has run out of
\* its retries and no key has expired under its holder: from then on two
\* goroutines may hold it, and the first to unlock deletes the other's key.
LockExclusive ==
  spent["timeout"] = 0 =>
    \A u \in Users :
      Cardinality(Holders(u)) + (IF LoginHolds(u) THEN 1 ELSE 0) <= 1

\* A player got from LoadTempOfflineUser is written back and unlocked at once
\* (the comment on SaveTempOfflineUser): when the access is over, a lock key
\* that is there belongs to somebody else.
LockReleased ==
  \A t \in Temps :
    (temp[t].stage = "done" /\ temp[t].ver # 0 /\ lock[temp[t].user]) => Held(temp[t].user)

\* When the process has closed, everything the players did is stored
\* ("停服落地玩家数据完毕", saveUserHandle).
AllLandedAtClose == main = "closed" => \A u \in Users : db[u] = latest[u]

\* Whatever a player did online reaches db, while they stay online.
PeriodicSaveLands ==
  \A u \in Users, v \in 1 .. MaxVer :
    (Online(u) /\ player[u].ver = v) ~> (db[u] >= v \/ ~Online(u))

\* A logout ends: the player is deleted and the offline broadcast sent, which
\* is what the gate waits for before it lets the player in again.
LogoutEnds == \A u \in Users : (player[u].state = "saving") ~> (player[u].state = "out")

\* A login never stays at the lock, whoever holds it and keeps it; and once its
\* lock call has returned true it is answered, whatever its reads return and
\* however long others occupy the main loop.  So the only login without an
\* answer is the one whose lock call returned an error (OnlineUser).
LoginEnds ==
  \A u \in Users :
    /\ (login[u].stage = "lock") ~> (login[u].stage # "lock")
    /\ (login[u].stage = "load") ~> Online(u)

\* The players of this server have one session at a time: it is loaded, served
\* and saved before the next one is loaded, or the process has ended (PlayerSession).
Stage(u) ==
  CASE player[u].state = "online" -> "online"
    [] player[u].state \in {"saving", "caching", "saved"} -> "saving"
    [] player[u].state = "out" /\ login[u].stage # "idle" -> "loading"
    [] OTHER -> "free"
Session ==
  INSTANCE PlayerSession WITH
    Players <- Users, Servers <- {"gs"}, None <- "none",
    up <- IF Running THEN {"gs"} ELSE {},
    at <- [u \in Users |-> IF Stage(u) = "free" THEN "none" ELSE "gs"],
    stage <- [u \in Users |-> Stage(u)]
OneSession == Session!Spec

=============================================================================
