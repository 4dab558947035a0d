# hk4e in TLA+

A verification development for the hk4e game cluster: TLA+ modules for the parts of the system whose correctness
depends on several goroutines, servers or failures, TLC configurations that check them on small instances, and proofs
that TLAPS checks for every value of the constants. Source paths are relative to the repository.

Contents: the system (components, state, interaction, what is hard), the plan, the modules and their correspondence to
the code, the runs, the proofs, what is known to fail, what is not modelled.

## 1. The system

hk4e is a server cluster written in Go. Clients speak an encrypted protocol over KCP (a reliable UDP transport) to
a **gate**; a gate passes their messages on to a **game server** (gs), which holds the player in memory; a **node**
server keeps the registry of servers and a map of who is online where; mongo and redis keep the players. All servers
are joined by a message queue over NATS, with a direct TCP channel between a gate and the servers it talks to.

| component | state | operations | talks to |
|---|---|---|---|
| player records (`gs/game/game_user_manager.go`, `game_local_event_manager.go`, `gs/dao`) | `playerMap`, `DbState` of each player, `saveUserChan`, the player collection in mongo, the player key and the lock key in redis | `OnlineUser`, `OfflineUser`, the periodic copy (`RunUserCopyAndSave`) and exit copy, the saver goroutine, `LoadTempOfflineUser`/`SaveTempOfflineUser` for offline players | mongo, redis, the main loop's local event channel |
| gate sessions (`gate/net/session.go`, `kcp_connect_manager.go`, `kcp_event.go`) | a `Session` per connection with `connState`, `sessionConvIdMap`, `sessionUserIdMap`, the send goroutine's own two maps and `reLoginRemoteKickRegMap`, `globalGsOnlineMap` | accept, `getPlayerToken` with the interrupt login (local or remote kick), login, forwarding, closing, the refresh of the online map | game servers over TCP, everybody by broadcast, the node by RPC |
| game server main loop (`game_route_manager.go`, `game_tick_manager.go`, `player_*.go`) | one goroutine owns all players and worlds; timers and local events are its other inputs | one handler per client message, ticks each 100 ms, second and minute (the keepalive) | gates, other game servers, anticheat, pathfinding |
| worlds and multiplayer (`game_world_manager.go`, `player_multiplayer.go`) | `worldMap`, each world's players, owner, `waitPlayerMap`, peer ids | apply, accept, enter, wait, leave, kick, cross-server join | the gate, for the change of server |
| teams (`player_team.go`) | four saved teams per player, the local team in a world, the world's team of four, the active avatar | set up, choose, change avatar, come and go | worlds, scenes |
| scenes and groups (`player_scene.go`, `game_world_scene.go`, `player_fight_sync.go`) | `SceneLoadState`, enter-scene tokens, entities, loaded groups and suites; in the owner's record what was killed or opened | the four-message enter handshake, moving, killing, opening, loading and unloading | clients, scripts, quests |
| scripts and ticks (`lua_trigger.go`, `lua_func.go`, `game_tick_manager.go`) | variables of a group, timers of a player, the depth of nested Lua calls | triggers on events, library functions, ticks each 100 ms, 200 ms, second and minute | scenes, quests |
| big world (`pkg/alg/aoi.go`, `player_fight_sync.go`) | the cells and who is in them, entries of combat not yet forwarded | enter, move, leave, teleport, change avatar, forward | clients |
| items, weapons, avatars, reliquaries (`player_item.go`, `player_weapon.go`, `player_equip.go`, ...) | counts, objects with the avatar that wears each, avatars with what they wear | wear, swap, lock, level, promote, refine, buy | clients |
| quests (`player_quest.go`) | a state per quest | accept, start, progress, finish | scripts |
| gacha (`player_gacha.go`) | two pity counters and two promises per pool | draw | items |
| card game (`game_gcg_manager.go`, `player_gcg.go`) | games, two controllers, the phase, the cards in hand and in play | start, phase changes, skills, card playing | one client and an AI with goroutines of its own |
| stamina and vehicles (`player_stamina.go`, `player_vehicle.go`) | stamina, cost and restore delay of each player; skiffs, their members and who made them | motions, ticks, drowning, making, entering, leaving skiffs | scenes |
| commands (`game_command_*.go`, `gs/service/gm.go`) | two queues of commands | parse, check permission, execute; calls of the GM service | every other part of the main loop |
| friends and chat (`player_social.go`, `player_chat.go`) | friend lists and applications in both records; messages in both players' lists and in mongo; the map of players of other servers | apply, accept, delete, send, read, pull, also for players elsewhere or offline | player records, other game servers |
| node (`node/service`) | instances by type, `gsIdMap`, the online map | register, cancel, keepalive, removal of the dead, choice of a server, stop announcements | every server by RPC, broadcasts |
| message queue (`common/mq`) | TCP connections by appid, the topics, reconnection loops | send to one (TCP or NATS), broadcast (NATS), handshake, reconnection | NATS |
| KCP (`gate/kcp`, `kcp_connect_manager.go`) | windows, buffers and numbers of a connection; the listener's table of sessions, the accept queue, the connection count | handshake, send, receive, resend, acknowledge, accept, close | clients, gate sessions |
| dispatch and SDK (`dispatch`) | accounts, two counters in redis, tokens | register, log in, combo token, verification for a gate | mongo, redis, gates |
| gm, anticheat, pathfinding, robot | little or nothing | HTTP or message handlers | gates, game servers |
| algorithms (`pkg/alg`) | AOI grid, queue, snowflake ids, BFS | pure or single-owner data structures | game server |

How they interact, from a connection to the end of a session:

1. A client opens a connection to a gate and sends `GetPlayerTokenReq`. The receive goroutine of the connection runs
   `getPlayerToken`: it looks the player up in the gate's online map; when the player is online it registers with the send
   goroutine, kicks the other session (its own, or by broadcast the one of another gate) and waits for the offline
   broadcast; then it stores the session and asks the node for a game server.
2. `PlayerLoginReq` goes to that game server. `OnlineUser` starts a goroutine that takes the redis lock of the
   player's offline data, loads the record, fills the cache, unlocks, and posts the result to the main loop, where
   `OnLogin` makes the player online, answers, and broadcasts the online state.
3. While the player plays, the main loop periodically copies the players, four at a time, and hands the copies to the saver
   goroutine, which inserts or updates mongo and then redis. The friend handlers read and edit players who are offline.
4. A closed connection, a missing ping, a kick or a move to another server lead to `OnUserOffline`: a goroutine writes
   mongo and redis and posts the end; the main loop deletes the player and broadcasts the offline state, on which the gates let
   the next session in. A player who joins a host on another server is saved the same way, and the gate then logs in there in
   the client's name.

What is hard about it, and what correctness means, per component:

- *Player records.* Four kinds of goroutine write one document without a common order. An older copy must not replace a newer
  one, a fresh character must be inserted once, whatever is lost on a crash must be bounded by the last save, the lock must have one
  holder, logins and logouts must end.
- *Gate sessions.* Broadcasts and direct messages are unordered with each other; closing, the create and destroy channels and the
  answer of the game server race; every server may stop. One session of a player must exist in the whole
  cluster, no online session may be thrown away unsaved, the online maps must agree with the servers, an entry must not
  lock a player out for good.
- *Worlds, teams.* A player must be in exactly one world, a world must not exceed its size, no request may dereference a world that
  is gone, peer ids must be unique, everybody in a world has an avatar on the field. Joining crosses servers and waits for loading guests.
- *Scenes, scripts.* What stands in a scene, what its groups say stands there and what the owner's record remembers are three
  accounts of one thing, changed by several players, timers and scripts that call back; a chest must pay once, a fight must
  be winnable.
- *Big world.* Nobody is told what to see: clients put it together from what enters and leaves the cells around them, and the
  sums must come out right however the others move.
- *Items, quests, gacha, stamina, card game.* Protocol states, counters and cross references stay consistent over every
  sequence of legal requests; who pays gets something.
- *Friends, chat, accounts.* Two records are written for one fact, by goroutines and servers that know of each other through
  messages; the two must agree in the end, and an id or token must have one holder.
- *Node.* No two game servers with one gsId, no stopped server chosen for long, one main game server.
- *Message queue, KCP.* A message to one server arrives at most once and in order while the channel stands; reconnection must not
  drop the newer connection. A client's stream arrives whole and in order over a network that loses, repeats and reorders.

`PROJECT.json` lists the hazards with the line at which each bites and the properties about it.

## 2. The plan

| order | module | composes | abstract specification | runs | theorems |
|---|---|---|---|---|---|
| done | `UserManager` | stores, saver, main loop | `PlayerSession` | um_store, um_live, um_overtaken | types, one insert, bounded rollback, implements `PlayerSession` |
| done | `GateSession` | gates, game servers, node map, queues | `PlayerSession` | gate_admit, gate_faults, gate_move, gate_live | types, admission, no session lost, the maps, implements `PlayerSession` |
| done | `Discovery`, `MessageQueue`, `Kcp`, `KcpListener`, `Social`, `Accounts` | what lies between processes, in `MCCluster` | FIFO delivery (`Kcp`) | cluster | all properties, in each module and in the composition |
| done | `Multiplayer` | worlds and scene entering of one game server | | game, mp_world_id | none: folds over sets and sequences |
| done | `Team`, `CardGame` | teams in a world; a card game against goroutines, in `MCGame` | | game | none: the first follows its players through half-entered worlds, the second interleaves programs |
| done | `Scene`, `BigWorld`, `PlayerItems`, `Quest`, `Gacha`, `Stamina` | what one main loop handles, in `MCGame` | a partial bijection between wearers and things worn (`PlayerItems`), the cells' contents (`BigWorld`) | game, items_swap | all properties |
| done | `Scripts`, `Commands` | the rest of it, in `MCServer` | | game, timer_early | none: stacks and orders of arguments |
| 1 | `SaveSelection` | the sort by `LastSaveTime`, batches of four, the wrap of the 32-bit clock | "the longest unsaved first" | bounded inputs | selection lemmas |
| 2 | a gate's whole shutdown, reliquary levels, counters of quest contents, the region list | | | larger instances of the existing runs | |

The runs are kept to the questions worth asking again after a change. A failure that is understood and written down in section 6 makes
room for the runs of other modules.
Proofs still worth doing: the agreements of `Multiplayer`, and `ActiveOnField`. No module uses a recursive operator: recursion in the code is a stack in the model (`Scripts`, `Quest`) or a fold.

## 3. The modules

### PlayerSession

The abstract promise: for each player one session, on one server, which goes free -> loading -> online -> saving ->
free; only the end of the server's process may cut it short. It has no messages, stores or goroutines.
`UserManager` and `GateSession` each define `Session`, an INSTANCE of it with a refinement mapping, and `OneSession`, its
specification. In `UserManager` the stage comes from the state of the session and the stage of the login goroutine; in `GateSession`
the server is the one that has the player or a goroutine of theirs. The two refinements meet: `UserManager` takes for granted
(`GateAdmits`) what `GateSession` establishes (`AdmissionHolds`).

### UserManager

One game server. A player's data is a version number: every handler that changes a player makes a new version (`Play`), so
that "which data is stored" is all a step can get wrong.

| variable | code |
|---|---|
| `main` | what the main goroutine does: free, blocked on `saveUserChan` (`handoff`), inside an offline access (`temp`), in `Close` |
| `player` | `playerMap`: `Online`, `DbState`, and the stages of `OfflineUser`'s goroutine on its copy |
| `login` | the goroutine of `OnlineUser`: lock, load, cache, unlock, posted |
| `temp` | `LoadTempOfflineUser` ... `SaveTempOfflineUser`, and the goroutine the latter leaves behind |
| `hand`, `saver` | the batch offered on the channel, and the batch `saveUserHandle` is writing |
| `db`, `docs`, `redis`, `lock` | `FindOne`'s result and the number of documents; the cached record; the lock key |
| `latest`, `floor`, `created` | ghosts: the newest version, the newest version a periodic save has landed in a session, characters made |

Each database call is a step of its own, so that a crash, an error or another goroutine may come between any two. Kept from
the code although they look wrong: an error on loading reads as "no such player"; `DistLockSync` gives up after its retries and returns
true; `DistUnlock` deletes the key whoever set it; `DbInsert` becomes `DbNormal` when the copy is made and not when it is written;
an error ends the writing of the whole batch; `AskAddFriendReq` may return with the lock held.

### GateSession

One player, any number of connections, gates and game servers. Sessions of different players do not share state except the
maps, which are indexed by player, so one player is enough.

| variable | code |
|---|---|
| `conn` | `Session` and its goroutines: `connState`, where `getPlayerToken` is, `userId` bound or not, `gsServerAppId`, who is inside `closeKcpConn`, whether `conn.Close()` and the closing of the send channel happened |
| `gate` | `sessionConvIdMap`, `sessionUserIdMap`, the maps and channels of `sendMsgHandle`, `globalGsOnlineMap` and the refresh of it, the events to `forceCloseKcpConn` |
| `gs` | the player object on each game server, the login goroutines (`loads`) and logout goroutines (`saves`), which `UserManager` has in detail |
| `toGs`, `toGate` | the TCP channels: FIFO |
| `bc` | NATS broadcasts not yet received. One NATS server orders them, so every receiver sees the same order; they are unordered with the TCP messages |
| `node` | the node's online map |

`sessionUserIdMap` really is keyed by the player, and closing an old connection deletes the entry of a newer one; the two maps of the send
goroutine follow through two channels read in any order. The closing test of `closeKcpConn` reads `connState` without a
lock, so two goroutines may both pass it (`MayClose`, bounded by `MaxRaces`). A panic (closing or sending on a closed channel)
ends the gate: `GateDown`.

Three things that nothing in the code prevents break what the gates promise, and the model lets them happen. It counts them in `used`: `overlap`, a login or a move
starts while a login of the same player is under way; `late`, a game server takes a login before a broadcast that was sent earlier; `refresh`, an answer of the node
changes what a gate's map says. The properties say what holds until then (`Orderly`: no overlap, no refresh that changed a map; `OnTime`: nothing late either). `Mishaps` only
bounds which of the three a run explores, `MaxSyncs` how often the maps are refreshed, unless they are for ever (`Steady`, which the liveness run needs); the theorems assume nothing of
them. Section 6 says what is found after a mishap.

Assumptions on the environment: a client sends each request of the login once; it pings while its connection is served, so the keepalive
(a minute) never fires for it, and the gate's receive timeout (30 s) is shorter; a stopped server's appid never returns,
because a new process draws a new one.

### Multiplayer

The worlds of one game server, for a fixed set of players. Every handler runs on the main loop and is one action; what interleaves is
the clients' messages, sessions that end, and other servers. Handlers are operators on a record of the server's state
(`State`, `Take`), because they call each other and may panic half-way: the main loop recovers and goes on with what was changed. A
handler that ranges over a Go map returns a set of results, one per order that makes a difference.

| variable | code |
|---|---|
| `cur`, `obj` | the players in `playerMap` and their objects (`WorldId`, `SceneId`, `SceneLoadState` done or not, `CoopApplyMap`). A session has an object of its own, `<<player, slot>>`, since a world may keep the object of a session that is over |
| `frozen` | `NetFreeze`: told to reconnect, no longer heard |
| `worlds` | `worldMap`: owner, `peerList`, `playerMap`, `multiplayer`, `waitEnterPlayerMap`, the scenes and who is in each |
| `mpNum` | `multiplayerWorldNum` |
| `entries` | the `PlayerEnterSceneNotify` a client has still to answer |
| `invites` | hosts that agreed to a client which has not joined yet |
| `coming` | the host a player of another server will log in here to join |
| `strayed` | ghost: the sessions that joined a world while still in one |

A world's id is an input: `UniqueIds` says whether `CreateWorld` gets an id no world has (the assumption of the passing run) or may get
that of another (what `uint32(GenId())` does). A client answers a scene entry after it was sent one, joins only a host
that agreed, and applies at any time. `MaxEntries` caps the entries a client has not finished; what exceeds it is not sent.

### Between the processes: `MCCluster`

`MCCluster` explores six independent modules. A behaviour chooses one at the start (`part`). `Discovery` is extended and `Kcp` has variables of its own, so that theirs keep their
names; the others run on the shared variables `v1`, `v2`, ..., where the module of proofs about a part is instanced, so that its theorems can be cited of
the part; the INSTANCE of the part lists which of its variables each stands for, which is how a trace is read. What is not used
stays 0. A property of the run is named for its part and says nothing of the others.

**Discovery** (part `nodes`): `node/service/discovery.go` and the start and end of each server.

| variable | code |
|---|---|
| `proc` | a server process: stage of its start (registered, gsId found, assigned, told the main server, up), its number of starts, its gsId, whether it reaches the node |
| `inst` | `serverInstanceMap`: appid -> age of the last keepalive in periods of 15 s, gsId, load |
| `phase` | when the next `removeDeadServer` is due: the sweep is not aligned with any keepalive |

A process draws a new appid at each start. `RegisterServer` stores the instance, then reads the ids, then writes one: three steps, since two
registrations may run at once. `disturbed` marks behaviours where they did, or where the node forgot a running server (a
restart, a pause longer than the sweep): the code promises unique ids only outside them.

**MessageQueue** (part `queue`): `common/mq/nats.go` between a game server and a gate. `queued`, `handled` are the sending goroutine's input;
`registered` is `gateTcpMqInstMap`; `events` and `deadEvents` the channels between the goroutines; `conns` the TCP connections
with their two pipes and readers; `bus` NATS; `got` counts arrivals. A write that fails sends the message by NATS although part of it may be in
the connection, and a deadline that can't be set does so without reporting the connection dead (`FallbackNatsMqSend`). A gate starts a connection's reader and then posts its connect event (`PostConnect`), which
the reader's disconnect event may overtake. A greeting read with the first message in one `Read` leaves a connection nobody reads (`coalesced`).

**Kcp** (part `stream`): one direction of a connection. `written`, `dropped`, `read` are what the application sees; the sender's and
receiver's variables carry the names of `kcp.go` (in `MCCluster` too, beside `Discovery`'s); any part of what is sent reaches the set `net`, and a packet handled may stay in it, which gives loss, repetition and
reordering at once. Numbers wrap at `SnMod`, and comparisons are `_itimediff`'s. Timers are choices: `Update` may send or resend any segment that
may be on its way.

**KcpListener** (part `listen`): the Enet handshake, the table by conversation, the accept queue and `closeKcpConn`. `socks` are the `UDPSession`s, `sessions`
the listener's table, `registered` the gate's, `connNum` is `CLIENT_CONN_NUM`. `raced` marks two goroutines inside `closeKcpConn` for one
connection, which makes the count wrong.

**Social** (part `friends`): friends and chat of players on two game servers. `friends`, `applies` are the records in memory or, offline, stored;
`stage` has each step of a login and of a logout: an edit of the stored record `Lasts` only while no server is to store its own over it. `knows` is `remotePlayerMap`; `mail` the server messages; `list`, `isRead`, `writes`, `chatMsg` a conversation's two
lists, the goroutines that still have to insert, and the collection. A message object is shared by the two lists of one server and not by those of
two. `lost` and `missed` record what the code gives up: a notice for a player that has gone, an edit of a record that could not be had (`LoadTempOfflineUser` returned nil) or that its server stores over, a message
said while one logs in, and the newest messages when more than `MaxQuery` are found at a login. The properties say what is left.

**Accounts** (part `sdk`): HTTP requests to the dispatch server as sequences of single reads and writes (`reqs` has where each is) of redis and
the account collection.

### On the main loop: `MCGame` and `MCServer`

`MCGame` does the same with the eight modules that `GameProofs` is about: `PlayerItems`, `Gacha`, `Scene`, `Quest`, `BigWorld`, `Team`, `CardGame` and `Stamina`. Their constants and
variables keep their names, but for those that would clash (`Visitors`, `QuestIds`, `Wanderers`, ... stand for the modules' `Players`, `Quests`, ...; each INSTANCE
lists them). `MCServer` extends `MCGame` and `Multiplayer`, whose variables keep their names (part `worlds`), and adds
`Scripts` and `Commands`, which share the registers `v1` to `v7`. It is what the run checks: its steps are steps of `GameSpec` or leave `MCGame`'s variables alone, so that a
behaviour of `ServerSpec` is one of `GameSpec`.

**PlayerItems** (`items`): counts of items; weapons, reliquaries of one slot and avatars, with `hand`, `slot` and `guids` the avatar's side of
who wears what. A request the code refuses without a change is no step. `doubtful` are the avatars of which the code promises nothing: a grant left one
unarmed, a swap robbed it, or it traded weapons with one of those. `Relogin` rebuilds `hand`, `slot` and `guids` from what is stored, as `InitDbAvatar`
does. Numbers of the tables are scaled down. What the code does not refuse is a step here too: a weapon fed to itself, an item named twice in one request (`OreNamedTwice`), a refinement
without the coins.

**Team** (`teams`): `team`, `current`, `saved` are the record; `local`, `index`, `worldTeam`, `peers` the world's. `UpdateMultiplayerTeam` cuts the world's team
out of the local ones on every change, so each action ends with it. The handlers look for the avatar a client names in its local team or in the list it sends, not among those with a seat, and keep -1 as index when it
is not there: `astray` marks the players whose own client last did that. Joining is two steps, and a player whose record lost its active avatar enters half: it is a peer and no more.

**Scene** (`groups`): `phase` is `SceneLoadState`; `scene` has for each group what stands of it in the scene (`there`) and what each loaded suite holds,
`kills` and `states` are the records of host and guests (what was killed or opened, which lever was pulled), `old` the place the enter context remembers, `pending` the timers. A group is loaded within
`GROUP_LOAD_DISTANCE` on both axes (`Near`), and a multiplayer world keeps it as long as somebody is within it on one (`Beside`).

**Scripts** (`fights`): one group with a script, as a table of triggers whose actions are sequences of library calls. A call raises the next event
before it returns, which makes what is left of the handler a stack of tasks; a nil entity panics inside Lua and the rest of the action is left out; a teleport is one step with the client's two answers to it; an event's outcomes are a set, because the suites are
a Go map that may grow while it is ranged over.

**BigWorld** (`big`): `grids` are the cells of `aoi.go`, with gids and `GetSurrGridListByGid` computed as there, borders included; `sees` is what a client shows, made
only from the notices it was sent. `AreaLimit` and `NetFreeze` as in the code. Entries of combat and of abilities wait in `said` for `UnionCmdNotify`; the abilities and focus
notices that are forwarded at once go through `ForwardNow`, and `heard` has who was sent the last of either.

**Quest** (`quests`): `agenda` is the call stack of the running handler: starting a quest runs scripts, which may notify quests, which accepts others,
before the first acceptance has gone through the rest of its list. A pass of `AcceptQuest` ranges over a Go map: the quests it accepts come in some order (`Orders`), each
seeing those before it, and every other one was looked at when it could not be accepted (`Pass`).

**Gacha** (`wishes`): the counters of one pool with the weights of the tables; a draw is any outcome the corrected weights leave possible.

**CardGame** (`cards`): `game` holds the phase, the cards and, for each controller, what it may do and the message packs it has not read. The main loop and each
goroutine of the computer's have a program (`todo`, `ai`), a sequence of instructions on the one game they share, and a step is one instruction of any of them. `SendMsgPack` sends a list and clears it in
two instructions, so that what another adds between them is lost. `amiss` marks a duel where that happened, or where the client answered before the goroutines were done.

**Stamina** (`sea`): `info` is `StaminaInfo` with the stamina and the ticks to its restoration, `aboard`, `last`, `skiffs` who sails
what. `Worlds` says which players there are and how often they may move: one player with many motions, or two with skiffs to share.

**Commands** (`orders`): the queue of commands, each with the player object of the login it was typed in; the arguments are taken in any order.

## 4. The runs

`MCUserManager`, `MCGateSession`, `MCMultiplayer`, `MCCluster`, `MCGame` and `MCServer` define the small sets.

| run | instance | what it shows |
|---|---|---|
| um_store | 1 player, 4 versions, 3 sessions, 1 failed write, 1 lock takeover, 1 stop, copy loop cut anywhere | `OneInsertPerCharacter`, `RollbackBounded`, and that the server implements `PlayerSession` |
| um_live | 1 player, 1 offline access, 1 failed read, 1 lock takeover | until the takeover `LockExclusive`; every version reaches mongo while the player stays (`PeriodicSaveLands`); logouts end, and logins whose lock call returns without an error |
| um_overtaken | as um_store without faults | violation: the saver's older batch overtakes the logout's write, the next login loads the older record |
| gate_admit | 2 connections, 2 gates, 1 server, 1 failing token request | `AdmissionTyped`: at most one session is admitted, with kicks inside a gate and across gates |
| gate_faults | 2 connections, 1 gate, 1 server; a server stop, a gate stop, a closing race | `OneSession` (implements `PlayerSession`), `NoSessionLost` |
| gate_move | 1 connection, 1 gate, 2 servers, 1 move, 1 server stop, 1 refresh, late broadcasts | `MoveHolds`: admission across servers, late broadcasts or not, and no session lost until one is late; `MapsAgree`: what the map says once all is handled, until one is late or a refresh out of date |
| gate_live | 1 connection, 2 gates, 1 server, a gate stop, a failing request, refreshes for ever, all mishaps | `EntryCleared`: nobody is locked out for good by a map entry |
| cluster | see `MCCluster` | between the processes: below |
| game | see `MCServer` | on one main loop: below |
| mp_world_id | as the worlds of `game`, ids that may repeat | violation of `WorldIdAgrees`: a new world replaces one with the same id |
| items_swap | 2 avatars, 2 reliquaries, 3 weapons | violation of `SwapDresses`: of two avatars that swap reliquaries, one ends with none |
| timer_early | the group of `game` | violation of `TimerWaits`: a script's timer is due at the next tick whatever its delay |

The properties of `cluster`:

| property | says |
|---|---|
| `IdsAgree` | running game servers have different gsIds and agree on one main server, unless registrations overlapped or the node forgot one |
| `AnswersFresh` | no answer of the node names a server that has been silent for two sweeps |
| `OneWay` | a message arrives once at most, and is lost only with a broken connection or a greeting read with a message; the connecting and the sending goroutine agree on who is connected |
| `Fifo` | a stream arrives whole and in order; what the sender forgets the receiver has; a reader that waits for the rest of a message has room for it |
| `TableAgrees` | the listener's table is the live sessions; the reported load is the open connections, but for a closing race |
| `FriendsMutual` | friendship is mutual, or the message that makes it so is on its way, or came to a player that had gone, or the edit went into a record that its server was still to store over or that could not be had |
| `ChatComplete` | what a player online lacks of a conversation is on its way, was said while it logged in or out, was left out by the login's query, which reads the oldest `MaxQuery`, or was pushed out of a full list by messages newer or late |
| `IdsUnique` | no two accounts share an id once the counters exist; a name keeps its account |
| `TokensGood` | a token not replaced is good until a day goes by |

The properties of `game`:

| property | says |
|---|---|
| `WorldIdAgrees`, `WorldsAgree`, `GuestsSentAway` | every player is in the world its object names, listed once unless it joined it while in another; while nobody has, the books of the worlds and their number agree; an owner that leaves takes nobody with it but those that have been told to reconnect |
| `EquipAgrees`, `NothingLostInVain` | the three records of who wears what agree, as a login would rebuild them; whoever pays gets something, but for four requests (`InVain`) |
| `ActiveOnField` | whoever comes and goes, the active avatar of a player stands in the world's team, unless its own client chose one without a seat or one has entered the world half; the record agrees; seats are shared as they are due |
| `ChestPaysOnce`, `SuitesAgree` | a chest pays once per owner's world; what stands in a scene is what its suites hold |
| `ChestComes` | the death of the last monster brings the chest, and every death is counted, in any order of the suites |
| `FinishOpensNext` | between requests no accepted quest is unstarted, and none that waited for a finished one is left behind |
| `Pity`, `UpGuaranteed` | ten draws hold an item of four or five stars, ninety one of five; of two of a rarity, one is featured |
| `TurnPasses` | when the main loop and the computer's goroutines have done what they had to, the duel waits for the player, whose client knows it; while the client may attack no skill of the computer's is under way; until packs are lost or the client was faster than a goroutine |
| `StaminaAgrees` | stamina grows only after its delay; who takes itself to be aboard is in its seat |
| `SeesAgree`, `HeardBySeers` | a client shows what is there; combat entries reach nobody that does not show the sender |
| `OrderNeverMatters` | a command comes to the same in whatever order its arguments are taken |

A property that makes an exception says so in the comment before it, where a ghost that carries the exception is explained, too; the behaviour of the code behind it is in section 6.

Symmetry is used where the members are interchangeable, and never in a run with a liveness property: connections, gates and servers in
`GateSession`, the two servers in `MCCluster`, in `MCServer` the players that are neither newcomers nor of another server. `CHECK_DEADLOCK FALSE`
stands in the gate runs, in `cluster`, `game` and their companions: connections are opened once each, and once the bounded events are used
up the players have nothing left to do. The runs of `UserManager` check for deadlock.

Why the bounds are enough. In `UserManager` a stale write needs two copies of one player in flight and a third write between them: the
batch being written, the batch offered and a logout, which three sessions and four versions allow; players do not interact except
through the one saver (a batch ends at its first error), which the proofs cover for any number of them, as they do for the bounds. In
`GateSession` the interrupt login is between two sessions, an old and a new one, on the same or different gates; a third
connection would be a second interrupt login while the first is waiting, an overlap, after which nothing is promised. Two servers
suffice for a move from one to another, with the one connection it is made on. In
`Multiplayer` a full world needs a third player, and so does a host that leaves while one is waiting; the code's worlds take four, and
nothing in it depends on that number but the test for a full world. Two worlds at a time let a player leave its own for
another's and come back.

- `Discovery`: two game servers for the two ids there are, so that one taken too early is taken twice; three starts let one come back after a crash.
  `DeadAfter = 2` keeps the sweep and the silence unaligned.
- `MessageQueue`: the second connection replaces the one that breaks, with messages on either side of the break.
- `Kcp`: a message of two segments and one after it, on both sides of the wrap of the numbers, with a window of two: a segment can be late by a
  whole window. `KcpListener`: one number that is closed and made again by a late packet, beside a second one.
- `Social`: five budgets, because logins, friendships and messages multiply; the friends of a third player never meet those of the first two. A list of
  one message is full at once, and three messages let late ones push out a newer one.
- `Accounts`: two requests race and a third sees what is left.
- `PlayerItems`: two avatars to swap, a third weapon as food; packs of one are full at once. `Team`: three players are the only
  number with shares of 2, 1 and 1, with joining from 1 and 2. `Scene`: the spots are inside, beside and far from the group; three
  visits let the host come back. `Stamina`: short delays, since the code only compares them with a count, and two skiffs, of which the second replaces the first.
- `BigWorld`: cells in a corner, in the middle and outside of a grid large enough for a cell two away; every gid computation is by row, plane and
  column. `Gacha`: the real weights and thresholds, no smaller.
- `Scripts`, `Quest`, `Commands`: the made-up data has every kind of condition, trigger and argument the code tells apart; `CardGame`: five
  cards are dealt once, as in the code; the four moves are the choice of a card, the rolling, an attack and the computer's, with another of the
  player's in its place if the client is faster; two goroutines at a time are what one reading of the packs starts.

Fairness. Goroutines that can take a step eventually do: weak fairness for each goroutine, of the operating
system and the Go scheduler. The main loop of a game server chooses at random among its ready channels and is blocked in between, by the
saver or an offline access, so handling a posted event is only infinitely often enabled: strong fairness. The copy is
driven by a ticker. A gate's send goroutine is never blocked, so weak fairness is enough there. No fairness is assumed of
clients (logging in, playing, quitting), of failures, of a restart, or of races. A connection that is not being served ends, because the receive
timeout closes it.

## 5. The proofs

Eight modules hold theorems; `PROJECT.json` lists those a reader should know of. Each is proved for every value of the constants, under the module's named
assumption on them and what the theorem itself assumes, by an invariant that TLC checked first on the module's run.

`UserManagerProofs`, for any players, accesses and bounds:

- `TypeCorrect`: the type invariant, one lemma per group of actions.
- `InsertsCorrect`: a fresh character is inserted at most once. `OneInsertPerCharacter` counts the documents plus the inserts still
  pending (the session's own, the offered batch, the saver's batch) against the characters made; it is inductive with
  `TypeOK`: a copy moves a pending insert from the session to the batch, a write moves it from a batch to the documents, and errors and
  crashes only lose some.
- `RollbackCorrect`: with no offline accesses (`Temps = {}`) and no read errors (`MaxReadFaults = 0`), what a periodic save has
  landed in a session is never rolled back. `RollbackBounded` is not inductive: nothing in it says what the versions in flight
  are. `FloorInv` adds that every version that can still reach the record (the session's, the login's, those of both batches) is at
  least `floor`, and that of two batches holding a player the offered one is the younger, session by session. Both assumptions
  are needed: section 6.
- `SessionRefined`: the server implements `PlayerSession`. The strengthening `SessionInv` says that a login is under way only while
  the player is out and that a stopped process holds no batch (else the saver could set `main` running again). Each action is
  classified by what `PlayerSession` sees of it (`Moves`, `Unseen`), then matched with its abstract action.

- `LockCorrect`: the lock of an offline record has one holder as long as no lock call has run out of retries and no key has expired under its holder. `LockInv` adds what
  `LockExclusive` takes for granted: who is between locking and unlocking holds the key, and the key names them; only goroutines that edit take it. Section 6 says what happens then.

`GateSessionProofs`, for any connections, gates, game servers, crashes and closing races:

- `TypeCorrect`, whatever goes wrong.
- `AdmissionCorrect`: at most one session of the player is admitted, until a login or a move overlaps a login or a refresh changes a map. Admission is decided by a gate from what it has been
  told, so the invariant has to say where the player's one session can be at all. `GateInv` is the conjunction of `TokenStages` and `Registered` (how far a token request is, and
  who waits for whom), `Ended` (what a closed connection has left behind), `OneServed` (one game server has the player, or a goroutine of theirs),
  `OneLogin` (of a connection that has begun, a login request under way, a load, a move, a change of server, there is one in the whole cluster, and it excludes
  the others), `NoNews` (nothing on its way tells of a player online while a login is under way), `OldGone` and `Told` (an offline broadcast is sent after
  the old session has gone, and reaches whoever waits for it). Steps that leave what these speak of alone are classified once
  (`ConnsCalm`, `RequestsCalm`, `ServersCalm`, ...) instead of conjunct by conjunct.
- `SessionKept`, `MoveCorrect`, `MapsCorrect`: until a broadcast has been late as well, no session is thrown away unsaved, not in moves between servers either, and
  the maps agree with the servers once what is on its way is handled, refreshes included. `PromptInv` adds that no offline broadcast is behind an online one of a later session
  (`Undisturbed`) and that a gate or broadcast that knows the player online tells the truth or is about to be corrected (`KnownServed`). The theorems have no hypothesis: mishaps are counted in
  the state and never taken back, so that a step that ends without one begins without one (`OrderKept`), and the invariants are proved of the behaviours up to there.
- `SessionRefined`: the cluster implements `PlayerSession`, every step of it up to the first mishap. The mapping takes the server that has the player or a goroutine of theirs (`At`), which `OneServed` makes
  unique; every action is shown to move its stage as the abstract action does, or not at all.

`ClusterProofs` has the proofs about `Discovery`, `Kcp` and the composition of the cluster:

- `AnswersCorrect`: nothing in the register is older than two sweeps; the invariant ties the age of an instance to the phase of the sweep (`AgeInv`).
- `IdsCorrect`: unless registrations overlapped or a running server was forgotten, running game servers have different ids, those of the register. `IdInv`
  adds that at most one registration is between its steps (`OneAssigned`), that an assigned id is the register's, and that the register has
  whatever runs.
- `FifoCorrect`, for any windows, message sizes and capacities of the network: a stream arrives whole and in order. The invariant `StreamInv` (`Holds`) does not speak of numbers that wrap but of the
  whole stream `S` of pieces that `Send` has made so far, kept from the beginning, and of indexes into it: how far the sender is confirmed (`u`) and has sent (`x`), how far the receiver is (`r`) and the application has read (`q`),
  with `q <= r`, `u <= r <= x`, and of the set `K` of later indexes the receiver holds. `Sent` says that buffer and queue of the sender are the rest of `S`, `Queued` and `Early` that those of the receiver are
  `S` between `q` and `r` and what is in `K`, `Packets` that each packet, however old, is a piece of `S` or acknowledges only what the receiver has, `Kept` that an acknowledged
  segment is in `K` or before `r`, `Cut` and `ReadWell` tie `S` to the messages. The number of index `i` is `SnAt(f, i)`; two numbers differ as their indexes do (`DiffAt`) as long as
  the stream is less than half the range of numbers, `KcpAssumption`'s `SnMod > 2 * (Window * MaxMsgs + 1)`. The bound is needed for a network that keeps a packet for ever: a copy that is
  older than half the range is taken for a new segment. With 32 bit numbers and windows of 255 it covers the first eight million messages of a connection, wherever its numbers begin and
  wrap; beyond it the code relies on no packet being that late, which nothing in it checks. `NeverFull` follows from `Cut`: a message has at most `MaxFrg` segments, and `MaxFrg <= Window`.
- `NodesCorrect`, `OneWayCorrect`, `TableCorrect`, `FriendsCorrect`, `ChatCorrect`, `AccountsCorrect`, `TokensCorrect`: each part keeps its promise in the composition. A behaviour of
  `ClusterSpec` that has chosen a part is, on the part's variables, a behaviour of the part's own specification (`QueueRuns`, `ListenRuns`, ...), to which the
  part's theorem applies; one that has not satisfies the property trivially.

`MessageQueueProofs`, for any number of messages, connections and breaks (`QueueAssumption`):

- `OneWayCorrect`: a message is in at most one place, and in none twice: queued, in a connection's pipe, on the bus, or arrived. `PlaceInv` says so per direction
  (`OnePlace`), with `NoneLost` (each handled message is in one, while nothing broke) and `GreetInv` (what a connection that has not been greeted may hold). Every step is for each direction one
  of three kinds: nothing moves (`Stays`), a message is sent (`Sends`), one arrives (`Arrives`).
- `AddrCorrect`: the goroutine that connects and the one that sends agree. `AddrInv` follows a connection through the event channel: its connect event, then
  its reader, then its disconnect event, of which one always remains (`EndAfter`).

`KcpListenerProofs`, for any clients, conversations, sockets and packets (`ListenerAssumption`): `TableCorrect`, inductive together with the types; `ConnNumCorrect`, whose `ConnInv`
says what each socket may still do to the count: the accept queue holds sessions nobody serves yet, a registered one has left it, and who is inside
`closeKcpConn` has an open connection or was raced.

`AccountsProofs`, for any requests, names and failures (`NobodyAssumption`: the name of no account is none): `IdsCorrect`, `NamesCorrect`, `TokensCorrect`. `IdInv` follows the two
counters through redis, the requests' reads and the accounts; `NameInv` says that an account found under a name is the oldest; `TokenInv` that
what a client holds is what the newest write of its fields left.

`SocialProofs`, for any players and servers: `FriendsCorrect`, friendship is mutual. The invariant adds what a server's message says (`DealsHonest`): whoever is told of a new
friend is that friend's friend already, so that hearing of it completes the pair. The lemmas before it say what sending, taking and broadcasting do to
the boxes of messages. `ChatCorrect`, for any limits of the lists and the query: every message of a conversation is accounted for. `TalkInv` is that from the load of a login on
(`Complete`: what the load leaves out is older than all it takes, or is in `missed`), with what it takes for granted: of two objects of a list the later is newer
or came from another server (`ListsInTurn`), so that what a full list drops, the rest has pushed out, and a chat on its way goes to whom it was said (`ChatsHonest`). `Ordered` says that
ranks put a finite set in order, by counting, without induction.

`GameProofs` states what it proves of `GameSpec`, of which every behaviour the run checks is one; the part a behaviour has chosen never changes, and under any other
part the variables stand still, so the invariants below are about the part's own actions. The assumptions are about the tables and bounds: `ItemsAssumption`
keeps weapons, reliquaries and `Nobody` apart, `SceneAssumption` says that who is near a group is beside it, `QuestAssumption` that the quests are finitely many,
`BigWorldAssumption` that the area has cells, `StaminaAssumption` that the drowned are carried back after two ticks at least.

- `EquipCorrect`: a weapon or reliquary and the avatar that wears it name each other. `WornInv` is `EquipAgrees` in a form that steps preserve (`ArmedOK`, `DressedOK`), with what it
  takes for granted: no other avatar has the weapon of one that is not `doubtful`, what fills a slot names that avatar, and an avatar that is not owned wears
  nothing. Each request comes down to `WornBy` and `TakenFrom`, twice for a swap (`Traded`, `Swapped`), and has one lemma. `EquipAgrees` was false as first stated, which excepted
  the unarmed and not those they traded with: it takes four avatars to see, more than the run has, and the proof attempt showed it (section 6).
- `NothingLostCorrect`: what is paid improves or buys something, but for the four requests of `InVain`. An action property, by the same lemmas: growth is a record that only gets better (`GrowIs`), a promotion or a refinement is paid in full
  or refused (`RefinedIs`), and the requests that are neither are those named.
- `PityCorrect`, `UpCorrect`: `Pity` counts draws since the last four and five star item; `PityInv` bounds the real counters by it, `OweInv` says that a missed
  featured item is remembered until the next of its rarity.

- `ChestCorrect`, `SuitesCorrect`: `SceneInv` says of each group (`GroupSound`) that what stands is what its suites hold, that the chest is once at most and in the first suite, and that there is none
  while the group is not loaded or the owner's record has the chest opened; and that a chest that paid is in that record. Every change of a group is one of the operators `CreateAll`,
  `RemoveSceneGroup`, `GroupDestroyEntity` with `DestroyEntity`, and keeps the group sound; the handlers are made of these.
- `QuestsCorrect`: `QuestInv` says that a quest accepted and not started is on the handlers' stack, and that from the first acceptance on no quest whose conditions (all of them finished quests) hold is without
  being accepted. The second is what a pass establishes in any order (`AcceptOpens`): each quest it did not take was looked at when it could not be taken, and what the
  pass accepts afterwards is not finished. Finishing a quest breaks it, and `TriggerQuest` runs a pass in the same step.
- `SeesCorrect`, `HeardCorrect`: the cells `GetSurrGridListByGid` computes from a number are those around a position (`CellsAround`, a lemma about rows, planes and
  columns for any size, borders included). `BigInv` adds `ViewAgrees`, that a client shows of each player that has not changed its avatar since the object of the active avatar if it is close,
  and no other, and `ObjectsActive`, that the cells hold nothing else. Each action enters, crosses a border, stays within its cell, changes the avatar, leaves or forwards, and has
  a lemma each.
- `StaminaCorrect`, an action property: `StaminaInv` bounds each player's delay by the ticks since its last charge, so that a delay that is over was waited for (`Sound`), through a tick that charges,
  restores and drowns in one step; `SkiffsInv` ties the three records of who sails what (`Owned`, `Seated`), numbers of skiffs being used once.

Model-checked only:

- `ActiveOnField` and `TurnPasses`: the teams of a world that one has half entered and the programs of goroutines beside each other would need invariants of their own, which are not written. They were proved of an earlier model in which
  a player chose only avatars with a seat and a goroutine's move was one step; neither is so in the code.
- The liveness properties (`PeriodicSaveLands`, `LogoutEnds`, `LoginEnds`, `EntryCleared`): fairness and ENABLED are out of the prover's reach.
- What is computed by folds over sequences and sets or by recursive functions, where a proof would be an induction over data: the handlers' stacks of `Scripts`; the orders of
  removal and of serving in `Multiplayer` (`WorldIdAgrees`, `WorldsAgree`, `GuestsSentAway`); the arguments in any order of `Commands`.

## 6. What is known to fail

Kept as runs, with the promise of the repository each contradicts in `PROJECT.json`: um_overtaken, mp_world_id, items_swap, timer_early.

### Found with variants of the configurations, not kept as runs

Player records and sessions:

- An exit loses the last changes of players that are being logged out: `Close` saves `playerMap` and does not wait for the logout goroutines
  (`game.go:263`), and its copy loop is cut after 10 ms like a periodic one.
- One holder of the lock is not promised once a lock call has run out of retries: `DistLockSync` returns true all the same, two edit the record, and the first to unlock deletes the other's key. The early return of
  `AskAddFriendReq` (`player_social.go:268`) leaves the lock to its timeout.
- `LoginLoadsLatest` also fails with one offline access: its goroutine writes after the login has read. It holds for two players with
  no offline access and a saver that is never overtaken.
- `RollbackBounded` fails with one read error: the player is created afresh beside the stored record.
- `EntryCleared` fails when a game server may stop (`MaxStops = 1` in gate_live): the node keeps a crashed server's players in its online map
  (`node/service/service.go:57`), and no gate lets them in again.
- A move loses a session when the old server's offline broadcast is late: the new server deletes the player it has just loaded,
  unsaved (`game_user_manager.go:274`; `NoSessionLost` without its premise). `MapsAgree` fails for the same reason. It says nothing of a server that has closed:
  `Close` broadcasts for players that are online and not for those being logged out, whose entries stay.
- Two sessions are admitted after an overlap (`AdmissionHolds` without its premise, `Mishaps = {"overlap"}`): two logins both look at the map before the first one's online broadcast; and
  the offline broadcast of a move wakes an interrupt login, so that both go on.
- So they are with two connections and a refresh: the node's answer replaces the gate's map after a newer
  broadcast was handled, and the entry of an online player disappears.
- That an active connection can be found by its player fails: the destruction of the old session, handled late, removes the entry of the
  new one.

Worlds:

- An owner that leaves may stay behind as the owner (`player_multiplayer.go:391`): with a guest still loading, the function returns
  before the owner is removed, and the caller goes on, to another world or offline. The comments promise 多人世界房主离开剔除所有其他玩家
  and 房主离开销毁世界; nine steps with three players show a world whose owner is offline.
- A player may be in two worlds: by the same early return, and by waiting to enter a world, logging in again, and being served from the
  old list (`player_scene.go:344`). `strayed` marks these; `BooksAgree` says that nothing else breaks the books. Such a session may be listed twice in one world: it is served again where it has been all the time. Whoever looks its number up finds the first; this takes a
  second entry and was found in a larger instance than the run's.
- A host's agreement is not bound to the world it was given in: by the time a guest comes, the host may be a guest, or alone in a new
  single-player world, which then holds two players.
- More than `MAX_MULTIPLAYER_WORLD_NUM` multiplayer worlds exist when several applications are pending: the limit is tested when a
  player applies and not when the host agrees.
- A late `EnterSceneDoneReq` of an earlier entry marks a player loaded that is loading another scene.
- `DestroyWorld` panics half-way once a player it removes is in a scene the world has not opened, and the world stays in `worldMap`.

### Found while translating, in the model or beside it

Where a property makes an exception, this is why.

*Gates and transport.*
- A handshake that is read together with the first message leaves a connection nobody reads (`nats.go:297`): what is sent on it is lost, although the file's head
  (`:22`) promises the fallback to NATS. A late disconnect event forgets the newer connection (`:250`), so the gate stays on NATS for that
  server. The gate never drains its dead-event channel (`:251`, capacity 1000). The connecting goroutine ends its round at the first dial error (`:379`).
- `Write` accepts a message of up to 256 segments, `Send` refuses more than 255 and the message is gone (`kcp.go:358`).
- `CLIENT_CONN_NUM` can go below zero when two goroutines close one connection; as an unsigned load (`gate/app/app.go:54`) it makes the gate
  the least wanted one. A late packet makes a closed conversation a session again.
- With no pathfinding or anticheat server a player's message to it is a nil dereference (`session.go:471`, `:478`).
- A late `PlayerLoginRsp` makes a closed session active again (`session.go:241`), it is closed a second time, and the gate panics on closing a
  closed channel.
- A server that the sweep removed goes on running: its keepalives get an error and it never registers again. Until the sweep the least
  loaded server may be a dead one.

*Scenes, scripts.*
- In a multiplayer world a player within `GROUP_LOAD_DISTANCE` of a group on one axis keeps it loaded, however far away on the other
  (`||`, `player_fight_sync.go:275`; the comment at `:264` has it unloaded when no player is near, which loading tests on both axes).
- A group's timer that creates an entity after the group was unloaded makes a partial group, which keeps `AddSceneGroup` from loading the rest.
- `AddExtraGroupSuite` creates the npcs of the group once more (`player_scene.go:875`). A chest of an extra suite is lost when the group is
  unloaded before it is opened. A chest that a script creates (`player_scene.go:1001`) pays whatever the owner's record says of it.
- A library call on an entity that is gone panics (`lua_func.go:282`, `:344`, `:481`): the rest of the action is skipped. The limit on nested calls lets
  eleven through where the comment says ten (`:45`, `:17`). A suite added while the suites are ranged over may miss the event. A group unloaded after its first
  wave does not go on. Region events are missed within the 200 ms limit on movements and are not raised by teleports.
- Timers added while the map of timers is ranged over may run in the same tick. A GM reload of the data sends to the channel its own loop drains.

*Big world.* An avatar changed with `ChangeAvatarReq` stays in its cell under the former entity until the player crosses into another; the area limit is tested over 27 cells on
entering and over one on moving (`player_fight_sync.go:424`); a teleport leaves the combat entries of the old place to be forwarded in the new one; GM robots
send to the whole scene and are never removed.

*Items, teams.*
- What gives nothing for what it takes (`InVain`): `WeaponAwaken` takes the food before the coins and gives nothing back (`player_weapon.go:218`); a weapon may be its own food
  (`player_weapon.go:595`) and is gone; ore named twice is tested item by item, so that the first is taken and the second refused. A full pack refuses a purchase after the payment,
  since `AddUserItem`'s answer is ignored. Pack limits are tested with `>`.
- An avatar granted with a full pack, or without a world, has no weapon, and the next handler that wants it dereferences nil (`player_team.go:246`).
- One unarmed avatar spoils others: it takes a weapon and gives none, so that the former wearer still points at it; whoever trades for the weapon the two now share, or with either, may
  be left pointing at a weapon that names another avatar, until the next login rebuilds the pointers (`player_weapon.go`, `player_equip.go`).
- `IsBorn` is set before the avatar's id is tested (`player_login.go:35`). `CurrAvatarIndex` becomes `uint8(-1)` when the active avatar is
  not in the team (`player_team.go:136`). The promotion reward may be taken at a level not reached (`player_avatar.go:206`). The team handlers look for the active avatar in the local team or in the list sent
  and not among those with a seat (`player_team.go:35`, `:194`, `:219`). A player whose record has that index panics on its way into another's world, after it has been made a peer (`game_world_manager.go:361`).
- `AddPlayer` sets everybody's active avatar back to the record's; an avatar cut from the world's team keeps its old entity id; entities of
  replaced local avatars are never destroyed.

*Quests, gacha, cards.*
- `AcceptQuest` makes one pass (`player_quest.go:70`) where the comment before it has all that can be accepted: what one acceptance opens is found at the next
  finish, login or request only. It runs before the player has a world (`player_login.go:61`), so that scripts of quests started there do not run. A script's notification for a
  quest not yet started is lost. A guest's unlocked point counts for its own quests although it is the owner's map.
- The four star counter may pass ten, when a five star item comes at the tenth draw.
- Drawing a card shifts the deck in place, so that its length, and its last card, stay (`game_gcg_manager.go:604` says the card is removed). The computer's goroutines and the main loop write one game without a lock (`game_gcg_manager.go:1196`), and what is added to a list between
  its sending and its clearing is lost (`:725`). Nothing ends a
  game or removes it; the delay `time.Sleep(3*1000)` is three microseconds; a second `GCGAskDuelReq` throws away what the first had yet to send.

*Stamina.* `VehicleRestoreStaminaHandler` takes the skiff one is in, not the one created as its comment says (`player_stamina.go:171`). A member of a skiff is a player object,
which a new login leaves behind. A new skiff replaces the last one only in the same scene.

*Friends, chat, accounts.*
- `LoadTempOfflineUser` may return nil, and the handlers return with one side a friend (`player_social.go:261`, `:353`); an answer to nobody's application makes friends, too (`:308`). An edit of an offline record during that player's logout is overwritten. A list of messages keeps 101.
  It is in the order of arrival: messages of another server that come late push out the player's own newer ones, which the next login has back (`player_chat.go:337`). The query at a login reads the first 1000 messages, not the
  newest (`player_mongo.go:258`), so that the newest are what a player with more lacks. Marking read marks both directions (`:285`). `PullPrivateChatReq` underflows for a short list (`player_chat.go:71`).
- Two first registrations set an id counter back for each other. Two first logins make two accounts of one name, and the newer is never found. A
  token and its time, and the two halves of a ban, are separate writes.

*Commands.* A queued command keeps the player object of a login that may have ended, and dereferences its world. With `--u` together with `--s`, or with a relative coordinate, the
result depends on the order of a Go map (`game_command_controller.go:66`). Every command is registered with permission 0. The queue is filled and drained by one loop: at its limit
the server stands still.

### Larger instances that passed once

2 connections, 1 gate, 1 server with all faults together (862,273 states); 2 connections, 2 gates,
a server stop and a failing request (1.0 million); 1 connection, 2 servers with a move and all faults (45,610); the properties of the worlds with worlds of 3 (294,459), with 3 worlds and
2 ended sessions but no teleport (657,000), and 2 players with 3 ended sessions and 3 applications (348,000).

## 7. What is not modelled

- The encryption and encoding of the protocol, the conversion between its versions, captchas and the region list, mail: one message at a time, no state
  that the properties tell apart.
- Of KCP the round trip times and congestion thresholds: a segment may be sent again at any time.
- Closing all connections of a gate at once; the node's stop announcement, which is passed on, and its white list, which is read.
- The content of the player records: `UserManager` cannot tell a partly changed player from another, and does not need to, because copies
  are made by the main loop between handlers. Which players a round saves: any subset.
- The composition of the parts of `MCGame` with each other. They share the main loop, so handlers do not interleave; what one part's handler does to another is
  an input of the other (a script's notification in `Quest`, a world that is left in `Team`, `Scene` and `PlayerItems`).
- The parts of `MCCluster` likewise: `Social` takes from `GateSession` that a player logs in when its last logout is through.
- A concurrent map access detected by the Go runtime (`syncRemotePlayerMap` reads `playerMap` from another goroutine): it ends the process,
  which `Crash` covers.
- Reliquary levels and properties, costumes, fight properties, drops, weather, cooking and the like: handlers that change one number of one record.
- Costs and hit points of the card game; contents of quests that count beyond one.
- World chat, profile settings, the host settings "nobody" and "anybody", which nothing in the code sets.
- The robot client, gm's HTTP front, anticheat and pathfinding, which keep nothing the rest depends on; the parsing of game data.
