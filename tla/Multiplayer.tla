----------------------------- MODULE Multiplayer -----------------------------
(***************************************************************************)
(* The worlds of one game server and the players in them                   *)
(* (gs/game/player_multiplayer.go, game_world_manager.go): a player owns   *)
(* the world it logs in to, opens it to others, and joins and leaves the   *)
(* worlds of others.                                                       *)
(*                                                                         *)
(* Every handler runs on the main loop and is atomic; what interleaves is  *)
(* the messages of the players' clients, connections that end, and the     *)
(* messages of other game servers.  A handler that panics keeps what it    *)
(* had changed: the main loop recovers and goes on.                        *)
(*                                                                         *)
(* A session of a player is an object, <<player, slot>>: a world may go on *)
(* holding the object of a session that is over.  Handlers are operators   *)
(* on a record of the server's state, set-valued where Go's map order      *)
(* decides the outcome.                                                    *)
(***************************************************************************)
EXTENDS Naturals, Sequences, FiniteSets, SequencesExt

CONSTANTS
  Players,     \* player ids
  Newcomers,   \* the players that have still to make their character
  Remote,      \* the players that may also be found on another game server
  WorldSize,   \* players a world takes, 4 in the code
  MpLimit,     \* MAX_MULTIPLAYER_WORLD_NUM
  UniqueIds,   \* whether a new world's id differs from those of the worlds there are
  Slots,       \* bound: session objects of a player that may exist at a time
  MaxWorlds,   \* bound: worlds that may exist at a time
  MaxEntries,  \* bound: scene entries a client has been sent and not finished
  MaxApplies,  \* bound: applications to enter a world
  MaxLogouts,  \* bound: sessions that end
  MaxTeleports \* bound: teleports

ASSUME BoundsAssumption ==
  /\ WorldSize \in Nat \ {0}
  /\ UniqueIds \in BOOLEAN
  /\ {MpLimit, Slots, MaxWorlds, MaxEntries, MaxApplies, MaxLogouts, MaxTeleports} \subseteq Nat
ASSUME PlayersAssumption == IsFiniteSet(Players) /\ Newcomers \subseteq Players /\ Remote \subseteq Players

VARIABLES
  cur,      \* the slot of each player's session in playerMap, 0 when offline
  obj,      \* the session objects
  frozen,   \* the players whose session is frozen (NetFreeze)
  born,     \* the players that have made their character
  worlds,   \* worldMap
  mpNum,    \* multiplayerWorldNum
  entries,  \* the PlayerEnterSceneNotify each client has still to answer
  invites,  \* the hosts that agreed to a client it has not joined yet
  coming,   \* the host a player of another server will log in here to join
  strayed,  \* ghost: the sessions that joined a world while still in one
  used      \* bounded events used so far

vars == <<cur, obj, frozen, born, worlds, mpNum, entries, invites, coming, strayed, used>>

Scenes == {"open", "dungeon"}
Objs == Players \X (1..Slots)
WorldIds == 1..MaxWorlds
ObjType == [world: 0..MaxWorlds, scene: Scenes, loaded: BOOLEAN, coop: SUBSET Players]
WorldType == [owner: Objs \cup {<<>>}, peers: Seq(Objs), players: SUBSET Objs, mp: BOOLEAN,
              wait: SUBSET Players, scenes: [Scenes -> SUBSET Players],
              opened: SUBSET Scenes]
NoWorld == [owner |-> <<>>, peers |-> <<>>, players |-> {}, mp |-> FALSE, wait |-> {},
            scenes |-> [c \in Scenes |-> {}], opened |-> {}]
NoObj == [world |-> 0, scene |-> "open", loaded |-> FALSE, coop |-> {}]

Events == {"apply", "logout", "teleport"}
Bound(e) == CASE e = "apply"    -> MaxApplies
              [] e = "logout"   -> MaxLogouts
              [] e = "teleport" -> MaxTeleports
Spend(e) == used[e] < Bound(e) /\ used' = [used EXCEPT ![e] = @ + 1]

TypeOK ==
  /\ cur \in [Players -> 0..Slots]
  /\ obj \in [Objs -> ObjType]
  /\ frozen \subseteq Players
  /\ born \subseteq Players
  /\ worlds \in [WorldIds -> WorldType]
  /\ mpNum \in Nat
  /\ entries \in [Players -> 0..MaxEntries]
  /\ invites \in [Players -> SUBSET Players]
  /\ coming \in [Players -> SUBSET Players]
  /\ strayed \subseteq Objs
  /\ used \in [Events -> Nat]

Init ==
  /\ cur = [p \in Players |-> 0]
  /\ obj = [o \in Objs |-> NoObj]
  /\ frozen = {}
  /\ born = Players \ Newcomers
  /\ worlds = [w \in WorldIds |-> NoWorld]
  /\ mpNum = 0
  /\ entries = [p \in Players |-> 0]
  /\ invites = [p \in Players |-> {}]
  /\ coming = [p \in Players |-> {}]
  /\ strayed = {}
  /\ used = [e \in Events |-> 0]

-----------------------------------------------------------------------------
\* What a handler works on, and how an action takes over its result.
State == [obj |-> obj, frozen |-> frozen, worlds |-> worlds, mpNum |-> mpNum, entries |-> entries,
          strayed |-> strayed, panic |-> FALSE]
Panic(s) == [s EXCEPT !.panic = TRUE]
Take(t) ==
  /\ obj' = t.obj
  /\ frozen' = t.frozen
  /\ worlds' = t.worlds
  /\ mpNum' = t.mpNum
  /\ entries' = t.entries
  /\ strayed' = t.strayed

User(o) == o[1]
Online(p) == cur[p] # 0
Cur(p) == <<p, cur[p]>>
Exists(s, w) == w # 0 /\ s.worlds[w].owner # <<>>
WorldMap == {w \in WorldIds : worlds[w].owner # <<>>}

\* A message of p's client reaches its handler (doRoute).
Hears(p) == Online(p) /\ p \notin frozen

\* SendMsg of a PlayerEnterSceneNotify: nothing is sent to a frozen player.
Notify(s, o) ==
  IF User(o) \in s.frozen \/ s.entries[User(o)] = MaxEntries THEN s
  ELSE [s EXCEPT !.entries[User(o)] = @ + 1]

GetSceneById(s, w, scene) == [s EXCEPT !.worlds[w].opened = @ \cup {scene}]

Stands(scenes, p, c) == [d \in Scenes |-> IF d = c THEN scenes[d] \cup {p} ELSE scenes[d]]
Leaves(scenes, p, c) == [d \in Scenes |-> IF d = c THEN scenes[d] \ {p} ELSE scenes[d]]

AddPlayer(s, w, o) ==
  LET scene == s.obj[o].scene IN
  [s EXCEPT !.worlds[w].peers = Append(@, o),
            !.worlds[w].players = @ \cup {o},
            !.worlds[w].opened = @ \cup {scene},
            !.worlds[w].scenes = Stands(@, User(o), scene)]

\* World.RemovePlayer slices peerList before it looks the scene up.
Others(peers, us) ==
  LET rest == {i \in DOMAIN peers : User(peers[i]) \notin us}
  IN [n \in 1 .. Cardinality(rest) |->
        peers[CHOOSE i \in rest : Cardinality({j \in rest : j <= i}) = n]]
Listed(s, w, o) == \E i \in DOMAIN s.worlds[w].peers : User(s.worlds[w].peers[i]) = User(o)
\* Mutant: the scene keeps the player.
RemovePlayerInScene(s, w, o) ==
  IF ~Listed(s, w, o) THEN Panic(s)
  ELSE [s EXCEPT !.worlds[w].peers = Others(@, {User(o)}),
                 !.worlds[w].players = {x \in @ : User(x) # User(o)}]
RemovePlayer(s, w, o) ==
  LET scene == s.obj[o].scene
      cut == [s EXCEPT !.worlds[w].peers = Others(@, {User(o)})]
  IN IF ~Listed(s, w, o) THEN Panic(s)
     ELSE IF scene \notin s.worlds[w].opened THEN Panic(cut)
     ELSE [cut EXCEPT !.worlds[w].players = {x \in @ : User(x) # User(o)},
                      !.worlds[w].scenes = Leaves(@, User(o), scene)]

\* A world new to worldMap, its owner in it.
CreateWorld(s, w, o) == [s EXCEPT !.worlds[w] = [NoWorld EXCEPT !.owner = o]]

\* DestroyWorld removes whoever is left.  In map order: a player that cannot
\* be removed ends it with any of the others gone already.
RemoveAll(s, w, os) ==
  LET us == {User(o) : o \in os}
      In(c) == {User(o) : o \in {x \in os : s.obj[x].scene = c}}
  IN [s EXCEPT !.obj = [o \in Objs |-> IF o \in os THEN [s.obj[o] EXCEPT !.world = 0] ELSE s.obj[o]],
               !.worlds[w].peers = Others(@, us),
               !.worlds[w].players = {x \in @ : User(x) \notin us},
               !.worlds[w].scenes = [c \in Scenes |-> s.worlds[w].scenes[c] \ In(c)]]
DestroyWorld(s, w) ==
  LET left == s.worlds[w].players
      stuck == {o \in left : RemovePlayer(s, w, o).panic}
      all == RemoveAll(s, w, left)
  IN IF stuck = {}
     THEN {[all EXCEPT !.worlds[w] = NoWorld,
                       !.mpNum = IF s.worlds[w].mp THEN @ - 1 ELSE @]}
     ELSE {RemovePlayer(RemoveAll(s, w, gone), w, o) : gone \in SUBSET (left \ stuck), o \in stuck}

\* UserLeaveWorld: what it answers, and the session it freezes for a reconnect.
MayLeave(s, o) ==
  /\ s.worlds[s.obj[o].world].mp
  /\ \A x \in s.worlds[s.obj[o].world].players : s.obj[x].loaded
ReLogin(s, ps) == [s EXCEPT !.frozen = @ \cup {p \in ps : Online(p)}]
Kickable(s, o) == Exists(s, s.obj[o].world) /\ MayLeave(s, o)

\* The owner of a multiplayer world sends the guests away before it leaves, in
\* map order, and stops at the first that cannot go.
Leave(s, w, o) ==
  LET t == RemovePlayer(GetSceneById(s, w, s.obj[o].scene), w, o)
      out == [t EXCEPT !.obj[o].world = 0]
  IN IF t.panic THEN {t}
     ELSE IF User(s.worlds[w].owner) = User(o) THEN DestroyWorld(out, w) ELSE {out}
\* Mutant: a guest that cannot go stops nothing.
UserWorldRemovePlayerGoesOn(s, w, o) ==
  LET owned == s.worlds[w].mp /\ User(s.worlds[w].owner) = User(o)
      going == {x \in s.worlds[w].players : owned /\ User(x) # User(o) /\ Kickable(s, x)}
  IN IF ~Exists(s, w) THEN {Panic(s)}
     ELSE Leave(ReLogin(s, {User(x) : x \in going}), w, o)
UserWorldRemovePlayer(s, w, o) ==
  LET owned == s.worlds[w].mp /\ User(s.worlds[w].owner) = User(o)
      guests == {x \in s.worlds[w].players : owned /\ User(x) # User(o)}
      staying == {x \in guests : ~Kickable(s, x)}
      Kick(os) == ReLogin(s, {User(x) : x \in os})
  IN IF ~Exists(s, w) THEN {Panic(s)}
     ELSE IF staying = {} THEN Leave(Kick(guests), w, o)
     ELSE {[Kick(gone) EXCEPT !.panic = ~Exists(s, s.obj[x].world)] :
              gone \in SUBSET (guests \ staying), x \in staying}

\* A full world takes nobody, without an error.
Refused(s, w, o) ==
  \/ Cardinality(s.worlds[w].players) >= WorldSize
  \/ \E x \in s.worlds[w].players : User(x) = User(o)
\* Mutant: the refused player is told the world, too.
UserWorldAddPlayerFull(s, w, o) ==
  [(IF Refused(s, w, o) THEN s ELSE AddPlayer(s, w, o)) EXCEPT !.obj[o].world = w]
UserWorldAddPlayer(s, w, o) ==
  IF Refused(s, w, o) THEN s
  ELSE [AddPlayer(s, w, o) EXCEPT !.obj[o].world = w]

\* o joins the world h is in, or waits for h to finish loading.
JoinOtherWorld(s, o, h) ==
  LET hw == s.obj[h].world
      inOne == \E w \in WorldIds : o \in s.worlds[w].players
      there == [s EXCEPT !.obj[o].scene = s.obj[h].scene, !.obj[o].loaded = FALSE,
                         !.strayed = IF inOne THEN @ \cup {o} ELSE @]
  IN IF ~Exists(s, hw) THEN Panic(IF s.obj[h].loaded THEN there ELSE s)
     ELSE IF s.obj[h].loaded THEN Notify(UserWorldAddPlayer(there, hw, o), o)
     ELSE [s EXCEPT !.worlds[hw].wait = @ \cup {User(o)}]

-----------------------------------------------------------------------------
\* The id CreateWorld gives a world: the low half of a snowflake id, which is the
\* milliseconds modulo 1024, the server and a number that is nearly always 0.
\* A world whose id is taken replaces the one that has it in worldMap.
FreshWorlds == {w \in WorldIds \ WorldMap : \A o \in Objs : obj[o].world # w}
NewWorldId == {w \in FreshWorlds : \A x \in FreshWorlds : w <= x}
              \cup (IF UniqueIds THEN {} ELSE WorldMap)

\* OnLogin and SetPlayerBornDataReq: a world of its own.
OwnWorld(s, w, o) ==
  Notify([AddPlayer(CreateWorld(s, w, o), w, o) EXCEPT !.obj[o].world = w,
                                                       !.obj[o].loaded = FALSE], o)

Held(o) == o = Cur(User(o)) \/ \E w \in WorldMap : o = worlds[w].owner \/ o \in worlds[w].players
                            \/ o \in ToSet(worlds[w].peers)
FreeSlots(p) == {k \in 1..Slots : ~Held(<<p, k>>)}

\* The player's record is loaded: OnLogin makes the session.  An unborn player
\* is in no world until it has made its character; one that was moved here to
\* join a host is in none of its own.
Login(p) ==
  LET k == CHOOSE x \in FreeSlots(p) : \A y \in FreeSlots(p) : x <= y
      o == <<p, k>>
      s == [State EXCEPT !.obj[o] = NoObj]
      host == {h \in coming[p] : Online(h)}
  IN /\ ~Online(p) /\ FreeSlots(p) # {}
     /\ cur' = [cur EXCEPT ![p] = k]
     /\ coming' = [coming EXCEPT ![p] = {}]
     /\ \E w \in NewWorldId :
          Take(IF p \notin born THEN s
               ELSE IF coming[p] = {} THEN OwnWorld(s, w, o)
               ELSE IF host = {} THEN s
               ELSE JoinOtherWorld(s, o, Cur(CHOOSE h \in host : TRUE)))
     /\ UNCHANGED <<born, invites, used>>

SetPlayerBornDataReq(p) ==
  /\ Hears(p) /\ p \notin born
  /\ \E w \in NewWorldId : Take(OwnWorld(State, w, Cur(p)))
  /\ born' = born \cup {p}
  /\ UNCHANGED <<cur, invites, coming, used>>

\* OnUserOffline, after whatever ended the session.  A panic on the way leaves
\* the player online; an owner whose guests cannot go is offline in its world.
Ended(t, p) ==
  LET o == Cur(p)
      held == \E w \in WorldIds : o = t.worlds[w].owner \/ o \in t.worlds[w].players
                 \/ o \in ToSet(t.worlds[w].peers)
  IN [t EXCEPT !.obj[o] = IF held THEN [t.obj[o] EXCEPT !.coop = {}] ELSE NoObj,
               !.entries[p] = 0, !.frozen = @ \ {p}]
OfflineWith(s, p, left) ==
  \E t \in IF Exists(s, s.obj[Cur(p)].world)
           THEN UserWorldRemovePlayer(s, s.obj[Cur(p)].world, Cur(p)) ELSE {s} :
    \/ t.panic /\ Take(t) /\ cur' = cur /\ invites' = [invites EXCEPT ![p] = left]
    \/ /\ ~t.panic
       /\ Take(Ended(t, p))
       /\ cur' = [cur EXCEPT ![p] = 0]
       /\ invites' = [invites EXCEPT ![p] = {}]
OnUserOffline(p) ==
  /\ Online(p)
  /\ Spend("logout")
  /\ OfflineWith(State, p, invites[p])
  /\ UNCHANGED <<born, coming>>

-----------------------------------------------------------------------------
\* What an application is checked against on the host's side, the same for a
\* player of this server (UserApplyEnterWorld) and of another (ServerUserMpReq).
\* Every host decides for itself (MP_SETTING_ENTER_AFTER_APPLY): nothing in the
\* code sets another mode.
Applicable(p, h) ==
  /\ mpNum < MpLimit
  /\ Exists(State, obj[Cur(h)].world)
  /\ LET w == worlds[obj[Cur(h)].world] IN w.mp => User(w.owner) = h
  /\ p \notin obj[Cur(h)].coop
Applied(p, h) == obj' = [obj EXCEPT ![Cur(h)].coop = @ \cup {p}]

PlayerApplyEnterMpReq(p, h) ==
  /\ Hears(p) /\ Online(h) /\ p # h
  /\ Exists(State, obj[Cur(p)].world) /\ ~worlds[obj[Cur(p)].world].mp
  /\ Applicable(p, h)
  /\ Spend("apply")
  /\ Applied(p, h)
  /\ UNCHANGED <<cur, frozen, born, worlds, mpNum, entries, invites, coming, strayed>>
RemoteApply(p, h) ==
  /\ p \in Remote \cap born /\ ~Online(p) /\ Online(h)
  /\ Applicable(p, h)
  /\ Spend("apply")
  /\ Applied(p, h)
  /\ UNCHANGED <<cur, frozen, born, worlds, mpNum, entries, invites, coming, strayed>>

\* An application is good for ten seconds.
ApplyExpires(p, h) ==
  /\ Online(h) /\ p \in obj[Cur(h)].coop
  /\ obj' = [obj EXCEPT ![Cur(h)].coop = @ \ {p}]
  /\ UNCHANGED <<cur, frozen, born, worlds, mpNum, entries, invites, coming, strayed, used>>

HostEnterMpWorld(s, h) ==
  LET w == s.obj[h].world IN
  IF ~Exists(s, w) THEN Panic(s)
  ELSE IF s.worlds[w].mp THEN s
  ELSE Notify([s EXCEPT !.worlds[w].mp = TRUE, !.mpNum = @ + 1, !.obj[h].loaded = FALSE], h)

\* UserDealEnterWorld.  The applicant is told only if it is in no multiplayer
\* world by now; one that is on another server is told there.
PlayerApplyEnterMpResultReq(h, p, agreed) ==
  LET s == [State EXCEPT !.obj[Cur(h)].coop = @ \ {p}]
      t == HostEnterMpWorld(s, Cur(h))
      world == t.obj[Cur(p)].world
  IN /\ Hears(h) /\ p \in obj[Cur(h)].coop
     /\ IF ~agreed
        THEN Take(s) /\ UNCHANGED <<invites, coming>>
        ELSE IF t.panic \/ (Online(p) /\ ~Exists(t, world))
        THEN Take(Panic(t)) /\ UNCHANGED <<invites, coming>>
        ELSE /\ Take(t)
             /\ invites' = IF Online(p) /\ ~t.worlds[world].mp
                           THEN [invites EXCEPT ![p] = @ \cup {h}] ELSE invites
             /\ coming' = IF ~Online(p) /\ p \in Remote
                          THEN [coming EXCEPT ![p] = {h}] ELSE coming
     /\ UNCHANGED <<cur, born, used>>

\* A host of another server agreed to a player of this one.
RemoteAgreed(p, h) ==
  /\ h \in Remote /\ ~Online(h) /\ Hears(p) /\ h \notin invites[p]
  /\ Exists(State, obj[Cur(p)].world) /\ ~worlds[obj[Cur(p)].world].mp
  /\ Spend("apply")
  /\ invites' = [invites EXCEPT ![p] = @ \cup {h}]
  /\ UNCHANGED <<cur, obj, frozen, born, worlds, mpNum, entries, coming, strayed>>

\* A client that was agreed to joins, sooner or later.  Out of its own world it
\* goes to that of the host, to the server the host is on now, or nowhere.
JoinPlayerSceneReq(p, h) ==
  LET o == Cur(p)
      left == invites[p] \ {h}
  IN /\ Hears(p) /\ h \in invites[p]
     /\ \E t \in UserWorldRemovePlayer(State, obj[o].world, o) :
          \/ /\ Take(IF Online(h) /\ ~t.panic THEN JoinOtherWorld(t, o, Cur(h)) ELSE t)
             /\ invites' = [invites EXCEPT ![p] = left]
             /\ cur' = cur
          \/ /\ ~t.panic /\ ~Online(h) /\ h \in Remote
             /\ OfflineWith(t, p, left)
     /\ UNCHANGED <<born, coming, used>>

-----------------------------------------------------------------------------
\* The client loads the scene it was sent to.  SceneInitFinishReq needs the
\* entry's context; EnterSceneDoneReq ends the loading whatever it answers.
SceneInitFinishReq(p) ==
  /\ Hears(p) /\ entries[p] > 0
  /\ Exists(State, obj[Cur(p)].world) /\ obj[Cur(p)].loaded
  /\ obj' = [obj EXCEPT ![Cur(p)].loaded = FALSE]
  /\ UNCHANGED <<cur, frozen, born, worlds, mpNum, entries, invites, coming, strayed, used>>

\* Whoever has loaded serves the players that wait to enter the world, in map order.
Serve(s, w, o, u) ==
  LET t == [s EXCEPT !.worlds[w].wait = @ \ {u}]
  IN IF Online(u) THEN JoinOtherWorld(t, Cur(u), o) ELSE t
Served(s, w, o, order) ==
  LET after[n \in 0 .. Len(order)] ==
        IF n = 0 THEN s ELSE Serve(after[n - 1], w, o, order[n])
  IN after[Len(order)]
EnterSceneDoneReq(p) ==
  LET o == Cur(p)
      w == obj[o].world
      done == [GetSceneById(State, w, obj[o].scene)
                 EXCEPT !.obj[o].loaded = TRUE, !.entries[p] = @ - 1]
  IN /\ Hears(p) /\ entries[p] > 0 /\ Exists(State, w)
     /\ \E order \in SetToSeqs(worlds[w].wait) : Take(Served(done, w, o, order))
     /\ UNCHANGED <<cur, born, invites, coming, used>>

\* TeleportPlayer, by a map mark or a dungeon's door: while loading, too.
TeleportPlayer(p, scene) ==
  LET o == Cur(p)
      w == obj[o].world
      old == GetSceneById(State, w, obj[o].scene)
      moved == [GetSceneById(old, w, scene) EXCEPT
                  !.worlds[w].scenes = IF scene = obj[o].scene THEN @
                                       ELSE Stands(Leaves(@, p, obj[o].scene), p, scene),
                  !.obj[o].scene = scene]
  IN /\ Hears(p) /\ Exists(State, w)
     /\ Spend("teleport")
     /\ Take(Notify([moved EXCEPT !.obj[o].loaded = FALSE], o))
     /\ UNCHANGED <<cur, born, invites, coming>>

\* BackMyWorldReq and ChangeWorldToSingleModeReq, and an owner sending away
\* a guest, who may be elsewhere by then: the client is told to reconnect and
\* is not heard until it has.
LeaveWorldReq(p) ==
  /\ Hears(p) /\ Kickable(State, Cur(p))
  /\ Take(ReLogin(State, {p}))
  /\ UNCHANGED <<cur, born, invites, coming, used>>
SceneKickPlayerReq(h, p) ==
  /\ Hears(h) /\ Online(p) /\ p # h
  /\ Exists(State, obj[Cur(h)].world) /\ User(worlds[obj[Cur(h)].world].owner) = h
  /\ Kickable(State, Cur(p))
  /\ Take(ReLogin(State, {p}))
  /\ UNCHANGED <<cur, born, invites, coming, used>>

Next ==
  \/ \E p \in Players :
       \/ Login(p) \/ SetPlayerBornDataReq(p) \/ OnUserOffline(p)
       \/ SceneInitFinishReq(p) \/ EnterSceneDoneReq(p) \/ LeaveWorldReq(p)
       \/ \E scene \in Scenes : TeleportPlayer(p, scene)
  \/ \E p, h \in Players :
       \/ PlayerApplyEnterMpReq(p, h) \/ RemoteApply(p, h) \/ RemoteAgreed(p, h)
       \/ ApplyExpires(p, h) \/ JoinPlayerSceneReq(p, h) \/ SceneKickPlayerReq(h, p)
       \/ \E agreed \in BOOLEAN : PlayerApplyEnterMpResultReq(h, p, agreed)

Spec == Init /\ [][Next]_vars

-----------------------------------------------------------------------------
\* multiplayerWorldNum counts the multiplayer worlds there are, although worlds
\* open in one handler, close in another and a panic may leave one half closed:
\* the number decides whether the server takes another application.
MpCount == mpNum = Cardinality({w \in WorldMap : worlds[w].mp})

\* The world a session says it is in exists and has the session among its players,
\* whatever else went wrong, and lists it exactly once among its peers, unless the
\* session joined a world while still in one: the handlers dereference the world of a
\* player and slice its peers by the player's number.
Entered(o, w) ==
  /\ o \in w.players
  /\ o \notin strayed => Cardinality({i \in DOMAIN w.peers : User(w.peers[i]) = User(o)}) = 1
WorldIdAgrees ==
  \A p \in Players : Online(p) /\ obj[Cur(p)].world # 0 =>
    /\ obj[Cur(p)].world \in WorldMap
    /\ Entered(Cur(p), worlds[obj[Cur(p)].world])

\* The books of a world agree with each other: its owner is its first peer (what
\* 1P means to UpdateMultiplayerTeam), its peers are its players, and its players
\* are each in the one scene of it they say they are in.
BookOf(w) ==
  /\ w.peers # <<>> /\ Head(w.peers) = w.owner
  /\ ToSet(w.peers) = w.players /\ Len(w.peers) = Cardinality(w.players)
  /\ \A o \in w.players : {c \in Scenes : User(o) \in w.scenes[c]} = {obj[o].scene}

\* As long as nobody has joined a world while still in another, every world's
\* books agree and every session is in one world: joins that skip the leaving
\* (an owner whose guests are loading, JoinPlayerSceneReq; a waiting player that
\* has logged in again, EnterSceneDoneReq) are the only way they go wrong.
BooksAgree ==
  strayed = {} => /\ \A w \in WorldMap : BookOf(worlds[w])
                  /\ \A o \in Objs : Cardinality({w \in WorldMap : o \in worlds[w].players}) <= 1

\* A multiplayer world is never destroyed under a guest that is still heard:
\* every guest is frozen for its reconnect first (UserWorldRemovePlayer), since
\* a handler that finds a player in no world panics.
GuestsSentAway ==
  [][\A w \in WorldMap : worlds[w].mp /\ w \notin WorldMap' =>
       \A o \in worlds[w].players :
         User(o) # User(worlds[w].owner) /\ Online(User(o)) => User(o) \in frozen']_vars

=============================================================================
