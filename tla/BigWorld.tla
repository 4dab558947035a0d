-------------------------------- MODULE BigWorld --------------------------------
(***************************************************************************)
(* The world all players of a server may meet in (pkg/alg/aoi.go, and what *)
(* player_scene.go, player_fight_sync.go, player_team.go, player_world.go, *)
(* player_multiplayer.go and game.go of gs/game do there).  It is too full *)
(* to tell everybody everything: space is cut into cells, and a player is  *)
(* told of those in the 27 cells around its own.  Every movement computes  *)
(* which cells come into sight and which go out of it, and tells both      *)
(* sides; nothing ever tells a client the whole of what it should see.     *)
(*                                                                         *)
(* A position is <<x, y, z>>, in whole metres of which a cell has          *)
(* CellLength in each direction; a cell is its gid.  The area starts at    *)
(* the origin; the code's starts at <<-8000, -200, -5500>>.                *)
(***************************************************************************)
EXTENDS Integers, FiniteSets

CONSTANTS
  Players,           \* players that come to this world
  Avatars,           \* the avatars of a player's team
  Spots,             \* the positions they move between
  NumX, NumY, NumZ,  \* cells in each direction: 1200, 12 and 1200 in the code
  CellLength,        \* 10, 100 and 10 in the code
  Outside,           \* math.MaxUint32, the gid of a position in no cell
  AreaLimit,         \* players of an area: 8 in the code
  MaxExtras          \* bound: changes of avatar and entries of combat, in all

VARIABLES
  state,   \* "away", "loading" or "done": whether in this world, and SceneLoadState
  pos,     \* player.Pos
  active,  \* the active avatar in this world
  grids,   \* objectMap of every cell: the players in it, each with the avatar it was added with
  frozen,  \* NetFreeze: those sent away, that are told nothing more
  sees,    \* the avatars of others that the client of each player shows
  said,    \* Combat- and AbilityInvokeHandler: the forward types of entries not yet forwarded
  heard,   \* ghost: who was sent the entries last forwarded, and by whom
  changed, \* ghost: players that ever changed avatar in this world
  used     \* changes of avatar and entries of combat so far

vars == <<state, pos, active, grids, frozen, sees, said, heard, changed, used>>

\* What they are: whoever instantiates the module sees to it.
BigWorldAssumption ==
  /\ {NumX, NumY, NumZ, CellLength} \subseteq Nat \ {0} /\ {AreaLimit, MaxExtras} \subseteq Nat
  /\ Spots \subseteq Int \X Int \X Int /\ IsFiniteSet(Players) /\ IsFiniteSet(Avatars) /\ Avatars # {}
  /\ Outside \notin 0..(NumX * NumY * NumZ - 1)

Gids == 0..(NumX * NumY * NumZ - 1)

Init ==
  /\ state = [p \in Players |-> "away"]
  /\ pos \in [Players -> Spots]
  /\ active \in [Players -> {CHOOSE a \in Avatars : TRUE}]
  /\ grids = [g \in Gids |-> {}]
  /\ frozen = {}
  /\ sees = [p \in Players |-> {}]
  /\ said = [p \in Players |-> {}]
  /\ heard = {}
  /\ changed = {}
  /\ used = 0

-----------------------------------------------------------------------------
\* The cells (pkg/alg/aoi.go).
IsValidAoiPos(s) ==
  /\ s[1] > 0 /\ s[1] < NumX * CellLength
  /\ s[2] > 0 /\ s[2] < NumY * CellLength
  /\ s[3] > 0 /\ s[3] < NumZ * CellLength
GidOf(x, y, z) == y * NumX * NumZ + z * NumX + x
GetGidByPos(s) ==
  IF IsValidAoiPos(s)
  THEN GidOf(s[1] \div CellLength, s[2] \div CellLength, s[3] \div CellLength)
  ELSE Outside

\* The neighbours along each axis of the cells found so far, x then z then y.
AlongX(g) == LET x == (g % (NumX * NumZ)) % NumX
             IN {g} \cup (IF x > 0 THEN {g - 1} ELSE {})
                    \cup (IF x < NumX - 1 THEN {g + 1} ELSE {})
AlongZ(g) == LET z == (g % (NumX * NumZ)) \div NumX
             IN {g} \cup (IF z > 0 THEN {g - NumX} ELSE {})
                    \cup (IF z < NumZ - 1 THEN {g + NumX} ELSE {})
AlongY(g) == LET y == g \div (NumX * NumZ)
             IN {g} \cup (IF y > 0 THEN {g - NumX * NumZ} ELSE {})
                    \cup (IF y < NumY - 1 THEN {g + NumX * NumZ} ELSE {})
GetSurrGridListByGid(g) ==
  IF g = Outside THEN {}
  ELSE UNION {AlongY(h) : h \in UNION {AlongZ(k) : k \in AlongX(g)}}

ObjectsIn(gs, map) == UNION {map[g] : g \in gs}
GetObjectListByPos(s, map) == ObjectsIn(GetSurrGridListByGid(GetGidByPos(s)), map)
UidsOf(objects) == {o[1] : o \in objects}

Without(map, g, p) == IF g = Outside THEN map ELSE [map EXCEPT ![g] = {o \in @ : o[1] # p}]
With(map, g, o) == IF g = Outside THEN map ELSE [map EXCEPT ![g] = {x \in @ : x[1] # o[1]} \cup {o}]

\* Entities a client is told to show, or not to show any more.
Told(p) == p \notin frozen
Shows(s, p, objects) == IF Told(p) THEN [s EXCEPT ![p] = @ \cup {o \in objects : o[1] # p}] ELSE s
\* An entity that is not its player's active avatar is left out.
AddSceneEntityNotify(objects) == {o \in objects : o[2] = active[o[1]]}
\* SendToSceneA reaches those around the one whose message is handled.
AllShow(s, to, o) == [q \in Players |-> IF q \in to /\ q # o[1] /\ Told(q) THEN s[q] \cup {o} ELSE s[q]]
AllLose(s, to, o) == [q \in Players |-> IF q \in to /\ Told(q) THEN s[q] \ {o} ELSE s[q]]
SendToSceneA(p, map) == UidsOf(GetObjectListByPos(pos[p], map))

SendToSceneAEC(p, map) == SendToSceneA(p, map) \ {p}

\* LogoutPlayer, of one whose surroundings hold too many.
TooMany(n) == n > AreaLimit

\* doRoute drops what a client sends that is sent away, and the messages
\* of this module want SceneEnterDone.
Handled(p) == state[p] = "done" /\ p \notin frozen

-----------------------------------------------------------------------------
\* A player is added to this world, and its client loads the scene.
UserWorldAddPlayer(p) ==
  /\ state[p] = "away"
  /\ state' = [state EXCEPT ![p] = "loading"]
  /\ UNCHANGED <<pos, active, grids, frozen, sees, said, heard, changed, used>>

EnterSceneDoneReq(p) ==
  LET self == <<p, active[p]>>
      g == GetGidByPos(pos[p])
      map == With(grids, g, self)
      around == GetObjectListByPos(pos[p], map)
      met == AddSceneEntityNotify(around)
  IN /\ state[p] = "loading" /\ p \notin frozen
     /\ state' = [state EXCEPT ![p] = "done"]
     /\ grids' = map
     /\ sees' = Shows(AllShow(sees, UidsOf(around), self), p, met)
     /\ frozen' = IF TooMany(Cardinality(around)) THEN frozen \cup {p} ELSE frozen
     /\ heard' = {}
     /\ UNCHANGED <<pos, active, said, changed, used>>

\* BigWorldAoiPlayerMove, when a movement crosses into another cell.
\* Mutant: those in the cells left behind are not told.
CrossQuietly(p, del, add, self) ==
  Shows([sees EXCEPT ![p] = @ \ ObjectsIn(del, grids)], p, AddSceneEntityNotify(ObjectsIn(add, grids)))
CrossGrids(p, del, add, self) ==
  LET gone == ObjectsIn(del, grids)
      come == ObjectsIn(add, grids)
      mine == IF Told(p) THEN [sees EXCEPT ![p] = @ \ gone] ELSE sees
      \* Those of one cell are told of the loss before the next cell's are met.
      lost == AllLose(mine, UidsOf(gone), self)
  IN AllShow(Shows(lost, p, AddSceneEntityNotify(come)), UidsOf(come), self)

EntityMove(p, s) ==
  LET old == GetGidByPos(pos[p])
      new == GetGidByPos(s)
      was == GetSurrGridListByGid(old)
      is == GetSurrGridListByGid(new)
      self == <<p, active[p]>>
  IN /\ Handled(p) /\ s # pos[p]
     /\ pos' = [pos EXCEPT ![p] = s]
     /\ IF old = new THEN UNCHANGED <<grids, sees, frozen>>
        ELSE /\ grids' = With(Without(grids, old, p), new, self)
             /\ sees' = CrossGrids(p, was \ is, is \ was, self)
             /\ frozen' = IF new # Outside /\ TooMany(Cardinality(grids'[new])) THEN frozen \cup {p} ELSE frozen
     /\ heard' = {}
     /\ UNCHANGED <<state, active, said, changed, used>>

\* ChangeAvatarReq leaves in the cell the avatar the player was added with.
ChangeAvatarReq(p, a) ==
  LET to == SendToSceneA(p, grids)
  IN /\ Handled(p) /\ a # active[p] /\ used < MaxExtras
     /\ used' = used + 1
     /\ active' = [active EXCEPT ![p] = a]
     /\ sees' = AllShow(AllLose(sees, to, <<p, active[p]>>), to, <<p, a>>)
     /\ changed' = changed \cup {p}
     /\ heard' = {}
     /\ UNCHANGED <<state, pos, grids, frozen, said>>

\* Its client shows nothing of a scene that it is told to load anew.
TeleportPlayer(p, s) ==
  /\ state[p] = "done"
  /\ sees' = [AllLose(sees, SendToSceneA(p, grids), <<p, active[p]>>) EXCEPT ![p] = {}]
  /\ grids' = Without(grids, GetGidByPos(pos[p]), p)
  /\ state' = [state EXCEPT ![p] = "loading"]
  /\ pos' = [pos EXCEPT ![p] = s]
  /\ heard' = {}
  /\ UNCHANGED <<active, frozen, said, changed, used>>

\* UserWorldRemovePlayer, when it logs out or was sent away.
Leave(p) == Without(grids, GetGidByPos(pos[p]), p)
UserWorldRemovePlayer(p) ==
  /\ state[p] # "away"
  /\ state' = [state EXCEPT ![p] = "away"]
  /\ sees' = [AllLose(sees, SendToSceneA(p, grids), <<p, active[p]>>) EXCEPT ![p] = {}]
  /\ grids' = Leave(p)
  /\ frozen' = frozen \ {p}
  /\ said' = [said EXCEPT ![p] = {}]
  /\ heard' = {}
  /\ UNCHANGED <<pos, active, changed, used>>

\* Entries of combat and of abilities wait for the end of the batch the client
\* sent them in.
Forwards == {"all", "others", "host", "server"}
AddEntry(p, handler, f) ==
  /\ Handled(p) /\ used < MaxExtras
  /\ used' = used + 1
  /\ said' = [said EXCEPT ![p] = @ \cup {<<handler, f>>}]
  /\ heard' = {}
  /\ UNCHANGED <<state, pos, active, grids, frozen, sees, changed>>
CombatInvocationsNotify(p, f) == AddEntry(p, "combat", f)
AbilityInvocationsNotify(p, f) == AddEntry(p, "ability", f)

\* Mutant: they go to everybody in the scene.
DoForwardAll(p, fs) == {q \in Players : state[q] # "away"}
DoForward(p, fs) ==
  (IF "all" \in fs THEN SendToSceneA(p, grids) ELSE {})
  \cup (IF "others" \in fs THEN SendToSceneAEC(p, grids) ELSE {})
UnionCmdNotify(p) ==
  LET waiting(handler) == {f \in Forwards : <<handler, f>> \in said[p]}
  IN /\ Handled(p) /\ said[p] # {}
     /\ heard' = {<<p, q>> : q \in DoForward(p, waiting("combat")) \cup DoForward(p, waiting("ability"))}
     /\ said' = [said EXCEPT ![p] = {}]
     /\ UNCHANGED <<state, pos, active, grids, frozen, sees, changed, used>>

\* What is forwarded at once: the abilities of an avatar that is there or changed,
\* and the focus and the looks of one.
ForwardNow(p, to) ==
  /\ Handled(p)
  /\ heard' = {<<p, q>> : q \in to}
  /\ UNCHANGED <<state, pos, active, grids, frozen, sees, said, changed, used>>
ClientAbilityNotify(p, f) == ForwardNow(p, DoForward(p, {f}))
EvtNotify(p) == ForwardNow(p, SendToSceneA(p, grids))

Next ==
  \E p \in Players :
    \/ UserWorldAddPlayer(p) \/ EnterSceneDoneReq(p) \/ UserWorldRemovePlayer(p) \/ UnionCmdNotify(p)
    \/ \E s \in Spots : EntityMove(p, s) \/ TeleportPlayer(p, s)
    \/ \E a \in Avatars : ChangeAvatarReq(p, a)
    \/ \E f \in Forwards :
         CombatInvocationsNotify(p, f) \/ AbilityInvocationsNotify(p, f) \/ ClientAbilityNotify(p, f)
    \/ EvtNotify(p)

-----------------------------------------------------------------------------
\* The cells are the players' positions: one that has entered is in the cell of
\* its position, and in no other, and one that has not is in none.
GridAgrees ==
  \A p \in Players, g \in Gids :
    p \in UidsOf(grids[g]) <=> state[p] = "done" /\ g = GetGidByPos(pos[p])

\* What a client shows, put together from what came and went, is what is there:
\* the active avatars of those at most one cell away in each direction, told from
\* the positions and not from gids.  Of players that changed their avatar it does
\* not hold: their cell keeps the former one until they cross into another.
Cell(s) == [i \in 1..3 |-> s[i] \div CellLength]
Beside(p, q) ==
  /\ IsValidAoiPos(pos[p]) /\ IsValidAoiPos(pos[q])
  /\ \A i \in 1..3 : Cell(pos[p])[i] - Cell(pos[q])[i] \in -1..1
Entered == {p \in Players : state[p] = "done"}
SeesAgree ==
  \A p \in Entered \ frozen :
    {o \in sees[p] : o[1] \notin changed}
      = {<<q, active[q]>> : q \in {r \in Entered \ ({p} \cup changed) : Beside(p, r)}}

\* Nothing an avatar does in combat reaches a client that does not show it.
HeardBySeers ==
  \A h \in heard : h[1] \in changed \/ h[2] \in {h[1]} \cup frozen \/ <<h[1], active[h[1]]>> \in sees[h[2]]

\* However they came there, a cell holds no more players than an area may, but
\* for those that are being sent away.
AreaLimitHolds == \A g \in Gids : Cardinality(UidsOf(grids[g]) \ frozen) <= AreaLimit
=============================================================================
