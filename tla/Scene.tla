--------------------------------- MODULE Scene ---------------------------------
(***************************************************************************)
(* One scene of a host's world, the host and its guests in it              *)
(* (gs/game/player_scene.go, game_world_scene.go, the movement half of     *)
(* player_fight_sync.go, the trigger checks of lua_trigger.go).  A group   *)
(* of monsters and gadgets is loaded when a player comes near it and       *)
(* unloaded when one leaves; what was killed or opened in it is written to *)
(* the record of the world's owner, so that it stays so when the group is  *)
(* loaded again.                                                           *)
(*                                                                         *)
(* Handlers run one at a time on the main loop.  An entity is its config   *)
(* id, and scene and suite hold so many of it.  The scripts of a group are *)
(* the game's data: here its monster's death adds the second suite, and    *)
(* its lever calls for a late monster.                                     *)
(***************************************************************************)
EXTENDS Integers

CONSTANTS
  Players,   \* the host and those that join it
  Host,      \* the owner of the world
  Groups,    \* the groups of the scene
  Spots,     \* where players stand
  Near,      \* the spots within GROUP_LOAD_DISTANCE of each group, on both axes
  Beside,    \* the spots within it on one axis at least
  Born,      \* the spot a login starts at
  MaxVisits, \* bound: worlds entered, in all
  MaxMoves   \* bound: moves and teleports, in all

\* What they are: whoever instantiates the module sees to it.
SceneAssumption ==
  /\ Host \in Players /\ Born \in Spots
  /\ \A g \in Groups : Near[g] \subseteq Beside[g] /\ Beside[g] \subseteq Spots

\* What the group's configuration has: a suite to begin with and an extra one,
\* an npc that comes with either, and a monster no suite has.
Configs == {"monster", "chest", "lever", "npc", "late"}
InitSuite == 1
SuiteConfigs == [u \in {1, 2} |-> IF u = InitSuite THEN {"monster", "chest"} ELSE {"lever"}]

VARIABLES
  phase,    \* SceneLoadState of each player, "out" when it is not in this world
  pos,      \* player.Pos
  old,      \* OldPos of the enter-scene context the client has still to answer
  mp,       \* whether the world is a multiplayer one
  scene,    \* what the scene holds of each group
  kills,    \* SceneGroupMap of each player's record: what was killed or opened
  states,   \* the groups whose lever the record has pulled
  pending,  \* timers that create the late monster: <<player, group>>
  paid,     \* ghost: how often each group's chest gave its reward
  used      \* bounded events used so far

records == <<kills, states>>
vars == <<phase, pos, old, mp, scene, records, pending, paid, used>>

\* groupMap: the suites loaded and their entities; entityMap: what is there of the group.
Suites == {1, 2}
Empty == [c \in Configs |-> 0]
NoGroup == [loaded |-> {}, suites |-> [u \in Suites |-> Empty], there |-> Empty, pulled |-> FALSE]
NoScene == [g \in Groups |-> NoGroup]

Init ==
  /\ phase = [p \in Players |-> "out"]
  /\ pos = [p \in Players |-> Born]
  /\ old = [p \in Players |-> {}]
  /\ mp = FALSE
  /\ scene = NoScene
  /\ kills = [p \in Players |-> {}]
  /\ states = [p \in Players |-> {}]
  /\ pending = {}
  /\ paid = [g \in Groups |-> 0]
  /\ used = [visits |-> 0, moves |-> 0]

Spend(e, bound) == used[e] < bound /\ used' = [used EXCEPT ![e] = @ + 1]
InWorld == {p \in Players : phase[p] # "out"}

-----------------------------------------------------------------------------
\* Entities of the scene, of whichever kind, come.
CreateEntities(there, cs) == [c \in Configs |-> IF c \in cs THEN there[c] + 1 ELSE there[c]]

\* CreateConfigEntity into the scene and the suite.  A gadget comes in the state
\* the owner's record has for it.
CreateAll(r, g, u, cs) ==
  [loaded |-> r.loaded \cup {u},
   suites |-> [r.suites EXCEPT ![u] = CreateEntities(@, cs)],
   there  |-> CreateEntities(r.there, cs),
   pulled |-> r.pulled \/ ("lever" \in cs /\ g \in states[Host])]

\* AddSceneGroupSuiteCore: what the record says is killed is left out, but for
\* the npcs, which come with every suite.
\* Mutant: all that the suite has comes, killed or not.
AddSuiteAnew(r, killed, g, u) == CreateAll(r, g, u, SuiteConfigs[u] \cup {"npc"})
AddSuite(r, killed, g, u) ==
  CreateAll(r, g, u, {c \in SuiteConfigs[u] : <<g, c>> \notin killed[Host]} \cup {"npc"})

\* AddSceneGroup, RemoveSceneGroup
AddSceneGroup(r, g) == IF r.loaded # {} THEN r ELSE AddSuite(r, kills, g, InitSuite)
SuiteTotal(r, c) == r.suites[1][c] + r.suites[2][c]
RemoveSceneGroup(r) ==
  [loaded |-> {}, suites |-> NoGroup.suites, pulled |-> FALSE,
   there |-> [c \in Configs |-> r.there[c] - SuiteTotal(r, c)]]

AddGroups(s, gs) == [g \in Groups |-> IF g \in gs THEN AddSceneGroup(s[g], g) ELSE s[g]]
RemoveGroups(s, gs) == [g \in Groups |-> IF g \in gs THEN RemoveSceneGroup(s[g]) ELSE s[g]]

\* GetNeighborGroup
NeighborGroups(at) == {g \in Groups : at \in Near[g]}

\* What leaving a place unloads: in a multiplayer world not what some player is
\* beside, and the mover counts where it was.
Unloads(s, gs, ps) ==
  {g \in gs : s[g].loaded # {} /\ (mp => \A p \in ps : pos[p] \notin Beside[g])}

\* group.DestroyEntity of one of the suites that have it, and scene.DestroyEntity.
FromSuite(r, c) == {u \in Suites : r.suites[u][c] > 0}
\* Mutant: the group goes on holding what was killed.
GroupDestroyEntityNot(r, c) == {r}
GroupDestroyEntity(r, c) == {[r EXCEPT !.suites[u][c] = @ - 1] : u \in FromSuite(r, c)}
DestroyEntity(r, c) == [r EXCEPT !.there[c] = @ - 1]

\* dbSceneGroup.AddKill, in the record of the world's owner.
AddKill(p, g, c) == [kills EXCEPT ![Host] = @ \cup {<<g, c>>}]

\* MonsterDieTriggerCheck: the scripts of the group's suites.
MonsterDieTrigger(r, killed, g) ==
  IF InitSuite \in r.loaded THEN AddSuite(r, killed, g, 2) ELSE r

KillEntity(p, g, c) ==
  /\ kills' = AddKill(p, g, c)
  /\ \E r \in GroupDestroyEntity(DestroyEntity(scene[g], c), c) :
       scene' = [scene EXCEPT ![g] = IF c \in {"monster", "late"}
                                     THEN MonsterDieTrigger(r, kills', g) ELSE r]
  /\ UNCHANGED states

\* A client acts on what it sees.
Reaches(p, g, c) == phase[p] = "done" /\ pos[p] \in Near[g] /\ scene[g].there[c] > 0

-----------------------------------------------------------------------------
\* A player enters the world: the host logs in, a guest joins where the host is
\* when the host has loaded.
EnterWorld(p) ==
  /\ phase[p] = "out"
  /\ p # Host => mp /\ phase[Host] = "done"
  /\ Spend("visits", MaxVisits)
  /\ phase' = [phase EXCEPT ![p] = "entering"]
  /\ pos' = [pos EXCEPT ![p] = IF p = Host THEN Born ELSE pos[Host]]
  /\ old' = [old EXCEPT ![p] = {}]
  /\ UNCHANGED <<mp, scene, records, pending, paid>>

\* HostEnterMpWorld: the host enters its own scene again.
HostEnterMpWorld ==
  /\ phase[Host] = "done" /\ ~mp
  /\ mp' = TRUE
  /\ phase' = [phase EXCEPT ![Host] = "entering"]
  /\ old' = [old EXCEPT ![Host] = {pos[Host]}]
  /\ UNCHANGED <<pos, scene, records, pending, paid, used>>

\* UserWorldRemovePlayer.  The owner leaves last: its world goes, what its record
\* has of it stays.
LeaveWorld(p) ==
  /\ phase[p] # "out"
  /\ p = Host => InWorld = {Host}
  /\ phase' = [phase EXCEPT ![p] = "out"]
  /\ old' = [old EXCEPT ![p] = {}]
  /\ pending' = {t \in pending : t[1] # p}
  /\ mp' = (mp /\ p # Host)
  /\ scene' = IF p = Host THEN NoScene ELSE scene
  /\ UNCHANGED <<pos, records, paid, used>>

\* TeleportPlayer within the scene.
TeleportPlayer(p, at) ==
  /\ phase[p] = "done"
  /\ Spend("moves", MaxMoves)
  /\ phase' = [phase EXCEPT ![p] = "entering"]
  /\ old' = [old EXCEPT ![p] = {pos[p]}]
  /\ pos' = [pos EXCEPT ![p] = at]
  /\ UNCHANGED <<mp, scene, records, pending, paid>>

\* The client answers the notice in two steps: the groups about the old place
\* go, then those about the new one come.
EnterSceneReadyReq(p) ==
  /\ phase[p] = "entering"
  /\ phase' = [phase EXCEPT ![p] = "ready"]
  /\ scene' = RemoveGroups(scene, Unloads(scene, UNION {NeighborGroups(at) : at \in old[p]}, InWorld))
  /\ old' = [old EXCEPT ![p] = {}]
  /\ UNCHANGED <<pos, mp, records, pending, paid, used>>
EnterSceneDoneReq(p) ==
  /\ phase[p] = "ready"
  /\ phase' = [phase EXCEPT ![p] = "done"]
  /\ scene' = AddGroups(scene, NeighborGroups(pos[p]))
  /\ UNCHANGED <<pos, old, mp, records, pending, paid, used>>

\* SceneBlockAoiPlayerMove, at most every 200 ms; the position is taken over at
\* every move.
EntityMove(p, at) ==
  LET before == NeighborGroups(pos[p])
      after == NeighborGroups(at)
  IN /\ phase[p] = "done" /\ at # pos[p]
     /\ Spend("moves", MaxMoves)
     /\ \/ scene' = AddGroups(RemoveGroups(scene, Unloads(scene, before \ after, InWorld)),
                              after \ before)
        \/ scene' = scene
     /\ pos' = [pos EXCEPT ![p] = at]
     /\ UNCHANGED <<phase, old, mp, records, pending, paid>>

\* CombatInvocationsNotify: a hit that leaves a monster no health.
BeingHit(p, g, c) ==
  /\ c \in {"monster", "late"} /\ Reaches(p, g, c)
  /\ KillEntity(p, g, c)
  /\ UNCHANGED <<phase, pos, old, mp, pending, paid, used>>

\* GadgetInteractReq of a chest: its reward, then the chest is opened and gone.
GadgetInteractReq(p, g) ==
  /\ Reaches(p, g, "chest")
  /\ paid' = [paid EXCEPT ![g] = @ + 1]
  /\ KillEntity(p, g, "chest")
  /\ UNCHANGED <<phase, pos, old, mp, pending, used>>

\* ChangeGadgetState of the lever, and the script that wants a monster later.
ChangeGadgetState(p, g) ==
  /\ Reaches(p, g, "lever") /\ ~scene[g].pulled
  /\ scene' = [scene EXCEPT ![g].pulled = TRUE]
  /\ states' = [states EXCEPT ![Host] = @ \cup {g}]
  /\ pending' = pending \cup {<<p, g>>}
  /\ UNCHANGED <<phase, pos, old, mp, kills, paid, used>>

\* userTimerHandle: SceneGroupCreateEntity adds it to the first suite, whether
\* or not the group is still loaded.
SceneGroupCreateEntity(p, g) ==
  /\ <<p, g>> \in pending
  /\ pending' = pending \ {<<p, g>>}
  /\ scene' = [scene EXCEPT ![g] = CreateAll(@, g, InitSuite, {"late"})]
  /\ UNCHANGED <<phase, pos, old, mp, records, paid, used>>

Next ==
  \/ HostEnterMpWorld
  \/ \E p \in Players :
       \/ EnterWorld(p) \/ LeaveWorld(p) \/ EnterSceneReadyReq(p) \/ EnterSceneDoneReq(p)
       \/ \E at \in Spots : TeleportPlayer(p, at) \/ EntityMove(p, at)
       \/ \E g \in Groups :
            \/ GadgetInteractReq(p, g) \/ ChangeGadgetState(p, g) \/ SceneGroupCreateEntity(p, g)
            \/ \E c \in Configs : BeingHit(p, g, c)

-----------------------------------------------------------------------------
\* A chest gives its reward once in its owner's world, whoever opens it, however
\* often its group is unloaded and loaded again and its owner comes back.
ChestPaysOnce == \A g \in Groups : paid[g] <= 1

\* What stands in the scene of a group is what the group's suites hold: a group
\* that is unloaded leaves nothing behind that no one would ever remove, and no
\* suite holds what is gone from the scene.
SuitesAgree == \A g \in Groups, c \in Configs : scene[g].there[c] = SuiteTotal(scene[g], c)
=============================================================================
