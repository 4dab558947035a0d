-------------------------------- MODULE Stamina --------------------------------
(***************************************************************************)
(* The stamina of players and of the skiffs they sail, in one world of two *)
(* scenes (gs/game/player_stamina.go, player_vehicle.go,                   *)
(* gs/model/stamina.go, vehicle.go).  Movement messages set a motion and   *)
(* what it costs at once and with every tick of 200 ms; at no stamina in   *)
(* the water the avatar drowns, and some ticks later the player is taken   *)
(* to safe ground and the avatar revived.                                  *)
(*                                                                         *)
(* Stamina is counted in units of what a tick restores: a motion costs or  *)
(* restores one, to begin one costs one or two, and delays are shorter     *)
(* than the code's 10 and 20 ticks.                                        *)
(***************************************************************************)
EXTENDS Integers, FiniteSets

CONSTANTS
  Players,      \* the players there are
  Worlds,       \* the worlds to be looked at: their players, and a bound on the
                \* changes of motion in them
  Scenes,       \* its scenes
  NoSkiff,      \* InVehicleEntityId 0
  MaxStamina,   \* PLAYER_PROP_MAX_STAMINA, of players and skiffs
  RestoreDelay, \* ticks until stamina is restored: 10 in the code
  DrownDelay,   \* ticks until one that drowned is taken back: 20 in the code
  MaxSkiffs     \* bound: skiffs created, in all

\* What a motion sets for every tick to come; the slow motions cost at steps of
\* the client, the others leave it as it was.
TickCost == [stand |-> 1, dash |-> -1, climb |-> 0, swim |-> 0, swimDash |-> -1,
             poweredFly |-> 1, skiff |-> 1, skiffDash |-> -1, skiffPowered |-> 1]
Motions == DOMAIN TickCost \cup {"climbJump", "dashBefore"}
StartCost == [climb |-> -1, climbJump |-> -2, dashBefore |-> -2, swimDash |-> -1]
StepMotions == {"climb", "swim"}
SwimMotions == {"swim", "swimDash"}

VARIABLES
  info,   \* StaminaInfo of each player, its stamina, Pause, and whether it is drowned
  scene,  \* the scene of each player
  loaded, \* the players that are SceneEnterDone
  aboard, \* VehicleInfo.InVehicleEntityId
  last,   \* VehicleInfo.LastCreateEntityIdMap, for the one kind there is
  skiffs, \* the skiffs that exist: id -> [owner, scene, members, cur]
  ids,    \* entityIdCounter
  login,  \* which login of the player this is: a player object of its own
  since,  \* ghost: ticks since the player was last charged, up to RestoreDelay
  budget    \* changes of motion that are left

vars == <<info, scene, loaded, aboard, last, skiffs, ids, login, since, budget>>
Here == DOMAIN info
sailing == <<scene, aboard, last, skiffs, ids, login>>

Fresh == [state |-> "none", cost |-> 0, delay |-> 0, skiffDelay |-> 0,
          back |-> 0, cur |-> MaxStamina, pause |-> FALSE, dead |-> FALSE]

Init ==
  \E w \in Worlds :
    /\ info = [p \in w.players |-> Fresh]
    /\ scene = [p \in w.players |-> CHOOSE s \in Scenes : TRUE]
    /\ loaded = w.players
    /\ aboard = [p \in w.players |-> NoSkiff]
    /\ last = [p \in w.players |-> NoSkiff]
    /\ skiffs = << >>
    /\ ids = 0
    /\ login = [p \in w.players |-> 0]
    /\ since = [p \in w.players |-> RestoreDelay]
    /\ budget = w.motions

\* What the bounds are: whoever instantiates the module sees to it.
StaminaAssumption ==
  /\ {MaxStamina, RestoreDelay, DrownDelay, MaxSkiffs} \subseteq Nat /\ DrownDelay >= 2
  /\ Scenes # {} /\ NoSkiff = 0
  /\ Worlds \subseteq [players : SUBSET Players, motions : Nat]

-----------------------------------------------------------------------------
\* GetChangeStamina
Change(cur, cost) == IF cur + cost > MaxStamina THEN MaxStamina
                     ELSE IF cur + cost < 0 THEN 0 ELSE cur + cost

\* The avatar of one that drowns, and of one that is back on the ground.
KillPlayerAvatar(i) == [i EXCEPT !.dead = TRUE]
RevivePlayerAvatar(i) == [i EXCEPT !.dead = FALSE]
HandleDrown(i, cur) ==
  IF cur = 0 /\ i.back = 0 /\ i.state \in SwimMotions
  THEN [KillPlayerAvatar(i) EXCEPT !.back = 1] ELSE i

\* UpdatePlayerStamina.  Restoring waits, but for a glider that is carried up.
Waits(i, cost) == cost > 0 /\ i.delay < RestoreDelay /\ i.state # "poweredFly"
Charge(i, cost) == [HandleDrown(i, Change(i.cur, cost)) EXCEPT
                      !.cur = Change(i.cur, cost), !.delay = IF cost < 0 THEN 0 ELSE @]
UpdatePlayerStamina(i, cost) ==
  IF cost = 0 THEN i
  ELSE IF Waits(i, cost) THEN [i EXCEPT !.delay = @ + 1]
  ELSE Charge(i, cost)

\* UpdateVehicleStamina of a skiff, on behalf of a player.
SkiffWaits(i, cost) == cost > 0 /\ i.skiffDelay < RestoreDelay /\ i.state # "skiffPowered"
SkiffDelay(i, cost) ==
  IF cost = 0 THEN i
  ELSE IF SkiffWaits(i, cost) THEN [i EXCEPT !.skiffDelay = @ + 1]
  ELSE IF cost < 0 THEN [i EXCEPT !.skiffDelay = 0] ELSE i
SkiffCur(i, cur, cost) == IF SkiffWaits(i, cost) THEN cur ELSE Change(cur, cost)

\* GetEntity in the scene of the player, and IsPlayerInVehicle.
Seen(p, e) == e \in DOMAIN skiffs /\ skiffs[e].scene = scene[p]
Self(p) == <<p, login[p]>>
IsPlayerInVehicle(p, e) == Self(p) \in skiffs[e].members

-----------------------------------------------------------------------------
\* A movement message: ImmediateStamina, also of a skiff its sailor moves.
ImmediateStamina(p, m) ==
  LET i == info[p]
      set == [i EXCEPT !.cost = IF m \in DOMAIN TickCost THEN TickCost[m] ELSE @, !.state = m]
      charged == m \in DOMAIN StartCost /\ m # i.state
  IN /\ p \in loaded /\ ~i.pause /\ budget > 0
     /\ budget' = budget - 1
     /\ info' = [info EXCEPT ![p] = IF charged THEN UpdatePlayerStamina(set, StartCost[m]) ELSE set]
     /\ since' = [since EXCEPT ![p] = IF charged THEN 0 ELSE @]
     /\ UNCHANGED <<sailing, loaded>>

\* SceneAvatarStaminaStepReq
SceneAvatarStaminaStepReq(p) ==
  /\ p \in loaded /\ info[p].state \in StepMotions /\ budget > 0
  /\ budget' = budget - 1
  /\ info' = [info EXCEPT ![p] = UpdatePlayerStamina(@, -1)]
  /\ since' = [since EXCEPT ![p] = 0]
  /\ UNCHANGED <<sailing, loaded>>

\* HandleAbilityStamina: a heavy attack long enough after the last.
HandleAbilityStamina(p) ==
  /\ p \in loaded /\ budget > 0
  /\ budget' = budget - 1
  /\ info' = [info EXCEPT ![p] = UpdatePlayerStamina(@, -1)]
  /\ since' = [since EXCEPT ![p] = 0]
  /\ UNCHANGED <<sailing, loaded>>

PlayerSetPauseReq(p) ==
  /\ budget > 0
  /\ budget' = budget - 1
  /\ info' = [info EXCEPT ![p].pause = ~@]
  /\ UNCHANGED <<sailing, loaded, since>>

\* SustainStaminaHandler: aboard, the skiff is charged and not its sailor.
Sustain(i, e, in) == IF in THEN SkiffDelay(i, i.cost) ELSE UpdatePlayerStamina(i, i.cost)
\* VehicleRestoreStaminaHandler: the sailor restores meanwhile, and the skiff
\* that a player has left if it has still to do with it.
Restore(i, e, in) == IF in THEN UpdatePlayerStamina(i, 1)
                     ELSE IF e = NoSkiff THEN i ELSE SkiffDelay(i, 1)
\* DrownBackHandler: the player is taken to safe ground, then revived there.
DrownBack(i) ==
  CASE i.back = 0 -> i
    [] i.back > DrownDelay -> [RevivePlayerAvatar(i) EXCEPT !.back = 0]
    [] i.back = DrownDelay -> [i EXCEPT !.cur = MaxStamina \div 2, !.back = @ + 1]
    [] OTHER -> [i EXCEPT !.back = @ + 1]

\* onTick200MilliSecond, for one player.
OnTick(p) ==
  LET i == info[p]
      e == IF aboard[p] # NoSkiff /\ Seen(p, aboard[p]) THEN aboard[p] ELSE NoSkiff
      in == e # NoSkiff /\ IsPlayerInVehicle(p, e)
      one == Sustain(i, e, in)
      two == Restore(one, e, in)
      charged == ~in /\ i.cost < 0
  IN /\ p \in loaded /\ ~i.pause
     /\ info' = [info EXCEPT ![p] = DrownBack(two)]
     /\ skiffs' = IF e = NoSkiff THEN skiffs
                  ELSE [skiffs EXCEPT ![e].cur = IF in THEN SkiffCur(i, @, i.cost) ELSE SkiffCur(one, @, 1)]
     /\ loaded' = IF i.back = DrownDelay THEN loaded \ {p} ELSE loaded
     /\ since' = [since EXCEPT ![p] = IF charged THEN 0 ELSE IF @ < RestoreDelay THEN @ + 1 ELSE @]
     /\ UNCHANGED <<scene, aboard, last, ids, login, budget>>

-----------------------------------------------------------------------------
\* A player goes to another scene, has entered it, or logs in again.
TeleportPlayer(p, s) ==
  /\ p \in loaded /\ s # scene[p] /\ budget > 0
  /\ budget' = budget - 1
  /\ scene' = [scene EXCEPT ![p] = s]
  /\ loaded' = loaded \ {p}
  /\ UNCHANGED <<info, aboard, last, skiffs, ids, login, since>>
EnterSceneDoneReq(p) ==
  /\ p \notin loaded
  /\ loaded' = loaded \cup {p}
  /\ UNCHANGED <<info, sailing, since, budget>>
ReLogin(p) ==
  /\ budget > 0
  /\ budget' = budget - 1
  /\ login' = [login EXCEPT ![p] = @ + 1]
  /\ info' = [info EXCEPT ![p] = [Fresh EXCEPT !.cur = info[p].cur]]
  /\ aboard' = [aboard EXCEPT ![p] = NoSkiff]
  /\ last' = [last EXCEPT ![p] = NoSkiff]
  /\ loaded' = loaded \ {p}
  /\ since' = [since EXCEPT ![p] = 0]
  /\ UNCHANGED <<scene, skiffs, ids>>

\* DestroyVehicleEntity, of a player's own skiff, which it leaves first.
Owns(p, e) == Seen(p, e) /\ skiffs[e].owner = Self(p)
Without(e) == [x \in DOMAIN skiffs \ {e} |-> skiffs[x]]
\* Mutant: it is not made to leave.
LeftNot(p, e) == aboard
Left(p, e) == IF IsPlayerInVehicle(p, e) THEN [aboard EXCEPT ![p] = NoSkiff] ELSE aboard

\* GetNextWorldEntityId, which no entity of the world has, and a new skiff.
GetNextWorldEntityId == ids + 1
CreateEntityGadgetVehicle(p) ==
  [owner |-> Self(p), scene |-> scene[p], members |-> {}, cur |-> MaxStamina]

\* CreateVehicleReq destroys the one the player made last, if it is in this scene.
CreateVehicleReq(p) ==
  LET e == GetNextWorldEntityId
      old == last[p] # NoSkiff /\ Owns(p, last[p])
      kept == IF old THEN Without(last[p]) ELSE skiffs
  IN /\ p \in loaded /\ ids < MaxSkiffs
     /\ ids' = e
     /\ skiffs' = [x \in DOMAIN kept \cup {e} |-> IF x = e THEN CreateEntityGadgetVehicle(p) ELSE kept[x]]
     /\ aboard' = IF old THEN Left(p, last[p]) ELSE aboard
     /\ last' = [last EXCEPT ![p] = e]
     /\ UNCHANGED <<info, scene, loaded, login, since, budget>>

\* VehicleInteractReq: EnterVehicle, perhaps from another skiff, whose seat is
\* then not given up; ExitVehicle, and the motion that asks for a skiff's
\* destruction.
EnterVehicle(p, e) ==
  /\ p \in loaded /\ Seen(p, e)
  /\ skiffs[e].members = {}
  /\ skiffs' = [skiffs EXCEPT ![e].members = {Self(p)}]
  /\ aboard' = [aboard EXCEPT ![p] = e]
  /\ UNCHANGED <<info, scene, loaded, last, ids, login, since, budget>>
ExitVehicle(p, e) ==
  /\ p \in loaded /\ Seen(p, e) /\ IsPlayerInVehicle(p, e)
  /\ skiffs' = [skiffs EXCEPT ![e].members = @ \ {Self(p)}]
  /\ aboard' = [aboard EXCEPT ![p] = NoSkiff]
  /\ UNCHANGED <<info, scene, loaded, last, ids, login, since, budget>>
VehicleDestroyMotion(p, e) ==
  /\ p \in loaded /\ Owns(p, e)
  /\ aboard' = Left(p, e)
  /\ skiffs' = Without(e)
  /\ UNCHANGED <<info, scene, loaded, last, ids, login, since, budget>>

Next ==
  \E p \in Here :
    \/ \E m \in Motions : ImmediateStamina(p, m)
    \/ SceneAvatarStaminaStepReq(p) \/ HandleAbilityStamina(p) \/ PlayerSetPauseReq(p) \/ OnTick(p)
    \/ EnterSceneDoneReq(p) \/ ReLogin(p) \/ CreateVehicleReq(p)
    \/ \E s \in Scenes : TeleportPlayer(p, s)
    \/ \E e \in 1..MaxSkiffs : EnterVehicle(p, e) \/ ExitVehicle(p, e) \/ VehicleDestroyMotion(p, e)

-----------------------------------------------------------------------------
\* A player's stamina grows only when RestoreDelay ticks have gone by since it
\* was last charged, whatever it sailed, climbed or left meanwhile; but for a
\* glider carried up and for one that drowned.
WaitedOut ==
  \A p \in Here : info'[p].cur > info[p].cur =>
    \/ since[p] >= RestoreDelay
    \/ info[p].state = "poweredFly"
    \/ info[p].back = DrownDelay
RestoreWaits == [][WaitedOut]_vars

\* A player that takes itself to be aboard a skiff is in its seat, in this scene
\* or another, unless the skiff was another's and is gone: nothing it does with
\* its own leaves it sailing none.
AboardAgrees ==
  \A p \in Here : aboard[p] # NoSkiff =>
    IF aboard[p] \in DOMAIN skiffs THEN IsPlayerInVehicle(p, aboard[p]) ELSE aboard[p] # last[p]
=============================================================================
