-------------------------------- MODULE Scripts --------------------------------
(***************************************************************************)
(* The scripts of a scene group, and the timers of the player they run for *)
(* (gs/game/lua_trigger.go, lua_func.go, game_tick_manager.go, and in      *)
(* player_scene.go what the library functions call).  An event looks for   *)
(* the triggers of the group's suites; the action of a trigger is a Lua    *)
(* function, a sequence of calls of the library, and a call may raise the  *)
(* next event before it returns.                                           *)
(*                                                                         *)
(* A handler runs to its end on the main loop, so an event with all that   *)
(* follows from it is one step.  The suites are a Go map: the loop over    *)
(* them takes any order, and may or may not come to a suite that an action *)
(* adds while it runs.  The Go stack is explicit: a call of the code gives  *)
(* the moments after it, the state with the tasks it leaves to be done      *)
(* next, and Outcomes does the tasks until none is left.                    *)
(***************************************************************************)
EXTENDS Integers, Sequences, FiniteSets, FiniteSetsExt, TLC

CONSTANTS
  Suites, InitSuite, \* suites of the group, the one it begins with
  Members,           \* the configurations of each suite
  Monsters, Gadgets, \* all configurations of the group
  Triggers,          \* of each suite: [event, on, when, calls], in order
  Variables,         \* first value of each variable of the group
  NoRefresh,         \* the variables a later load leaves alone
  Region,            \* the suite the region is in
  MaxCallLuaFuncLoopCount,
  Epoch,             \* the clock at the start, later than any delay
  MaxTicks, MaxMoves, MaxTurns, MaxLogins \* bounds

VARIABLES
  pos,    \* where the player is: "far" from the group, "near", in its "region", "off" line
  group,  \* the group, its record, the player's timers and the Lua calls under way
  now,    \* the clock, in seconds
  early,  \* ghost: a timer was handled before its delay was over
  used    \* bounded events so far

vars == <<pos, group, now, early, used>>

Configs == Monsters \cup Gadgets
Nothing == [u \in Suites |-> [c \in Configs |-> 0]]

Init ==
  /\ pos = "off"
  /\ group = [suites |-> {}, held |-> Nothing, whole |-> FALSE,   \* the group in the scene
              vars |-> Variables, kills |-> {},                   \* DbSceneGroup: nothing reads a
              states |-> [c \in Gadgets |-> 0],                   \* variable before the first load
              timers |-> {}, ids |-> 0,                           \* UserTick
              depth |-> 0, broken |-> FALSE,                      \* CallLuaFuncLoopCount, a panic
              deaths |-> 0]                                       \* ghost: since the group was loaded
  /\ now = Epoch
  /\ early = FALSE
  /\ used = [ticks |-> 0, moves |-> 0, turns |-> 0, logins |-> 0]

Spend(e, bound) == used[e] < bound /\ used' = [used EXCEPT ![e] = @ + 1]

-----------------------------------------------------------------------------
\* GetEntityByConfigId, and GetAllEntity
There(s, c) == \E u \in s.suites : s.held[u][c] > 0
GetGroupMonsterCount(s) == MapThenSumSet(LAMBDA c : MapThenSumSet(LAMBDA u : s.held[u][c], Suites), Monsters)

\* CreateUserTimer: the delay alone is the time it is due at.
CreateUserTimer(s, action, about, delay, t) ==
  [s EXCEPT !.ids = @ + 1,
            !.timers = @ \cup {[id |-> s.ids, action |-> action, about |-> about,
                               timeout |-> delay, due |-> t + delay]}]

\* SetVariable
SetVariable(s, name, v) == [s EXCEPT !.vars[name] = v]
Value(s, name) == s.vars[name]

\* AddSceneGroupSuiteCore leaves out what the record says is killed.
AddGroupSuite(s, u, cs) ==
  [s EXCEPT !.suites = @ \cup {u}, !.held[u] = [c \in Configs |-> @[c] + IF c \in cs THEN 1 ELSE 0]]
AddSceneGroupSuite(s, u) == AddGroupSuite(s, u, Members[u] \ s.kills)

\* A call that leaves nothing more to be done.
Done(s) == {<<s, << >> >>}

\* What is done after what was called.
Then(moments, task) == {<<m[1], Append(m[2], task)>> : m \in moments}

\* A nil entity in a library function: the rest of the Lua function is not run.
Panic(s) == Done([s EXCEPT !.broken = TRUE])

-----------------------------------------------------------------------------
\* The condition of a trigger, itself a Lua function.
Holds(s, when) ==
  CASE when = "always" -> TRUE
    [] when = "cleared first" -> GetGroupMonsterCount(s) = 0 /\ Value(s, "wave") = 0
    [] when = "cleared last" -> GetGroupMonsterCount(s) = 0 /\ Value(s, "wave") = 1

\* The tasks: the suites that a loop has still to come to (and those there were when it
\* last looked), the triggers of a suite from one on, the calls of a function from one
\* on, its return, an entity's end, the look at the region, the timers of a tick.
Topics == Monsters \cup UNION {{Triggers[u][i].on : i \in DOMAIN Triggers[u]} : u \in Suites}
Event == [event : STRING, on : STRING]
Timer == [id : Nat, action : {"monster", "event"}, about : Topics, timeout : Nat, due : Nat]
Tasks ==
  ({"suites"} \X (SUBSET Suites) \X (SUBSET Suites) \X Event)
    \cup ({"triggers"} \X Suites \X Nat \X Event)
    \cup ({"calls"} \X Suites \X Nat \X Nat) \cup ({"return"} \X Nat)
    \cup ({"killed"} \X Suites \X Configs) \cup ({"kill"} \X Configs)
    \cup ({"region"} \X STRING) \cup ({"timers"} \X (SUBSET Timer) \X (SUBSET Timer))
GroupType ==
  [suites : SUBSET Suites, held : [Suites -> [Configs -> Int]], whole : BOOLEAN,
   vars : [DOMAIN Variables -> Int], kills : SUBSET Configs, states : [Gadgets -> Nat],
   timers : SUBSET Timer, ids : Nat, depth : Nat, broken : BOOLEAN, deaths : Nat]

\* CallLuaFunc: not deeper than the limit, and a panic ends the function.
CallLuaFunc(s, u, i) ==
  IF s.depth > MaxCallLuaFuncLoopCount THEN Done(s)
  ELSE {<<[s EXCEPT !.depth = @ + 1], << <<"calls", u, i, 1>>, <<"return", s.depth>> >> >>}
Return(s, depth) == Done([s EXCEPT !.depth = depth, !.broken = FALSE])

\* forEachGroupTrigger: the triggers of a suite in order, the suites in any.
TriggersOf(s, u, i, e) ==
  LET t == Triggers[u][i]
      fires == t.event = e.event /\ t.on \in {e.on, "any"} /\ Holds(s, t.when)
      called == IF fires THEN CallLuaFunc(s, u, i) ELSE Done(s)
  IN IF i > Len(Triggers[u]) THEN Done(s) ELSE Then(called, <<"triggers", u, i + 1, e>>)
EachSuite(s, todo, had, e) ==
  UNION {IF t = {} THEN Done(s)
         ELSE {<<s, << <<"triggers", u, 1, e>>, <<"suites", t \ {u}, s.suites, e>> >> >> : u \in t} :
         t \in {todo \cup more : more \in SUBSET (s.suites \ had)}}
TriggerCheck(s, event, on) == << <<"suites", s.suites, s.suites, [event |-> event, on |-> on]>> >>

\* The checks, one of each event.
GroupLoadTriggerCheck(s) == TriggerCheck(s, "group_load", "group")
MonsterCreateTriggerCheck(s, c) == TriggerCheck(s, "monster_live", c)
MonsterDieTriggerCheck(s, c) == TriggerCheck(s, "monster_die", c)
GadgetCreateTriggerCheck(s, c) == TriggerCheck(s, "gadget_create", c)
GadgetDieTriggerCheck(s, c) == TriggerCheck(s, "gadget_die", c)
GadgetStateChangeTriggerCheck(s, c) == TriggerCheck(s, "gadget_state", c)
TimerEventTriggerCheck(s, source) == TriggerCheck(s, "timer", source)
SceneRegionTriggerCheck(s, event) ==
  {<<s, IF Region \notin s.suites THEN << >>
        ELSE << <<"triggers", Region, 1, [event |-> event, on |-> "region"]>> >> >>}

\* SceneGroupCreateEntity adds it to the first suite, whether or not it is loaded.
SceneGroupCreateEntity(s, c) ==
  LET t == AddGroupSuite(s, InitSuite, {c})
  IN {<<t, IF c \in Monsters THEN MonsterCreateTriggerCheck(t, c) ELSE GadgetCreateTriggerCheck(t, c)>>}

\* Out of the scene, into the record, out of the group.
Destroyed(s, u, c) ==
  Done([s EXCEPT !.kills = @ \cup {c}, !.held[u][c] = @ - 1,
                 !.deaths = IF c \in Monsters THEN @ + 1 ELSE @])
DieTriggerCheck(s, c) == IF c \in Monsters THEN MonsterDieTriggerCheck(s, c) ELSE GadgetDieTriggerCheck(s, c)
\* Mutant: the triggers are looked for before the group lets go of it.
KillEntityLate(s, c) ==
  {<<s, Append(DieTriggerCheck(s, c), <<"killed", u, c>>)>> : u \in {v \in Suites : s.held[v][c] > 0}}
\* KillEntity: then the triggers of its death.
KillEntity(s, c) ==
  {<<s, << <<"killed", u, c>> >> \o DieTriggerCheck(s, c)>> : u \in {v \in s.suites : s.held[v][c] > 0}}

\* ChangeGadgetState
ChangeGadgetState(s, c, v) ==
  {<<[s EXCEPT !.states[c] = v], GadgetStateChangeTriggerCheck(s, c)>>}

\* The library.
CreateMonster(s, c, delay) == Done(CreateUserTimer(s, "monster", c, delay, now))
CreateGroupTimerEvent(s, source, delay) == Done(CreateUserTimer(s, "event", source, delay, now))
CreateGadget(s, c) == SceneGroupCreateEntity(s, c)
KillEntityByConfigId(s, c) == IF There(s, c) THEN KillEntity(s, c) ELSE Panic(s)
SetGadgetStateByConfigId(s, c, v) == IF There(s, c) THEN ChangeGadgetState(s, c, v) ELSE Panic(s)
AddExtraGroupSuite(s, u) == Done(AddSceneGroupSuite(s, u))
ChangeGroupVariableValue(s, name, n) == Done(SetVariable(s, name, Value(s, name) + n))
Call(s, f) ==
  CASE f[1] = "CreateMonster" -> CreateMonster(s, f[2], f[3])
    [] f[1] = "CreateGroupTimerEvent" -> CreateGroupTimerEvent(s, f[2], f[3])
    [] f[1] = "CreateGadget" -> CreateGadget(s, f[2])
    [] f[1] = "KillEntityByConfigId" -> KillEntityByConfigId(s, f[2])
    [] f[1] = "SetGadgetStateByConfigId" -> SetGadgetStateByConfigId(s, f[2], f[3])
    [] f[1] = "AddExtraGroupSuite" -> AddExtraGroupSuite(s, f[2])
    [] f[1] = "ChangeGroupVariableValue" -> ChangeGroupVariableValue(s, f[2], f[3])
Calls(s, u, i, k) ==
  LET calls == Triggers[u][i].calls
  IN IF k > Len(calls) \/ s.broken THEN Done(s) ELSE Then(Call(s, calls[k]), <<"calls", u, i, k + 1>>)

\* userTimerHandle, of a player that is online.
UserTimerHandle(s, t) ==
  CASE t.action = "monster" -> SceneGroupCreateEntity(s, t.about)
    [] t.action = "event" -> {<<s, IF s.suites # {} THEN TimerEventTriggerCheck(s, t.about) ELSE << >> >>}
\* The timers are a map as well: what a timer adds is met in this tick or the next.
EachTimer(s, todo, had) ==
  UNION {IF ts = {} THEN Done(s)
         ELSE UNION {Then(UserTimerHandle([s EXCEPT !.timers = @ \ {t}], t),
                          <<"timers", ts \ {t}, s.timers>>) : t \in ts} :
         ts \in {todo \cup more : more \in SUBSET (s.timers \ had)}}

\* A task is done, and then all the others.
Do(s, t) ==
  CASE t[1] = "suites" -> EachSuite(s, t[2], t[3], t[4])
    [] t[1] = "triggers" -> TriggersOf(s, t[2], t[3], t[4])
    [] t[1] = "calls" -> Calls(s, t[2], t[3], t[4])
    [] t[1] = "return" -> Return(s, t[2])
    [] t[1] = "killed" -> Destroyed(s, t[2], t[3])
    [] t[1] = "kill" -> KillEntity(s, t[2])
    [] t[1] = "region" -> SceneRegionTriggerCheck(s, t[2])
    [] t[1] = "timers" -> EachTimer(s, t[2], t[3])
Finish[m \in GroupType \X Seq(Tasks)] ==
  IF m[2] = << >> THEN {m[1]} ELSE UNION {Finish[<<n[1], n[2] \o Tail(m[2])>>] : n \in Do(m[1], Head(m[2]))}
Outcomes(moments) == UNION {Finish[m] : m \in moments}
-----------------------------------------------------------------------------
\* AddSceneGroup: the first suite, the variables, the triggers of the load; nothing
\* when some of the group is there.
Refreshed(s) ==
  [s EXCEPT !.vars = [n \in DOMAIN Variables |-> IF n \in NoRefresh THEN @[n] ELSE Variables[n]]]
AddSceneGroup(s) ==
  LET t == Refreshed([AddSceneGroupSuite(s, InitSuite) EXCEPT !.whole = TRUE, !.deaths = 0])
  IN IF s.suites # {} THEN Done(s) ELSE {<<t, GroupLoadTriggerCheck(t)>>}
RemoveSceneGroup(s) == [s EXCEPT !.suites = {}, !.held = Nothing, !.whole = FALSE]

Away == {"far", "off"}
\* What is loaded when the player comes from one place to another.
Reload(s, from, to) ==
  IF to \in Away THEN Done(RemoveSceneGroup(s))
  ELSE IF from \in Away THEN AddSceneGroup(s) ELSE Done(s)

\* SceneBlockAoiPlayerMove: at most once in 200 ms, while the position always moves.
EntityMove(to) ==
  LET moments == Reload(group, pos, to) IN
  /\ pos # "off" /\ to # pos
  /\ Spend("moves", MaxMoves)
  /\ pos' = to
  /\ \/ group' \in Outcomes(IF to = "region" THEN Then(moments, <<"region", "enter_region">>)
                            ELSE IF pos = "region" THEN Then(moments, <<"region", "leave_region">>)
                            ELSE moments)
     \/ group' = group
  /\ UNCHANGED <<now, early>>

\* TeleportPlayer, and the login, load what is about the player and look at no region.
TeleportPlayer(to) ==
  /\ pos # "off"
  /\ Spend("moves", MaxMoves)
  /\ pos' = to
  /\ group' \in Outcomes(Reload(RemoveSceneGroup(group), "far", to))
  /\ UNCHANGED <<now, early>>
OnLogin(to) ==
  /\ pos = "off"
  /\ Spend("logins", MaxLogins)
  /\ pos' = to
  /\ group' \in Outcomes(Reload([group EXCEPT !.timers = {}], "off", to))
  /\ UNCHANGED <<now, early>>
\* OnUserOffline: DestroyUserGlobalTick; the world goes with its owner.
Gone(s) == [RemoveSceneGroup(s) EXCEPT !.timers = {}]
OnUserOffline ==
  /\ pos # "off"
  /\ pos' = "off"
  /\ group' = Gone(group)
  /\ UNCHANGED <<now, early, used>>

\* The player kills a monster, hits a switch, opens the chest.
Reaches(c) == pos \notin Away /\ There(group, c)
BeingHit(c) ==
  /\ c \in Monsters /\ Reaches(c)
  /\ group' \in Outcomes(KillEntity(group, c))
  /\ UNCHANGED <<pos, now, early, used>>
HandleGadgetBeHit(c) ==
  /\ c \in Gadgets \ {"chest"} /\ Reaches(c)
  /\ Spend("turns", MaxTurns)
  /\ group' \in Outcomes(ChangeGadgetState(group, c, 1))
  /\ UNCHANGED <<pos, now, early>>
GadgetInteractReq ==
  /\ Reaches("chest")
  /\ Spend("turns", MaxTurns)
  /\ group' \in Outcomes(Then(ChangeGadgetState(group, "chest", 1), <<"kill", "chest">>))
  /\ UNCHANGED <<pos, now, early>>

-----------------------------------------------------------------------------
\* OnGameServerTick for this player, after it looked at the keepalive time.
OnGameServerTick(t) ==
  LET ready == {r \in group.timers : t >= r.timeout}
  IN /\ pos # "off"
     /\ Spend("ticks", MaxTicks)
     /\ now' = t
     /\ early' = (early \/ \E r \in ready : t < r.due)
     /\ group' \in Outcomes(EachTimer(group, ready, group.timers))
     /\ UNCHANGED pos

Next ==
  \/ \E to \in {"far", "near", "region"} : EntityMove(to) \/ TeleportPlayer(to) \/ OnLogin(to)
  \/ OnUserOffline
  \/ \E c \in Configs : BeingHit(c) \/ HandleGadgetBeHit(c)
  \/ GadgetInteractReq
  \/ \E t \in {now, now + 1} : OnGameServerTick(t)

-----------------------------------------------------------------------------
\* The fight goes on to its end: when the last monster of a group that was loaded
\* whole is dead and none is to come, its chest stands or has been taken, whatever
\* killed the monster and in whatever order the suites were looked at.
ChestComes ==
  /\ group.whole /\ group.deaths > 0 /\ GetGroupMonsterCount(group) = 0
  /\ \A t \in group.timers : t.action # "monster"
  => There(group, "chest") \/ "chest" \in group.kills

\* A group's variable counts the deaths since it was loaded, those a script brings
\* about in the middle of another included.
DeathsCounted == group.whole => Value(group, "dead") = group.deaths

\* The log line of CreateUserTimer (game_tick_manager.go:83) says that a timer runs
\* when its delay is over.
TimerWaits == ~early
=============================================================================
