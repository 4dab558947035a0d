------------------------------ MODULE MCServer ------------------------------
(***************************************************************************)
(* One game server on small instances: MCGame's parts, the worlds          *)
(* (Multiplayer), and those that keep their records in variables that they *)
(* share.  A behaviour runs one part, chosen at the start.                 *)
(***************************************************************************)
EXTENDS MCGame, Multiplayer

CONSTANTS Bad

VARIABLES v1, v2, v3, v4, v5, v6, v7            \* those of a part, as it lists them

Registers == <<v1, v2, v3, v4, v5, v6, v7>>
Unused5 == v6 = 0 /\ v7 = 0
Unused0 == v1 = 0 /\ v2 = 0 /\ v3 = 0 /\ v4 = 0 /\ v5 = 0 /\ Unused5
ServerVars == <<GameVars, vars, Registers>>

\* Players that are neither newcomers nor found elsewhere are interchangeable.
Symmetry == Permutations(Players \ (Newcomers \cup Remote))
-----------------------------------------------------------------------------
\* A fight of two waves with a chest at its end, a bomb that kills the second wave and
\* breaks off on a lamp that may be gone, and a timer that brings a bear.
On(event, on, when, calls) == [event |-> event, on |-> on, when |-> when, calls |-> calls]
Fight == <<
  << On("monster_die", "any", "always", << <<"ChangeGroupVariableValue", "dead", 1>> >>),
     On("monster_die", "any", "cleared first",
        << <<"ChangeGroupVariableValue", "wave", 1>>, <<"AddExtraGroupSuite", 2>> >>),
     On("monster_die", "any", "cleared last",
        << <<"CreateGadget", "chest">>, <<"ChangeGroupVariableValue", "wave", 1>> >>),
     On("enter_region", "region", "always", << <<"CreateGroupTimerEvent", "wake", 5>> >>),
     On("timer", "wake", "always", << <<"CreateMonster", "bear", 2>> >>) >>,
  << On("gadget_state", "bomb", "always",
        << <<"KillEntityByConfigId", "boar">>, <<"SetGadgetStateByConfigId", "lamp", 1>> >>) >> >>
Fights == INSTANCE Scripts WITH
  Suites <- {1, 2}, InitSuite <- 1, Members <- << {"wolf", "lamp"}, {"boar", "bomb"} >>,
  Monsters <- {"wolf", "boar", "bear"}, Gadgets <- {"lamp", "bomb", "chest"}, Triggers <- Fight,
  Variables <- [wave |-> 0, dead |-> 0], NoRefresh <- {}, Region <- 1,
  MaxCallLuaFuncLoopCount <- 10, Epoch <- 100, MaxTicks <- 2, MaxMoves <- 3, MaxTurns <- 2,
  MaxLogins <- 2,
  pos <- v1, group <- v2, now <- v3, early <- v4, used <- v5

\* Two players, two scenes, one command.
Orders == INSTANCE Commands WITH
  Players <- {1, 2}, Scenes <- {s1, s2}, BigScene <- s1, Coords <- {1, 2}, PermWidth <- 2,
  MaxCmds <- 1, MaxLogins <- 2,
  objects <- v1, login <- v2, big <- v3, queue <- v4, given <- v5, crashed <- v6, cmds <- v7
-----------------------------------------------------------------------------
ServerInit ==
  /\ Init
  /\ GameInit
  /\ \/ part \notin Elsewhere \ {"worlds"} /\ Unused0
     \/ part = "fights" /\ Fights!Init /\ Unused5
     \/ part = "orders" /\ Orders!Init

ServerNext ==
  \/ GameNext /\ UNCHANGED <<vars, Registers>>
  \/ /\ UNCHANGED GameVars
     /\ \/ part = "worlds" /\ Next /\ UNCHANGED Registers
        \/ part = "fights" /\ Fights!Next /\ UNCHANGED <<vars, v6, v7>>
        \/ part = "orders" /\ Orders!Next /\ UNCHANGED vars
ServerSpec == ServerInit /\ [][ServerNext]_ServerVars
-----------------------------------------------------------------------------
\* Multiplayer: the books of the worlds agree, and the number of those open to others.
WorldsAgree == TypeOK /\ MpCount /\ BooksAgree
\* Scripts: the last monster's death brings the chest, and every death is counted.
ChestComes == part = "fights" => Fights!ChestComes /\ Fights!DeathsCounted
\* Scripts: no timer fires before its time.
TimerWaits == part = "fights" => Fights!TimerWaits
\* Commands: in whatever order its arguments are taken, a command comes to the same.
OrderNeverMatters == part = "orders" => Orders!OrderNeverMatters
=============================================================================
