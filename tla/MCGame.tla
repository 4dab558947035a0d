------------------------------- MODULE MCGame -------------------------------
(***************************************************************************)
(* What a player owns, draws, meets in a scene, has to do, sees of the big *)
(* world, has in the field, plays and sails: eight parts of a game server. *)
(* Every part is handled by the same main loop and keeps records of its    *)
(* own: a behaviour runs one part, chosen at the start, on that part's     *)
(* variables.                                                              *)
(***************************************************************************)
EXTENDS Naturals, TLC

CONSTANTS h1, h2, a1, a2, a3, g1, s1, s2, q1, q2, q3, q4, q5, None

CONSTANTS
  Avatars, MainChar, Nobody, Reliqs, MaxWeapons, PackLimit, KindLimit, MaxCount, Lockable,
  GiftItems, MaxRequests,                       \* of PlayerItems
  MaxPurple,                                    \* of Gacha
  Visitors, Host, SceneGroups, SceneSpots, Near, NearOneAxis, Born, MaxVisits, MaxMoves,
                                                \* of Scene
  QuestIds, AcceptOf, AnyOf, FinishOf, StartFires, Talks, Points,
                                                \* of Quest
  Wanderers, Sites, NumX, NumY, NumZ, CellLength, Outside, AreaLimit, MaxExtras,
                                                \* of BigWorld
  Mates, Fighters, TeamSize, TeamLists, MaxSetups, MaxJoins,
                                                \* of Team
  DeckSize, MaxPlays, MaxGoroutines,                          \* of CardGame
  Sailors, Voyages, Shores, MaxStamina, RestoreDelay, DrownDelay, MaxSkiffs
                                                \* of Stamina

VARIABLES
  part,                                         \* the part that is explored
  items, weapons, reliqs, grown, hand, slot, guids, inWorld, made, requests, doubtful,
                                                \* PlayerItems'
  type, times, mustGetUp, plain, offBanner,     \* Gacha's
  phase, old, mp, scene, kills, states, pending, paid,
                                                \* Scene's, with pos and spent
  agenda, present, points,                      \* Quest's, with state
  active, grids, away, sees, said, heard, changed,
                                                \* BigWorld's, with state, pos and spent
  team, current, saved, world, open, peers, local, index, worldTeam, astray,
                                                \* Team's, with spent
  game, load, todo, ai, told, moves, amiss,     \* CardGame's
  info, shore, loaded, aboard, last, skiffs, ids, login, since, budget,
                                                \* Stamina's
  state, pos, spent                             \* of several
-----------------------------------------------------------------------------
\* Two avatars, two reliquaries, three weapons.
Items == INSTANCE PlayerItems
ItemVars == <<items, weapons, reliqs, grown, hand, slot, guids, inWorld, made, requests, doubtful>>
ASSUME Items!ItemsAssumption
NoItems ==
  /\ items = 0 /\ weapons = 0 /\ reliqs = 0 /\ grown = 0 /\ hand = 0 /\ slot = 0 /\ guids = 0
  /\ inWorld = 0 /\ made = 0 /\ requests = 0 /\ doubtful = 0
\* The draws of one player, up to a dozen after the last purple one.
Wishes == INSTANCE Gacha
WishVars == <<type, times, mustGetUp, plain, offBanner>>
NoWishes == type = 0 /\ times = 0 /\ mustGetUp = 0 /\ plain = 0 /\ offBanner = 0

\* A host and a guest, a group that two of three spots are about.
Groups == INSTANCE Scene WITH
  Players <- Visitors, Groups <- SceneGroups, Spots <- SceneSpots,
  Beside <- NearOneAxis, used <- spent
ASSUME Groups!SceneAssumption
SceneVars == <<phase, old, mp, scene, kills, states, pending, paid>>
NoScene ==
  /\ phase = 0 /\ old = 0 /\ mp = 0 /\ scene = 0 /\ kills = 0 /\ states = 0 /\ pending = 0
  /\ paid = 0
NearG1 == g1 :> {a1}
BesideG1 == g1 :> {a1, a3}

\* Five quests: two wait for the first, one for the second not to be finished, one for
\* either of two states.
Quests == INSTANCE Quest WITH Quests <- QuestIds, inWorld <- present
ASSUME Quests!QuestAssumption
QuestVars == <<agenda, present, points>>
NoQuests == agenda = 0 /\ present = 0 /\ points = 0
QuestAccept ==
  q1 :> {} @@ q2 :> {<<q1, "equal", "finished">>} @@ q3 :> {<<q1, "equal", "finished">>}
  @@ q4 :> {<<q2, "equal", "unfinished">>}
  @@ q5 :> {<<q2, "equal", "finished">>, <<q3, "not", "finished">>}
QuestFinish ==
  q1 :> {"talk"} @@ q2 :> {"plot", "lua"} @@ q3 :> {"lua", "point"} @@ q4 :> {"skill"}
  @@ q5 :> {"plot"}
QuestFires == [x \in {q1, q2, q3, q4, q5} |-> IF x \in {q2, q5} THEN {"lua"} ELSE {}]

\* Positions in corners, a middle and just outside of three by two by three cells.
Big == INSTANCE BigWorld WITH
  Players <- Wanderers, Spots <- Sites, frozen <- away, used <- spent
ASSUME Big!BigWorldAssumption
BigVars == <<active, grids, away, sees, said, heard, changed>>
NoBig ==
  /\ active = 0 /\ grids = 0 /\ away = 0 /\ sees = 0 /\ said = 0 /\ heard = 0 /\ changed = 0
Corners == {<<1, 1, 1>>, <<5, 1, 1>>, <<1, 1, 3>>, <<3, 3, 3>>, <<0, 1, 1>>}

\* Three players with three avatars each.
Teams == INSTANCE Team WITH
  Players <- Mates, Avatars <- Fighters, Teams <- TeamLists, MaxMoves <- MaxJoins,
  mp <- open, used <- spent
ASSUME Teams!TeamAssumption
TeamVars == <<team, current, saved, world, open, peers, local, index, worldTeam, astray>>
NoTeams ==
  /\ team = 0 /\ current = 0 /\ saved = 0 /\ world = 0 /\ open = 0 /\ peers = 0 /\ local = 0
  /\ index = 0 /\ worldTeam = 0 /\ astray = 0
Lists == {<<a1, a2, a3>>, <<a2, a1>>}

\* A duel.
Cards == INSTANCE CardGame WITH MaxMoves <- MaxPlays
ASSUME Cards!CardAssumption
CardVars == <<game, load, todo, ai, told, moves, amiss>>
NoCards ==
  /\ game = 0 /\ load = 0 /\ todo = 0 /\ ai = 0 /\ told = 0 /\ moves = 0 /\ amiss = 0

\* One player with many motions, or two that share skiffs.
Sea == INSTANCE Stamina WITH
  Players <- Sailors, Worlds <- Voyages, Scenes <- Shores, NoSkiff <- 0, scene <- shore
ASSUME Sea!StaminaAssumption
SeaVars == <<info, shore, loaded, aboard, last, skiffs, ids, login, since, budget>>
NoSea ==
  /\ info = 0 /\ shore = 0 /\ loaded = 0 /\ aboard = 0 /\ last = 0 /\ skiffs = 0 /\ ids = 0
  /\ login = 0 /\ since = 0 /\ budget = 0
Alone == [players |-> {h1}, motions |-> 3]
Shared == [players |-> {h1, h2}, motions |-> 1]
AloneOrShared == {Alone, Shared}

SharedVars == <<state, pos, spent>>
OwnVars ==
  <<ItemVars, WishVars, SceneVars, QuestVars, BigVars, TeamVars, CardVars, SeaVars, SharedVars>>
GameVars == <<part, OwnVars>>
NoOwn == /\ NoItems /\ NoWishes /\ NoScene /\ NoQuests /\ NoBig /\ NoTeams /\ NoCards /\ NoSea
         /\ state = 0 /\ pos = 0 /\ spent = 0
-----------------------------------------------------------------------------
\* The parts of the game server that are not among these (MCServer has them).
Elsewhere == {"worlds", "fights", "orders"}

\* A part starts, and what is not its own stays 0.
GameInit ==
  \/ /\ part = "items" /\ Items!Init
     /\ NoWishes /\ NoScene /\ NoQuests /\ NoBig /\ NoTeams /\ NoCards /\ NoSea /\ state = 0
     /\ pos = 0 /\ spent = 0
  \/ /\ part = "wishes" /\ Wishes!Init
     /\ NoItems /\ NoScene /\ NoQuests /\ NoBig /\ NoTeams /\ NoCards /\ NoSea /\ state = 0
     /\ pos = 0 /\ spent = 0
  \/ /\ part = "groups" /\ Groups!Init
     /\ NoItems /\ NoWishes /\ NoQuests /\ NoBig /\ NoTeams /\ NoCards /\ NoSea /\ state = 0
  \/ /\ part = "quests" /\ Quests!Init
     /\ NoItems /\ NoWishes /\ NoScene /\ NoBig /\ NoTeams /\ NoCards /\ NoSea /\ pos = 0
     /\ spent = 0
  \/ /\ part = "big" /\ Big!Init
     /\ NoItems /\ NoWishes /\ NoScene /\ NoQuests /\ NoTeams /\ NoCards /\ NoSea
  \/ /\ part = "teams" /\ Teams!Init
     /\ NoItems /\ NoWishes /\ NoScene /\ NoQuests /\ NoBig /\ NoCards /\ NoSea /\ state = 0
     /\ pos = 0
  \/ /\ part = "cards" /\ Cards!Init
     /\ NoItems /\ NoWishes /\ NoScene /\ NoQuests /\ NoBig /\ NoTeams /\ NoSea /\ state = 0
     /\ pos = 0 /\ spent = 0
  \/ /\ part = "sea" /\ Sea!Init
     /\ NoItems /\ NoWishes /\ NoScene /\ NoQuests /\ NoBig /\ NoTeams /\ NoCards /\ state = 0
     /\ pos = 0 /\ spent = 0
  \/ part \in Elsewhere /\ NoOwn

\* What each part leaves alone.
NotItems == <<WishVars, SceneVars, QuestVars, BigVars, TeamVars, CardVars, SeaVars, SharedVars>>
NotWishes == <<ItemVars, SceneVars, QuestVars, BigVars, TeamVars, CardVars, SeaVars, SharedVars>>
NotGroups == <<ItemVars, WishVars, QuestVars, BigVars, TeamVars, CardVars, SeaVars, state>>
NotQuests == <<ItemVars, WishVars, SceneVars, BigVars, TeamVars, CardVars, SeaVars, pos, spent>>
NotBig == <<ItemVars, WishVars, SceneVars, QuestVars, TeamVars, CardVars, SeaVars>>
NotTeams == <<ItemVars, WishVars, SceneVars, QuestVars, BigVars, CardVars, SeaVars, state, pos>>
NotCards == <<ItemVars, WishVars, SceneVars, QuestVars, BigVars, TeamVars, SeaVars, SharedVars>>
NotSea == <<ItemVars, WishVars, SceneVars, QuestVars, BigVars, TeamVars, CardVars, SharedVars>>
GameNext ==
  /\ part' = part
  /\ \/ part = "items" /\ Items!Next /\ UNCHANGED NotItems
     \/ part = "wishes" /\ Wishes!Next /\ UNCHANGED NotWishes
     \/ part = "groups" /\ Groups!Next /\ UNCHANGED NotGroups
     \/ part = "quests" /\ Quests!Next /\ UNCHANGED NotQuests
     \/ part = "big" /\ Big!Next /\ UNCHANGED NotBig
     \/ part = "teams" /\ Teams!Next /\ UNCHANGED NotTeams
     \/ part = "cards" /\ Cards!Next /\ UNCHANGED NotCards
     \/ part = "sea" /\ Sea!Next /\ UNCHANGED NotSea
GameSpec == GameInit /\ [][GameNext]_GameVars
-----------------------------------------------------------------------------
\* PlayerItems: the three records of who wears what agree.
EquipAgrees == part = "items" => Items!TypeOK /\ Items!EquipAgrees
\* PlayerItems: a player never pays for nothing.
NothingLostInVain == [][part = "items" => Items!PaysForSomething]_GameVars
\* Scene: a chest gives its reward once in its owner's world.
ChestPaysOnce == part = "groups" => Groups!ChestPaysOnce
\* Scene: what stands in the scene is what the group's suites hold.
SuitesAgree == part = "groups" => Groups!SuitesAgree
\* Quest: between two requests no quest that waited for a finished one is left behind.
FinishOpensNext == part = "quests" => Quests!FinishOpensNext
\* Gacha: ten draws hold one of four or five stars, ninety one of five.
Pity == part = "wishes" => Wishes!Pity
\* Gacha: of two items of a rarity in a row, one is featured.
UpGuaranteed == [][part = "wishes" => Wishes!UpComes]_GameVars
\* BigWorld: what a client shows is what is there.
SeesAgree == part = "big" => Big!SeesAgree /\ Big!GridAgrees /\ Big!AreaLimitHolds
\* BigWorld: no entry of combat reaches a client that does not show the sender.
HeardBySeers == part = "big" => Big!HeardBySeers
\* Team: the active avatar a player chose among its seats stays on the field, its record says
\* so, and every player has the seats it is due.
ActiveOnField == part = "teams" => Teams!ActiveOnField /\ Teams!RecordAgrees /\ Teams!SeatsShared
\* CardGame: a duel that rests waits for the player, whose client knows it.
TurnPasses == part = "cards" => Cards!TurnPasses
\* Stamina: it is restored only after the delay, and whoever takes itself to be aboard a
\* skiff is in its seat after every step.
StaminaAgrees == [][part = "sea" => Sea!WaitedOut /\ Sea!AboardAgrees']_GameVars
=============================================================================
