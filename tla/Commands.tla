-------------------------------- MODULE Commands --------------------------------
(***************************************************************************)
(* Administration of a game server (gs/game/game_command_manager.go,       *)
(* game_command_controller.go, game_command_gm.go, gs/service/gm.go).  A   *)
(* player writes a command to the command robot and the GM service sends   *)
(* the name of a function; both are queued, and handled by the main loop   *)
(* when it comes to them, in no order with the players' own messages.  The *)
(* arguments of a command are a Go map: the loop over them sees them in    *)
(* any order.                                                              *)
(*                                                                         *)
(* A command carries a pointer to the player object of one login.  An      *)
(* argument is a well-formed value, Bad or None; a coordinate is <<rel,  *)
(* n>>, where rel says that it began with ~.  The height is left out.      *)
(***************************************************************************)
EXTENDS Integers, Sequences, FiniteSets, SequencesExt

CONSTANTS
  Players,   \* players of this server
  Scenes,    \* scenes, and among them the only one of the big world
  BigScene,
  Coords,    \* coordinates that commands and players have
  PermWidth, \* values of uint8, the kind of a permission
  None,      \* no argument, no player
  Bad,       \* an argument that cannot be parsed
  MaxCmds,   \* bound: commands, in all
  MaxLogins  \* bound: logins of a player

VARIABLES
  objects, \* the player object of every login
  login,   \* the login that is online, 0 for none
  big,     \* the players in the big world; each other one is in its own
  queue,   \* commandTextInput
  given,   \* what players were given, as a count for each
  crashed, \* a nil world was used
  cmds     \* commands so far

vars == <<objects, login, big, queue, given, crashed, cmds>>

Home == CHOOSE c \in Coords : TRUE
NewObject == [scene |-> BigScene, x |-> Home, z |-> Home, world |-> TRUE, perm |-> 0]

Init ==
  /\ login = [p \in Players |-> 1]
  /\ objects = [p \in Players |-> << [NewObject EXCEPT !.x = p] >>]
  /\ big \in SUBSET Players
  /\ queue = << >>
  /\ given = [p \in Players |-> 0]
  /\ crashed = FALSE
  /\ cmds = 0

Online(p) == p # None /\ login[p] # 0
Object(ptr) == objects[ptr[1]][ptr[2]]
Current(p) == <<p, login[p]>>
-----------------------------------------------------------------------------
\* PlayerInputCommand, and Cmd of the GM service.
Queue(c) ==
  /\ cmds < MaxCmds
  /\ cmds' = cmds + 1
  /\ queue' = Append(queue, c)
  /\ UNCHANGED <<objects, login, big, given, crashed>>
PlayerInputCommand(p, c) == Online(p) /\ Queue([exec |-> Current(p)] @@ c)
GMServiceCmd(c) == Queue(c)

\* A player goes and comes, moves by itself, or goes to the big world.
OnUserOffline(p) ==
  /\ Online(p)
  /\ objects' = [objects EXCEPT ![p][login[p]].world = FALSE]
  /\ login' = [login EXCEPT ![p] = 0]
  /\ big' = big \ {p}
  /\ UNCHANGED <<queue, given, crashed, cmds>>
OnLogin(p) ==
  /\ ~Online(p) /\ Len(objects[p]) < MaxLogins
  /\ objects' = [objects EXCEPT ![p] = Append(@, [Last(@) EXCEPT !.world = TRUE])]
  /\ login' = [login EXCEPT ![p] = Len(objects[p]) + 1]
  /\ UNCHANGED <<big, queue, given, crashed, cmds>>

-----------------------------------------------------------------------------
\* TeleportCommand: one argument after another, into the locals of the handler.
Start(c) == [player |-> c.exec, scene |-> Object(c.exec).scene, x |-> Object(c.exec).x,
             z |-> Object(c.exec).z, target |-> None, at |-> None, refused |-> FALSE]
Refuse(l) == [l EXCEPT !.refused = TRUE]
\* Mutant: the coordinates start from the player that --u names.
TakePlayerAt(l, p) ==
  IF ~Online(p) THEN Refuse(l)
  ELSE [l EXCEPT !.player = Current(p), !.scene = Object(Current(p)).scene, !.x = Object(Current(p)).x]
TakePlayer(l, p) ==
  IF ~Online(p) THEN Refuse(l)
  ELSE [l EXCEPT !.player = Current(p), !.scene = Object(Current(p)).scene]
\* A player that is not here is on another server, and has no object here.
TakeTarget(l, p) == [l EXCEPT !.target = p, !.at = IF Online(p) THEN Current(p) ELSE None]
Coord(v, now) == IF v[1] THEN v[2] + now ELSE v[2]
TakeArg(l, k, v) ==
  IF l.refused THEN l
  ELSE IF v = Bad THEN Refuse(l)
  ELSE CASE k = "u" -> TakePlayer(l, v)
         [] k = "s" -> [l EXCEPT !.scene = v]
         [] k = "t" -> TakeTarget(l, v)
         [] k = "x" -> [l EXCEPT !.x = Coord(v, Object(l.player).x)]
         [] k = "z" -> [l EXCEPT !.z = Coord(v, Object(l.player).z)]
Given(args) == {k \in DOMAIN args : args[k] # None}
Orders(args) == SetToSeqs(Given(args))
TakeArgs(c, order) == FoldLeft(LAMBDA l, k : TakeArg(l, k, c.args[k]), Start(c), order)

\* What is wanted at least, and what may not go together.
Complete(args) ==
  /\ {"t", "x", "z"} \cap Given(args) # {}
  /\ "t" \in Given(args) => {"x", "z", "s"} \cap Given(args) = {}

\* GMTeleportPlayer looks the player up by its id; TeleportPlayer wants a world,
\* and of the big world has one scene.
GMTeleportPlayer(p, s, x, z) ==
  IF Online(p) /\ (p \in big => s = BigScene)
  THEN objects' = [objects EXCEPT ![p][login[p]] = [@ EXCEPT !.scene = s, !.x = x, !.z = z]]
  ELSE UNCHANGED objects

\* UserApplyEnterWorld of an object that has left its world takes a nil one.
UserApplyEnterWorld(ptr) == crashed' = (crashed \/ ~Object(ptr).world)

SameWorld(a, b) == a = b \/ {a[1], b[1]} \subseteq big
TeleportCommand(c, order) ==
  LET l == TakeArgs(c, order)
  IN IF ~Complete(c.args) \/ l.refused THEN UNCHANGED <<objects, crashed>>
     ELSE IF "t" \notin Given(c.args)
     THEN GMTeleportPlayer(l.player[1], l.scene, l.x, l.z) /\ UNCHANGED crashed
     ELSE IF l.at = None \/ ~SameWorld(l.player, l.at)
     THEN UserApplyEnterWorld(l.player) /\ UNCHANGED objects
     ELSE LET o == Object(l.at) IN GMTeleportPlayer(l.player[1], o.scene, o.x, o.z) /\ UNCHANGED crashed

\* GiveCommand: whom and how many, and an id or a kind that must be known.
GiveTo(l, k, v) ==
  IF l.refused THEN l
  ELSE IF v = Bad THEN Refuse(l)
  ELSE CASE k = "u" -> IF Online(v) THEN [l EXCEPT !.player = Current(v)] ELSE Refuse(l)
         [] k = "c" -> [l EXCEPT !.count = v]
         [] k = "i" -> l
GiveArgs(c, order) ==
  FoldLeft(LAMBDA l, k : GiveTo(l, k, c.args[k]), [player |-> c.exec, count |-> 1, refused |-> FALSE], order)
GMAddUserItem(p, n) == given' = IF Online(p) THEN [given EXCEPT ![p] = @ + n] ELSE given
GiveCommand(c, order) ==
  LET l == GiveArgs(c, order)
  IN IF c.args.i = None \/ l.refused THEN UNCHANGED given ELSE GMAddUserItem(l.player[1], l.count)

\* A player's command runs when its name is registered and the player has the
\* permission of it; both hold of what players send here, as every command is
\* registered for anybody.
CommandPermNormal == 0
Permitted(c) == Object(c.exec).perm >= CommandPermNormal
ExecCommand(c) ==
  /\ Permitted(c)
  /\ \/ /\ c.name = "tp"
        /\ \E order \in Orders(c.args) : TeleportCommand(c, order)
        /\ UNCHANGED given
     \/ /\ c.name = "give"
        /\ \E order \in Orders(c.args) : GiveCommand(c, order)
        /\ UNCHANGED <<objects, crashed>>

\* A function of the GM is called when every parameter fits the kind it has.
Fits(v) == v \in 0..(PermWidth - 1)
ChangePlayerCmdPerm(p, v) ==
  IF Online(p) THEN objects' = [objects EXCEPT ![p][login[p]].perm = v] ELSE UNCHANGED objects
CallGMCmd(c) ==
  /\ CASE c.func = "GMTeleportPlayer" -> GMTeleportPlayer(c.to, c.scene, c.x, Home)
       [] c.func = "ChangePlayerCmdPerm" /\ Fits(c.perm) -> ChangePlayerCmdPerm(c.to, c.perm)
       [] OTHER -> UNCHANGED objects
  /\ UNCHANGED <<given, crashed>>

HandleCommand ==
  /\ queue # << >> /\ ~crashed
  /\ queue' = Tail(queue)
  /\ LET c == Head(queue) IN IF "func" \in DOMAIN c THEN CallGMCmd(c) ELSE ExecCommand(c)
  /\ UNCHANGED <<login, big, cmds>>

Arg(S) == S \cup {None, Bad}
Places == {<<rel, n>> : rel \in BOOLEAN, n \in Coords}
Typed ==
  [name : {"tp"}, args : [u : Arg(Players), s : Arg(Scenes), t : Players \cup {None}, x : Arg(Places), z : {None}]]
  \cup [name : {"give"}, args : [u : Arg(Players), c : {None, 2}, i : Arg({1})]]
Sent == [func : {"GMTeleportPlayer"}, to : Players, scene : Scenes, x : Coords]
        \cup [func : {"ChangePlayerCmdPerm"}, to : Players, perm : 0..PermWidth]

Next ==
  \/ \E p \in Players :
       \/ \E c \in Typed : PlayerInputCommand(p, c)
       \/ OnUserOffline(p) \/ OnLogin(p)
  \/ \E c \in Sent : GMServiceCmd(c)
  \/ HandleCommand

-----------------------------------------------------------------------------
\* In whatever order the loop sees its arguments, a command comes to the same:
\* but for --u together with --s, and for --u with a coordinate that starts with ~.
Ambiguous(args) == args.u # None /\ (args.s # None \/ (args.x \notin {None, Bad} /\ args.x[1]))
OrderNeverMatters ==
  \A i \in DOMAIN queue :
    "func" \notin DOMAIN queue[i] =>
    LET c == queue[i]
    IN /\ c.name = "tp" /\ ~Ambiguous(c.args) =>
            \A one, other \in Orders(c.args) :
              LET l == TakeArgs(c, one) m == TakeArgs(c, other)
              IN l.refused = m.refused /\ (~l.refused => l = m)
       /\ c.name = "give" =>
            \A one, other \in Orders(c.args) :
              LET l == GiveArgs(c, one) m == GiveArgs(c, other)
              IN l.refused = m.refused /\ (~l.refused => l = m)
=============================================================================
