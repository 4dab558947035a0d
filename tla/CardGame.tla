------------------------------- MODULE CardGame --------------------------------
(***************************************************************************)
(* A duel of cards between a player and the computer                       *)
(* (gs/game/game_gcg_manager.go, player_gcg.go).  Controller 1 is the      *)
(* player and moves first, controller 2 the computer.                      *)
(*                                                                         *)
(* The player's operations run on the main loop.  The computer is driven   *)
(* by the message packs sent to it: while it reads them it starts a        *)
(* goroutine for each move it is to make.  Nothing orders the goroutines   *)
(* and the main loop, and all of them work on the same game.  So the main  *)
(* loop and every goroutine have a program, what they have left to do, and *)
(* a step is one instruction of one of them: a choice, a change of turn or *)
(* of phase with the packs it adds, a notification, the clearing of a      *)
(* list.  Two that add to one list at the same instant may lose a pack     *)
(* more; that the model leaves out, with the map writes Go would stop for  *)
(* and isLastMsgPack, a flag they share: each sendall sends what there is. *)
(*                                                                         *)
(* The client is an honest one: it operates when what it was told last     *)
(* allows it to.                                                           *)
(***************************************************************************)
EXTENDS Naturals, Sequences, Bags, SequencesExt

CONSTANTS DeckSize,      \* cards of a deck
          MaxMoves,      \* bound: operations of the player and skills of the computer
          MaxGoroutines  \* bound: goroutines of the computer's at a time

VARIABLES game,  \* the GCGGame and its two controllers, see NewGame
          load,  \* the player's loadState; the computer's is InitFinish
          todo,  \* the program of the main loop
          ai,    \* the goroutines of the computer's: a bag of their programs
          told,  \* what the player's client knows: the phase, and if it may operate
          moves, \* bounded operations so far
          amiss  \* ghost: what may leave the duel without a turn, see Late and Clear

vars == <<game, load, todo, ai, told, moves, amiss>>

\* What the bounds are: whoever instantiates the module sees to it.
CardAssumption == DeckSize \in Nat \ {0} /\ MaxMoves \in Nat /\ MaxGoroutines \in Nat

\* The controllers, numbered as they are created; two char cards for each.
Controllers == {1, 2}
Player == 1
AI == 2
CharCards == {1, 2}
InitDeckCard == [i \in 1..DeckSize |-> i]

\* InitGame: controllers, char cards and decks, then PhaseStart, whose packs go
\* nowhere but the history, for the game does not run.
NewGame ==
  [running |-> FALSE, phase |-> "start",
   allow |-> [c \in Controllers |-> c = Player], \* SetExceptControllerAllow
   allowMap |-> {},                              \* allowControllerMap
   selected |-> [c \in Controllers |-> 0],
   deck |-> [c \in Controllers |-> InitDeckCard],
   hand |-> [c \in Controllers |-> <<>>],
   dice |-> {},                                  \* who has its dice
   box |-> [c \in Controllers |-> <<>>],         \* msgPackList
   unsent |-> {}]                                \* ghost: whose list has packs not yet sent
Knows(phase, allow) == [phase |-> phase, allow |-> allow]

Init ==
  /\ game = NewGame /\ load = "none" /\ todo = <<>> /\ ai = EmptyBag
  /\ told = Knows("none", FALSE) /\ moves = 0 /\ amiss = {}

Spend == moves < MaxMoves /\ moves' = moves + 1
\* Bound: a duel that went amiss is followed no further; a new challenge may come.
Followed == amiss = {}

-----------------------------------------------------------------------------
\* AddAllMsgPack, of the messages that the client or the computer acts on.
Tell(g, ms) ==
  [g EXCEPT !.box = [c \in Controllers |-> g.box[c] \o ms], !.unsent = Controllers]
\* GCGMsgUpdateController: who may operate.
AllowedBy(g) == {c \in Controllers : g.allow[c]}
Update(g) == Tell(g, <<<<"update", AllowedBy(g)>>>>)

\* SetAllControllerAllow, SetExceptControllerAllow and SetControllerAllow.
AllowAll(g, b) == [g EXCEPT !.allow = [c \in Controllers |-> b]]
TurnToOther(g, c) == [g EXCEPT !.allow = [d \in Controllers |-> d # c]]

\* ControllerDrawCard takes the top card, count times.  The deck is shifted in
\* place and keeps its length, so its last card stays and is taken again.
CardAt(d, i) == IF i < Len(d) THEN d[i] ELSE d[Len(d)]
DrawCards(g, c, count) ==
  [g EXCEPT !.hand[c] = @ \o [i \in 1..count |-> CardAt(g.deck[c], i)],
            !.deck[c] = [i \in DOMAIN @ |-> CardAt(@, i + count)]]

\* ChangePhase: who may operate in the phase, its pack, and what the phase's own handler
\* does before the next phase is entered or the packs are sent.
\* Mutant: the pack says who might operate before the phase opened.
AllowedBefore(g, p) == IF p = "draw" THEN {} ELSE AllowedBy(g)
Allowed(g, p) ==
  CASE p \in {"onstage", "dice"} -> Controllers
    [] p = "main" -> AllowedBy(g)
    [] OTHER -> {}
Opened(g, p) ==
  LET map == Allowed(g, p)
      h == IF p \in {"onstage", "dice"} THEN AllowAll(g, TRUE) ELSE g
  IN Tell([h EXCEPT !.phase = p, !.allowMap = map], <<<<"phase", p, map>>>>)
Enter(g, p) ==
  LET h == Opened(g, p)
  IN CASE p = "draw" -> {DrawCards(DrawCards(h, 1, 5), 2, 5)}
       [] p = "dice" -> \* PhaseRollDice: who rolls first is the order of a map.
            {Tell([h EXCEPT !.dice = Controllers], <<<<"roll", c>>, <<"roll", 3 - c>>>>) :
               c \in Controllers}
       [] p = "premain" -> {[h EXCEPT !.allow[Player] = TRUE]}
       [] OTHER -> {h}

-----------------------------------------------------------------------------
\* The programs: ControllerSelectChar, ControllerReRollDice, ControllerUseSkill, StartGame,
\* and the computer's intention.
SelectChar(c, card) == << <<"choose", c, card>>, <<"settle">> >>
ReRollDice == << <<"hush">>, <<"enter", "premain">>, <<"enter", "main">>, <<"sendall">> >>
UseSkill(c) == << <<"turn", c>>, <<"enter", "main">>, <<"sendall">> >>
StartGame == << <<"hush">>, <<"enter", "draw">>, <<"enter", "onstage">>, <<"sendall">> >>
Intention == << <<"show">>, <<"sendall">>, <<"hold">> >>

\* ReceiveGCGMessagePackNotify: a roll that is not its own, or the main phase
\* when it is not its turn, ends the reading of the whole notification.
IsPhase(m, p) == m[1] = "phase" /\ m[2] = p
Ends(g, m) == m = <<"roll", Player>> \/ (IsPhase(m, "main") /\ ~g.allow[AI])
Goroutine(m) ==
  CASE IsPhase(m, "onstage") -> <<SelectChar(AI, 1)>>
    [] IsPhase(m, "main") -> <<UseSkill(AI)>>
    [] m = <<"roll", AI>> -> <<Intention>>
    [] OTHER -> <<>>
Read(g) == SelectInSeq(g.box[AI], LAMBDA m : Ends(g, m))
Receive(g) ==
  LET upto == IF Read(g) = 0 THEN Len(g.box[AI]) ELSE Read(g) - 1
  IN FoldLeft(LAMBDA b, m : b \o Goroutine(m), <<>>, SubSeq(g.box[AI], 1, upto))
AsBag(programs) == FoldLeft(LAMBDA b, p : b (+) SetToBag({p}), EmptyBag, programs)
\* The client: a phase and an update say who may operate.
Learn(k, m) ==
  CASE m[1] = "phase" -> Knows(m[2], Player \in m[3])
    [] m[1] = "update" -> Knows(k.phase, Player \in m[2])
    [] OTHER -> k

-----------------------------------------------------------------------------
\* What comes of one instruction: the game, what is left of the program, the programs of
\* the goroutines it starts, and what the client knows.
After(g, rest) ==
  [game |-> g, rest |-> rest, starts |-> <<>>, told |-> told, amiss |-> amiss]

\* The first choice is free; a later one costs dice, which the computer never gives.
Choose(c, card, rest) ==
  IF c = AI /\ game.selected[c] # 0 THEN After(game, <<>>)
  ELSE After(Update([game EXCEPT !.selected[c] = card, !.allow[c] = FALSE]), rest)
\* With both chosen the dice are rolled.
Settle ==
  After(game, IF \A c \in Controllers : game.selected[c] # 0
              THEN << <<"enter", "dice">>, <<"sendall">> >> ELSE << <<"sendall">> >>)

\* SendMsgPack reads the list to the controller; to clear it is a step of its own.  An
\* empty list is left alone, and a client that is loading is told nothing.
Send(c, rest) ==
  IF game.box[c] = <<>> THEN After(game, rest)
  ELSE [After([game EXCEPT !.unsent = @ \ {c}], << <<"clear", c>> >> \o rest) EXCEPT
          !.starts = IF c = AI THEN Receive(game) ELSE <<>>,
          !.told = IF c = Player /\ load = "initfinish"
                   THEN FoldLeft(Learn, told, game.box[c]) ELSE told]
\* Packs that came between the two are lost.
Clear(c, rest) ==
  [After([game EXCEPT !.box[c] = <<>>, !.unsent = @ \ {c}], rest) EXCEPT
     !.amiss = IF c \in game.unsent THEN amiss \cup {"lost"} ELSE amiss]

Outcomes(program) ==
  LET i == Head(program)
      rest == Tail(program)
  IN CASE i[1] = "choose" -> {Choose(i[2], i[3], rest)}
       [] i[1] = "settle" -> {Settle}
       [] i[1] = "hush" -> {After(Update(AllowAll(game, FALSE)), rest)}
       [] i[1] = "turn" -> {After(Update(TurnToOther(game, i[2])), rest)}
       [] i[1] = "enter" -> {After(g, rest) : g \in Enter(game, i[2])}
       [] i[1] = "show" -> {After(Tell(game, <<<<"intention">>>>), rest)}
       [] i[1] = "hold" -> {After(Update([game EXCEPT !.allow[AI] = FALSE]), rest)}
       [] i[1] = "sendall" -> \* SendAllMsgPack, in the order of a map
            {Send(c, << <<"send", 3 - c>> >> \o rest) : c \in Controllers}
       [] i[1] = "send" -> {Send(i[2], rest)}
       [] i[1] = "clear" -> {Clear(i[2], rest)}

\* The main loop or a goroutine goes one instruction on.
Comes(o) == game' = o.game /\ told' = o.told /\ amiss' = o.amiss
MainStep ==
  /\ Followed /\ todo # <<>>
  /\ \E o \in Outcomes(todo) :
       /\ Comes(o)
       /\ todo' = o.rest
       /\ ai' = ai (+) AsBag(o.starts)
       /\ BagCardinality(ai') <= MaxGoroutines
  /\ UNCHANGED <<load, moves>>
AiStep(program) ==
  /\ Followed
  /\ IF Head(program)[1] = "turn" THEN Spend ELSE UNCHANGED moves
  /\ \E o \in Outcomes(program) :
       /\ Comes(o)
       /\ ai' = (ai (-) SetToBag({program}))
                (+) AsBag(SelectSeq(<<o.rest>>, LAMBDA p : p # <<>>) \o o.starts)
       /\ BagCardinality(ai') <= MaxGoroutines
  /\ UNCHANGED <<load, todo>>

-----------------------------------------------------------------------------
\* The handlers.  The main loop takes one when it is done with the one before.  The ghost
\* keeps whether goroutines were still at work on the game; the player's first choice of a
\* card is exempt, it may cross the computer's.
Late == amiss' = IF ai = EmptyBag THEN amiss ELSE amiss \cup {"late"}

\* A challenge makes a game and forgets the one before, whose goroutines may go on
\* with it where nobody looks.
GCGStartChallenge ==
  /\ todo = <<>> /\ game # NewGame
  /\ game' = NewGame /\ load' = "none" /\ ai' = EmptyBag /\ told' = Knows("none", FALSE)
  /\ amiss' = {}
  /\ UNCHANGED <<todo, moves>>

\* The client asks for the duel, and again when it comes back to it: it is told the phase
\* and who may operate in it.  Until it says that it is ready no pack reaches it.
GCGAskDuelReq ==
  /\ Followed /\ todo = <<>>
  /\ load' = "askduel"
  /\ told' = Knows(game.phase, Player \in game.allowMap)
  /\ Late
  /\ UNCHANGED <<game, todo, ai, moves>>
\* CheckAllInitFinish: the computer is ready, so the game starts, once.
GCGInitFinishReq ==
  /\ Followed /\ todo = <<>>
  /\ load' = "initfinish"
  /\ IF game.running THEN UNCHANGED <<game, todo>>
     ELSE game' = [game EXCEPT !.running = TRUE] /\ todo' = StartGame
  /\ Late
  /\ UNCHANGED <<ai, told, moves>>

\* GCGOperationReq: nothing is asked of the phase or the turn.  The client waits for the
\* next pack before it operates again.
Operates(program) ==
  /\ Followed /\ todo = <<>> /\ game.running /\ load = "initfinish" /\ told.allow
  /\ Spend
  /\ told' = [told EXCEPT !.allow = FALSE]
  /\ todo' = program
  /\ UNCHANGED <<game, load, ai>>
OpSelectOnStage(card) ==
  /\ \/ told.phase = "onstage" /\ game.selected[Player] = 0 /\ UNCHANGED amiss
     \/ told.phase = "main" /\ game.selected[Player] # card /\ Late
  /\ Operates(SelectChar(Player, card))
OpReroll == told.phase = "dice" /\ Player \in game.dice /\ Late /\ Operates(ReRollDice)
OpAttack == told.phase = "main" /\ Player \in game.dice /\ Late /\ Operates(UseSkill(Player))

Next ==
  \/ GCGStartChallenge \/ GCGAskDuelReq \/ GCGInitFinishReq \/ OpReroll \/ OpAttack
  \/ \E card \in CharCards : OpSelectOnStage(card)
  \/ MainStep
  \/ \E program \in BagToSet(ai) : AiStep(program)

-----------------------------------------------------------------------------
\* Once the main loop and the computer have done what they had to, the duel waits for the
\* player alone, and its client has been told so; and as long as the client may attack, no
\* skill of the computer's is under way.  Two things excuse the duel: that the client came
\* back, rolled or attacked while goroutines were still at work (none does as long as they
\* need less time than an answer), and packs lost because their list was cleared after
\* they were added and before they were sent.
Rests == todo = <<>> /\ ai = EmptyBag
TurnPasses ==
  amiss = {} =>
    /\ game.running /\ Rests =>
         /\ told = Knows(game.phase, TRUE)
         /\ game.allow[Player]
         /\ game.phase = "onstage" => game.selected[Player] = 0
         /\ game.phase = "main" => ~game.allow[AI]
    /\ told = Knows("main", TRUE) => UseSkill(AI) \notin BagToSet(ai)
=============================================================================
