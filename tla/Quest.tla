--------------------------------- MODULE Quest ---------------------------------
(***************************************************************************)
(* The quests of one player (gs/game/player_quest.go, model/db_quest.go,   *)
(* the quest half of lua_trigger.go).  A quest is accepted when the quests *)
(* its conditions name are in the state they name, started at once, and    *)
(* finished by any one of its finish events; each finish looks for quests  *)
(* to accept.                                                              *)
(*                                                                         *)
(* Starting a quest runs scripts, a script may notify the quests, and that *)
(* accepts and starts more of them before the first acceptance has started *)
(* the rest of its own: `agenda` is that call stack, and a request is      *)
(* handled when it is empty.  The tables are maps and their order is any.  *)
(***************************************************************************)
EXTENDS Naturals, Sequences, FiniteSets

CONSTANTS
  Quests,     \* the quests of the tables
  AcceptOf,   \* accept conditions: sets of <<quest, "equal" or "not", state>>
  AnyOf,      \* the quests whose compose is OR; the others' is AND or none
  FinishOf,   \* finish events of each quest
  StartFires, \* what the scripts notify when it starts in a world
  Talks,      \* the events a client reports: talk, plot, skill
  Points      \* the events that are the unlocking of a point

VARIABLES
  state,    \* quest.State, "none" of a quest the player does not have
  agenda,   \* what the running handler has still to do
  inWorld,  \* the player has a world, so scripts run
  points    \* points unlocked in the owner's record

vars == <<state, agenda, inWorld, points>>

States == {"none", "unstarted", "unfinished", "finished"}
\* What the tables are: whoever instantiates the module sees to it.
QuestAssumption ==
  /\ IsFiniteSet(Quests) /\ \A q \in Quests : IsFiniteSet(StartFires[q])
  /\ AcceptOf \in [Quests -> SUBSET (Quests \X {"equal", "not"} \X (States \ {"none"}))]

Init ==
  /\ state = [q \in Quests |-> "none"]
  /\ agenda = <<>>
  /\ inWorld = FALSE
  /\ points = {}

AtRest == agenda = <<>>
Has(st, q) == st[q] # "none"

-----------------------------------------------------------------------------
\* One accept condition: of a quest the player does not have, neither holds.
Holds(st, c) == /\ Has(st, c[1])
                /\ c[2] = "equal" <=> st[c[1]] = c[3]
CanAccept(st, q) ==
  IF q \in AnyOf THEN \E c \in AcceptOf[q] : Holds(st, c)
                 ELSE \A c \in AcceptOf[q] : Holds(st, c)

\* The lists of the members of S, each once.
Orders(S) == {list \in [1..Cardinality(S) -> S] : S \subseteq {list[i] : i \in DOMAIN list}}

\* The pass of AcceptQuest over the table in some order: it takes the quests of a list one
\* after the other, which are there for the conditions of those that come after, and looks
\* at each of the others at some point, when it can't be accepted.
First(list, k) == {list[i] : i \in 1..k}
Accepted(st, qs) == [q \in Quests |-> IF q \in qs THEN "unstarted" ELSE st[q]]
Pass(st, list) ==
  /\ \A i \in DOMAIN list : CanAccept(Accepted(st, First(list, i - 1)), list[i])
  /\ \A q \in Quests \ First(list, Len(list)) :
       \/ Has(st, q)
       \/ \E k \in 0..Len(list) : ~CanAccept(Accepted(st, First(list, k)), q)

\* AcceptQuest, then the rest of the agenda.
AcceptQuest(st, rest) ==
  \E new \in SUBSET {q \in Quests : ~Has(st, q)} :
    \E list \in Orders(new) :
      /\ Pass(st, list)
      /\ state' = Accepted(st, new)
      /\ agenda' = [i \in 1..Len(list) |-> <<"start", list[i]>>] \o rest

\* dbQuest.ForceFinishQuest: a quest that is not running is left as it is.
ForceFinish(st, qs) ==
  [q \in Quests |-> IF q \in qs /\ st[q] = "unfinished" THEN "finished" ELSE st[q]]

\* TriggerQuest: the quests that wait for the event, running or not; when there
\* is one, accept what can be.
Waiting(st, e) == {q \in Quests : Has(st, q) /\ e \in FinishOf[q]}
\* Mutant: the finish of a quest does not look for the next ones.
TriggerQuestOnly(e, rest) ==
  state' = ForceFinish(state, Waiting(state, e)) /\ agenda' = rest
TriggerQuest(e, rest) ==
  IF Waiting(state, e) = {} THEN state' = state /\ agenda' = rest
  ELSE AcceptQuest(ForceFinish(state, Waiting(state, e)), rest)

\* StartQuest of the next accepted one, and the scripts its start runs:
\* QuestExec, QuestStartTriggerCheck.
Started(q) == [state EXCEPT ![q] = IF @ = "unstarted" THEN "unfinished" ELSE @]
Scripts(q) == IF inWorld THEN StartFires[q] ELSE {}
StartQuest ==
  /\ ~AtRest /\ Head(agenda)[1] = "start"
  /\ LET q == Head(agenda)[2] IN
     /\ state' = Started(q)
     /\ \E order \in Orders(Scripts(q)) :
          agenda' = [i \in 1..Len(order) |-> <<"notify", order[i]>>] \o Tail(agenda)
  /\ UNCHANGED <<inWorld, points>>

\* AddQuestProgress of a script.
NotifyQuest ==
  /\ ~AtRest /\ Head(agenda)[1] = "notify"
  /\ TriggerQuest(Head(agenda)[2], Tail(agenda))
  /\ UNCHANGED <<inWorld, points>>

AcceptAgain ==
  /\ ~AtRest /\ Head(agenda)[1] = "accept"
  /\ AcceptQuest(state, Tail(agenda))
  /\ UNCHANGED <<inWorld, points>>

-----------------------------------------------------------------------------
\* SetPlayerBornDataReq accepts the first quests; the world comes after.
SetPlayerBornDataReq ==
  /\ AtRest /\ ~inWorld /\ \A q \in Quests : ~Has(state, q)
  /\ AcceptQuest(state, <<>>)
  /\ UNCHANGED <<inWorld, points>>
CreateWorld ==
  /\ AtRest /\ ~inWorld /\ \E q \in Quests : Has(state, q)
  /\ inWorld' = TRUE
  /\ UNCHANGED <<state, agenda, points>>
\* The player logs out.
LeaveWorld ==
  /\ AtRest /\ inWorld
  /\ inWorld' = FALSE
  /\ UNCHANGED <<state, agenda, points>>

\* NpcTalkReq, EvtDoSkillSuccNotify, the regions' triggers.
NpcTalkReq(e) ==
  /\ AtRest /\ inWorld
  /\ TriggerQuest(e, <<>>)
  /\ UNCHANGED <<inWorld, points>>

\* AddQuestContentProgressReq accepts once more when the trigger is through.
AddQuestContentProgressReq(e) ==
  /\ AtRest /\ inWorld
  /\ TriggerQuest(e, <<<<"accept">>>>)
  /\ UNCHANGED <<inWorld, points>>

UnlockTransPointReq(e) ==
  /\ AtRest /\ inWorld /\ e \notin points
  /\ points' = points \cup {e}
  /\ TriggerQuest(e, <<>>)
  /\ UNCHANGED inWorld

\* The GM commands: GMAddQuest runs no script and accepts nothing more.
GMAddQuest(q) ==
  /\ AtRest /\ inWorld
  /\ state' = [state EXCEPT ![q] = IF @ \in {"none", "unstarted"} THEN "unfinished" ELSE @]
  /\ UNCHANGED <<agenda, inWorld, points>>
GMFinishQuest(qs) ==
  /\ AtRest /\ inWorld
  /\ AcceptQuest(ForceFinish(state, qs), <<>>)
  /\ UNCHANGED <<inWorld, points>>

Next ==
  \/ StartQuest \/ NotifyQuest \/ AcceptAgain \/ SetPlayerBornDataReq \/ CreateWorld \/ LeaveWorld
  \/ \E e \in Talks : NpcTalkReq(e) \/ AddQuestContentProgressReq(e)
  \/ \E e \in Points : UnlockTransPointReq(e)
  \/ \E q \in Quests : GMAddQuest(q) \/ GMFinishQuest({q})
  \/ GMFinishQuest(Quests) \* GMForceFinishAllQuest

-----------------------------------------------------------------------------
\* Between two requests no accepted quest is left unstarted, and a quest that
\* waited for others to finish has been accepted, however the acceptances and
\* the scripts' notifications nested.
OnlyFinished(q) == \A c \in AcceptOf[q] : c[2] = "equal" /\ c[3] = "finished"
FinishOpensNext ==
  AtRest /\ (\E q \in Quests : Has(state, q)) =>
    \A q \in Quests : /\ state[q] # "unstarted"
                      /\ OnlyFinished(q) /\ CanAccept(state, q) => Has(state, q)
=============================================================================
