---------------------------- MODULE PlayerSession ----------------------------
(***************************************************************************)
(* What the cluster promises about its players, whatever servers, messages *)
(* and goroutines it takes: a player has one session at a time, on one     *)
(* game server; a session is loaded, served and saved, in this order, and  *)
(* the next one starts when the last one has been saved, or its server has *)
(* stopped.  UserManager (the players of one game server) and GateSession  *)
(* (one player, the gates and several game servers) implement it.          *)
(***************************************************************************)
CONSTANTS
  Players,  \* player ids
  Servers,  \* game servers
  None      \* no server

VARIABLES
  up,     \* the game servers that run
  at,     \* the server of each player's session, or None
  stage   \* how far it is

svars == <<up, at, stage>>

Init ==
  /\ up = Servers
  /\ at = [p \in Players |-> None]
  /\ stage = [p \in Players |-> "free"]

Step(p, from, to) ==
  /\ stage[p] = from
  /\ stage' = [stage EXCEPT ![p] = to]
  /\ UNCHANGED up

\* OnlineUser
Login(p, s) ==
  /\ s \in up
  /\ Step(p, "free", "loading")
  /\ at' = [at EXCEPT ![p] = s]

\* The lock call of OnlineUser's goroutine fails: it ends.
LoginFails(p) == Step(p, "loading", "free") /\ at' = [at EXCEPT ![p] = None]

\* OnLogin
Online(p) == Step(p, "loading", "online") /\ UNCHANGED at

\* OnUserOffline
Offline(p) == Step(p, "online", "saving") /\ UNCHANGED at

\* UserOfflineSaveToDbFinish: the player is deleted.
Leave(p) == Step(p, "saving", "free") /\ at' = [at EXCEPT ![p] = None]

\* A server's process ends, and with it the sessions it holds.
Stop(s) ==
  /\ s \in up
  /\ up' = up \ {s}
  /\ at' = [p \in Players |-> IF at[p] = s THEN None ELSE at[p]]
  /\ stage' = [p \in Players |-> IF at[p] = s THEN "free" ELSE stage[p]]
Start(s) == s \notin up /\ up' = up \cup {s} /\ UNCHANGED <<at, stage>>

Next ==
  \/ \E p \in Players :
       \/ \E s \in Servers : Login(p, s)
       \/ LoginFails(p) \/ Online(p) \/ Offline(p) \/ Leave(p)
  \/ \E s \in Servers : Stop(s) \/ Start(s)

Spec == Init /\ [][Next]_svars
=============================================================================
