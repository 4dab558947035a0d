---------------------------------- MODULE Team ----------------------------------
(***************************************************************************)
(* The teams of the players of one game server (gs/game/player_team.go and *)
(* the team half of game_world_manager.go): the teams a player has saved,  *)
(* its local team in the world it is in, and the world's team of at most   *)
(* four that UpdateMultiplayerTeam cuts out of the local teams of all.     *)
(*                                                                         *)
(* A world belongs to its owner and is named by it.  Joining is what       *)
(* JoinPlayerSceneReq does once the host has agreed, leaving the logout    *)
(* and login a ReLoginPlayer makes of it (Multiplayer models both in full).*)
(* A client names avatars that its player owns, and none twice in a team;  *)
(* the server asks no more, so it may well choose one that has no seat.    *)
(***************************************************************************)
EXTENDS Integers, Sequences, FiniteSets, SequencesExt

CONSTANTS
  Players,   \* player ids
  Avatars,   \* the avatars each of them owns
  Nobody,    \* the owner of the world of a player that is in none
  TeamSize,  \* seats of a world, and avatars of a team: 4 in the code
  Teams,     \* the lists of avatars, none twice, that a client sets up
  MaxSetups, \* bound: requests of the clients about teams, in all
  MaxMoves   \* bound: worlds opened, joined and left, in all

VARIABLES
  team,      \* DbTeam.TeamList of each player, two of its four teams
  current,   \* DbTeam.CurrTeamIndex
  saved,     \* DbTeam.CurrAvatarIndex
  world,     \* the owner of the world each player is in
  mp,        \* the owners whose world is a multiplayer one
  peers,     \* peerList of each world
  local,     \* localTeamMap of the player's world
  index,     \* localAvatarIndexMap of the player's world
  worldTeam, \* worldTeam of each world: who stands in it with which avatar
  astray,    \* ghost: the players whose own client last chose an avatar without a seat
  used       \* bounded events used so far

vars == <<team, current, saved, world, mp, peers, local, index, worldTeam, astray, used>>

\* What the lists are: whoever instantiates the module sees to it.
TeamAssumption ==
  /\ TeamSize \in Nat /\ TeamSize >= 4 /\ Avatars # {} /\ Nobody \notin Players
  /\ \A t \in Teams : /\ t \in Seq(Avatars) /\ Len(t) \in 1..TeamSize
                       /\ \A i, j \in DOMAIN t : t[i] = t[j] => i = j

TeamIds == {1, 2}

\* Every player has logged in, each in a world of its own with its first team,
\* which holds all it has; the second may be empty.
Init ==
  \E t \in Teams, u \in {<<>>, <<CHOOSE a \in Avatars : TRUE>>} :
    /\ t = CHOOSE x \in Teams : \A y \in Teams : Len(y) <= Len(x)
    /\ team = [p \in Players |-> <<t, u>>]
    /\ current = [p \in Players |-> 1]
    /\ saved = [p \in Players |-> 0]
    /\ world = [p \in Players |-> p]
    /\ mp = {}
    /\ peers = [p \in Players |-> <<p>>]
    /\ local = [p \in Players |-> t]
    /\ index = [p \in Players |-> 0]
    /\ worldTeam = [p \in Players |-> {<<p, t[i]>> : i \in DOMAIN t}]
    /\ astray = {}
    /\ used = [setups |-> 0, moves |-> 0]

Spend(e, bound) == used[e] < bound /\ used' = [used EXCEPT ![e] = @ + 1]

\* GetActiveTeam, and GetActiveAvatarId on it.
ActiveTeam(p) == team[p][current[p]]
ActiveTeamAvatar(p) == ActiveTeam(p)[saved[p] + 1]

\* GetPlayerActiveAvatarId.  Indexes count from 0, as in the code; -1, which stands for an
\* avatar not found, takes the handler down, and becomes 255 in the record.
NotFound == -1
Uint8(i) == i % 256
HasActive(p) == index[p] # NotFound
Active(p) == local[p][index[p] + 1]

\* The seats of the i-th of n players, and the world's team they make.
Seats(n, i) == CASE n = 1 -> TeamSize
                 [] n = 2 -> TeamSize \div 2
                 [] n = 3 -> IF i = 1 THEN TeamSize \div 2 ELSE TeamSize \div 4
                 [] OTHER -> TeamSize \div 4
Seated(ps, loc, i) ==
  {<<ps[i], loc[ps[i]][k]>> : k \in {k \in DOMAIN loc[ps[i]] : k <= Seats(Len(ps), i)}}
UpdateMultiplayerTeam(ps, loc) == UNION {Seated(ps, loc, i) : i \in DOMAIN ps}

\* GetPlayerWorldAvatarList
Seat(wt, p) == {x \in wt : x[1] = p}
OnField(p) == Active(p) \in {x[2] : x \in Seat(worldTeam[world[p]], p)}

\* SetPlayerLocalTeam, and GetPlayerAvatarIndexByAvatarId on such a team.
SetPlayerLocalTeam(p, t) == [local EXCEPT ![p] = t]
AvatarIndex(t, a) ==
  IF a \in ToSet(t) THEN (CHOOSE k \in DOMAIN t : t[k] = a) - 1 ELSE NotFound

\* SetPlayerAvatarIndex ignores an index past the end of the local team.
SetIndex(idx, loc, p, i) == IF i > Len(loc[p]) - 1 THEN idx ELSE [idx EXCEPT ![p] = i]

\* The client of p chose a, and the world's team is wt.
Chose(p, a, wt) == astray' = IF <<p, a>> \in wt THEN astray \ {p} ELSE astray \cup {p}

\* Every player of the world starts again at the index its record has, or at 0
\* where that is past the seats it has now.
\* Mutant: only the one that comes does.
StartAgainOnly(ps, loc, idx, wt, p) ==
  [idx EXCEPT ![p] = IF saved[p] > Cardinality(Seat(wt, p)) - 1 THEN 0 ELSE saved[p]]
StartAgain(ps, loc, idx, wt, p) ==
  [q \in Players |->
     IF q \notin ToSet(ps) THEN idx[q]
     ELSE IF saved[q] > Cardinality(Seat(wt, q)) - 1 THEN 0 ELSE saved[q]]

\* World.AddPlayer: the owner comes with its whole team, a guest with the avatar
\* it has active in its record.
AddPlayer(p, o) ==
  LET ps == Append(peers[o], p)
      loc == SetPlayerLocalTeam(p, IF p = o THEN ActiveTeam(p) ELSE <<ActiveTeamAvatar(p)>>)
      wt == UpdateMultiplayerTeam(ps, loc)
  IN /\ world' = [world EXCEPT ![p] = o]
     /\ peers' = [peers EXCEPT ![o] = ps]
     /\ local' = loc
     /\ worldTeam' = [worldTeam EXCEPT ![o] = wt]
     /\ index' = StartAgain(ps, loc, [index EXCEPT ![p] = 0], wt, p)
     /\ astray' = astray \ ToSet(ps)

\* OnLogin: a world of its own.  Bound: one that half entered a world logs in no more.
Worldless(p) == world[p] = Nobody /\ \A o \in Players : p \notin ToSet(peers[o])
OnLogin(p) ==
  /\ Worldless(p) /\ peers[p] = <<>>
  /\ Spend("moves", MaxMoves)
  /\ AddPlayer(p, p)
  /\ mp' = mp \ {p}
  /\ UNCHANGED <<team, current, saved>>

\* HostEnterMpWorld
HostEnterMpWorld(p) ==
  /\ world[p] = p /\ p \notin mp
  /\ Spend("moves", MaxMoves)
  /\ mp' = mp \cup {p}
  /\ UNCHANGED <<team, current, saved, world, peers, local, index, worldTeam, astray>>

\* World.RemovePlayer.  The owner leaves last, and its world with it.
PeerId(p, o) == CHOOSE k \in DOMAIN peers[o] : peers[o][k] = p
Others(p, o) == RemoveAt(peers[o], PeerId(p, o))
RemoveGuest(p, o) == [worldTeam EXCEPT ![o] = UpdateMultiplayerTeam(Others(p, o), local)]
RemovePlayer(p) ==
  LET o == world[p] IN
  /\ peers' = [peers EXCEPT ![o] = Others(p, o)]
  /\ worldTeam' = IF p = o THEN [worldTeam EXCEPT ![o] = {}] ELSE RemoveGuest(p, o)
  /\ local' = SetPlayerLocalTeam(p, <<>>)
  /\ index' = [index EXCEPT ![p] = 0]
  /\ world' = [world EXCEPT ![p] = Nobody]
  /\ astray' = astray \ {p}

\* JoinPlayerSceneReq, in two: the world is left, then the host's is entered.  Leaving a
\* multiplayer world looks the active avatar up first.
LeaveWorld(p) ==
  /\ world[p] # Nobody /\ (world[p] \in mp => HasActive(p))
  /\ world[p] = p => peers[p] = <<p>>
  /\ Spend("moves", MaxMoves)
  /\ RemovePlayer(p)
  /\ mp' = mp \ {p}
  /\ UNCHANGED <<team, current, saved>>
\* One whose record lost its active avatar is a peer when the handler panics, and no more.
JoinOtherWorld(p, o) ==
  /\ Worldless(p) /\ o \in mp
  /\ world[o] = o /\ Len(peers[o]) < TeamSize
  /\ Spend("moves", MaxMoves)
  /\ IF saved[p] # Uint8(NotFound) THEN AddPlayer(p, o)
     ELSE /\ peers' = [peers EXCEPT ![o] = Append(@, p)]
          /\ UNCHANGED <<world, local, worldTeam, index, astray>>
  /\ UNCHANGED <<team, current, saved, mp>>

-----------------------------------------------------------------------------
\* Any avatar of the local team, seated or not.  In a world of its own the record keeps the
\* index, too.
ChangeAvatarReq(p, a) ==
  LET i == AvatarIndex(local[p], a) IN
  /\ world[p] # Nobody /\ HasActive(p)
  /\ a # Active(p) /\ i # NotFound
  /\ Spend("setups", MaxSetups)
  /\ saved' = IF world[p] \in mp THEN saved ELSE [saved EXCEPT ![p] = Uint8(i)]
  /\ index' = SetIndex(index, local, p, i)
  /\ Chose(p, a, worldTeam[world[p]])
  /\ UNCHANGED <<team, current, world, mp, peers, local, worldTeam>>

\* Refused in a multiplayer world.  A team that is not the current one may be
\* emptied.
SetUpAvatarTeamReq(p, id, t, a) ==
  LET loc == SetPlayerLocalTeam(p, t)
      i == AvatarIndex(t, a)
  IN /\ world[p] # Nobody /\ world[p] \notin mp
     /\ id = current[p] => t # <<>>
     /\ Spend("setups", MaxSetups)
     /\ team' = [team EXCEPT ![p][id] = t]
     /\ IF id = current[p]
        THEN /\ local' = loc
             /\ worldTeam' = [worldTeam EXCEPT ![world[p]] = UpdateMultiplayerTeam(peers[world[p]], loc)]
             /\ saved' = [saved EXCEPT ![p] = Uint8(i)]
             /\ index' = SetIndex(index, loc, p, i)
             /\ Chose(p, a, worldTeam'[world[p]])
        ELSE UNCHANGED <<local, worldTeam, saved, index, astray>>
     /\ UNCHANGED <<current, world, mp, peers>>

ChooseIndex(p) == [saved EXCEPT ![p] = 0]
ChooseCurAvatarTeamReq(p, id) ==
  LET loc == SetPlayerLocalTeam(p, team[p][id]) IN
  /\ world[p] # Nobody /\ world[p] \notin mp
  /\ team[p][id] # <<>>
  /\ Spend("setups", MaxSetups)
  /\ current' = [current EXCEPT ![p] = id]
  /\ saved' = ChooseIndex(p)
  /\ index' = SetIndex(index, local, p, 0)
  /\ local' = loc
  /\ worldTeam' = [worldTeam EXCEPT ![world[p]] = UpdateMultiplayerTeam(peers[world[p]], loc)]
  /\ astray' = astray \ {p}
  /\ UNCHANGED <<team, world, mp, peers>>

\* In a multiplayer world the local team alone changes, to as many avatars as a team has.
ChangeMpTeamAvatarReq(p, t, a) ==
  LET o == world[p]
      loc == SetPlayerLocalTeam(p, t)
      i == AvatarIndex(t, a)
  IN /\ o # Nobody /\ o \in mp
     /\ Len(t) \in 1..TeamSize
     /\ Spend("setups", MaxSetups)
     /\ local' = loc
     /\ worldTeam' = [worldTeam EXCEPT ![o] = UpdateMultiplayerTeam(peers[o], loc)]
     /\ index' = SetIndex(index, loc, p, i)
     /\ Chose(p, a, worldTeam'[o])
     /\ UNCHANGED <<team, current, saved, world, mp, peers>>

Next ==
  \E p \in Players :
    \/ OnLogin(p)
    \/ HostEnterMpWorld(p)
    \/ LeaveWorld(p)
    \/ \E o \in Players \ {p} : JoinOtherWorld(p, o)
    \/ \E a \in Avatars : ChangeAvatarReq(p, a)
    \/ \E id \in TeamIds :
         \/ ChooseCurAvatarTeamReq(p, id)
         \/ \E t \in Teams \cup {<<>>}, a \in Avatars : SetUpAvatarTeamReq(p, id, t, a)
    \/ \E t \in Teams, a \in Avatars : ChangeMpTeamAvatarReq(p, t, a)

-----------------------------------------------------------------------------
\* The avatar a player has active stands in the team of the world it is in,
\* whoever came and went: what everybody is told of it is looked up there, and a
\* lookup that fails takes the handler down (GetPlayerWorldAvatar).  Two things
\* are excused: a player whose own client last chose an avatar without a seat, and
\* a world that a player has half entered (JoinOtherWorld).
Whole(o) == \A q \in ToSet(peers[o]) : world[q] = o
ActiveOnField ==
  \A p \in Players \ astray : world[p] # Nobody /\ Whole(world[p]) => HasActive(p) /\ OnField(p)

\* A player in a single-player world has there the active avatar its record
\* says: it is the one it brings to another's world.  Except for a record whose
\* active avatar was not found in the team its client set up.
RecordAgrees ==
  \A p \in Players \ astray :
    world[p] = p /\ p \notin mp /\ saved[p] # Uint8(NotFound) =>
      /\ saved[p] < Len(ActiveTeam(p))
      /\ ActiveTeamAvatar(p) = Active(p)

\* Nobody gives up seats it is due: the world's team has every player of the
\* world, in order, with as many of its avatars as its share has room for.  Except
\* in a world that one has half entered.
SeatsShared ==
  \A o \in Players : peers[o] # <<>> /\ Whole(o) =>
    \A i \in DOMAIN peers[o] :
      Cardinality(Seat(worldTeam[o], peers[o][i])) =
        LET n == Len(local[peers[o][i]]) IN
        IF n < Seats(Len(peers[o]), i) THEN n ELSE Seats(Len(peers[o]), i)
=============================================================================
