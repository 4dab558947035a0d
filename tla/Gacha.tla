--------------------------------- MODULE Gacha ---------------------------------
(***************************************************************************)
(* The draws of one pool by one player (gs/game/player_gacha.go,           *)
(* model/db_gacha.go): the two pity counters, the correction they make to  *)
(* the weights, and the two promises that the next five and four star item *)
(* is a featured one.  The weights are the tables' (GachaDropAvatarUp.csv, *)
(* GachaDropWeaponUp.csv, GachaDropNormal.csv): in a thousand draws nobody *)
(* sees the ninetieth unlucky one in a row, TLC does.                      *)
(*                                                                         *)
(* A draw takes any outcome its weights leave possible.  A pool's record   *)
(* is its own, so the module has one; which one, Init chooses.             *)
(***************************************************************************)
EXTENDS Integers, FiniteSets, FiniteSetsExt

CONSTANTS MaxPurple \* bound: no more draws once the four star counter is there

VARIABLES
  type,       \* the pool: "avatar" (300), "weapon" (431), "standard" (201)
  times,      \* OrangeTimes and PurpleTimes
  mustGetUp,  \* MustGetUpOrange and MustGetUpPurple
  plain,      \* ghost: draws since the last one of four or five stars
  offBanner   \* ghost: the colours whose last item was not a featured one

vars == <<type, times, mustGetUp, plain, offBanner>>

Colors == {"orange", "purple"}
Types == {"avatar", "weapon", "standard"}

\* The rows of a pool's drop group, in the order of its table.
DropConfig(t) == IF t = "weapon" THEN <<70, 600, 9330>> ELSE <<60, 510, 9430>>
WeightAll == 10000
\* Thresholds and values of the correction.
FixThreshold(t) == IF t = "weapon" THEN [orange |-> 63, purple |-> 8]
                                   ELSE [orange |-> 74, purple |-> 9]
FixValue(t) == IF t = "weapon" THEN [orange |-> 700, purple |-> 6000]
                               ELSE [orange |-> 600, purple |-> 5100]
\* mustGetUpEnable of doGachaOnce
UpEnabled == type # "standard"

Init ==
  /\ type \in Types
  /\ times = [c \in Colors |-> 0]
  /\ mustGetUp = [c \in Colors |-> FALSE]
  /\ plain = 0
  /\ offBanner = {}

-----------------------------------------------------------------------------
\* What is added to a colour's weight at n draws.
\* Mutant: one draw later.
AddWeightLate(c, n) == Max({0, (n - FixThreshold(type)[c]) * FixValue(type)[c]})
AddWeight(c, n) == Max({0, (n - FixThreshold(type)[c] + 1) * FixValue(type)[c]})
\* The blue weight may well be negative: it is the last of the three.
Weights(n) ==
  LET o == AddWeight("orange", n.orange)
      p == AddWeight("purple", n.purple)
      w == DropConfig(type)
  IN <<w[1] + o, w[2] + p, w[3] - o - p>>

\* doGachaRandDropOnce: the first row at which the sum passes a random number
\* below WeightAll.
Sums(w) == <<w[1], w[1] + w[2], w[1] + w[2] + w[3]>>
Drawn(w) == {i \in 1..3 : LET before == Max({0} \cup {Sums(w)[j] : j \in 1..(i - 1)})
                          IN before < Sums(w)[i] /\ before < WeightAll}

-----------------------------------------------------------------------------
\* The post-processing of a four or five star result: an owed featured item
\* replaces it and settles the debt; another one that is not featured owes it.
\* Mutant: what settles one debt settles both.
SettleBoth(c, up) ==
  mustGetUp' = IF mustGetUp[c] THEN [d \in Colors |-> FALSE] ELSE [mustGetUp EXCEPT ![c] = ~up]
Settle(c, up) == mustGetUp' = [mustGetUp EXCEPT ![c] = IF @ THEN FALSE ELSE ~up]
Given(c, up) == up \/ mustGetUp[c]

\* The counters after a draw of the colour.
Counted == [c \in Colors |-> times[c] + 1]

\* doGachaOnce with a four or five star result, of the featured group or not.
DrawColor(c, up) ==
  /\ (IF c = "orange" THEN 1 ELSE 2) \in Drawn(Weights(Counted))
  /\ times' = [Counted EXCEPT ![c] = 0]
  /\ plain' = 0
  /\ IF UpEnabled
     THEN /\ Settle(c, up)
          /\ offBanner' = IF Given(c, up) THEN offBanner \ {c} ELSE offBanner \cup {c}
     ELSE UNCHANGED <<mustGetUp, offBanner>>

DrawBlue ==
  /\ 3 \in Drawn(Weights(Counted))
  /\ times' = Counted
  /\ plain' = plain + 1
  /\ UNCHANGED <<mustGetUp, offBanner>>

\* One turn of the loop of DoGachaReq, whose tickets were paid for before.
DoGachaOnce ==
  /\ times.purple < MaxPurple
  /\ \/ \E c \in Colors, up \in BOOLEAN : DrawColor(c, up)
     \/ DrawBlue
  /\ UNCHANGED type

Next == DoGachaOnce

Spec == Init /\ [][Next]_vars

-----------------------------------------------------------------------------
\* Ten draws in a row hold one of four or five stars, ninety one of five (in the
\* weapon pool seventy-seven), whatever luck has each of the two counters.
Pity == /\ plain < 10
        /\ times.orange < IF type = "weapon" THEN 77 ELSE 90

\* Of two five star items in a row, and of two four star ones, one is featured:
\* the promise of the first outlives every draw between them.
UpComes == \A c \in Colors : c \in offBanner /\ times'[c] = 0 => c \notin offBanner'
UpGuaranteed == [][UpComes]_vars
=============================================================================
