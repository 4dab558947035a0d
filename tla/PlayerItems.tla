---------------------------- MODULE PlayerItems ----------------------------
(***************************************************************************)
(* What one player of a game server owns: items, weapons, reliquaries and  *)
(* avatars, who wears what, and the requests that spend one thing to       *)
(* improve another.  The handlers run one at a time on the main loop, so a *)
(* step is a whole handler.  A request the code answers with an error and  *)
(* no change is no step.                                                   *)
(*                                                                         *)
(* An object is held by the player and names the avatar that wears it; an  *)
(* avatar points back at its weapon, at its reliquary of each slot and at  *)
(* the guids of both.  Only the first is stored: a login rebuilds the rest.*)
(* The numbers of the configuration tables are scaled down: a level needs  *)
(* Need points, a promotion raises the limit by one level.                 *)
(***************************************************************************)
EXTENDS Naturals, FiniteSets

CONSTANTS
  Avatars, MainChar,  \* avatars there are, and the one a player is born with
  Nobody,             \* worn by no avatar
  Reliqs,             \* reliquaries of one slot a player may be given
  MaxWeapons,         \* weapons ever made
  PackLimit,          \* STORE_PACK_LIMIT_WEAPON
  KindLimit,          \* STORE_PACK_LIMIT_MATERIAL + STORE_PACK_LIMIT_FURNITURE
  MaxCount,           \* bound: at most so many of one item
  Lockable,           \* bound: weapons the player locks
  GiftItems,          \* bound: the items given from outside
  MaxRequests         \* bound: gifts, locks, and requests that spend items, in all

VARIABLES
  items,    \* DbItem.ItemMap and the virtual items of PropertiesMap: item -> count
  weapons,  \* DbWeapon.WeaponMap: id -> its record
  reliqs,   \* DbReliquary.ReliquaryMap: id -> the avatar that wears it
  grown,    \* DbAvatar.AvatarMap: an owned avatar -> level, exp, promote, rewards taken
  hand,     \* Avatar.EquipWeapon
  slot,     \* Avatar.EquipReliquaryMap, of the one slot
  guids,    \* Avatar.EquipGuidMap
  inWorld,  \* the player's world exists
  made, requests,
  doubtful  \* history: avatars a grant left unarmed or a swap left without its reliquary,
            \* and those that have traded weapons with one of them

vars == <<items, weapons, reliqs, grown, hand, slot, guids, inWorld, made, requests,
          doubtful>>
worn == <<hand, slot, guids, doubtful>>
bounds == <<made, requests>>

\* What the bound counts.
Counted == requests < MaxRequests /\ requests' = requests + 1

Virtual == {"coin", "hcoin", "mcoin"}   \* kept in PropertiesMap, never refused
Ordinary == {"ore", "book", "fate"}
Items == Virtual \cup Ordinary
Need == 2
BaseExp == 1
OreExp == 2
MaxPromote == 1
MaxRefine == 2
Limit(promote) == promote + 2
Newborn == [level |-> 1, exp |-> 0, promote |-> 0, taken |-> FALSE]
NewWeapon(a) == [avatar |-> a, lock |-> FALSE, level |-> 1, exp |-> 0, promote |-> 0,
                 refine |-> 0]

Owned == DOMAIN grown
Held == DOMAIN weapons

\* Weapons are numbered, a reliquary is no number, Nobody is neither nor an avatar.
ItemsAssumption ==
  /\ MainChar \in Avatars /\ Nobody \notin Avatars \cup Reliqs \cup Nat
  /\ \A r \in Reliqs : r \notin Nat
  /\ MaxWeapons \in Nat \ {0} /\ {PackLimit, KindLimit, MaxCount, MaxRequests} \subseteq Nat
  /\ GiftItems \subseteq Items

Growth == [level : Nat \ {0}, exp : Nat, promote : Nat, taken : BOOLEAN]
WeaponType == [avatar : Avatars \cup {Nobody}, lock : BOOLEAN, level : Nat \ {0}, exp : Nat,
               promote : Nat, refine : Nat]
TypeOK ==
  /\ items \in [Items -> Nat]
  /\ weapons \in [Held -> WeaponType] /\ Held \subseteq 1..made /\ made \in 0..MaxWeapons
  /\ reliqs \in [DOMAIN reliqs -> Avatars \cup {Nobody}] /\ DOMAIN reliqs \subseteq Reliqs
  /\ grown \in [Owned -> Growth] /\ MainChar \in Owned /\ Owned \subseteq Avatars
  /\ hand \in [Avatars -> 0..made]
  /\ slot \in [Avatars -> Reliqs \cup {Nobody}]
  /\ guids \in [Avatars -> SUBSET (Nat \cup Reliqs)]
  /\ inWorld \in BOOLEAN /\ requests \in Nat
  /\ doubtful \subseteq Owned

(***************************************************************************)
(* Items.                                                                  *)
(***************************************************************************)
PackFull == Cardinality({i \in Ordinary : items[i] > 0}) > KindLimit
\* AddUserItem: an ordinary item is refused when the pack is full.
AddUserItem(bag, i, n) ==
  IF i \in Ordinary /\ Cardinality({k \in Ordinary : bag[k] > 0}) > KindLimit
  THEN bag ELSE [bag EXCEPT ![i] = @ + n]
Just(i, m) == [x \in {i} |-> m]
And(i, m, k, n) == [x \in {i, k} |-> IF x = i THEN m ELSE n]
Price(cost, i) == IF i \in DOMAIN cost THEN cost[i] ELSE 0
\* CostUserItem after a check of every entry, of a list that names no item twice: all of it
\* or nothing.
Affords(cost) == \A i \in DOMAIN cost : items[i] >= cost[i]
CostUserItem(cost) == [i \in Items |-> items[i] - Price(cost, i)]

(***************************************************************************)
(* Wearing.  WearWeapon and TakeOffWeapon, WearReliquary and               *)
(* TakeOffReliquary change the object and its avatar; a request composes   *)
(* several of them.                                                        *)
(***************************************************************************)
Bound(h, s, g, w, r) == [hand |-> h, slot |-> s, guids |-> g, weapons |-> w, reliqs |-> r]
Now == Bound(hand, slot, guids, weapons, reliqs)
WearWeapon(b, a, w) ==
  [b EXCEPT !.hand[a] = w, !.guids[a] = @ \cup {w}, !.weapons[w].avatar = a]
TakeOffWeapon(b, a, w) ==
  [b EXCEPT !.hand[a] = 0, !.guids[a] = @ \ {w},
            !.weapons = [x \in DOMAIN @ |-> IF x = w THEN [@[x] EXCEPT !.avatar = Nobody]
                                                     ELSE @[x]]]
WearReliquary(b, a, r) ==
  [b EXCEPT !.slot[a] = r, !.guids[a] = @ \cup {r}, !.reliqs[r] = a]
TakeOffReliquary(b, a, r) ==
  [b EXCEPT !.slot[a] = Nobody, !.guids[a] = @ \ {r}, !.reliqs[r] = Nobody]
Wear(b) ==
  /\ hand' = b.hand /\ slot' = b.slot /\ guids' = b.guids
  /\ weapons' = b.weapons /\ reliqs' = b.reliqs

\* WearUserAvatarWeapon: two armed avatars swap; an unarmed one just takes the weapon.
WearUserAvatarWeapon(b, a, w) ==
  LET current == b.hand[a]
      other == b.weapons[w].avatar
  IN  IF ~inWorld THEN b
      ELSE IF current = 0 THEN WearWeapon(b, a, w)
      ELSE IF other = Nobody THEN WearWeapon(TakeOffWeapon(b, a, current), a, w)
      ELSE WearWeapon(WearWeapon(TakeOffWeapon(TakeOffWeapon(b, a, current), other, w),
                                 other, current), a, w)

\* Mutant: the current reliquary is not taken off
WearReliquaryOver(b, a, r) ==
  WearReliquary(IF b.reliqs[r] # Nobody THEN TakeOffReliquary(b, b.reliqs[r], r) ELSE b, a, r)

\* WearUserAvatarReliquary: the other avatar is given the current reliquary and then loses
\* whatever is in its slot.
WearUserAvatarReliquary(b, a, r) ==
  LET current == b.slot[a]
      other == b.reliqs[r]
      swapped == IF current = Nobody THEN b
                 ELSE WearReliquary(TakeOffReliquary(b, a, current), other, current)
      freed == IF current = Nobody THEN b ELSE TakeOffReliquary(b, a, current)
  IN  WearReliquary(IF other # Nobody THEN TakeOffReliquary(swapped, other, r) ELSE freed, a, r)

\* The avatars that a trade of e with a is between, and whether one of those in doubt has
\* a part in it: an unarmed avatar gives nothing for what it takes, and what it took is in
\* two hands.
Traders(a, e) == {a, weapons[e].avatar} \ {Nobody}
Doubted(a, e) == \E d \in doubtful : d \in Traders(a, e) \/ hand[d] = e

WearEquipReq(a, e) ==
  /\ a \in Owned
  /\ \/ /\ e \in Held
        /\ hand[a] \in Held \cup {0}   \* bound: the one held was not eaten meanwhile
        /\ Wear(WearUserAvatarWeapon(Now, a, e))
        /\ doubtful' = IF inWorld /\ Doubted(a, e) THEN doubtful \cup Traders(a, e) ELSE doubtful
     \/ /\ e \in DOMAIN reliqs
        /\ Wear(WearUserAvatarReliquary(Now, a, e))
        /\ doubtful' = IF reliqs[e] \notin {Nobody, a} /\ slot[a] # Nobody
                       THEN doubtful \cup {reliqs[e]} ELSE doubtful
  /\ UNCHANGED <<items, grown, inWorld, bounds>>

TakeoffEquipReq(a) ==
  /\ a \in Owned /\ slot[a] # Nobody
  /\ Wear(TakeOffReliquary(Now, a, slot[a]))
  /\ UNCHANGED <<items, grown, inWorld, bounds, doubtful>>

SetEquipLockStateReq(w, lock) ==
  /\ Counted /\ w \in Held \cap Lockable /\ weapons[w].lock # lock
  /\ weapons' = [weapons EXCEPT ![w].lock = lock]
  /\ UNCHANGED <<items, reliqs, grown, inWorld, made, worn>>

(***************************************************************************)
(* Gifts: from a draw, a command, a chest or a quest.                      *)
(***************************************************************************)
\* AddUserWeapon: the id made, or 0 when the pack is over its limit.
AddUserWeapon(id) ==
  IF Cardinality(Held) > PackLimit THEN weapons
  ELSE [w \in Held \cup {id} |-> IF w \in Held THEN weapons[w] ELSE NewWeapon(Nobody)]
GiveWeapon ==
  /\ Counted /\ made < MaxWeapons /\ Cardinality(Held) <= PackLimit
  /\ made' = made + 1
  /\ weapons' = AddUserWeapon(made + 1)
  /\ UNCHANGED <<items, reliqs, grown, inWorld, worn>>

AddUserReliquary(r) ==
  /\ Counted /\ r \in Reliqs \ DOMAIN reliqs
  /\ reliqs' = [x \in DOMAIN reliqs \cup {r} |-> IF x = r THEN Nobody ELSE reliqs[x]]
  /\ UNCHANGED <<items, weapons, grown, inWorld, made, worn>>

GiveItem(i) ==
  /\ Counted /\ items[i] < MaxCount /\ AddUserItem(items, i, 1) # items
  /\ items' = AddUserItem(items, i, 1)
  /\ UNCHANGED <<weapons, reliqs, grown, inWorld, made, worn>>

\* AddUserAvatar: with its first weapon, unless the pack is full or the player has no world.
AddUserAvatar(a) ==
  /\ a \in Avatars \ Owned /\ made < MaxWeapons
  /\ LET id == made + 1
         given == AddUserWeapon(id)
         b == [Now EXCEPT !.weapons = given]
     IN  /\ Wear(IF id \in DOMAIN given THEN WearUserAvatarWeapon(b, a, id) ELSE b)
         /\ doubtful' = IF id \in DOMAIN given /\ inWorld THEN doubtful ELSE doubtful \cup {a}
         /\ made' = id
  /\ grown' = [x \in Owned \cup {a} |-> IF x = a THEN Newborn ELSE grown[x]]
  /\ UNCHANGED <<items, inWorld, requests>>

(***************************************************************************)
(* Requests that spend.                                                    *)
(***************************************************************************)
Least(m, n) == IF m < n THEN m ELSE n
\* CalcWeaponUpgrade and UpgradePlayerAvatar: levels up to the limit, the rest overflows.
Ups(x, exp) == Least((x.exp + exp) \div Need, Limit(x.promote) - x.level)
Rest(x, exp) == x.exp + exp - Ups(x, exp) * Need
Full(x, exp) == x.level + Ups(x, exp) = Limit(x.promote)
Grow(x, exp) ==
  [to |-> [x EXCEPT !.level = @ + Ups(x, exp), !.exp = IF Full(x, exp) THEN 0 ELSE Rest(x, exp)],
   over |-> IF Full(x, exp) THEN Rest(x, exp) ELSE 0]
FoodExp(w) == ((weapons[w].exp + (weapons[w].level - 1) * Need) * 4) \div 5 + BaseExp
Without(ids) == [w \in Held \ ids |-> weapons[w]]
Improved(ids, w, to) == [x \in Held \ ids |-> IF x = w THEN to ELSE weapons[x]]
Edible(w) == w \in Held /\ weapons[w].avatar = Nobody /\ ~weapons[w].lock

\* Mutant: a weapon that cannot grow takes what it is fed.
AtLimitNever(x) == FALSE

AtLimit(x) == x.level >= Limit(x.promote)
\* WeaponUpgradeReq: the weapon itself may be among its food, and is then gone.
WeaponUpgradeReq(w, ores, food) ==
  /\ Counted /\ w \in Held /\ ~AtLimit(weapons[w])
  /\ ores > 0 \/ food # {}
  /\ \A f \in food : Edible(f)
  /\ LET cost == And("ore", ores, "coin", ores + Cardinality(food))
         eaten == IF food = {} THEN 0 ELSE FoodExp(CHOOSE f \in food : TRUE)
         grows == Grow(weapons[w], ores * OreExp + eaten)
     IN  /\ Affords(cost)
         /\ weapons' = Improved(food, w, grows.to)
         /\ items' = LET bag == CostUserItem(cost)
                         back == grows.over \div OreExp
                     IN  IF back > 0 THEN AddUserItem(bag, "ore", back) ELSE bag
  /\ UNCHANGED <<reliqs, grown, inWorld, made, worn>>

WeaponPromoteReq(w) ==
  /\ Counted /\ w \in Held
  /\ AtLimit(weapons[w]) /\ weapons[w].promote < MaxPromote
  /\ LET cost == And("ore", 1, "coin", 1)
     IN  Affords(cost) /\ items' = CostUserItem(cost)
  /\ weapons' = [weapons EXCEPT ![w].promote = @ + 1]
  /\ UNCHANGED <<reliqs, grown, inWorld, made, worn>>

\* WeaponUpgradeReq with a list that names the ore twice, more in all than there is: each
\* entry passes the check, and the second is refused when the first has been taken.
OreNamedTwice(w, m, n) ==
  /\ Counted /\ w \in Held /\ ~AtLimit(weapons[w])
  /\ items["ore"] \in (m .. m + n - 1) \cap (n .. m + n - 1) /\ items["coin"] >= m + n
  /\ items' = CostUserItem(Just("ore", m))
  /\ UNCHANGED <<weapons, reliqs, grown, inWorld, made, worn>>

\* WeaponAwakenReq: the food, a weapon or a material, is gone before the coins are counted.
AwakenPaid == items["coin"] >= 1
Refinable(w) == w \in Held /\ weapons[w].refine + 1 < MaxRefine
Refined(w) == [weapons[w] EXCEPT !.refine = @ + 1]
WeaponAwakenReq(w, f) ==
  /\ Counted /\ Refinable(w) /\ w # f /\ Edible(f)
  /\ IF AwakenPaid
     THEN /\ weapons' = Improved({f}, w, Refined(w))
          /\ items' = CostUserItem(Just("coin", 1))
     ELSE weapons' = Without({f}) /\ items' = items
  /\ UNCHANGED <<reliqs, grown, inWorld, made, worn>>
WeaponAwakenByItem(w) ==
  /\ Counted /\ Refinable(w) /\ items["ore"] > 0
  /\ IF AwakenPaid
     THEN /\ weapons' = Improved({}, w, Refined(w))
          /\ items' = CostUserItem(And("ore", 1, "coin", 1))
     ELSE weapons' = weapons /\ items' = CostUserItem(Just("ore", 1))
  /\ UNCHANGED <<reliqs, grown, inWorld, made, worn>>

AvatarUpgradeReq(a, books) ==
  /\ Counted /\ a \in Owned /\ ~AtLimit(grown[a])
  /\ LET cost == And("book", books, "coin", books)
     IN  Affords(cost) /\ items' = CostUserItem(cost)
  /\ grown' = [grown EXCEPT ![a] = Grow(@, books * OreExp).to]
  /\ UNCHANGED <<weapons, reliqs, inWorld, made, worn>>

AvatarPromoteReq(a) ==
  /\ Counted /\ a \in Owned
  /\ AtLimit(grown[a]) /\ grown[a].promote < MaxPromote
  /\ LET cost == And("ore", 1, "coin", 1)
     IN  Affords(cost) /\ items' = CostUserItem(cost)
  /\ grown' = [grown EXCEPT ![a].promote = @ + 1]
  /\ UNCHANGED <<weapons, reliqs, inWorld, made, worn>>

\* The reward of the first promotion, once; it may be asked for before promoting.
AvatarPromoteGetRewardReq(a) ==
  /\ a \in Owned /\ ~grown[a].taken
  /\ items["fate"] < MaxCount
  /\ grown' = [grown EXCEPT ![a].taken = TRUE]
  /\ items' = AddUserItem(items, "fate", 1)
  /\ UNCHANGED <<weapons, reliqs, inWorld, bounds, worn>>

\* BuyGoodsReq: the goods are lost when the pack is full.
BuyGoodsReq ==
  /\ Counted /\ items["hcoin"] >= 1 /\ items["fate"] < MaxCount
  /\ items' = AddUserItem(CostUserItem(Just("hcoin", 1)), "fate", 1)
  /\ UNCHANGED <<weapons, reliqs, grown, inWorld, made, worn>>

McoinExchangeHcoinReq ==
  /\ items["mcoin"] >= 1 /\ items["hcoin"] < MaxCount
  /\ items' = AddUserItem(CostUserItem(Just("mcoin", 1)), "hcoin", 1)
  /\ UNCHANGED <<weapons, reliqs, grown, inWorld, bounds, worn>>

\* Logout and login: InitAllAvatar, InitAllReliquary and InitAllWeapon rebuild what is worn
\* from what names its wearer; of two that name the same place, either may come last.
Hands(a) == {w \in Held : weapons[w].avatar = a}
Dressings(a) == {r \in DOMAIN reliqs : reliqs[r] = a}
OrElse(S, none) == IF S = {} THEN {none} ELSE S
Relogin ==
  /\ hand' \in [Avatars -> 0..MaxWeapons] /\ \A a \in Avatars : hand'[a] \in OrElse(Hands(a), 0)
  /\ slot' \in [Avatars -> Reliqs \cup {Nobody}]
  /\ \A a \in Avatars : slot'[a] \in OrElse(Dressings(a), Nobody)
  /\ guids' = [a \in Avatars |-> Hands(a) \cup Dressings(a)]
  /\ inWorld' \in BOOLEAN
  /\ UNCHANGED <<items, weapons, reliqs, grown, bounds, doubtful>>

\* A player who has just the first avatar, armed, and has been given items, coins or none.
Init ==
  /\ \E broke \in BOOLEAN :
       items = [i \in Items |-> IF i = "fate" \/ (broke /\ i = "coin") THEN 0 ELSE MaxCount]
  /\ weapons = [w \in {1} |-> NewWeapon(MainChar)]
  /\ reliqs = [r \in {} |-> Nobody]
  /\ grown = [a \in {MainChar} |-> Newborn]
  /\ hand = [a \in Avatars |-> IF a = MainChar THEN 1 ELSE 0]
  /\ slot = [a \in Avatars |-> Nobody]
  /\ guids = [a \in Avatars |-> IF a = MainChar THEN {1} ELSE {}]
  /\ inWorld = TRUE /\ made = 1 /\ requests = 0 /\ doubtful = {}

Next ==
  \/ \E a \in Avatars : \/ \E e \in Held \cup DOMAIN reliqs : WearEquipReq(a, e)
                        \/ TakeoffEquipReq(a) \/ AddUserAvatar(a)
                        \/ \E n \in 1..2 : AvatarUpgradeReq(a, n)
                        \/ AvatarPromoteReq(a) \/ AvatarPromoteGetRewardReq(a)
  \/ \E w \in Held : \/ \E lock \in BOOLEAN : SetEquipLockStateReq(w, lock)
                     \/ \E n \in 0..2, food \in {{}} \cup {{f} : f \in Held} :
                           WeaponUpgradeReq(w, n, food)
                     \/ WeaponPromoteReq(w)
                     \/ \E m, n \in 1..2 : OreNamedTwice(w, m, n)
                     \/ \E f \in Held : WeaponAwakenReq(w, f)
                     \/ WeaponAwakenByItem(w)
  \/ GiveWeapon
  \/ \E r \in Reliqs : AddUserReliquary(r)
  \/ \E i \in GiftItems : GiveItem(i)
  \/ BuyGoodsReq \/ McoinExchangeHcoinReq \/ Relogin

Spec == Init /\ [][Next]_vars

(***************************************************************************)
(* Properties.                                                             *)
(***************************************************************************)
\* The three records of who wears what agree, so that a login rebuilds what the player had:
\* an object that names an avatar is the one the avatar points at, nothing else claims its
\* place, and its guid is listed.  Except for an avatar a grant left unarmed (full pack, or
\* no world), those it then took a weapon from or traded with, and one a swap of
\* reliquaries robbed.
EquipAgrees ==
  \A a \in Owned \ doubtful :
    /\ hand[a] \in Held
    /\ {w \in Held : weapons[w].avatar = a} = {hand[a]}
    /\ {r \in DOMAIN reliqs : reliqs[r] = a} = {slot[a]} \ {Nobody}
    /\ guids[a] = {hand[a], slot[a]} \ {Nobody}

\* A swap of reliquaries leaves each avatar with the other's one.
SwapDresses ==
  [][\A a, b \in Avatars :
       /\ a # b /\ slot[a] # Nobody /\ slot[b] # Nobody
       /\ slot'[a] = slot[b]
       => slot'[b] = slot[a]]_vars

Better(x, y) == \/ x.promote < y.promote
                \/ x.promote = y.promote /\ x.level < y.level
                \/ x.promote = y.promote /\ x.level = y.level /\ x.exp < y.exp
Spent == (\E i \in Items : items'[i] < items[i]) \/ ~(Held \subseteq DOMAIN weapons')
Gained ==
  \/ \E i \in Items : items'[i] > items[i]
  \/ \E w \in Held \cap DOMAIN weapons' :
       Better(weapons[w], weapons'[w]) \/ weapons[w].refine < weapons'[w].refine
  \/ \E a \in Owned : Better(grown[a], grown'[a])
\* The requests that cost and give nothing: a refinement without the coins, a weapon fed to
\* itself, ore named twice, and a purchase with a full pack.
InVain ==
  \/ \E w \in Held : /\ ~AwakenPaid
                     /\ WeaponAwakenByItem(w) \/ \E f \in Held : WeaponAwakenReq(w, f)
  \/ \E w \in Held, n \in 0..2 : WeaponUpgradeReq(w, n, {w})
  \/ \E w \in Held, m, n \in 1..2 : OreNamedTwice(w, m, n)
  \/ PackFull /\ BuyGoodsReq
\* But for those four, a player never pays for nothing: what is spent improves a weapon or an
\* avatar or buys something.
PaysForSomething == Spent /\ ~Gained => InVain
NothingLostInVain == [][PaysForSomething]_vars
=============================================================================
