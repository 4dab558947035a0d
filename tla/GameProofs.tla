------------------------------ MODULE GameProofs ------------------------------
(* Proofs about what one game server handles: the objects a player owns     *)
(* (PlayerItems), its draws (Gacha), the groups of a scene (Scene), quests  *)
(* (Quest), the big world (BigWorld), stamina and skiffs (Stamina), and     *)
(* that a behaviour of MCGame, which runs one part of the game, has the     *)
(* properties of the part it runs.                                          *)
EXTENDS MCGame, Integers, Sequences, FiniteSetTheorems, TLAPS

-----------------------------------------------------------------------------
(* What a player owns.                                                     *)

\* Weapons are worn as the avatars say, reliquaries too, and the guids list them.
Named(w) == weapons[w].avatar
ArmedOK(a) ==
  /\ hand[a] \in Items!Held /\ \A w \in Items!Held : Named(w) = a <=> w = hand[a]
  /\ \A n \in Nat : n \in guids[a] <=> n = hand[a]
DressedOK(a) ==
  /\ \A r \in DOMAIN reliqs : reliqs[r] = a => r = slot[a]
  /\ \A r \in Reliqs : r \in guids[a] <=> r = slot[a]
\* They are, but for the doubtful; a healthy avatar's weapon is in no other hand, and an
\* avatar the player does not own wears nothing.
WeaponsInv ==
  /\ \A a \in Items!Owned \ doubtful : ArmedOK(a)
  /\ \A w \in Items!Held : Named(w) \in Items!Owned \cup {Nobody}
  /\ \A a \in Items!Owned \ doubtful, d \in Avatars : d # a => hand[d] # hand[a]
  /\ \A a \in Avatars \ Items!Owned : hand[a] = 0
ReliqsInv ==
  /\ \A a \in Items!Owned \ doubtful : DressedOK(a)
  /\ \A r \in DOMAIN reliqs : reliqs[r] \in Items!Owned \cup {Nobody}
  /\ \A a \in Avatars : slot[a] # Nobody => slot[a] \in DOMAIN reliqs /\ reliqs[slot[a]] = a
  /\ \A a \in Avatars \ Items!Owned : slot[a] = Nobody
GuidsInv == \A a \in Avatars \ Items!Owned : guids[a] = {}
WornInv == WeaponsInv /\ ReliqsInv /\ GuidsInv

\* The property in these words.
LEMMA EquipFromWorn == ASSUME Items!TypeOK, WornInv PROVE Items!EquipAgrees
<1> SUFFICES ASSUME NEW a \in Items!Owned \ doubtful
             PROVE  /\ hand[a] \in Items!Held
                    /\ {w \in Items!Held : weapons[w].avatar = a} = {hand[a]}
                    /\ {r \in DOMAIN reliqs : reliqs[r] = a} = {slot[a]} \ {Nobody}
                    /\ guids[a] = {hand[a], slot[a]} \ {Nobody}
  BY DEF Items!EquipAgrees
<1>1. ArmedOK(a) /\ DressedOK(a) /\ a \in Avatars /\ a # Nobody
  BY Items!ItemsAssumption DEF WornInv, WeaponsInv, ReliqsInv, Items!TypeOK, Items!ItemsAssumption
<1>2. hand[a] \in Items!Held /\ {w \in Items!Held : weapons[w].avatar = a} = {hand[a]}
  BY <1>1 DEF ArmedOK, Named
<1>3. {r \in DOMAIN reliqs : reliqs[r] = a} = {slot[a]} \ {Nobody}
  <2>1. DOMAIN reliqs \subseteq Reliqs /\ Nobody \notin Reliqs
    BY Items!ItemsAssumption DEF Items!TypeOK, Items!ItemsAssumption
  <2>2. slot[a] # Nobody => slot[a] \in DOMAIN reliqs /\ reliqs[slot[a]] = a
    BY <1>1 DEF WornInv, ReliqsInv
  <2> QED BY <1>1, <2>1, <2>2 DEF DressedOK
<1>4. guids[a] = {hand[a], slot[a]} \ {Nobody}
  <2>1. guids[a] \subseteq Nat \cup Reliqs /\ hand[a] \in Nat /\ slot[a] \in Reliqs \cup {Nobody}
    BY <1>1 DEF Items!TypeOK
  <2>2. Nobody \notin Reliqs /\ Nobody \notin Nat
    BY Items!ItemsAssumption DEF Items!ItemsAssumption
  <2> QED BY <1>1, <2>1, <2>2 DEF ArmedOK, DressedOK
<1> QED BY <1>2, <1>3, <1>4
-----------------------------------------------------------------------------
(* One object put on and taken off.                                        *)

\* What WearWeapon and the others work on.
BoundType ==
  [hand : [Avatars -> 0..made], slot : [Avatars -> Reliqs \cup {Nobody}],
   guids : [Avatars -> SUBSET (Nat \cup Reliqs)], weapons : [Items!Held -> Items!WeaponType],
   reliqs : [DOMAIN reliqs -> Avatars \cup {Nobody}]]

\* The state is of that type.
LEMMA NowIs == ASSUME Items!TypeOK PROVE Items!Now \in BoundType
BY DEF Items!TypeOK, Items!Now, Items!Bound, BoundType

\* What each of the four operations makes of b.
WornBy(r, b, a, w) ==
  /\ r \in BoundType /\ r.slot = b.slot /\ r.reliqs = b.reliqs
  /\ \A x \in Avatars : r.hand[x] = IF x = a THEN w ELSE b.hand[x]
  /\ \A x \in Avatars : r.guids[x] = IF x = a THEN b.guids[x] \cup {w} ELSE b.guids[x]
  /\ \A v \in Items!Held : r.weapons[v].avatar = IF v = w THEN a ELSE b.weapons[v].avatar
TakenFrom(r, b, a, w) ==
  /\ r \in BoundType /\ r.slot = b.slot /\ r.reliqs = b.reliqs
  /\ \A x \in Avatars : r.hand[x] = IF x = a THEN 0 ELSE b.hand[x]
  /\ \A x \in Avatars : r.guids[x] = IF x = a THEN b.guids[x] \ {w} ELSE b.guids[x]
  /\ \A v \in Items!Held : r.weapons[v].avatar = IF v = w THEN Nobody ELSE b.weapons[v].avatar
PutOn(r, b, a, q) ==
  /\ r \in BoundType /\ r.hand = b.hand /\ r.weapons = b.weapons
  /\ \A x \in Avatars : r.slot[x] = IF x = a THEN q ELSE b.slot[x]
  /\ \A x \in Avatars : r.guids[x] = IF x = a THEN b.guids[x] \cup {q} ELSE b.guids[x]
  /\ \A v \in DOMAIN reliqs : r.reliqs[v] = IF v = q THEN a ELSE b.reliqs[v]
PutOff(r, b, a, q) ==
  /\ r \in BoundType /\ r.hand = b.hand /\ r.weapons = b.weapons
  /\ \A x \in Avatars : r.slot[x] = IF x = a THEN Nobody ELSE b.slot[x]
  /\ \A x \in Avatars : r.guids[x] = IF x = a THEN b.guids[x] \ {q} ELSE b.guids[x]
  /\ \A v \in DOMAIN reliqs : r.reliqs[v] = IF v = q THEN Nobody ELSE b.reliqs[v]

\* A weapon is taken into an avatar's hand.
LEMMA WearWeaponIs ==
  ASSUME Items!TypeOK, NEW b \in BoundType, NEW a \in Avatars, NEW w \in Items!Held
  PROVE  WornBy(Items!WearWeapon(b, a, w), b, a, w)
<1> DEFINE h == [b.hand EXCEPT ![a] = w]
           g == [b.guids EXCEPT ![a] = @ \cup {w}]
           o == [b.weapons EXCEPT ![w].avatar = a]
           r == Items!WearWeapon(b, a, w)
<1>0. /\ b.hand \in [Avatars -> 0..made] /\ b.guids \in [Avatars -> SUBSET (Nat \cup Reliqs)]
      /\ b.weapons \in [Items!Held -> Items!WeaponType] /\ w \in 0..made /\ w \in Nat
  BY DEF BoundType, Items!TypeOK
<1>1. h \in [Avatars -> 0..made] /\ \A x \in Avatars : h[x] = IF x = a THEN w ELSE b.hand[x]
  BY <1>0
<1>2. /\ g \in [Avatars -> SUBSET (Nat \cup Reliqs)]
      /\ \A x \in Avatars : g[x] = IF x = a THEN b.guids[x] \cup {w} ELSE b.guids[x]
  BY <1>0
<1>3. /\ o \in [Items!Held -> Items!WeaponType]
      /\ \A v \in Items!Held : o[v].avatar = IF v = w THEN a ELSE b.weapons[v].avatar
  BY <1>0 DEF Items!WeaponType
<1>4. r.hand = h /\ r.slot = b.slot /\ r.guids = g /\ r.weapons = o /\ r.reliqs = b.reliqs
  BY DEF Items!WearWeapon, BoundType
<1>6. r \in [hand : {h}, slot : {b.slot}, guids : {g}, weapons : {o}, reliqs : {b.reliqs}]
  BY DEF Items!WearWeapon, BoundType
<1> HIDE DEF h, g, o, r
<1>5. r \in BoundType
  BY <1>0, <1>1, <1>2, <1>3, <1>6 DEF BoundType
<1> QED BY <1>1, <1>2, <1>3, <1>4, <1>5 DEF r, WornBy

\* A weapon is taken out of it.
LEMMA TakeOffWeaponIs ==
  ASSUME Items!TypeOK, NEW b \in BoundType, NEW a \in Avatars, NEW w \in Nat
  PROVE  TakenFrom(Items!TakeOffWeapon(b, a, w), b, a, w)
<1> DEFINE h == [b.hand EXCEPT ![a] = 0]
           g == [b.guids EXCEPT ![a] = @ \ {w}]
           o == [x \in DOMAIN b.weapons |-> IF x = w THEN [b.weapons[x] EXCEPT !.avatar = Nobody]
                                            ELSE b.weapons[x]]
           r == Items!TakeOffWeapon(b, a, w)
<1>0. /\ b.hand \in [Avatars -> 0..made] /\ b.guids \in [Avatars -> SUBSET (Nat \cup Reliqs)]
      /\ b.weapons \in [Items!Held -> Items!WeaponType] /\ 0 \in 0..made
  BY DEF BoundType, Items!TypeOK
<1>1. h \in [Avatars -> 0..made] /\ \A x \in Avatars : h[x] = IF x = a THEN 0 ELSE b.hand[x]
  BY <1>0
<1>2. /\ g \in [Avatars -> SUBSET (Nat \cup Reliqs)]
      /\ \A x \in Avatars : g[x] = IF x = a THEN b.guids[x] \ {w} ELSE b.guids[x]
  BY <1>0
<1>3. /\ o \in [Items!Held -> Items!WeaponType]
      /\ \A v \in Items!Held : o[v].avatar = IF v = w THEN Nobody ELSE b.weapons[v].avatar
  BY <1>0 DEF Items!WeaponType
<1>4. r.hand = h /\ r.slot = b.slot /\ r.guids = g /\ r.weapons = o /\ r.reliqs = b.reliqs
  BY DEF Items!TakeOffWeapon, BoundType
<1>6. r \in [hand : {h}, slot : {b.slot}, guids : {g}, weapons : {o}, reliqs : {b.reliqs}]
  BY DEF Items!TakeOffWeapon, BoundType
<1> HIDE DEF h, g, o, r
<1>5. r \in BoundType
  BY <1>0, <1>1, <1>2, <1>3, <1>6 DEF BoundType
<1> QED BY <1>1, <1>2, <1>3, <1>4, <1>5 DEF r, TakenFrom

\* A reliquary is put on.
LEMMA WearReliquaryIs ==
  ASSUME Items!TypeOK, NEW b \in BoundType, NEW a \in Avatars, NEW q \in DOMAIN reliqs
  PROVE  PutOn(Items!WearReliquary(b, a, q), b, a, q)
<1> DEFINE h == [b.slot EXCEPT ![a] = q]
           g == [b.guids EXCEPT ![a] = @ \cup {q}]
           o == [b.reliqs EXCEPT ![q] = a]
           r == Items!WearReliquary(b, a, q)
<1>0. /\ b.slot \in [Avatars -> Reliqs \cup {Nobody}] /\ b.guids \in [Avatars -> SUBSET (Nat \cup Reliqs)]
      /\ b.reliqs \in [DOMAIN reliqs -> Avatars \cup {Nobody}] /\ q \in Reliqs
  BY DEF BoundType, Items!TypeOK
<1>1. h \in [Avatars -> Reliqs \cup {Nobody}] /\ \A x \in Avatars : h[x] = IF x = a THEN q ELSE b.slot[x]
  BY <1>0
<1>2. /\ g \in [Avatars -> SUBSET (Nat \cup Reliqs)]
      /\ \A x \in Avatars : g[x] = IF x = a THEN b.guids[x] \cup {q} ELSE b.guids[x]
  BY <1>0
<1>3. /\ o \in [DOMAIN reliqs -> Avatars \cup {Nobody}]
      /\ \A v \in DOMAIN reliqs : o[v] = IF v = q THEN a ELSE b.reliqs[v]
  BY <1>0
<1>4. r.hand = b.hand /\ r.slot = h /\ r.guids = g /\ r.weapons = b.weapons /\ r.reliqs = o
  BY DEF Items!WearReliquary, BoundType
<1>6. r \in [hand : {b.hand}, slot : {h}, guids : {g}, weapons : {b.weapons}, reliqs : {o}]
  BY DEF Items!WearReliquary, BoundType
<1> HIDE DEF h, g, o, r
<1>5. r \in BoundType
  BY <1>0, <1>1, <1>2, <1>3, <1>6 DEF BoundType
<1> QED BY <1>1, <1>2, <1>3, <1>4, <1>5 DEF r, PutOn

\* A reliquary is taken off.
LEMMA TakeOffReliquaryIs ==
  ASSUME Items!TypeOK, NEW b \in BoundType, NEW a \in Avatars, NEW q \in DOMAIN reliqs
  PROVE  PutOff(Items!TakeOffReliquary(b, a, q), b, a, q)
<1> DEFINE h == [b.slot EXCEPT ![a] = Nobody]
           g == [b.guids EXCEPT ![a] = @ \ {q}]
           o == [b.reliqs EXCEPT ![q] = Nobody]
           r == Items!TakeOffReliquary(b, a, q)
<1>0. /\ b.slot \in [Avatars -> Reliqs \cup {Nobody}] /\ b.guids \in [Avatars -> SUBSET (Nat \cup Reliqs)]
      /\ b.reliqs \in [DOMAIN reliqs -> Avatars \cup {Nobody}]
  BY DEF BoundType
<1>1. /\ h \in [Avatars -> Reliqs \cup {Nobody}]
      /\ \A x \in Avatars : h[x] = IF x = a THEN Nobody ELSE b.slot[x]
  BY <1>0
<1>2. /\ g \in [Avatars -> SUBSET (Nat \cup Reliqs)]
      /\ \A x \in Avatars : g[x] = IF x = a THEN b.guids[x] \ {q} ELSE b.guids[x]
  BY <1>0
<1>3. /\ o \in [DOMAIN reliqs -> Avatars \cup {Nobody}]
      /\ \A v \in DOMAIN reliqs : o[v] = IF v = q THEN Nobody ELSE b.reliqs[v]
  BY <1>0
<1>4. r.hand = b.hand /\ r.slot = h /\ r.guids = g /\ r.weapons = b.weapons /\ r.reliqs = o
  BY DEF Items!TakeOffReliquary, BoundType
<1>6. r \in [hand : {b.hand}, slot : {h}, guids : {g}, weapons : {b.weapons}, reliqs : {o}]
  BY DEF Items!TakeOffReliquary, BoundType
<1> HIDE DEF h, g, o, r
<1>5. r \in BoundType
  BY <1>0, <1>1, <1>2, <1>3, <1>6 DEF BoundType
<1> QED BY <1>1, <1>2, <1>3, <1>4, <1>5 DEF r, PutOff
-----------------------------------------------------------------------------
(* Weapons change hands.                                                   *)

\* What a request leaves is of its types.
LEMMA WearTypes ==
  ASSUME Items!TypeOK, NEW b \in BoundType, Items!Wear(b)
  PROVE  /\ hand' \in [Avatars -> 0..made] /\ slot' \in [Avatars -> Reliqs \cup {Nobody}]
         /\ guids' \in [Avatars -> SUBSET (Nat \cup Reliqs)]
         /\ weapons' \in [Items!Held -> Items!WeaponType] /\ Items!Held' = Items!Held
         /\ reliqs' \in [DOMAIN reliqs -> Avatars \cup {Nobody}] /\ DOMAIN reliqs' = DOMAIN reliqs
BY DEF Items!Wear, BoundType, Items!Held

\* Who holds what, and whose each weapon is, after an avatar has taken a weapon: the one it
\* had goes to the weapon's last wearer, if there is one and there is one to give.
Traded(r, a, e) ==
  /\ r \in BoundType /\ r.slot = slot /\ r.reliqs = reliqs
  /\ \A x \in Avatars : r.hand[x] = IF x = a THEN e
                                    ELSE IF hand[a] # 0 /\ x = Named(e) THEN hand[a] ELSE hand[x]
  /\ \A v \in Items!Held : r.weapons[v].avatar = IF v = e THEN a
                                                 ELSE IF v = hand[a] THEN Named(e) ELSE Named(v)
  /\ r.guids[a] = IF hand[a] = 0 THEN guids[a] \cup {e}
                  ELSE IF a = Named(e) THEN guids[a] \cup {hand[a], e}
                  ELSE (guids[a] \ {hand[a]}) \cup {e}
  /\ \A x \in Avatars \ {a} : r.guids[x] = IF hand[a] # 0 /\ x = Named(e)
                                             THEN (guids[x] \ {e}) \cup {hand[a]} ELSE guids[x]

\* That is what the request does.
LEMMA WeaponTaken ==
  ASSUME Items!TypeOK, NEW a \in Avatars, NEW e \in Items!Held, hand[a] \in Items!Held \cup {0},
         inWorld
  PROVE  Traded(Items!WearUserAvatarWeapon(Items!Now, a, e), a, e)
<1> DEFINE now == Items!Now
           c == hand[a]
           o == Named(e)
           b == Items!WearUserAvatarWeapon(Items!Now, a, e)
<1>0. /\ now \in BoundType /\ now.hand = hand /\ now.slot = slot /\ now.guids = guids
      /\ now.weapons = weapons /\ now.reliqs = reliqs
  BY NowIs DEF Items!Now, Items!Bound
<1>1. /\ e \in 1..made /\ 0 \notin Items!Held /\ c \in Nat /\ o \in Avatars \cup {Nobody}
      /\ Nobody \notin Avatars
  BY Items!ItemsAssumption DEF Items!TypeOK, Items!ItemsAssumption, Items!WeaponType, Named
<1>2. \A v \in Items!Held : now.weapons[v].avatar = Named(v)
  BY <1>0 DEF Named
<1>3. b = IF c = 0 THEN Items!WearWeapon(now, a, e)
          ELSE IF o = Nobody THEN Items!WearWeapon(Items!TakeOffWeapon(now, a, c), a, e)
          ELSE Items!WearWeapon(Items!WearWeapon(Items!TakeOffWeapon(Items!TakeOffWeapon(now, a, c), o, e),
                                                 o, c), a, e)
  BY <1>0, inWorld DEF Items!WearUserAvatarWeapon, Named
<1> HIDE DEF now, b
<1>4. CASE c = 0
  <2> DEFINE r == Items!WearWeapon(now, a, e)
  <2>1. WornBy(r, now, a, e)
    BY <1>0, WearWeaponIs
  <2>2. b = r
    BY <1>3, <1>4
  <2> HIDE DEF r
  <2>3. Traded(b, a, e)
    BY <2>1, <2>2, <1>0, <1>1, <1>2, <1>4 DEF WornBy, Traded
  <2> QED BY <2>3 DEF b
<1>5. CASE c # 0 /\ o = Nobody
  <2> DEFINE p == Items!TakeOffWeapon(now, a, c)
             r == Items!WearWeapon(p, a, e)
  <2>1. TakenFrom(p, now, a, c)
    BY <1>0, <1>1, TakeOffWeaponIs
  <2> HIDE DEF p
  <2>0. p \in BoundType
    BY <2>1 DEF TakenFrom
  <2>2. WornBy(r, p, a, e)
    BY <2>0, WearWeaponIs
  <2>3. b = r
    BY <1>3, <1>5 DEF p
  <2> HIDE DEF r
  <2>4. \A v \in Items!Held : b.weapons[v].avatar = IF v = e THEN a ELSE IF v = c THEN o ELSE Named(v)
    BY <2>1, <2>2, <2>3, <1>2, <1>5 DEF WornBy, TakenFrom
  <2>5. \A x \in Avatars : b.hand[x] = IF x = a THEN e ELSE hand[x]
    BY <2>1, <2>2, <2>3, <1>0 DEF WornBy, TakenFrom
  <2>6. \A x \in Avatars : b.guids[x] = IF x = a THEN (guids[x] \ {c}) \cup {e} ELSE guids[x]
    BY <2>1, <2>2, <2>3, <1>0 DEF WornBy, TakenFrom
  <2>7. \A x \in Avatars : x # o
    BY <1>1, <1>5
  <2>8. b \in BoundType /\ b.slot = slot /\ b.reliqs = reliqs
    BY <2>1, <2>2, <2>3, <1>0 DEF WornBy, TakenFrom
  <2>9. Traded(b, a, e)
    BY <2>4, <2>5, <2>6, <2>7, <2>8, <1>5 DEF Traded
  <2> QED BY <2>9 DEF b
<1>6. CASE c # 0 /\ o # Nobody
  <2> DEFINE p == Items!TakeOffWeapon(now, a, c)
             q == Items!TakeOffWeapon(p, o, e)
             s == Items!WearWeapon(q, o, c)
             r == Items!WearWeapon(s, a, e)
  <2>0. c \in Items!Held /\ o \in Avatars /\ e \in Nat
    BY <1>1, <1>6
  <2>1. TakenFrom(p, now, a, c)
    BY <1>0, <1>1, TakeOffWeaponIs
  <2> HIDE DEF p
  <2>10. p \in BoundType
    BY <2>1 DEF TakenFrom
  <2>2. TakenFrom(q, p, o, e)
    BY <2>0, <2>10, TakeOffWeaponIs
  <2> HIDE DEF q
  <2>11. q \in BoundType
    BY <2>2 DEF TakenFrom
  <2>3. WornBy(s, q, o, c)
    BY <2>0, <2>11, WearWeaponIs
  <2> HIDE DEF s
  <2>12. s \in BoundType
    BY <2>3 DEF WornBy
  <2>4. WornBy(r, s, a, e)
    BY <2>12, WearWeaponIs
  <2>5. b = r
    BY <1>3, <1>6 DEF p, q, s
  <2> HIDE DEF r
  <2>6. \A v \in Items!Held : b.weapons[v].avatar = IF v = e THEN a ELSE IF v = c THEN o ELSE Named(v)
    BY <2>1, <2>2, <2>3, <2>4, <2>5, <1>2 DEF WornBy, TakenFrom
  <2>7. \A x \in Avatars : b.hand[x] = IF x = a THEN e ELSE IF x = o THEN c ELSE hand[x]
    BY <2>1, <2>2, <2>3, <2>4, <2>5, <1>0 DEF WornBy, TakenFrom
  <2>8. ASSUME NEW x \in Avatars \ {a}
        PROVE  b.guids[x] = IF x = o THEN (guids[x] \ {e}) \cup {c} ELSE guids[x]
    <3>1. p.guids[x] = guids[x]
      BY <2>1, <1>0 DEF TakenFrom
    <3>2. q.guids[x] = IF x = o THEN guids[x] \ {e} ELSE guids[x]
      BY <2>2, <3>1 DEF TakenFrom
    <3>3. s.guids[x] = IF x = o THEN (guids[x] \ {e}) \cup {c} ELSE guids[x]
      BY <2>3, <3>2 DEF WornBy
    <3> QED BY <2>4, <2>5, <3>3 DEF WornBy
  <2>9. b.guids[a] = IF a = o THEN guids[a] \cup {c, e} ELSE (guids[a] \ {c}) \cup {e}
    <3>1. p.guids[a] = guids[a] \ {c}
      BY <2>1, <1>0 DEF TakenFrom
    <3>2. q.guids[a] = IF a = o THEN (guids[a] \ {c}) \ {e} ELSE guids[a] \ {c}
      BY <2>2, <3>1 DEF TakenFrom
    <3>3. s.guids[a] = IF a = o THEN ((guids[a] \ {c}) \ {e}) \cup {c} ELSE guids[a] \ {c}
      BY <2>3, <3>2 DEF WornBy
    <3>4. b.guids[a] = s.guids[a] \cup {e}
      BY <2>4, <2>5 DEF WornBy
    <3> QED BY <3>3, <3>4
  <2>13. b \in BoundType /\ b.slot = slot /\ b.reliqs = reliqs
    BY <2>1, <2>2, <2>3, <2>4, <2>5, <1>0 DEF WornBy, TakenFrom
  <2>14. Traded(b, a, e)
    BY <2>6, <2>7, <2>8, <2>9, <2>13, <1>6 DEF Traded
  <2> QED BY <2>14 DEF b
<1> QED BY <1>4, <1>5, <1>6 DEF b

\* The healthy stay so: whoever trades with one in doubt is in doubt itself.
LEMMA WeaponsTraded ==
  ASSUME Items!TypeOK, WornInv, inWorld, NEW a \in Items!Owned, NEW e \in Items!Held,
         hand[a] \in Items!Held \cup {0}, Items!Wear(Items!WearUserAvatarWeapon(Items!Now, a, e)),
         doubtful' = IF Items!Doubted(a, e) THEN doubtful \cup Items!Traders(a, e) ELSE doubtful,
         UNCHANGED grown
  PROVE  WornInv'
<1> DEFINE c == hand[a]
           o == Named(e)
           b == Items!WearUserAvatarWeapon(Items!Now, a, e)
           Armed(x) == /\ hand'[x] \in Items!Held
                       /\ \A w \in Items!Held : weapons'[w].avatar = x <=> w = hand'[x]
                       /\ \A n \in Nat : n \in guids'[x] <=> n = hand'[x]
                       /\ \A d \in Avatars : d # x => hand'[d] # hand'[x]
<1>0. /\ a \in Avatars /\ Items!Owned \subseteq Avatars /\ 0 \notin Items!Held /\ Items!Held \subseteq Nat
      /\ Nobody \notin Avatars /\ o \in Items!Owned \cup {Nobody}
      /\ (\A q \in Reliqs : q \notin Nat) /\ doubtful \subseteq Items!Owned
  BY Items!ItemsAssumption DEF Items!TypeOK, Items!ItemsAssumption, WornInv, WeaponsInv
<1>1. /\ b \in BoundType /\ b.slot = slot /\ b.reliqs = reliqs
      /\ \A x \in Avatars : b.hand[x] = IF x = a THEN e ELSE IF c # 0 /\ x = o THEN c ELSE hand[x]
      /\ \A v \in Items!Held : b.weapons[v].avatar = IF v = e THEN a ELSE IF v = c THEN o ELSE Named(v)
      /\ b.guids[a] = IF c = 0 THEN guids[a] \cup {e}
                      ELSE IF a = o THEN guids[a] \cup {c, e} ELSE (guids[a] \ {c}) \cup {e}
      /\ \A x \in Avatars \ {a} : b.guids[x] = IF c # 0 /\ x = o
                                               THEN (guids[x] \ {e}) \cup {c} ELSE guids[x]
  <2>1. Traded(b, a, e)
    BY <1>0, WeaponTaken
  <2> HIDE DEF b
  <2> QED BY <2>1 DEF Traded
<1>2. hand' = b.hand /\ slot' = b.slot /\ guids' = b.guids /\ weapons' = b.weapons /\ reliqs' = b.reliqs
  BY DEF Items!Wear
<1>3. Items!Held' = Items!Held /\ Items!Owned' = Items!Owned
  BY <1>1, <1>2 DEF BoundType, Items!Held, Items!Owned
<1> HIDE DEF b
<1>4. /\ slot' = slot /\ reliqs' = reliqs
      /\ \A x \in Avatars : hand'[x] = IF x = a THEN e ELSE IF c # 0 /\ x = o THEN c ELSE hand[x]
      /\ \A v \in Items!Held : weapons'[v].avatar = IF v = e THEN a ELSE IF v = c THEN o ELSE Named(v)
      /\ guids'[a] = IF c = 0 THEN guids[a] \cup {e}
                     ELSE IF a = o THEN guids[a] \cup {c, e} ELSE (guids[a] \ {c}) \cup {e}
      /\ \A x \in Avatars \ {a} : guids'[x] = IF c # 0 /\ x = o
                                              THEN (guids[x] \ {e}) \cup {c} ELSE guids[x]
  BY <1>1, <1>2
<1>5. \A x \in Items!Owned \ doubtful : ArmedOK(x) /\ \A d \in Avatars : d # x => hand[d] # hand[x]
  BY DEF WornInv, WeaponsInv
<1>6. ASSUME NEW x \in Items!Owned \ doubtful', x # a, x # o PROVE Armed(x)
  <2>1. /\ ArmedOK(x) /\ \A d \in Avatars : d # x => hand[d] # hand[x]
    BY <1>5
  <2>2. hand'[x] = hand[x] /\ guids'[x] = guids[x] /\ hand[x] # c /\ hand[x] # e
    BY <1>0, <1>4, <1>6, <2>1 DEF ArmedOK
  <2>3. \A w \in Items!Held : weapons'[w].avatar = x <=> w = hand'[x]
    BY <1>4, <1>6, <2>1, <2>2 DEF ArmedOK
  <2>4. \A d \in Avatars : d # x => hand'[d] # hand'[x]
    BY <1>4, <2>1, <2>2
  <2> QED BY <2>1, <2>2, <2>3, <2>4 DEF ArmedOK
<1>7. ASSUME a \notin doubtful' PROVE Armed(a)
  <2>1. /\ a \notin doubtful /\ o \notin doubtful
        /\ \A d \in doubtful : hand[d] # e
    BY <1>0, <1>7 DEF Items!Doubted, Items!Traders, Named
  <2>2. ArmedOK(a) /\ c # 0 /\ c \in Items!Held /\ \A d \in Avatars : d # a => hand[d] # c
    BY <1>0, <1>5, <2>1 DEF ArmedOK
  <2>3. \A w \in Items!Held : weapons'[w].avatar = a <=> w = e
    BY <1>0, <1>4, <2>2 DEF ArmedOK
  <2>4. \A n \in Nat : n \in guids'[a] <=> n = e
    BY <1>0, <1>4, <2>2 DEF ArmedOK
  <2>5. ASSUME NEW d \in Avatars, d # a PROVE hand'[d] # e
    <3>1. hand[d] = e => d = o
      <4>1. d \notin Items!Owned => hand[d] = 0
        BY DEF WornInv, WeaponsInv
      <4>2. d \in Items!Owned => ArmedOK(d) \/ d \in doubtful
        BY <1>5
      <4> QED BY <1>0, <2>1, <4>1, <4>2 DEF ArmedOK
    <3>2. c = e => o = a
      BY <2>2 DEF ArmedOK
    <3> QED BY <1>4, <2>2, <2>5, <3>1, <3>2
  <2> QED BY <1>4, <2>3, <2>4, <2>5, <1>0
<1>8. ASSUME o # a, o \in Items!Owned, o \notin doubtful' PROVE Armed(o)
  <2>1. /\ a \notin doubtful /\ o \notin doubtful
        /\ \A d \in doubtful : hand[d] # e
    BY <1>0, <1>8 DEF Items!Doubted, Items!Traders, Named
  <2>2. ArmedOK(a) /\ c # 0 /\ c \in Items!Held /\ \A d \in Avatars : d # a => hand[d] # c
    BY <1>0, <1>5, <2>1 DEF ArmedOK
  <2>3. ArmedOK(o) /\ hand[o] = e /\ o \in Avatars /\ c # e /\ c \in Nat
    BY <1>0, <1>5, <1>8, <2>1, <2>2 DEF ArmedOK
  <2>4. hand'[o] = c
    BY <1>4, <1>8, <2>2, <2>3
  <2>5. \A w \in Items!Held : weapons'[w].avatar = o <=> w = c
    BY <1>4, <1>8, <2>2, <2>3 DEF ArmedOK
  <2>6. guids'[o] = (guids[o] \ {e}) \cup {c}
    BY <1>4, <1>8, <2>2, <2>3
  <2>7. \A n \in Nat : n \in guids'[o] <=> n = c
    BY <2>3, <2>6 DEF ArmedOK
  <2>8. \A d \in Avatars : d # o => hand'[d] # c
    BY <1>4, <2>2, <2>3
  <2> QED BY <2>2, <2>4, <2>5, <2>7, <2>8
<1>9. \A x \in Items!Owned \ doubtful' : Armed(x)
  BY <1>6, <1>7, <1>8
<1>10. ASSUME NEW q \in Reliqs, NEW x \in Avatars PROVE q \in guids'[x] <=> q \in guids[x]
  <2>1. q # c /\ q # e
    BY <1>0
  <2> HIDE DEF c, o
  <2> QED BY <1>4, <2>1
<1>11. WeaponsInv'
  <2>1. \A v \in Items!Held : weapons'[v].avatar \in Items!Owned \cup {Nobody}
    BY <1>0, <1>4 DEF WornInv, WeaponsInv
  <2>2. \A x \in Avatars \ Items!Owned : hand'[x] = 0
    BY <1>0, <1>4 DEF WornInv, WeaponsInv
  <2> HIDE DEF o, c
  <2> QED BY <1>3, <1>9, <2>1, <2>2 DEF WeaponsInv, ArmedOK, Named
<1>12. ReliqsInv'
  <2>1. \A x \in Items!Owned \ doubtful' : x \in Items!Owned \ doubtful
    OBVIOUS
  <2>2. \A x \in Items!Owned : DressedOK(x) => DressedOK(x)'
    BY <1>0, <1>4, <1>10 DEF DressedOK
  <2> QED BY <1>3, <1>4, <2>1, <2>2 DEF WornInv, ReliqsInv
<1>13. GuidsInv'
  BY <1>0, <1>3, <1>4 DEF WornInv, GuidsInv
<1> QED BY <1>11, <1>12, <1>13 DEF WornInv
-----------------------------------------------------------------------------
(* Reliquaries do.                                                         *)

\* Who has what in its slot after an avatar has put on a reliquary: its last wearer has
\* nothing, though the one that the avatar had names it.
Swapped(b, a, r) ==
  /\ b \in BoundType /\ b.hand = hand /\ b.weapons = weapons
  /\ \A x \in Avatars : b.slot[x] = IF x = a THEN r ELSE IF x = reliqs[r] THEN Nobody ELSE slot[x]
  /\ \A v \in DOMAIN reliqs : b.reliqs[v] = IF v = r THEN a
                                            ELSE IF v = slot[a] THEN reliqs[r] ELSE reliqs[v]
  /\ b.guids[a] = IF slot[a] = Nobody THEN guids[a] \cup {r}
                  ELSE IF reliqs[r] = a THEN guids[a] \cup {slot[a], r}
                  ELSE (guids[a] \ {slot[a]}) \cup {r}
  /\ \A x \in Avatars \ {a} : b.guids[x] = IF x # reliqs[r] THEN guids[x]
                                           ELSE IF slot[a] = Nobody THEN guids[x] \ {r}
                                           ELSE (guids[x] \cup {slot[a]}) \ {r}

\* That is what the request does.
LEMMA ReliquaryTaken ==
  ASSUME Items!TypeOK, NEW a \in Avatars, NEW r \in DOMAIN reliqs,
         slot[a] # Nobody => slot[a] \in DOMAIN reliqs
  PROVE  Swapped(Items!WearUserAvatarReliquary(Items!Now, a, r), a, r)
<1> DEFINE now == Items!Now
           c == slot[a]
           o == reliqs[r]
           b == Items!WearUserAvatarReliquary(Items!Now, a, r)
<1>0. /\ now \in BoundType /\ now.hand = hand /\ now.slot = slot /\ now.guids = guids
      /\ now.weapons = weapons /\ now.reliqs = reliqs
  BY NowIs DEF Items!Now, Items!Bound
<1>1. /\ c \in Reliqs \cup {Nobody} /\ o \in Avatars \cup {Nobody} /\ r \in Reliqs
      /\ Nobody \notin Avatars /\ Nobody \notin Reliqs /\ Nobody \notin DOMAIN reliqs
  BY Items!ItemsAssumption DEF Items!TypeOK, Items!ItemsAssumption
<1>2. b = LET freed == IF c = Nobody THEN now ELSE Items!TakeOffReliquary(now, a, c)
              swapped == IF c = Nobody THEN now
                         ELSE Items!WearReliquary(Items!TakeOffReliquary(now, a, c), o, c)
          IN  Items!WearReliquary(IF o # Nobody THEN Items!TakeOffReliquary(swapped, o, r) ELSE freed, a, r)
  BY <1>0 DEF Items!WearUserAvatarReliquary
<1> HIDE DEF now, b
<1>3. CASE c = Nobody /\ o = Nobody
  <2>1. PutOn(b, now, a, r)
    BY <1>0, <1>2, <1>3, WearReliquaryIs
  <2>2. \A x \in Avatars : b.slot[x] = IF x = a THEN r ELSE IF x = o THEN Nobody ELSE slot[x]
    BY <2>1, <1>0, <1>1, <1>3 DEF PutOn
  <2>3. \A v \in DOMAIN reliqs : b.reliqs[v] = IF v = r THEN a ELSE IF v = c THEN o ELSE reliqs[v]
    BY <2>1, <1>0, <1>1, <1>3 DEF PutOn
  <2>4. b.guids[a] = guids[a] \cup {r} /\ \A x \in Avatars \ {a} : b.guids[x] = guids[x]
    BY <2>1, <1>0 DEF PutOn
  <2>5. \A x \in Avatars : x # o
    BY <1>1, <1>3
  <2>6. b \in BoundType /\ b.hand = hand /\ b.weapons = weapons
    BY <2>1, <1>0 DEF PutOn
  <2>7. Swapped(b, a, r)
    BY <2>2, <2>3, <2>4, <2>5, <2>6, <1>3 DEF Swapped
  <2> QED BY <2>7 DEF b
<1>4. CASE c = Nobody /\ o # Nobody
  <2> DEFINE p == Items!TakeOffReliquary(now, o, r)
  <2>1. PutOff(p, now, o, r)
    BY <1>0, <1>1, <1>4, TakeOffReliquaryIs
  <2>2. p \in BoundType
    BY <2>1 DEF PutOff
  <2>3. b = Items!WearReliquary(p, a, r)
    BY <1>2, <1>4
  <2> HIDE DEF p
  <2>4. PutOn(b, p, a, r)
    BY <2>2, <2>3, WearReliquaryIs
  <2>5. \A x \in Avatars : b.slot[x] = IF x = a THEN r ELSE IF x = o THEN Nobody ELSE slot[x]
    BY <2>1, <2>4, <1>0 DEF PutOn, PutOff
  <2>6. \A v \in DOMAIN reliqs : b.reliqs[v] = IF v = r THEN a ELSE IF v = c THEN o ELSE reliqs[v]
    BY <2>1, <2>4, <1>0, <1>1, <1>4 DEF PutOn, PutOff
  <2>7. \A x \in Avatars : p.guids[x] = IF x = o THEN guids[x] \ {r} ELSE guids[x]
    BY <2>1, <1>0 DEF PutOff
  <2>8. b.guids[a] = guids[a] \cup {r} /\ \A x \in Avatars \ {a} : b.guids[x] = p.guids[x]
    BY <2>4, <2>7 DEF PutOn
  <2>9. b \in BoundType /\ b.hand = hand /\ b.weapons = weapons
    BY <2>1, <2>4, <1>0 DEF PutOn, PutOff
  <2>10. Swapped(b, a, r)
    BY <2>5, <2>6, <2>7, <2>8, <2>9, <1>4 DEF Swapped
  <2> QED BY <2>10 DEF b
<1>5. CASE c # Nobody /\ o = Nobody
  <2> DEFINE p == Items!TakeOffReliquary(now, a, c)
  <2>1. PutOff(p, now, a, c)
    BY <1>0, <1>1, <1>5, TakeOffReliquaryIs
  <2>2. p \in BoundType
    BY <2>1 DEF PutOff
  <2>3. b = Items!WearReliquary(p, a, r)
    BY <1>2, <1>5
  <2> HIDE DEF p
  <2>4. PutOn(b, p, a, r)
    BY <2>2, <2>3, WearReliquaryIs
  <2>5. \A x \in Avatars : b.slot[x] = IF x = a THEN r ELSE slot[x]
    BY <2>1, <2>4, <1>0 DEF PutOn, PutOff
  <2>6. \A v \in DOMAIN reliqs : b.reliqs[v] = IF v = r THEN a ELSE IF v = c THEN o ELSE reliqs[v]
    BY <2>1, <2>4, <1>0, <1>1, <1>5 DEF PutOn, PutOff
  <2>7. b.guids[a] = (guids[a] \ {c}) \cup {r} /\ \A x \in Avatars \ {a} : b.guids[x] = guids[x]
    BY <2>1, <2>4, <1>0 DEF PutOn, PutOff
  <2>8. \A x \in Avatars : x # o
    BY <1>1, <1>5
  <2>9. b \in BoundType /\ b.hand = hand /\ b.weapons = weapons
    BY <2>1, <2>4, <1>0 DEF PutOn, PutOff
  <2>10. Swapped(b, a, r)
    BY <2>5, <2>6, <2>7, <2>8, <2>9, <1>5 DEF Swapped
  <2> QED BY <2>10 DEF b
<1>6. CASE c # Nobody /\ o # Nobody
  <2> DEFINE p == Items!TakeOffReliquary(now, a, c)
             q == Items!WearReliquary(p, o, c)
             s == Items!TakeOffReliquary(q, o, r)
  <2>0. c \in DOMAIN reliqs /\ o \in Avatars
    BY <1>1, <1>6
  <2>1. PutOff(p, now, a, c)
    BY <2>0, <1>0, TakeOffReliquaryIs
  <2>2. p \in BoundType
    BY <2>1 DEF PutOff
  <2>3. b = Items!WearReliquary(s, a, r)
    BY <1>2, <1>6
  <2> HIDE DEF p
  <2>4. PutOn(q, p, o, c)
    BY <2>0, <2>2, WearReliquaryIs
  <2>5. q \in BoundType
    BY <2>4 DEF PutOn
  <2> HIDE DEF q
  <2>6. PutOff(s, q, o, r)
    BY <2>0, <2>5, TakeOffReliquaryIs
  <2>7. s \in BoundType
    BY <2>6 DEF PutOff
  <2> HIDE DEF s
  <2>8. PutOn(b, s, a, r)
    BY <2>3, <2>7, WearReliquaryIs
  <2>9. ASSUME NEW x \in Avatars
        PROVE  b.slot[x] = IF x = a THEN r ELSE IF x = o THEN Nobody ELSE slot[x]
    <3>1. q.slot[x] = IF x = o THEN c ELSE IF x = a THEN Nobody ELSE slot[x]
      BY <2>1, <2>4, <1>0 DEF PutOn, PutOff
    <3> QED BY <3>1, <2>6, <2>8 DEF PutOn, PutOff
  <2>10. ASSUME NEW v \in DOMAIN reliqs
         PROVE  b.reliqs[v] = IF v = r THEN a ELSE IF v = c THEN o ELSE reliqs[v]
    <3>1. q.reliqs[v] = IF v = c THEN o ELSE reliqs[v]
      BY <2>1, <2>4, <1>0 DEF PutOn, PutOff
    <3> QED BY <3>1, <2>6, <2>8 DEF PutOn, PutOff
  <2>11. ASSUME NEW x \in Avatars \ {a}
         PROVE  b.guids[x] = IF x = o THEN (guids[x] \cup {c}) \ {r} ELSE guids[x]
    <3>0. p.guids[x] = guids[x]
      BY <2>1, <1>0 DEF PutOff
    <3>1. q.guids[x] = IF x = o THEN guids[x] \cup {c} ELSE guids[x]
      BY <2>4, <3>0 DEF PutOn
    <3> QED BY <3>1, <2>6, <2>8 DEF PutOn, PutOff
  <2>12. b.guids[a] = IF o = a THEN guids[a] \cup {c, r} ELSE (guids[a] \ {c}) \cup {r}
    <3>1. p.guids[a] = guids[a] \ {c}
      BY <2>1, <1>0 DEF PutOff
    <3>2. q.guids[a] = IF o = a THEN (guids[a] \ {c}) \cup {c} ELSE guids[a] \ {c}
      BY <2>4, <3>1 DEF PutOn
    <3>3. s.guids[a] = IF o = a THEN ((guids[a] \ {c}) \cup {c}) \ {r} ELSE guids[a] \ {c}
      BY <2>6, <3>2 DEF PutOff
    <3>4. b.guids[a] = s.guids[a] \cup {r}
      BY <2>8 DEF PutOn
    <3> QED BY <3>3, <3>4
  <2>13. b \in BoundType /\ b.hand = hand /\ b.weapons = weapons
    BY <2>1, <2>4, <2>6, <2>8, <1>0 DEF PutOn, PutOff
  <2>14. Swapped(b, a, r)
    BY <2>9, <2>10, <2>11, <2>12, <2>13, <1>6 DEF Swapped
  <2> QED BY <2>14 DEF b
<1> QED BY <1>3, <1>4, <1>5, <1>6

\* The healthy stay so: the one a swap leaves with nothing is in doubt.
LEMMA ReliquariesTraded ==
  ASSUME Items!TypeOK, WornInv, NEW a \in Items!Owned, NEW r \in DOMAIN reliqs,
         Items!Wear(Items!WearUserAvatarReliquary(Items!Now, a, r)),
         doubtful' = IF reliqs[r] \notin {Nobody, a} /\ slot[a] # Nobody
                     THEN doubtful \cup {reliqs[r]} ELSE doubtful,
         UNCHANGED grown
  PROVE  WornInv'
<1> DEFINE c == slot[a]
           o == reliqs[r]
           b == Items!WearUserAvatarReliquary(Items!Now, a, r)
<1>0. /\ a \in Avatars /\ Items!Owned \subseteq Avatars /\ r \in Reliqs /\ r # Nobody
      /\ Nobody \notin Avatars /\ o \in Items!Owned \cup {Nobody} /\ c \in Reliqs \cup {Nobody}
      /\ (\A q \in Reliqs : q \notin Nat) /\ Nobody \notin Nat /\ Nobody \notin Reliqs
      /\ DOMAIN reliqs \subseteq Reliqs /\ Items!Held \subseteq Nat
  BY Items!ItemsAssumption DEF Items!TypeOK, Items!ItemsAssumption, WornInv, ReliqsInv
<1>1. c # Nobody => c \in DOMAIN reliqs /\ reliqs[c] = a
  BY <1>0 DEF WornInv, ReliqsInv
<1>2. Swapped(b, a, r)
  BY <1>0, <1>1, ReliquaryTaken
<1>3. hand' = b.hand /\ slot' = b.slot /\ guids' = b.guids /\ weapons' = b.weapons /\ reliqs' = b.reliqs
  BY DEF Items!Wear
<1> HIDE DEF b
<1>4. Items!Held' = Items!Held /\ Items!Owned' = Items!Owned /\ DOMAIN reliqs' = DOMAIN reliqs
  BY <1>2, <1>3 DEF Swapped, BoundType, Items!Held, Items!Owned
<1>5. /\ hand' = hand /\ weapons' = weapons
      /\ \A x \in Avatars : slot'[x] = IF x = a THEN r ELSE IF x = o THEN Nobody ELSE slot[x]
      /\ \A v \in DOMAIN reliqs : reliqs'[v] = IF v = r THEN a ELSE IF v = c THEN o ELSE reliqs[v]
      /\ guids'[a] = IF c = Nobody THEN guids[a] \cup {r}
                     ELSE IF o = a THEN guids[a] \cup {c, r} ELSE (guids[a] \ {c}) \cup {r}
      /\ \A x \in Avatars \ {a} : guids'[x] = IF x # o THEN guids[x]
                                              ELSE IF c = Nobody THEN guids[x] \ {r}
                                              ELSE (guids[x] \cup {c}) \ {r}
  BY <1>2, <1>3 DEF Swapped
<1>6. /\ doubtful' = IF o \notin {Nobody, a} /\ c # Nobody THEN doubtful \cup {o} ELSE doubtful
      /\ Items!Owned \ doubtful' \subseteq Items!Owned \ doubtful
  OBVIOUS
<1>7. \A x \in Items!Owned \ doubtful : DressedOK(x)
  BY DEF WornInv, ReliqsInv
<1>8. \A n \in Nat, x \in Avatars : n \in guids'[x] <=> n \in guids[x]
  <2> SUFFICES ASSUME NEW n \in Nat, NEW x \in Avatars PROVE n \in guids'[x] <=> n \in guids[x]
    OBVIOUS
  <2>1. n # c /\ n # r
    BY <1>0
  <2> HIDE DEF c, o
  <2>2. CASE x = a
    BY <1>5, <2>1, <2>2
  <2>3. CASE x # a
    <3>1. guids'[x] \in {guids[x], guids[x] \ {r}, (guids[x] \cup {c}) \ {r}}
      BY <1>5, <2>3
    <3> QED BY <2>1, <3>1
  <2> QED BY <2>2, <2>3
<1> HIDE DEF c, o
<1>9. ASSUME NEW x \in Items!Owned \ doubtful'
      PROVE  /\ \A v \in DOMAIN reliqs : reliqs'[v] = x => v = slot'[x]
             /\ \A v \in Reliqs : v \in guids'[x] <=> v = slot'[x]
  <2>1. DressedOK(x) /\ x \in Avatars
    BY <1>0, <1>6, <1>7
  <2>2. CASE x # a /\ x # o
    BY <1>5, <2>1, <2>2 DEF DressedOK
  <2>3. CASE x = a
    <3>1. \A v \in DOMAIN reliqs : reliqs[v] = a => v = c
      BY <2>1, <2>3 DEF DressedOK, c
    <3>2. o = a => r = c
      BY <3>1 DEF o
    <3>3. \A v \in Reliqs : v \in guids[a] <=> v = c
      BY <2>1, <2>3 DEF DressedOK, c
    <3>4. slot'[a] = r
      BY <1>0, <1>5
    <3>5. \A v \in DOMAIN reliqs : reliqs'[v] = a => v = r
      BY <1>5, <3>1, <3>2
    <3>6. \A v \in Reliqs : v \in guids'[a] <=> v = r
      BY <1>0, <1>5, <3>2, <3>3
    <3> QED BY <2>3, <3>4, <3>5, <3>6
  <2>4. CASE x # a /\ x = o
    <3>1. c = Nobody
      BY <1>0, <1>6, <2>1, <2>4
    <3>2. slot[x] = r /\ slot'[x] = Nobody
      BY <1>5, <2>1, <2>4 DEF DressedOK, o
    <3>3. \A v \in DOMAIN reliqs : reliqs'[v] # x
      BY <1>0, <1>5, <2>1, <2>4, <3>1, <3>2 DEF DressedOK
    <3>4. guids'[x] = guids[x] \ {r}
      BY <1>5, <2>1, <2>4, <3>1
    <3> QED BY <1>0, <2>1, <3>2, <3>3, <3>4 DEF DressedOK
  <2> QED BY <2>2, <2>3, <2>4
<1>10. ReliqsInv'
  <2>1. \A v \in DOMAIN reliqs : reliqs'[v] \in Items!Owned \cup {Nobody}
    BY <1>0, <1>5 DEF WornInv, ReliqsInv
  <2>2. ASSUME NEW x \in Avatars, slot'[x] # Nobody PROVE slot'[x] \in DOMAIN reliqs /\ reliqs'[slot'[x]] = x
    <3>1. CASE x = a
      BY <1>5, <3>1
    <3>2. CASE x # a
      <4>1. x # o /\ slot'[x] = slot[x] /\ slot[x] \in DOMAIN reliqs /\ reliqs[slot[x]] = x
        BY <1>5, <2>2, <3>2 DEF WornInv, ReliqsInv
      <4>2. slot[x] # r /\ slot[x] # c
        BY <1>0, <1>1, <3>2, <4>1 DEF o
      <4> QED BY <1>5, <4>1, <4>2
    <3> QED BY <3>1, <3>2
  <2>3. \A x \in Avatars \ Items!Owned : slot'[x] = Nobody
    BY <1>0, <1>5 DEF WornInv, ReliqsInv
  <2> QED BY <1>4, <1>9, <2>1, <2>2, <2>3 DEF ReliqsInv, DressedOK
<1>11. WeaponsInv'
  <2>1. \A x \in Items!Owned : ArmedOK(x) => ArmedOK(x)'
    BY <1>0, <1>4, <1>5, <1>8 DEF ArmedOK, Named
  <2> QED BY <1>4, <1>5, <1>6, <2>1 DEF WornInv, WeaponsInv, Named
<1>12. GuidsInv'
  <2>1. ASSUME NEW x \in Avatars \ Items!Owned PROVE guids'[x] = {}
    <3>1. x # a /\ x # o
      BY <1>0
    <3>2. guids'[x] = guids[x]
      BY <1>5, <3>1
    <3> QED BY <3>2 DEF WornInv, GuidsInv
  <2> QED BY <1>4, <2>1 DEF GuidsInv
<1> QED BY <1>10, <1>11, <1>12 DEF WornInv

\* One taken off leaves the others as they were.
LEMMA ReliquaryOff ==
  ASSUME Items!TypeOK, WornInv, NEW a \in Avatars, Items!TakeoffEquipReq(a)
  PROVE  WornInv'
<1> DEFINE c == slot[a]
           b == Items!TakeOffReliquary(Items!Now, a, slot[a])
           now == Items!Now
<1>0. /\ a \in Items!Owned /\ Items!Owned \subseteq Avatars /\ c # Nobody /\ c \in Reliqs
      /\ c \in DOMAIN reliqs /\ reliqs[c] = a /\ Nobody \notin Avatars
      /\ (\A q \in Reliqs : q \notin Nat) /\ Nobody \notin Reliqs /\ DOMAIN reliqs \subseteq Reliqs
      /\ Items!Held \subseteq Nat /\ doubtful' = doubtful /\ grown' = grown
  BY Items!ItemsAssumption
  DEF Items!TypeOK, Items!ItemsAssumption, WornInv, ReliqsInv, Items!TakeoffEquipReq
<1>1. /\ now \in BoundType /\ now.hand = hand /\ now.slot = slot /\ now.guids = guids
      /\ now.weapons = weapons /\ now.reliqs = reliqs
  BY NowIs DEF Items!Now, Items!Bound
<1>2. PutOff(b, Items!Now, a, c)
  BY <1>0, <1>1, TakeOffReliquaryIs
<1>3. hand' = b.hand /\ slot' = b.slot /\ guids' = b.guids /\ weapons' = b.weapons /\ reliqs' = b.reliqs
  BY DEF Items!Wear, Items!TakeoffEquipReq
<1> HIDE DEF b
<1>4. Items!Held' = Items!Held /\ Items!Owned' = Items!Owned /\ DOMAIN reliqs' = DOMAIN reliqs
  BY <1>0, <1>1, <1>2, <1>3 DEF PutOff, BoundType, Items!Held, Items!Owned
<1>5. /\ hand' = hand /\ weapons' = weapons
      /\ \A x \in Avatars : slot'[x] = IF x = a THEN Nobody ELSE slot[x]
      /\ \A v \in DOMAIN reliqs : reliqs'[v] = IF v = c THEN Nobody ELSE reliqs[v]
      /\ \A x \in Avatars : guids'[x] = IF x = a THEN guids[x] \ {c} ELSE guids[x]
  BY <1>1, <1>2, <1>3 DEF PutOff
<1>6. ASSUME NEW x \in Items!Owned, DressedOK(x) PROVE DressedOK(x)'
  <2>1. \A v \in DOMAIN reliqs : reliqs'[v] = x => v = slot'[x]
    <3>1. CASE x = a
      BY <1>0, <1>5, <1>6, <3>1 DEF DressedOK
    <3>2. CASE x # a
      BY <1>0, <1>5, <1>6, <3>2 DEF DressedOK
    <3> QED BY <3>1, <3>2
  <2>2. \A q \in Reliqs : q \in guids'[x] <=> q = slot'[x]
    <3>1. CASE x = a
      <4>1. guids'[x] = guids[x] \ {c} /\ slot'[x] = Nobody
        BY <1>0, <1>5, <3>1
      <4>2. \A q \in Reliqs : q \in guids[x] <=> q = c
        BY <1>6, <3>1 DEF DressedOK
      <4> HIDE DEF c
      <4> QED BY <1>0, <4>1, <4>2
    <3>2. CASE x # a
      BY <1>0, <1>5, <1>6, <3>2 DEF DressedOK
    <3> QED BY <3>1, <3>2
  <2> QED BY <1>4, <2>1, <2>2 DEF DressedOK
<1>7. ASSUME NEW x \in Items!Owned, ArmedOK(x) PROVE ArmedOK(x)'
  BY <1>0, <1>4, <1>5, <1>7 DEF ArmedOK, Named
<1>8. WeaponsInv'
  BY <1>0, <1>4, <1>5, <1>7 DEF WornInv, WeaponsInv, Named
<1>9. ReliqsInv'
  <2>1. \A v \in DOMAIN reliqs : reliqs'[v] \in Items!Owned \cup {Nobody}
    BY <1>0, <1>5 DEF WornInv, ReliqsInv
  <2>2. \A x \in Avatars : slot'[x] # Nobody => slot'[x] \in DOMAIN reliqs /\ reliqs'[slot'[x]] = x
    BY <1>0, <1>5 DEF WornInv, ReliqsInv
  <2>3. \A x \in Avatars \ Items!Owned : slot'[x] = Nobody
    BY <1>0, <1>5 DEF WornInv, ReliqsInv
  <2> QED BY <1>0, <1>4, <1>6, <2>1, <2>2, <2>3 DEF WornInv, ReliqsInv
<1>10. GuidsInv'
  BY <1>0, <1>4, <1>5 DEF WornInv, GuidsInv
<1> QED BY <1>8, <1>9, <1>10 DEF WornInv
-----------------------------------------------------------------------------
(* The other requests.                                                     *)

\* Nothing is worn otherwise when the worn objects stay and those that come or go are not worn.
LEMMA KeepsWorn ==
  ASSUME Items!TypeOK, WornInv, UNCHANGED <<hand, slot, guids, doubtful>>, Items!Owned' = Items!Owned,
         \A w \in Items!Held \cap Items!Held' : weapons'[w].avatar = weapons[w].avatar,
         \A w \in Items!Held' \ Items!Held : weapons'[w].avatar = Nobody,
         \A w \in Items!Held \ Items!Held' : weapons[w].avatar = Nobody,
         \A r \in DOMAIN reliqs : r \in DOMAIN reliqs' /\ reliqs'[r] = reliqs[r],
         \A r \in DOMAIN reliqs' \ DOMAIN reliqs : reliqs'[r] = Nobody
  PROVE  WornInv'
<1>0. Items!Owned \subseteq Avatars /\ Nobody \notin Avatars
  BY Items!ItemsAssumption DEF Items!TypeOK, Items!ItemsAssumption
<1>1. ASSUME NEW a \in Items!Owned, ArmedOK(a) PROVE ArmedOK(a)'
  BY <1>0, <1>1 DEF ArmedOK, Named
<1>2. ASSUME NEW a \in Items!Owned, DressedOK(a) PROVE DressedOK(a)'
  BY <1>0, <1>2 DEF DressedOK
<1>3. WeaponsInv'
  <2>1. \A w \in Items!Held' : weapons'[w].avatar \in Items!Owned \cup {Nobody}
    BY DEF WornInv, WeaponsInv, Named
  <2> QED BY <1>0, <1>1, <2>1 DEF WornInv, WeaponsInv, Named
<1>4. ReliqsInv'
  BY <1>0, <1>2 DEF WornInv, ReliqsInv
<1>5. GuidsInv'
  BY DEF WornInv, GuidsInv
<1> QED BY <1>3, <1>4, <1>5 DEF WornInv

\* A new avatar has an empty hand and slot, and takes a weapon nobody has.
LEMMA AvatarAdded ==
  ASSUME Items!TypeOK, WornInv, NEW a \in Avatars, Items!AddUserAvatar(a)
  PROVE  Items!TypeOK' /\ WornInv'
<1> DEFINE id == made + 1
           given == Items!AddUserWeapon(id)
           armed == id \in DOMAIN given /\ inWorld
<1>0. /\ Items!Owned \subseteq Avatars /\ Nobody \notin Avatars /\ a \notin Items!Owned
      /\ made \in Nat /\ id \in Nat /\ id \notin Items!Held /\ id \in 1..MaxWeapons
      /\ Items!Held \subseteq 1..made /\ 1..made \subseteq 1..id /\ 0..made \subseteq 0..id
      /\ hand[a] = 0 /\ slot[a] = Nobody /\ guids[a] = {}
      /\ \A r \in Reliqs : r \notin Nat
  BY Items!ItemsAssumption
  DEF Items!TypeOK, Items!ItemsAssumption, Items!AddUserAvatar, WornInv, WeaponsInv, ReliqsInv, GuidsInv
<1>1. /\ DOMAIN given \subseteq Items!Held \cup {id} /\ Items!Held \subseteq DOMAIN given
      /\ given \in [DOMAIN given -> Items!WeaponType]
      /\ \A w \in Items!Held : given[w] = weapons[w]
      /\ id \in DOMAIN given => given[id].avatar = Nobody
  <2>1. Items!NewWeapon(Nobody) \in Items!WeaponType /\ Items!NewWeapon(Nobody).avatar = Nobody
    BY DEF Items!NewWeapon, Items!WeaponType
  <2> QED BY <1>0, <2>1 DEF Items!AddUserWeapon, Items!TypeOK, Items!Held
<1>2. /\ grown' = [x \in Items!Owned \cup {a} |-> IF x = a THEN Items!Newborn ELSE grown[x]]
      /\ Items!Owned' = Items!Owned \cup {a}
      /\ made' = id /\ doubtful' = (IF armed THEN doubtful ELSE doubtful \cup {a})
      /\ UNCHANGED <<items, inWorld, requests>>
  BY DEF Items!AddUserAvatar, Items!Owned
<1>3. ~armed => hand' = hand /\ slot' = slot /\ guids' = guids /\ reliqs' = reliqs /\ weapons' = given
  BY DEF Items!AddUserAvatar, Items!Wear, Items!WearUserAvatarWeapon, Items!Now, Items!Bound
<1>4. armed => /\ hand' = [hand EXCEPT ![a] = id] /\ slot' = slot /\ reliqs' = reliqs
               /\ guids' = [guids EXCEPT ![a] = @ \cup {id}]
               /\ weapons' = [given EXCEPT ![id].avatar = a]
  <2> DEFINE b == [Items!Now EXCEPT !.weapons = given]
  <2>1. /\ b.hand = hand /\ b.slot = slot /\ b.guids = guids /\ b.weapons = given
        /\ b.reliqs = reliqs
        /\ b \in [hand : {hand}, slot : {slot}, guids : {guids}, weapons : {given}, reliqs : {reliqs}]
    BY DEF Items!Now, Items!Bound
  <2>2. Items!Wear(IF id \in DOMAIN given THEN Items!WearUserAvatarWeapon(b, a, id) ELSE b)
    BY DEF Items!AddUserAvatar
  <2> HIDE DEF given, b
  <2> SUFFICES ASSUME armed PROVE /\ hand' = [hand EXCEPT ![a] = id] /\ slot' = slot /\ reliqs' = reliqs
                                  /\ guids' = [guids EXCEPT ![a] = @ \cup {id}]
                                  /\ weapons' = [given EXCEPT ![id].avatar = a]
    OBVIOUS
  <2>3. Items!Wear(Items!WearWeapon(b, a, id))
    BY <1>0, <2>1, <2>2 DEF Items!WearUserAvatarWeapon
  <2>4. /\ Items!WearWeapon(b, a, id).hand = [b.hand EXCEPT ![a] = id]
        /\ Items!WearWeapon(b, a, id).slot = b.slot
        /\ Items!WearWeapon(b, a, id).reliqs = b.reliqs
        /\ Items!WearWeapon(b, a, id).guids = [b.guids EXCEPT ![a] = @ \cup {id}]
        /\ Items!WearWeapon(b, a, id).weapons = [b.weapons EXCEPT ![id].avatar = a]
    BY <2>1 DEF Items!WearWeapon
  <2> QED BY <2>1, <2>3, <2>4 DEF Items!Wear
<1> HIDE DEF given
<1>5. /\ \A x \in Avatars : hand'[x] = IF armed /\ x = a THEN id ELSE hand[x]
      /\ \A x \in Avatars : guids'[x] = IF armed /\ x = a THEN {id} ELSE guids[x]
      /\ hand' \in [Avatars -> 0..made'] /\ guids' \in [Avatars -> SUBSET (Nat \cup Reliqs)]
  <2>1. /\ hand \in [Avatars -> 0..made] /\ guids \in [Avatars -> SUBSET (Nat \cup Reliqs)]
    BY DEF Items!TypeOK
  <2>2. id \in 0..id
    BY <1>0
  <2>3. CASE armed
    BY <1>0, <1>2, <1>4, <2>1, <2>2, <2>3
  <2>4. CASE ~armed
    BY <1>0, <1>2, <1>3, <2>1, <2>4
  <2> QED BY <2>3, <2>4
<1>6. /\ Items!Held' = DOMAIN given /\ weapons' \in [Items!Held' -> Items!WeaponType]
      /\ \A w \in Items!Held : w \in Items!Held' /\ weapons'[w] = weapons[w]
      /\ id \in Items!Held' => weapons'[id].avatar = IF armed THEN a ELSE Nobody
  <2>1. CASE armed
    <3>1. /\ weapons'[id] = [given[id] EXCEPT !.avatar = a]
          /\ \A w \in Items!Held : weapons'[w] = given[w]
          /\ DOMAIN weapons' = DOMAIN given
      BY <1>0, <1>1, <1>4, <2>1
    <3>2. weapons'[id] \in Items!WeaponType /\ weapons'[id].avatar = a
      BY <1>1, <2>1, <3>1 DEF Items!WeaponType
    <3>3. weapons' \in [DOMAIN given -> Items!WeaponType]
      BY <1>1, <1>4, <2>1, <3>1, <3>2
    <3> QED BY <1>1, <2>1, <3>1, <3>2, <3>3 DEF Items!Held
  <2>2. CASE ~armed
    BY <1>1, <1>3, <2>2 DEF Items!Held
  <2> QED BY <2>1, <2>2
<1>7. slot' = slot /\ reliqs' = reliqs
  BY <1>3, <1>4
<1>8. armed => id \in Items!Held'
  BY <1>6
<1> HIDE DEF armed, id
<1>9. Items!TypeOK'
  <2>1. /\ Items!Held' \subseteq 1..made' /\ made' \in 0..MaxWeapons
    BY <1>0, <1>1, <1>2, <1>6
  <2>2. grown' \in [Items!Owned' -> Items!Growth]
    BY <1>2 DEF Items!TypeOK, Items!Newborn, Items!Growth
  <2> QED BY <1>0, <1>2, <1>5, <1>6, <1>7, <2>1, <2>2 DEF Items!TypeOK, Items!Items, Items!Virtual, Items!Ordinary
<1>10. WornInv'
  <2>1. \A w \in Items!Held' : w \in Items!Held \/ w = id
    BY <1>1, <1>6
  <2>2. ASSUME NEW x \in Items!Owned \ doubtful PROVE ArmedOK(x)' /\ DressedOK(x)'
    <3>1. ArmedOK(x) /\ DressedOK(x) /\ x # a /\ x \in Avatars /\ x # Nobody
      BY <1>0 DEF WornInv, WeaponsInv, ReliqsInv
    <3>2. \A w \in Items!Held' : weapons'[w].avatar = x <=> w = hand[x]
      BY <1>0, <1>6, <2>1, <3>1 DEF ArmedOK, Named
    <3> QED BY <1>5, <1>6, <1>7, <3>1, <3>2 DEF ArmedOK, DressedOK, Named
  <2>3. ASSUME armed PROVE ArmedOK(a)' /\ DressedOK(a)'
    <3>1. \A w \in Items!Held : weapons[w].avatar # a
      BY <1>0 DEF WornInv, WeaponsInv, Named
    <3>2. \A r \in DOMAIN reliqs : reliqs[r] # a
      BY <1>0 DEF WornInv, ReliqsInv
    <3>3. hand'[a] = id /\ guids'[a] = {id} /\ id \in Items!Held' /\ weapons'[id].avatar = a
      BY <1>5, <1>6, <1>8, <2>3
    <3>4. \A w \in Items!Held' : weapons'[w].avatar = a <=> w = id
      BY <1>6, <2>1, <3>1, <3>3
    <3>5. Nobody \notin Reliqs
      BY Items!ItemsAssumption DEF Items!ItemsAssumption
    <3> QED BY <1>0, <1>7, <3>2, <3>3, <3>4, <3>5 DEF ArmedOK, DressedOK, Named
  <2>4. WeaponsInv'
    <3>1. \A w \in Items!Held' : weapons'[w].avatar \in Items!Owned' \cup {Nobody}
      BY <1>2, <1>6, <2>1 DEF WornInv, WeaponsInv, Named
    <3>2. ASSUME NEW x \in Items!Owned \ doubtful, NEW d \in Avatars, d # x PROVE hand'[d] # hand'[x]
      BY <1>0, <1>5, <3>2 DEF WornInv, WeaponsInv, Items!TypeOK, id
    <3>3. ASSUME armed, NEW d \in Avatars, d # a PROVE hand'[d] # hand'[a]
      BY <1>0, <1>5, <3>3 DEF Items!TypeOK, id
    <3>4. \A x \in Avatars \ Items!Owned' : hand'[x] = 0
      BY <1>2, <1>5 DEF WornInv, WeaponsInv
    <3> QED BY <1>2, <2>2, <2>3, <3>1, <3>2, <3>3, <3>4 DEF WeaponsInv, Named
  <2>5. ReliqsInv'
    BY <1>2, <1>7, <2>2, <2>3 DEF WornInv, ReliqsInv
  <2>6. GuidsInv'
    BY <1>2, <1>5 DEF WornInv, GuidsInv
  <2> QED BY <2>4, <2>5, <2>6 DEF WornInv
<1> QED BY <1>9, <1>10

\* A login rebuilds what the healthy wear.
LEMMA ReloginSafe ==
  ASSUME Items!TypeOK, WornInv, Items!Relogin
  PROVE  Items!TypeOK' /\ WornInv'
<1>0. /\ Items!Owned \subseteq Avatars /\ Nobody \notin Avatars /\ Nobody \notin Reliqs
      /\ Items!Held \subseteq 1..made /\ 1..made \subseteq 0..made /\ 0 \in 0..made
      /\ 0 \notin Items!Held /\ 1..made \subseteq Nat
      /\ DOMAIN reliqs \subseteq Reliqs /\ \A r \in Reliqs : r \notin Nat
  BY Items!ItemsAssumption DEF Items!TypeOK, Items!ItemsAssumption
<1>1. /\ hand' \in [Avatars -> 0..MaxWeapons] /\ slot' \in [Avatars -> Reliqs \cup {Nobody}]
      /\ \A a \in Avatars : /\ hand'[a] \in Items!Held => weapons[hand'[a]].avatar = a
                            /\ hand'[a] \in Items!Held \/ hand'[a] = 0
                            /\ hand'[a] = 0 => \A w \in Items!Held : weapons[w].avatar # a
                            /\ slot'[a] \in DOMAIN reliqs => reliqs[slot'[a]] = a
                            /\ slot'[a] \in DOMAIN reliqs \/ slot'[a] = Nobody
                            /\ slot'[a] = Nobody => \A r \in DOMAIN reliqs : reliqs[r] # a
  BY <1>0 DEF Items!Relogin, Items!Hands, Items!Dressings, Items!OrElse
<1>2. /\ guids' = [a \in Avatars |-> {w \in Items!Held : weapons[w].avatar = a}
                                       \cup {r \in DOMAIN reliqs : reliqs[r] = a}]
      /\ inWorld' \in BOOLEAN /\ Items!Held' = Items!Held /\ Items!Owned' = Items!Owned
      /\ UNCHANGED <<items, weapons, reliqs, grown, made, requests, doubtful>>
  BY DEF Items!Relogin, Items!bounds, Items!Held, Items!Owned, Items!Hands, Items!Dressings
<1>3. Items!TypeOK'
  <2>1. hand' \in [Avatars -> 0..made']
    BY <1>0, <1>1, <1>2
  <2>2. guids' \in [Avatars -> SUBSET (Nat \cup Reliqs)]
    BY <1>0, <1>2
  <2> QED BY <1>1, <1>2, <2>1, <2>2 DEF Items!TypeOK, Items!Items, Items!Virtual, Items!Ordinary
<1>4. ASSUME NEW a \in Items!Owned \ doubtful
      PROVE  hand'[a] = hand[a] /\ slot'[a] = slot[a] /\ ArmedOK(a)' /\ DressedOK(a)'
  <2>1. /\ ArmedOK(a) /\ DressedOK(a) /\ a \in Avatars
        /\ slot[a] # Nobody => slot[a] \in DOMAIN reliqs /\ reliqs[slot[a]] = a
    BY <1>0 DEF WornInv, WeaponsInv, ReliqsInv
  <2>2. hand'[a] = hand[a]
    BY <1>1, <2>1 DEF ArmedOK, Named
  <2>3. slot'[a] = slot[a]
    BY <1>0, <1>1, <2>1 DEF DressedOK
  <2>4. ArmedOK(a)'
    BY <1>0, <1>2, <2>1, <2>2 DEF ArmedOK, Named
  <2>5. \A r \in Reliqs : r \in guids'[a] <=> r = slot[a]
    BY <1>0, <1>2, <2>1 DEF DressedOK
  <2>6. DressedOK(a)'
    BY <1>2, <2>1, <2>3, <2>5 DEF DressedOK
  <2> QED BY <2>2, <2>3, <2>4, <2>6
<1>5. WeaponsInv'
  <2>1. ASSUME NEW a \in Items!Owned \ doubtful, NEW d \in Avatars, d # a PROVE hand'[d] # hand'[a]
    <3>1. hand'[a] \in Items!Held /\ weapons[hand'[a]].avatar = a
      BY <1>0, <1>4 DEF WornInv, WeaponsInv, ArmedOK, Named
    <3> QED BY <1>0, <1>1, <2>1, <3>1
  <2>2. \A a \in Avatars \ Items!Owned : hand'[a] = 0
    BY <1>0, <1>1 DEF WornInv, WeaponsInv, Named
  <2> QED BY <1>2, <1>4, <2>1, <2>2 DEF WornInv, WeaponsInv, Named
<1>6. ReliqsInv'
  <2>1. \A a \in Avatars \ Items!Owned : slot'[a] = Nobody
    BY <1>0, <1>1 DEF WornInv, ReliqsInv
  <2> QED BY <1>1, <1>2, <1>4, <2>1 DEF WornInv, ReliqsInv
<1>7. GuidsInv'
  <2>1. ASSUME NEW a \in Avatars \ Items!Owned PROVE guids'[a] = {}
    <3>1. \A w \in Items!Held : weapons[w].avatar # a
      BY <1>0 DEF WornInv, WeaponsInv, Named
    <3>2. \A r \in DOMAIN reliqs : reliqs[r] # a
      BY <1>0 DEF WornInv, ReliqsInv
    <3> QED BY <1>2, <3>1, <3>2
  <2> QED BY <1>2, <2>1 DEF GuidsInv
<1> QED BY <1>3, <1>5, <1>6, <1>7 DEF WornInv
-----------------------------------------------------------------------------
(* What is spent and what comes of it.                                     *)

\* A list of costs that the player can pay leaves counts of items, and only takes.
CostType == UNION {[S -> Nat] : S \in SUBSET Items!Items}
\* A cost is a number of some items.
LEMMA CostIs ==
  ASSUME Items!TypeOK, NEW cost \in CostType, Items!Affords(cost)
  PROVE  /\ Items!CostUserItem(cost) \in [Items!Items -> Nat]
         /\ \A i \in Items!Items : Items!CostUserItem(cost)[i] = items[i] - Items!Price(cost, i)
         /\ \A i \in Items!Items : i \notin DOMAIN cost => Items!CostUserItem(cost)[i] = items[i]
<1>1. DOMAIN cost \subseteq Items!Items /\ \A i \in DOMAIN cost : cost[i] \in Nat /\ items[i] >= cost[i]
  BY DEF CostType, Items!Affords
<1>2. items \in [Items!Items -> Nat]
  BY DEF Items!TypeOK
<1>3. \A i \in Items!Items : items[i] - Items!Price(cost, i) \in Nat
  BY <1>1, <1>2 DEF Items!Price
<1>4. \A i \in Items!Items : i \notin DOMAIN cost => items[i] - Items!Price(cost, i) = items[i]
  BY <1>2 DEF Items!Price
<1> QED BY <1>3, <1>4 DEF Items!CostUserItem

\* The lists of one and of two entries.
LEMMA CostsAre ==
  ASSUME NEW i \in Items!Items, NEW k \in Items!Items, NEW m \in Nat, NEW n \in Nat
  PROVE  /\ Items!Just(i, m) \in CostType /\ DOMAIN Items!Just(i, m) = {i}
         /\ Items!And(i, m, k, n) \in CostType /\ DOMAIN Items!And(i, m, k, n) = {i, k}
<1>1. Items!Just(i, m) \in [{i} -> Nat] /\ {i} \in SUBSET Items!Items
  BY DEF Items!Just
<1>2. Items!And(i, m, k, n) \in [{i, k} -> Nat] /\ {i, k} \in SUBSET Items!Items
  BY DEF Items!And
<1>3. \A S \in SUBSET Items!Items : \A f \in [S -> Nat] : f \in CostType /\ DOMAIN f = S
  BY DEF CostType
<1> QED BY <1>1, <1>2, <1>3

\* An item added is added or refused.
LEMMA AddedIs ==
  ASSUME NEW bag \in [Items!Items -> Nat], NEW i \in Items!Items, NEW n \in Nat
  PROVE  /\ Items!AddUserItem(bag, i, n) \in [Items!Items -> Nat]
         /\ \A k \in Items!Items : Items!AddUserItem(bag, i, n)[k] >= bag[k]
         /\ i \notin Items!Ordinary => Items!AddUserItem(bag, i, n)[i] = bag[i] + n
BY DEF Items!AddUserItem

\* Points given to something below its limit raise its level, or at least its points.
LEMMA GrowIs ==
  ASSUME NEW x, x.level \in Nat \ {0}, x.exp \in Nat, x.promote \in Nat,
         x.level < Items!Limit(x.promote), NEW n \in Nat \ {0}
  PROVE  /\ x.level + Items!Ups(x, n) \in Nat \ {0} /\ Items!Rest(x, n) \in Nat
         /\ \/ x.level + Items!Ups(x, n) > x.level
            \/ x.level + Items!Ups(x, n) = x.level /\ ~Items!Full(x, n) /\ Items!Rest(x, n) > x.exp
<1> DEFINE worth == x.exp + n
           d == worth \div Items!Need
           left == Items!Limit(x.promote) - x.level
           up == Items!Ups(x, n)
<1>1. worth \in Nat /\ worth > x.exp /\ left \in Nat \ {0} /\ Items!Limit(x.promote) \in Nat
  BY DEF Items!Limit
<1>2. d \in Nat /\ d * 2 <= worth
  BY <1>1 DEF Items!Need
<1>3. up = (IF d < left THEN d ELSE left)
  BY DEF Items!Ups, Items!Least
<1>4. /\ Items!Rest(x, n) = worth - up * 2
      /\ Items!Full(x, n) <=> x.level + up = Items!Limit(x.promote)
  <2>1. Items!Rest(x, n) = worth - up * 2
    <3>1. up \in Nat
      BY <1>1, <1>2, <1>3
    <3>2. Items!Rest(x, n) = x.exp + (n - up * 2)
      BY DEF Items!Rest, Items!Need
    <3> HIDE DEF up
    <3> QED BY <3>1, <3>2
  <2>2. Items!Full(x, n) <=> x.level + up = Items!Limit(x.promote)
    BY DEF Items!Full
  <2> QED BY <2>1, <2>2
<1>5. left = Items!Limit(x.promote) - x.level
  OBVIOUS
<1> HIDE DEF d, left, up, worth
<1>6. up \in Nat /\ up <= d
  BY <1>1, <1>2, <1>3
<1>7. up = 0 => ~Items!Full(x, n) /\ Items!Rest(x, n) > x.exp
  BY <1>1, <1>4, <1>5
<1>8. x.level + up \in Nat \ {0} /\ Items!Rest(x, n) \in Nat
  BY <1>1, <1>2, <1>4, <1>6
<1>9. up = 0 \/ x.level + up > x.level
  BY <1>6
<1>10. up = 0 => x.level + up = x.level
  OBVIOUS
<1> QED BY <1>7, <1>8, <1>9, <1>10 DEF up

\* So a weapon is better than before.
LEMMA WeaponGrown ==
  ASSUME NEW x \in Items!WeaponType, ~Items!AtLimit(x), NEW n \in Nat \ {0}
  PROVE  /\ Items!Better(x, Items!Grow(x, n).to) /\ Items!Grow(x, n).over \in Nat
         /\ Items!Grow(x, n).to \in Items!WeaponType /\ Items!Grow(x, n).to.avatar = x.avatar
<1> DEFINE exp == IF Items!Full(x, n) THEN 0 ELSE Items!Rest(x, n)
           level == x.level + Items!Ups(x, n)
           to == [x EXCEPT !.level = level, !.exp = exp]
<1>1. x.level \in Nat \ {0} /\ x.exp \in Nat /\ x.promote \in Nat /\ x.level < Items!Limit(x.promote)
  BY DEF Items!AtLimit, Items!Limit, Items!WeaponType
<1>2. /\ level \in Nat \ {0} /\ exp \in Nat /\ Items!Rest(x, n) \in Nat
      /\ level > x.level \/ (level = x.level /\ exp > x.exp)
  BY <1>1, GrowIs
<1>3. Items!Grow(x, n).to = to /\ Items!Grow(x, n).over = IF Items!Full(x, n) THEN Items!Rest(x, n) ELSE 0
  BY DEF Items!Grow, Items!WeaponType
<1> HIDE DEF exp, level
<1>4. /\ to \in Items!WeaponType /\ to.avatar = x.avatar /\ to.level = level /\ to.exp = exp
      /\ to.promote = x.promote
  BY <1>2 DEF Items!WeaponType
<1> HIDE DEF to
<1>5. Items!Better(x, to)
  BY <1>1, <1>2, <1>4 DEF Items!Better
<1> QED BY <1>2, <1>3, <1>4, <1>5

\* And an avatar.
LEMMA AvatarGrown ==
  ASSUME NEW x \in Items!Growth, ~Items!AtLimit(x), NEW n \in Nat \ {0}
  PROVE  Items!Better(x, Items!Grow(x, n).to) /\ Items!Grow(x, n).to \in Items!Growth
<1> DEFINE exp == IF Items!Full(x, n) THEN 0 ELSE Items!Rest(x, n)
           level == x.level + Items!Ups(x, n)
           to == [x EXCEPT !.level = level, !.exp = exp]
<1>1. x.level \in Nat \ {0} /\ x.exp \in Nat /\ x.promote \in Nat /\ x.level < Items!Limit(x.promote)
  BY DEF Items!AtLimit, Items!Limit, Items!Growth
<1>2. /\ level \in Nat \ {0} /\ exp \in Nat
      /\ level > x.level \/ (level = x.level /\ exp > x.exp)
  BY <1>1, GrowIs
<1>3. Items!Grow(x, n).to = to
  BY DEF Items!Grow, Items!Growth
<1> HIDE DEF exp, level
<1>4. to \in Items!Growth /\ to.level = level /\ to.exp = exp /\ to.promote = x.promote
  BY <1>2 DEF Items!Growth
<1> HIDE DEF to
<1>5. Items!Better(x, to)
  BY <1>1, <1>2, <1>4 DEF Items!Better
<1> QED BY <1>3, <1>4, <1>5
-----------------------------------------------------------------------------
(* A request at a time: the types stay, what is worn agrees and what was    *)
(* paid was paid for.                                                      *)

Kept == Items!TypeOK' /\ WornInv' /\ Items!PaysForSomething

\* The types stay when what changes is of its types.
LEMMA TypeKept ==
  ASSUME Items!TypeOK, UNCHANGED <<hand, slot, guids, doubtful, inWorld>>, requests' \in Nat,
         made' \in made..MaxWeapons, items' \in [Items!Items -> Nat],
         weapons' \in [Items!Held' -> Items!WeaponType], Items!Held' \subseteq 1..made',
         reliqs' \in [DOMAIN reliqs' -> Avatars \cup {Nobody}], DOMAIN reliqs' \subseteq Reliqs,
         grown' \in [Items!Owned -> Items!Growth]
  PROVE  Items!TypeOK'
<1>1. Items!Owned' = Items!Owned
  BY DEF Items!Owned
<1>2. made \in Nat /\ made' \in Nat /\ made <= made' /\ MaxWeapons \in Nat
  BY Items!ItemsAssumption DEF Items!TypeOK, Items!ItemsAssumption
<1>3. hand' \in [Avatars -> 0..made'] /\ made' \in 0..MaxWeapons
  <2>1. 0..made \subseteq 0..made'
    BY <1>2
  <2> QED BY <1>2, <2>1 DEF Items!TypeOK
<1> QED BY <1>1, <1>3 DEF Items!TypeOK, Items!Items, Items!Virtual, Items!Ordinary

\* Nothing is paid when no count falls and no weapon goes.
LEMMA NothingPaid ==
  ASSUME Items!TypeOK, items' \in [Items!Items -> Nat], \A i \in Items!Items : items'[i] >= items[i],
         Items!Held \subseteq Items!Held'
  PROVE  Items!PaysForSomething
<1>1. \A i \in Items!Items : items[i] \in Nat /\ items'[i] \in Nat
  BY DEF Items!TypeOK
<1> QED BY <1>1 DEF Items!PaysForSomething, Items!Spent, Items!Held

\* Wearing.
LEMMA KeptWear ==
  ASSUME Items!TypeOK, WornInv, NEW a \in Avatars, NEW e \in Items!Held \cup DOMAIN reliqs,
         Items!WearEquipReq(a, e)
  PROVE  Kept
<1> DEFINE b == Items!WearUserAvatarWeapon(Items!Now, a, e)
           d == Items!WearUserAvatarReliquary(Items!Now, a, e)
<1>0. /\ a \in Items!Owned /\ doubtful \subseteq Items!Owned /\ Items!Owned \subseteq Avatars
      /\ UNCHANGED <<items, grown, inWorld, made, requests>>
      /\ Items!Owned' = Items!Owned /\ Nobody \notin Items!Owned
  BY Items!ItemsAssumption
  DEF Items!WearEquipReq, Items!bounds, Items!Owned, Items!TypeOK, Items!ItemsAssumption
<1>1. ASSUME NEW r \in BoundType, Items!Wear(r), doubtful' \subseteq Items!Owned
      PROVE  Items!TypeOK' /\ Items!PaysForSomething
  <2>1. /\ hand' \in [Avatars -> 0..made] /\ slot' \in [Avatars -> Reliqs \cup {Nobody}]
        /\ guids' \in [Avatars -> SUBSET (Nat \cup Reliqs)]
        /\ weapons' \in [Items!Held -> Items!WeaponType] /\ Items!Held' = Items!Held
        /\ reliqs' \in [DOMAIN reliqs -> Avatars \cup {Nobody}] /\ DOMAIN reliqs' = DOMAIN reliqs
    BY <1>1, WearTypes
  <2>2. Items!TypeOK'
    BY <1>0, <1>1, <2>1 DEF Items!TypeOK, Items!Items, Items!Virtual, Items!Ordinary
  <2>3. \A i \in Items!Items : items[i] \in Nat /\ items'[i] = items[i]
    BY <1>0 DEF Items!TypeOK
  <2>4. Items!PaysForSomething
    BY <2>1, <2>3 DEF Items!PaysForSomething, Items!Spent, Items!Held
  <2> QED BY <2>2, <2>4
<1>2. CASE /\ e \in Items!Held /\ hand[a] \in Items!Held \cup {0}
           /\ Items!Wear(b)
           /\ doubtful' = IF inWorld /\ Items!Doubted(a, e) THEN doubtful \cup Items!Traders(a, e)
                          ELSE doubtful
  <2>1. Items!Traders(a, e) \subseteq Items!Owned
    BY <1>0, <1>2 DEF Items!Traders, WornInv, WeaponsInv, Named
  <2>2. CASE inWorld
    <3>1. b \in BoundType
      BY <1>0, <1>2, <2>2, WeaponTaken DEF Traded
    <3>2. doubtful' = IF Items!Doubted(a, e) THEN doubtful \cup Items!Traders(a, e) ELSE doubtful
      BY <1>2, <2>2
    <3>3. WornInv'
      BY <1>0, <1>2, <2>2, <3>2, WeaponsTraded
    <3>4. doubtful' \subseteq Items!Owned
      BY <1>0, <2>1, <3>2
    <3> QED BY <1>1, <1>2, <3>1, <3>3, <3>4 DEF Kept
  <2>3. CASE ~inWorld
    <3>1. b = Items!Now
      BY <2>3 DEF Items!WearUserAvatarWeapon
    <3>2. /\ hand' = hand /\ slot' = slot /\ guids' = guids /\ weapons' = weapons
          /\ reliqs' = reliqs /\ doubtful' = doubtful /\ Items!Held' = Items!Held
      BY <1>2, <2>3, <3>1 DEF Items!Wear, Items!Now, Items!Bound, Items!Held
    <3>3. WornInv'
      BY <1>0, <3>2, KeepsWorn
    <3>4. Items!Now \in BoundType
      BY NowIs
    <3> QED BY <1>0, <1>1, <1>2, <3>1, <3>2, <3>3, <3>4 DEF Kept
  <2> QED BY <2>2, <2>3
<1>3. CASE /\ e \in DOMAIN reliqs /\ Items!Wear(d)
           /\ doubtful' = IF reliqs[e] \notin {Nobody, a} /\ slot[a] # Nobody
                          THEN doubtful \cup {reliqs[e]} ELSE doubtful
  <2>1. slot[a] # Nobody => slot[a] \in DOMAIN reliqs
    BY <1>0 DEF WornInv, ReliqsInv
  <2>2. d \in BoundType
    BY <1>3, <2>1, ReliquaryTaken DEF Swapped
  <2>3. WornInv'
    BY <1>0, <1>3, ReliquariesTraded
  <2>4. doubtful' \subseteq Items!Owned
    BY <1>0, <1>3 DEF WornInv, ReliqsInv
  <2> QED BY <1>1, <1>3, <2>2, <2>3, <2>4 DEF Kept
<1> QED BY <1>2, <1>3 DEF Items!WearEquipReq

\* Taking off.
LEMMA KeptOff ==
  ASSUME Items!TypeOK, WornInv, NEW a \in Avatars, Items!TakeoffEquipReq(a)
  PROVE  Kept
<1> DEFINE b == Items!TakeOffReliquary(Items!Now, a, slot[a])
<1>0. slot[a] \in DOMAIN reliqs
  BY DEF Items!TakeoffEquipReq, WornInv, ReliqsInv
<1>1. b \in BoundType
  BY <1>0, NowIs, TakeOffReliquaryIs DEF PutOff
<1>2. Items!Wear(b) /\ UNCHANGED <<items, grown, inWorld, made, requests, doubtful>>
  BY DEF Items!TakeoffEquipReq, Items!bounds
<1> HIDE DEF b
<1>3. /\ hand' \in [Avatars -> 0..made] /\ slot' \in [Avatars -> Reliqs \cup {Nobody}]
      /\ guids' \in [Avatars -> SUBSET (Nat \cup Reliqs)]
      /\ weapons' \in [Items!Held -> Items!WeaponType] /\ Items!Held' = Items!Held
      /\ reliqs' \in [DOMAIN reliqs -> Avatars \cup {Nobody}] /\ DOMAIN reliqs' = DOMAIN reliqs
  BY <1>1, <1>2, WearTypes
<1>4. Items!TypeOK'
  BY <1>2, <1>3 DEF Items!TypeOK, Items!Items, Items!Virtual, Items!Ordinary, Items!Owned
<1>5. \A i \in Items!Items : items[i] \in Nat /\ items'[i] = items[i]
  BY <1>2 DEF Items!TypeOK
<1>6. Items!PaysForSomething
  BY <1>3, <1>5 DEF Items!PaysForSomething, Items!Spent, Items!Held
<1> QED BY <1>4, <1>6, ReliquaryOff DEF Kept

\* A lock.
LEMMA KeptLock ==
  ASSUME Items!TypeOK, WornInv, NEW w \in Items!Held, NEW lock \in BOOLEAN,
         Items!SetEquipLockStateReq(w, lock)
  PROVE  Kept
<1>1. /\ weapons' = [weapons EXCEPT ![w].lock = lock] /\ requests' = requests + 1
      /\ UNCHANGED <<items, reliqs, grown, inWorld, made, hand, slot, guids, doubtful>>
  BY DEF Items!SetEquipLockStateReq, Items!Counted, Items!worn
<1>2. weapons \in [Items!Held -> Items!WeaponType]
  BY DEF Items!TypeOK
<1>3. /\ weapons' \in [Items!Held -> Items!WeaponType] /\ Items!Held' = Items!Held
      /\ \A x \in Items!Held : weapons'[x].avatar = weapons[x].avatar
  BY <1>1, <1>2 DEF Items!WeaponType, Items!Held
<1>4. Items!TypeOK'
  BY <1>1, <1>3, TypeKept DEF Items!TypeOK
<1>5. WornInv'
  BY <1>1, <1>3, KeepsWorn DEF Items!Owned
<1>6. Items!PaysForSomething
  BY <1>1, <1>3, NothingPaid DEF Items!TypeOK
<1> QED BY <1>4, <1>5, <1>6 DEF Kept

\* PlayerItems counts as everybody does.
LEMMA Counts == ASSUME NEW S PROVE Items!Cardinality(S) = Cardinality(S)
BY DEF Items!Cardinality, Cardinality

\* A weapon given.
LEMMA KeptGiveWeapon ==
  ASSUME Items!TypeOK, WornInv, Items!GiveWeapon
  PROVE  Kept
<1>1. /\ made < MaxWeapons /\ made' = made + 1 /\ requests' = requests + 1
      /\ weapons' = [w \in Items!Held \cup {made + 1} |-> IF w \in Items!Held THEN weapons[w]
                                                         ELSE Items!NewWeapon(Nobody)]
      /\ UNCHANGED <<items, reliqs, grown, inWorld, hand, slot, guids, doubtful>>
  <2>1. Items!Cardinality(Items!Held) \in Nat
    <3>0. made \in Nat /\ Items!Held \subseteq 1..made
      BY Items!ItemsAssumption DEF Items!TypeOK, Items!ItemsAssumption
    <3>1. IsFiniteSet(1..made)
      BY <3>0, FS_Interval
    <3>2. IsFiniteSet(Items!Held)
      BY <3>0, <3>1, FS_Subset
    <3> QED BY <3>2, FS_CardinalityType, Counts
  <2>2. ~(Items!Cardinality(Items!Held) > PackLimit)
    BY <2>1, Items!ItemsAssumption DEF Items!GiveWeapon, Items!ItemsAssumption
  <2> QED BY <2>2 DEF Items!GiveWeapon, Items!Counted, Items!AddUserWeapon, Items!worn
<1>2. /\ made \in Nat /\ made' \in made..MaxWeapons /\ Items!Held \subseteq 1..made /\ requests' \in Nat
      /\ weapons \in [Items!Held -> Items!WeaponType]
  BY <1>1, Items!ItemsAssumption DEF Items!TypeOK, Items!ItemsAssumption
<1>3. Items!NewWeapon(Nobody) \in Items!WeaponType /\ Items!NewWeapon(Nobody).avatar = Nobody
  BY DEF Items!NewWeapon, Items!WeaponType
<1>4. /\ weapons' \in [Items!Held' -> Items!WeaponType] /\ Items!Held' = Items!Held \cup {made + 1}
      /\ \A w \in Items!Held : weapons'[w] = weapons[w]
      /\ \A w \in Items!Held' \ Items!Held : weapons'[w].avatar = Nobody
  BY <1>1, <1>2, <1>3 DEF Items!Held
<1>5. Items!Held' \subseteq 1..made'
  BY <1>1, <1>2, <1>4
<1>6. Items!TypeOK'
  BY <1>1, <1>2, <1>4, <1>5, TypeKept DEF Items!TypeOK
<1>7. WornInv'
  BY <1>1, <1>4, KeepsWorn DEF Items!Owned
<1>8. Items!PaysForSomething
  BY <1>1, <1>4, NothingPaid DEF Items!TypeOK
<1> QED BY <1>6, <1>7, <1>8 DEF Kept

\* A reliquary given.
LEMMA KeptAddReliquary ==
  ASSUME Items!TypeOK, WornInv, NEW r \in Reliqs, Items!AddUserReliquary(r)
  PROVE  Kept
<1>1. /\ requests' = requests + 1 /\ r \notin DOMAIN reliqs
      /\ reliqs' = [x \in DOMAIN reliqs \cup {r} |-> IF x = r THEN Nobody ELSE reliqs[x]]
      /\ UNCHANGED <<items, weapons, grown, inWorld, made, hand, slot, guids, doubtful>>
  BY DEF Items!AddUserReliquary, Items!Counted, Items!worn
<1>2. /\ reliqs' \in [DOMAIN reliqs' -> Avatars \cup {Nobody}] /\ DOMAIN reliqs' \subseteq Reliqs
      /\ DOMAIN reliqs \subseteq DOMAIN reliqs'
      /\ \A x \in DOMAIN reliqs : reliqs'[x] = reliqs[x]
      /\ \A x \in DOMAIN reliqs' \ DOMAIN reliqs : reliqs'[x] = Nobody
  BY <1>1 DEF Items!TypeOK
<1>3. made \in made..MaxWeapons /\ requests' \in Nat /\ Items!Held' = Items!Held
  BY <1>1 DEF Items!TypeOK, Items!Held
<1>4. Items!TypeOK'
  BY <1>1, <1>2, <1>3, TypeKept DEF Items!TypeOK
<1>5. WornInv'
  BY <1>1, <1>2, <1>3, KeepsWorn DEF Items!Owned
<1>6. Items!PaysForSomething
  BY <1>1, <1>3, NothingPaid DEF Items!TypeOK
<1> QED BY <1>4, <1>5, <1>6 DEF Kept

\* An item given.
LEMMA KeptGiveItem ==
  ASSUME Items!TypeOK, WornInv, NEW i \in Items!Items, Items!GiveItem(i)
  PROVE  Kept
<1>1. /\ requests' = requests + 1 /\ items' = Items!AddUserItem(items, i, 1)
      /\ UNCHANGED <<weapons, reliqs, grown, inWorld, made, hand, slot, guids, doubtful>>
  BY DEF Items!GiveItem, Items!Counted, Items!worn
<1>2. items' \in [Items!Items -> Nat] /\ \A k \in Items!Items : items'[k] >= items[k]
  BY <1>1, AddedIs DEF Items!TypeOK
<1>3. made \in made..MaxWeapons /\ requests' \in Nat /\ Items!Held' = Items!Held
  BY <1>1 DEF Items!TypeOK, Items!Held
<1>4. Items!TypeOK'
  BY <1>1, <1>2, <1>3, TypeKept DEF Items!TypeOK
<1>5. WornInv'
  BY <1>1, <1>3, KeepsWorn DEF Items!Owned
<1>6. Items!PaysForSomething
  BY <1>2, <1>3, NothingPaid
<1> QED BY <1>4, <1>5, <1>6 DEF Kept

\* What a weapon eats is worth something.
LEMMA FoodIs == ASSUME Items!TypeOK, NEW f \in Items!Held PROVE Items!FoodExp(f) \in Nat \ {0}
<1> DEFINE prior == weapons[f].exp + (weapons[f].level - 1) * Items!Need
<1>1. prior \in Nat
  <2>1. weapons[f] \in Items!WeaponType
    BY DEF Items!TypeOK
  <2>2. weapons[f].exp \in Nat /\ weapons[f].level - 1 \in Nat
    BY <2>1 DEF Items!WeaponType
  <2> QED BY <2>2 DEF Items!Need
<1> HIDE DEF prior
<1>2. (prior * 4) \div 5 \in Nat
  BY <1>1
<1>3. Items!FoodExp(f) = (prior * 4) \div 5 + 1
  BY DEF Items!FoodExp, Items!BaseExp, prior
<1> QED BY <1>2, <1>3

\* What is left of the weapons when some are gone and one is improved.
LEMMA ImprovedIs ==
  ASSUME weapons \in [Items!Held -> Items!WeaponType], NEW w \in Items!Held, NEW food,
         NEW to \in Items!WeaponType, to.avatar = weapons[w].avatar,
         weapons' = Items!Improved(food, w, to)
  PROVE  /\ Items!Held' = Items!Held \ food /\ weapons' \in [Items!Held' -> Items!WeaponType]
         /\ w \notin food => weapons'[w] = to /\ w \in Items!Held'
         /\ \A x \in Items!Held' : weapons'[x].avatar = weapons[x].avatar
BY DEF Items!Improved, Items!Held

\* A weapon fed.
LEMMA KeptWeaponUpgrade ==
  ASSUME Items!TypeOK, WornInv, NEW w \in Items!Held, NEW ores \in 0..2,
         NEW food \in {{}} \cup {{f} : f \in Items!Held}, Items!WeaponUpgradeReq(w, ores, food)
  PROVE  Kept
<1> DEFINE cost == Items!And("ore", ores, "coin", ores + Items!Cardinality(food))
           eaten == IF food = {} THEN 0 ELSE Items!FoodExp(CHOOSE f \in food : TRUE)
           n == ores * Items!OreExp + eaten
           bag == Items!CostUserItem(cost)
           back == Items!Grow(weapons[w], n).over \div Items!OreExp
<1>1. /\ requests' = requests + 1 /\ ~Items!AtLimit(weapons[w]) /\ (ores > 0 \/ food # {})
      /\ \A f \in food : f \in Items!Held /\ weapons[f].avatar = Nobody
      /\ Items!Affords(cost)
      /\ weapons' = Items!Improved(food, w, Items!Grow(weapons[w], n).to)
      /\ items' = IF back > 0 THEN Items!AddUserItem(bag, "ore", back) ELSE bag
      /\ UNCHANGED <<reliqs, grown, inWorld, made, hand, slot, guids, doubtful>>
  BY DEF Items!WeaponUpgradeReq, Items!Counted, Items!worn, Items!Edible
<1>2. n \in Nat \ {0}
  <2>1. food # {} => eaten \in Nat \ {0}
    <3>1. food # {} => (CHOOSE f \in food : TRUE) \in Items!Held
      BY <1>1
    <3> QED BY <3>1, FoodIs
  <2>2. food = {} => eaten = 0
    OBVIOUS
  <2> HIDE DEF eaten
  <2> QED BY <1>1, <2>1, <2>2 DEF Items!OreExp
<1> HIDE DEF n
<1>3. weapons \in [Items!Held -> Items!WeaponType] /\ weapons[w] \in Items!WeaponType
  BY DEF Items!TypeOK
<1>4. /\ Items!Better(weapons[w], Items!Grow(weapons[w], n).to)
      /\ Items!Grow(weapons[w], n).over \in Nat
      /\ Items!Grow(weapons[w], n).to \in Items!WeaponType
      /\ Items!Grow(weapons[w], n).to.avatar = weapons[w].avatar
  BY <1>1, <1>2, <1>3, WeaponGrown
<1> HIDE DEF n, cost, bag, back
<1>5. /\ Items!Held' = Items!Held \ food /\ weapons' \in [Items!Held' -> Items!WeaponType]
      /\ w \notin food => weapons'[w] = Items!Grow(weapons[w], n).to /\ w \in Items!Held'
      /\ \A x \in Items!Held' : weapons'[x].avatar = weapons[x].avatar
  BY <1>1, <1>3, <1>4, ImprovedIs
<1>6. items' \in [Items!Items -> Nat]
  <2>1. Items!Cardinality(food) \in Nat
    <3>1. CASE food = {}
      BY <3>1, FS_EmptySet, Counts
    <3>2. CASE food # {}
      <4>1. PICK f \in Items!Held : food = {f}
        BY <3>2
      <4> QED BY <4>1, FS_Singleton, Counts
    <3> QED BY <3>1, <3>2
  <2>2. cost \in CostType
    BY <2>1, CostsAre DEF cost, Items!Items, Items!Ordinary, Items!Virtual
  <2>3. bag \in [Items!Items -> Nat]
    BY <1>1, <2>2, CostIs DEF bag
  <2>4. back \in Nat
    BY <1>4 DEF back, Items!OreExp
  <2>5. Items!AddUserItem(bag, "ore", back) \in [Items!Items -> Nat]
    BY <2>3, <2>4, AddedIs DEF Items!Items, Items!Ordinary
  <2> QED BY <1>1, <2>3, <2>5
<1>7. made \in made..MaxWeapons /\ requests' \in Nat /\ Items!Held' \subseteq 1..made
  BY <1>1, <1>5 DEF Items!TypeOK
<1>8. Items!TypeOK'
  BY <1>1, <1>5, <1>6, <1>7, TypeKept DEF Items!TypeOK
<1>9. WornInv'
  BY <1>1, <1>5, KeepsWorn DEF Items!Owned
<1>10. Items!PaysForSomething
  <2>1. CASE w \in food
    <3>1. food = {w}
      BY <2>1
    <3>2. Items!InVain
      BY <3>1 DEF Items!InVain
    <3> QED BY <3>2 DEF Items!PaysForSomething
  <2>2. CASE w \notin food
    BY <1>4, <1>5, <2>2 DEF Items!PaysForSomething, Items!Gained, Items!Held
  <2> QED BY <2>1, <2>2
<1> QED BY <1>8, <1>9, <1>10 DEF Kept

\* A weapon's limit raised.
LEMMA KeptWeaponPromote ==
  ASSUME Items!TypeOK, WornInv, NEW w \in Items!Held, Items!WeaponPromoteReq(w)
  PROVE  Kept
<1> DEFINE cost == Items!And("ore", 1, "coin", 1)
<1>1. /\ requests' = requests + 1 /\ Items!Affords(cost) /\ items' = Items!CostUserItem(cost)
      /\ weapons' = [weapons EXCEPT ![w].promote = @ + 1]
      /\ UNCHANGED <<reliqs, grown, inWorld, made, hand, slot, guids, doubtful>>
  BY DEF Items!WeaponPromoteReq, Items!Counted, Items!worn
<1>2. weapons \in [Items!Held -> Items!WeaponType]
  BY DEF Items!TypeOK
<1>3. /\ weapons' \in [Items!Held -> Items!WeaponType] /\ Items!Held' = Items!Held
      /\ \A x \in Items!Held : weapons'[x].avatar = weapons[x].avatar
      /\ weapons'[w].promote > weapons[w].promote
  BY <1>1, <1>2 DEF Items!WeaponType, Items!Held
<1>4. items' \in [Items!Items -> Nat]
  <2>1. cost \in CostType
    BY CostsAre DEF Items!Items, Items!Ordinary, Items!Virtual
  <2> HIDE DEF cost
  <2> QED BY <1>1, <2>1, CostIs
<1>5. made \in made..MaxWeapons /\ requests' \in Nat
  BY <1>1 DEF Items!TypeOK
<1>6. Items!TypeOK'
  BY <1>1, <1>3, <1>4, <1>5, TypeKept DEF Items!TypeOK
<1>7. WornInv'
  BY <1>1, <1>3, KeepsWorn DEF Items!Owned
<1>8. Items!PaysForSomething
  BY <1>2, <1>3 DEF Items!PaysForSomething, Items!Gained, Items!Better, Items!Held, Items!WeaponType
<1> QED BY <1>6, <1>7, <1>8 DEF Kept

\* A weapon refined is better, and still its avatar's.
LEMMA RefinedIs ==
  ASSUME Items!TypeOK, NEW w \in Items!Held
  PROVE  /\ Items!Refined(w) \in Items!WeaponType /\ Items!Refined(w).avatar = weapons[w].avatar
         /\ weapons[w].refine < Items!Refined(w).refine
<1>1. weapons[w] \in Items!WeaponType
  BY DEF Items!TypeOK
<1> QED BY <1>1 DEF Items!WeaponType, Items!Refined

\* A weapon refined, or its food eaten for want of coins.
LEMMA KeptAwaken ==
  ASSUME Items!TypeOK, WornInv, NEW w \in Items!Held, NEW f \in Items!Held, Items!WeaponAwakenReq(w, f)
  PROVE  Kept
<1>1. /\ requests' = requests + 1 /\ f # w /\ weapons[f].avatar = Nobody
      /\ IF Items!AwakenPaid
         THEN /\ weapons' = Items!Improved({f}, w, Items!Refined(w))
              /\ items' = Items!CostUserItem(Items!Just("coin", 1))
         ELSE weapons' = Items!Without({f}) /\ items' = items
      /\ UNCHANGED <<reliqs, grown, inWorld, made, hand, slot, guids, doubtful>>
  BY DEF Items!WeaponAwakenReq, Items!Counted, Items!worn, Items!Edible
<1>2. weapons \in [Items!Held -> Items!WeaponType] /\ Items!Held \subseteq 1..made
  BY DEF Items!TypeOK
<1>3. /\ Items!Held' = Items!Held \ {f} /\ weapons' \in [Items!Held' -> Items!WeaponType]
      /\ \A x \in Items!Held' : weapons'[x].avatar = weapons[x].avatar
      /\ Items!AwakenPaid => weapons[w].refine < weapons'[w].refine /\ w \in Items!Held'
  <2>1. CASE Items!AwakenPaid
    <3>1. weapons' = Items!Improved({f}, w, Items!Refined(w)) /\ w \notin {f}
      BY <1>1, <2>1
    <3> QED BY <1>2, <3>1, RefinedIs, ImprovedIs
  <2>2. CASE ~Items!AwakenPaid
    BY <1>1, <1>2, <2>2 DEF Items!Held, Items!Without
  <2> QED BY <2>1, <2>2
<1>4. items' \in [Items!Items -> Nat]
  <2>1. CASE Items!AwakenPaid
    <3> DEFINE cost == Items!Just("coin", 1)
    <3>1. cost \in CostType /\ DOMAIN cost = {"coin"}
      BY CostsAre DEF Items!Items, Items!Virtual
    <3>2. Items!Affords(cost)
      BY <2>1, <3>1 DEF Items!Affords, Items!AwakenPaid, Items!Just
    <3> HIDE DEF cost
    <3>3. Items!CostUserItem(cost) \in [Items!Items -> Nat]
      BY <3>1, <3>2, CostIs
    <3> QED BY <1>1, <2>1, <3>3 DEF cost
  <2>2. CASE ~Items!AwakenPaid
    BY <1>1, <2>2 DEF Items!TypeOK
  <2> QED BY <2>1, <2>2
<1>5. made \in made..MaxWeapons /\ requests' \in Nat /\ Items!Held' \subseteq 1..made
  BY <1>1, <1>2, <1>3 DEF Items!TypeOK
<1>6. Items!TypeOK'
  BY <1>1, <1>3, <1>4, <1>5, TypeKept DEF Items!TypeOK
<1>7. WornInv'
  BY <1>1, <1>3, KeepsWorn DEF Items!Owned
<1>8. Items!PaysForSomething
  <2>1. CASE Items!AwakenPaid
    BY <1>3, <2>1 DEF Items!PaysForSomething, Items!Gained, Items!Held
  <2>2. CASE ~Items!AwakenPaid
    <3>1. Items!InVain
      BY <2>2 DEF Items!InVain
    <3> QED BY <3>1 DEF Items!PaysForSomething
  <2> QED BY <2>1, <2>2
<1> QED BY <1>6, <1>7, <1>8 DEF Kept

\* The same with a material for food.
LEMMA KeptAwakenByItem ==
  ASSUME Items!TypeOK, WornInv, NEW w \in Items!Held, Items!WeaponAwakenByItem(w)
  PROVE  Kept
<1> DEFINE dear == Items!And("ore", 1, "coin", 1)
           cheap == Items!Just("ore", 1)
<1>1. /\ requests' = requests + 1 /\ items["ore"] > 0
      /\ IF Items!AwakenPaid
         THEN /\ weapons' = Items!Improved({}, w, Items!Refined(w))
              /\ items' = Items!CostUserItem(dear)
         ELSE weapons' = weapons /\ items' = Items!CostUserItem(cheap)
      /\ UNCHANGED <<reliqs, grown, inWorld, made, hand, slot, guids, doubtful>>
  BY DEF Items!WeaponAwakenByItem, Items!Counted, Items!worn
<1>2. weapons \in [Items!Held -> Items!WeaponType] /\ Items!Held \subseteq 1..made
      /\ items["ore"] \in Nat /\ items["coin"] \in Nat
  BY DEF Items!TypeOK, Items!Items, Items!Ordinary, Items!Virtual
<1>3. /\ Items!Held' = Items!Held /\ weapons' \in [Items!Held' -> Items!WeaponType]
      /\ \A x \in Items!Held' : weapons'[x].avatar = weapons[x].avatar
      /\ Items!AwakenPaid => weapons[w].refine < weapons'[w].refine
  <2>1. CASE Items!AwakenPaid
    BY <1>1, <1>2, <2>1, RefinedIs, ImprovedIs
  <2>2. CASE ~Items!AwakenPaid
    BY <1>1, <1>2, <2>2 DEF Items!Held
  <2> QED BY <2>1, <2>2
<1>4. items' \in [Items!Items -> Nat]
  <2>1. CASE Items!AwakenPaid
    <3>1. dear \in CostType /\ Items!Affords(dear)
      BY <1>1, <1>2, <2>1, CostsAre
      DEF Items!Items, Items!Virtual, Items!Ordinary, Items!Affords, Items!AwakenPaid, Items!And
    <3> HIDE DEF dear
    <3> QED BY <1>1, <2>1, <3>1, CostIs
  <2>2. CASE ~Items!AwakenPaid
    <3>1. cheap \in CostType /\ Items!Affords(cheap)
      <4>1. "ore" \in Items!Items /\ DOMAIN cheap = {"ore"} /\ cheap["ore"] = 1
        BY DEF Items!Items, Items!Ordinary, Items!Just
      <4>2. cheap \in CostType
        BY <4>1, CostsAre
      <4> HIDE DEF cheap
      <4> QED BY <1>1, <1>2, <4>1, <4>2 DEF Items!Affords
    <3> HIDE DEF cheap
    <3> QED BY <1>1, <2>2, <3>1, CostIs
  <2> QED BY <2>1, <2>2
<1>5. made \in made..MaxWeapons /\ requests' \in Nat
  BY <1>1 DEF Items!TypeOK
<1>6. Items!TypeOK'
  BY <1>1, <1>2, <1>3, <1>4, <1>5, TypeKept DEF Items!TypeOK
<1>7. WornInv'
  BY <1>1, <1>3, KeepsWorn DEF Items!Owned
<1>8. Items!PaysForSomething
  <2>1. CASE Items!AwakenPaid
    BY <1>3, <2>1 DEF Items!PaysForSomething, Items!Gained, Items!Held
  <2>2. CASE ~Items!AwakenPaid
    <3>1. Items!InVain
      BY <2>2 DEF Items!InVain
    <3> QED BY <3>1 DEF Items!PaysForSomething
  <2> QED BY <2>1, <2>2
<1> QED BY <1>6, <1>7, <1>8 DEF Kept

\* Ore named twice, and the first of it taken.
LEMMA KeptOreTwice ==
  ASSUME Items!TypeOK, WornInv, NEW w \in Items!Held, NEW m \in 1..2, NEW n \in 1..2,
         Items!OreNamedTwice(w, m, n)
  PROVE  Kept
<1> DEFINE cost == Items!Just("ore", m)
<1>1. /\ requests' = requests + 1 /\ items["ore"] >= m /\ items' = Items!CostUserItem(cost)
      /\ UNCHANGED <<weapons, reliqs, grown, inWorld, made, hand, slot, guids, doubtful>>
  BY DEF Items!OreNamedTwice, Items!Counted, Items!worn
<1>2. items' \in [Items!Items -> Nat]
  <2>1. cost \in CostType /\ Items!Affords(cost)
    <3>1. "ore" \in Items!Items /\ DOMAIN cost = {"ore"} /\ cost["ore"] = m /\ m \in Nat
      BY DEF Items!Items, Items!Ordinary, Items!Just
    <3>2. cost \in CostType
      BY <3>1, CostsAre
    <3> HIDE DEF cost
    <3> QED BY <1>1, <3>1, <3>2 DEF Items!Affords
  <2> HIDE DEF cost
  <2> QED BY <1>1, <2>1, CostIs
<1>3. made \in made..MaxWeapons /\ requests' \in Nat /\ Items!Held' = Items!Held
  BY <1>1 DEF Items!TypeOK, Items!Held
<1>4. Items!TypeOK'
  BY <1>1, <1>2, <1>3, TypeKept DEF Items!TypeOK
<1>5. WornInv'
  BY <1>1, <1>3, KeepsWorn DEF Items!Owned
<1>6. Items!InVain
  BY DEF Items!InVain
<1> QED BY <1>4, <1>5, <1>6 DEF Kept, Items!PaysForSomething

\* An avatar's levels.
LEMMA KeptAvatarUpgrade ==
  ASSUME Items!TypeOK, WornInv, NEW a \in Avatars, NEW books \in 1..2, Items!AvatarUpgradeReq(a, books)
  PROVE  Kept
<1> DEFINE cost == Items!And("book", books, "coin", books)
           n == books * Items!OreExp
<1>1. /\ requests' = requests + 1 /\ a \in Items!Owned /\ ~Items!AtLimit(grown[a])
      /\ Items!Affords(cost) /\ items' = Items!CostUserItem(cost)
      /\ grown' = [grown EXCEPT ![a] = Items!Grow(@, n).to]
      /\ UNCHANGED <<weapons, reliqs, inWorld, made, hand, slot, guids, doubtful>>
  BY DEF Items!AvatarUpgradeReq, Items!Counted, Items!worn
<1>2. n \in Nat \ {0}
  BY DEF Items!OreExp
<1> HIDE DEF n
<1>3. grown \in [Items!Owned -> Items!Growth] /\ grown[a] \in Items!Growth
  BY <1>1 DEF Items!TypeOK
<1>4. Items!Better(grown[a], Items!Grow(grown[a], n).to) /\ Items!Grow(grown[a], n).to \in Items!Growth
  BY <1>1, <1>2, <1>3, AvatarGrown
<1>5. /\ grown' \in [Items!Owned -> Items!Growth] /\ Items!Owned' = Items!Owned
      /\ grown'[a] = Items!Grow(grown[a], n).to
  BY <1>1, <1>3, <1>4 DEF Items!Owned
<1>6. items' \in [Items!Items -> Nat]
  <2>1. cost \in CostType
    BY CostsAre DEF Items!Items, Items!Ordinary, Items!Virtual
  <2> HIDE DEF cost
  <2> QED BY <1>1, <2>1, CostIs
<1>7. made \in made..MaxWeapons /\ requests' \in Nat /\ Items!Held' = Items!Held
  BY <1>1 DEF Items!TypeOK, Items!Held
<1>8. Items!TypeOK'
  BY <1>1, <1>5, <1>6, <1>7, TypeKept DEF Items!TypeOK
<1>9. WornInv'
  BY <1>1, <1>5, <1>7, KeepsWorn
<1>10. Items!PaysForSomething
  BY <1>1, <1>4, <1>5 DEF Items!PaysForSomething, Items!Gained
<1> QED BY <1>8, <1>9, <1>10 DEF Kept

\* Its limit.
LEMMA KeptAvatarPromote ==
  ASSUME Items!TypeOK, WornInv, NEW a \in Avatars, Items!AvatarPromoteReq(a)
  PROVE  Kept
<1> DEFINE cost == Items!And("ore", 1, "coin", 1)
<1>1. /\ requests' = requests + 1 /\ a \in Items!Owned
      /\ Items!Affords(cost) /\ items' = Items!CostUserItem(cost)
      /\ grown' = [grown EXCEPT ![a].promote = @ + 1]
      /\ UNCHANGED <<weapons, reliqs, inWorld, made, hand, slot, guids, doubtful>>
  BY DEF Items!AvatarPromoteReq, Items!Counted, Items!worn
<1>2. grown \in [Items!Owned -> Items!Growth]
  BY DEF Items!TypeOK
<1>3. /\ grown' \in [Items!Owned -> Items!Growth] /\ Items!Owned' = Items!Owned
      /\ grown'[a].promote > grown[a].promote
  BY <1>1, <1>2 DEF Items!Growth, Items!Owned
<1>4. items' \in [Items!Items -> Nat]
  <2>1. cost \in CostType
    BY CostsAre DEF Items!Items, Items!Ordinary, Items!Virtual
  <2> HIDE DEF cost
  <2> QED BY <1>1, <2>1, CostIs
<1>5. made \in made..MaxWeapons /\ requests' \in Nat /\ Items!Held' = Items!Held
  BY <1>1 DEF Items!TypeOK, Items!Held
<1>6. Items!TypeOK'
  BY <1>1, <1>3, <1>4, <1>5, TypeKept DEF Items!TypeOK
<1>7. WornInv'
  BY <1>1, <1>3, <1>5, KeepsWorn
<1>8. Items!PaysForSomething
  BY <1>1, <1>2, <1>3 DEF Items!PaysForSomething, Items!Gained, Items!Better, Items!Growth
<1> QED BY <1>6, <1>7, <1>8 DEF Kept

\* Its reward.
LEMMA KeptReward ==
  ASSUME Items!TypeOK, WornInv, NEW a \in Avatars, Items!AvatarPromoteGetRewardReq(a)
  PROVE  Kept
<1>1. /\ a \in Items!Owned /\ grown' = [grown EXCEPT ![a].taken = TRUE]
      /\ items' = Items!AddUserItem(items, "fate", 1)
      /\ UNCHANGED <<weapons, reliqs, inWorld, made, requests, hand, slot, guids, doubtful>>
  BY DEF Items!AvatarPromoteGetRewardReq, Items!bounds, Items!worn
<1>2. grown \in [Items!Owned -> Items!Growth]
  BY DEF Items!TypeOK
<1>3. grown' \in [Items!Owned -> Items!Growth] /\ Items!Owned' = Items!Owned
  BY <1>1, <1>2 DEF Items!Growth, Items!Owned
<1>4. items' \in [Items!Items -> Nat] /\ \A k \in Items!Items : items'[k] >= items[k]
  BY <1>1, AddedIs DEF Items!TypeOK, Items!Items, Items!Ordinary
<1>5. made \in made..MaxWeapons /\ requests' \in Nat /\ Items!Held' = Items!Held
  BY <1>1 DEF Items!TypeOK, Items!Held
<1>6. Items!TypeOK'
  BY <1>1, <1>3, <1>4, <1>5, TypeKept DEF Items!TypeOK
<1>7. WornInv'
  BY <1>1, <1>3, <1>5, KeepsWorn
<1>8. Items!PaysForSomething
  BY <1>4, <1>5, NothingPaid
<1> QED BY <1>6, <1>7, <1>8 DEF Kept

\* Goods: a draw for crystals, or nothing with a full pack.
LEMMA KeptBuy ==
  ASSUME Items!TypeOK, WornInv, Items!BuyGoodsReq
  PROVE  Kept
<1> DEFINE cost == Items!Just("hcoin", 1)
           bag == Items!CostUserItem(cost)
<1>1. /\ requests' = requests + 1 /\ items["hcoin"] >= 1
      /\ items' = Items!AddUserItem(bag, "fate", 1)
      /\ UNCHANGED <<weapons, reliqs, grown, inWorld, made, hand, slot, guids, doubtful>>
  BY DEF Items!BuyGoodsReq, Items!Counted, Items!worn
<1>2. cost \in CostType /\ DOMAIN cost = {"hcoin"} /\ cost["hcoin"] = 1
  BY CostsAre DEF Items!Items, Items!Virtual, Items!Just
<1>3. Items!Affords(cost)
  BY <1>1, <1>2 DEF Items!Affords
<1> HIDE DEF cost
<1>4. /\ bag \in [Items!Items -> Nat]
      /\ \A i \in Items!Items : bag[i] = items[i] - Items!Price(cost, i)
      /\ \A i \in Items!Items : i \notin DOMAIN cost => bag[i] = items[i]
  BY <1>2, <1>3, CostIs
<1> HIDE DEF bag
<1>5. items' \in [Items!Items -> Nat]
  BY <1>1, <1>4, AddedIs DEF Items!Items, Items!Ordinary
<1>6. made \in made..MaxWeapons /\ requests' \in Nat /\ Items!Held' = Items!Held
  BY <1>1 DEF Items!TypeOK, Items!Held
<1>7. Items!TypeOK'
  BY <1>1, <1>5, <1>6, TypeKept DEF Items!TypeOK
<1>8. WornInv'
  BY <1>1, <1>6, KeepsWorn DEF Items!Owned
<1>9. Items!PaysForSomething
  <2>1. \A k \in Items!Ordinary : bag[k] = items[k] /\ k \in Items!Items
    BY <1>2, <1>4 DEF Items!Items, Items!Ordinary
  <2>2. "fate" \in Items!Ordinary /\ "hcoin" \in Items!Items /\ "hcoin" # "fate"
    BY DEF Items!Ordinary, Items!Items, Items!Virtual
  <2>3. {k \in Items!Ordinary : bag[k] > 0} = {k \in Items!Ordinary : items[k] > 0}
    BY <2>1
  <2>4. CASE Items!PackFull
    <3>1. Items!InVain
      BY <2>4 DEF Items!InVain
    <3> QED BY <3>1 DEF Items!PaysForSomething
  <2>5. CASE ~Items!PackFull
    <3>1. items' = [bag EXCEPT !["fate"] = @ + 1]
      BY <1>1, <2>2, <2>3, <2>5 DEF Items!AddUserItem, Items!PackFull
    <3>2. items'["fate"] = items["fate"] + 1 /\ items["fate"] \in Nat /\ "fate" \in Items!Items
      BY <1>4, <2>1, <2>2, <3>1 DEF Items!TypeOK
    <3> QED BY <3>2 DEF Items!PaysForSomething, Items!Gained
  <2> QED BY <2>4, <2>5
<1> QED BY <1>7, <1>8, <1>9 DEF Kept

\* Crystals.
LEMMA KeptExchange ==
  ASSUME Items!TypeOK, WornInv, Items!McoinExchangeHcoinReq
  PROVE  Kept
<1> DEFINE cost == Items!Just("mcoin", 1)
           bag == Items!CostUserItem(cost)
<1>1. /\ items["mcoin"] >= 1 /\ items' = Items!AddUserItem(bag, "hcoin", 1)
      /\ UNCHANGED <<weapons, reliqs, grown, inWorld, made, requests, hand, slot, guids, doubtful>>
  BY DEF Items!McoinExchangeHcoinReq, Items!bounds, Items!worn
<1>2. cost \in CostType /\ DOMAIN cost = {"mcoin"} /\ cost["mcoin"] = 1
  BY CostsAre DEF Items!Items, Items!Virtual, Items!Just
<1>3. Items!Affords(cost)
  BY <1>1, <1>2 DEF Items!Affords
<1> HIDE DEF cost
<1>4. bag \in [Items!Items -> Nat] /\ \A i \in Items!Items : i \notin DOMAIN cost => bag[i] = items[i]
  BY <1>2, <1>3, CostIs
<1> HIDE DEF bag
<1>5. "hcoin" \in Items!Items /\ "hcoin" \notin Items!Ordinary /\ "hcoin" # "mcoin"
  BY DEF Items!Items, Items!Ordinary, Items!Virtual
<1>6. items' \in [Items!Items -> Nat] /\ items'["hcoin"] = bag["hcoin"] + 1
  BY <1>1, <1>4, <1>5, AddedIs
<1>7. made \in made..MaxWeapons /\ requests' \in Nat /\ Items!Held' = Items!Held
  BY <1>1 DEF Items!TypeOK, Items!Held
<1>8. Items!TypeOK'
  BY <1>1, <1>6, <1>7, TypeKept DEF Items!TypeOK
<1>9. WornInv'
  BY <1>1, <1>7, KeepsWorn DEF Items!Owned
<1>10. items'["hcoin"] > items["hcoin"]
  BY <1>2, <1>4, <1>5, <1>6 DEF Items!TypeOK
<1>11. Items!PaysForSomething
  BY <1>5, <1>10 DEF Items!PaysForSomething, Items!Gained
<1> QED BY <1>8, <1>9, <1>11 DEF Kept

\* Every step.
LEMMA ItemsStep == ASSUME Items!TypeOK, WornInv, Items!Next PROVE Kept
<1>0. GiftItems \subseteq Items!Items
  BY Items!ItemsAssumption DEF Items!ItemsAssumption
<1>1. ASSUME NEW a \in Avatars, NEW e \in Items!Held \cup DOMAIN reliqs, Items!WearEquipReq(a, e)
      PROVE Kept
  BY <1>1, KeptWear
<1>2. ASSUME NEW a \in Avatars, Items!TakeoffEquipReq(a) PROVE Kept
  BY <1>2, KeptOff
<1>3. ASSUME NEW a \in Avatars, Items!AddUserAvatar(a) PROVE Kept
  <2>1. Items!TypeOK' /\ WornInv'
    BY <1>3, AvatarAdded
  <2>2. UNCHANGED items
    BY <1>3 DEF Items!AddUserAvatar
  <2>3. Items!Held \subseteq Items!Held'
    <3> DEFINE given == Items!AddUserWeapon(made + 1)
               b == [Items!Now EXCEPT !.weapons = given]
    <3>1. Items!Held \subseteq DOMAIN given
      BY DEF Items!AddUserWeapon, Items!Held
    <3>2. b.weapons = given
      BY DEF Items!Now, Items!Bound
    <3>3. weapons' = given \/ weapons' = [given EXCEPT ![made + 1].avatar = a]
      <4>1. hand[a] = 0 /\ b.hand = hand
        BY <1>3 DEF Items!AddUserAvatar, WornInv, WeaponsInv, Items!Now, Items!Bound
      <4>2. Items!Wear(IF made + 1 \in DOMAIN given THEN Items!WearUserAvatarWeapon(b, a, made + 1) ELSE b)
        BY <1>3 DEF Items!AddUserAvatar
      <4>3. Items!WearWeapon(b, a, made + 1).weapons = [b.weapons EXCEPT ![made + 1].avatar = a]
        BY DEF Items!WearWeapon, Items!Now, Items!Bound
      <4> HIDE DEF given, b
      <4> QED BY <3>2, <4>1, <4>2, <4>3 DEF Items!Wear, Items!WearUserAvatarWeapon
    <3> HIDE DEF given
    <3> QED BY <3>1, <3>3 DEF Items!Held
  <2>4. \A i \in Items!Items : items'[i] >= items[i]
    BY <2>2 DEF Items!TypeOK
  <2> QED BY <2>1, <2>2, <2>3, <2>4, NothingPaid DEF Kept, Items!TypeOK
<1>4. ASSUME NEW a \in Avatars, NEW n \in 1..2, Items!AvatarUpgradeReq(a, n) PROVE Kept
  BY <1>4, KeptAvatarUpgrade
<1>5. ASSUME NEW a \in Avatars, Items!AvatarPromoteReq(a) PROVE Kept
  BY <1>5, KeptAvatarPromote
<1>6. ASSUME NEW a \in Avatars, Items!AvatarPromoteGetRewardReq(a) PROVE Kept
  BY <1>6, KeptReward
<1>7. ASSUME NEW w \in Items!Held, NEW lock \in BOOLEAN, Items!SetEquipLockStateReq(w, lock) PROVE Kept
  BY <1>7, KeptLock
<1>8. ASSUME NEW w \in Items!Held, NEW n \in 0..2, NEW food \in {{}} \cup {{f} : f \in Items!Held},
             Items!WeaponUpgradeReq(w, n, food)
      PROVE  Kept
  BY <1>8, KeptWeaponUpgrade
<1>9. ASSUME NEW w \in Items!Held, Items!WeaponPromoteReq(w) PROVE Kept
  BY <1>9, KeptWeaponPromote
<1>10. ASSUME NEW w \in Items!Held, NEW f \in Items!Held, Items!WeaponAwakenReq(w, f) PROVE Kept
  BY <1>10, KeptAwaken
<1>11. ASSUME NEW i \in GiftItems, Items!GiveItem(i) PROVE Kept
  BY <1>0, <1>11, KeptGiveItem
<1>12. ASSUME Items!Relogin PROVE Kept
  <2>1. UNCHANGED <<items, weapons>>
    BY <1>12 DEF Items!Relogin
  <2>2. Items!Held' = Items!Held /\ \A i \in Items!Items : items'[i] >= items[i]
    BY <2>1 DEF Items!TypeOK, Items!Held
  <2> QED BY <1>12, <2>1, <2>2, ReloginSafe, NothingPaid DEF Kept, Items!TypeOK
<1>13. ASSUME Items!GiveWeapon PROVE Kept
  BY <1>13, KeptGiveWeapon
<1>14. ASSUME NEW r \in Reliqs, Items!AddUserReliquary(r) PROVE Kept
  BY <1>14, KeptAddReliquary
<1>15. ASSUME NEW w \in Items!Held, Items!WeaponAwakenByItem(w) PROVE Kept
  BY <1>15, KeptAwakenByItem
<1>16. ASSUME NEW w \in Items!Held, NEW m \in 1..2, NEW n \in 1..2, Items!OreNamedTwice(w, m, n)
       PROVE  Kept
  BY <1>16, KeptOreTwice
<1> HIDE DEF Kept
<1> QED BY <1>1, <1>2, <1>3, <1>4, <1>5, <1>6, <1>7, <1>8, <1>9, <1>10, <1>11, <1>12, <1>13, <1>14,
           <1>15, <1>16, KeptBuy, KeptExchange DEF Items!Next

\* The player starts with one avatar and its weapon.
LEMMA ItemsStart == ASSUME Items!Init PROVE Items!TypeOK /\ WornInv
<1>1. /\ MainChar \in Avatars /\ Nobody \notin Avatars /\ Nobody \notin Reliqs /\ MaxWeapons \in Nat \ {0}
      /\ MaxCount \in Nat /\ \A r \in Reliqs : r \notin Nat
  BY Items!ItemsAssumption DEF Items!ItemsAssumption
<1>2. /\ Items!Held = {1} /\ Items!Owned = {MainChar} /\ DOMAIN reliqs = {} /\ doubtful = {}
      /\ weapons[1] = Items!NewWeapon(MainChar) /\ grown[MainChar] = Items!Newborn /\ made = 1
  BY DEF Items!Init, Items!Held, Items!Owned
<1>3. Items!NewWeapon(MainChar) \in Items!WeaponType /\ Items!NewWeapon(MainChar).avatar = MainChar
  BY <1>1 DEF Items!NewWeapon, Items!WeaponType
<1>4. Items!Newborn \in Items!Growth
  BY DEF Items!Newborn, Items!Growth
<1>5. /\ hand \in [Avatars -> 0..1] /\ guids \in [Avatars -> SUBSET (Nat \cup Reliqs)]
      /\ slot \in [Avatars -> Reliqs \cup {Nobody}]
      /\ \A a \in Avatars : /\ hand[a] = IF a = MainChar THEN 1 ELSE 0
                            /\ guids[a] = IF a = MainChar THEN {1} ELSE {}
                            /\ slot[a] = Nobody
  BY <1>1 DEF Items!Init
<1>6. Items!TypeOK
  <2>1. items \in [Items!Items -> Nat] /\ inWorld \in BOOLEAN /\ requests \in Nat
    BY <1>1 DEF Items!Init
  <2>2. weapons \in [Items!Held -> Items!WeaponType] /\ grown \in [Items!Owned -> Items!Growth]
    BY <1>2, <1>3, <1>4 DEF Items!Init
  <2>3. reliqs \in [DOMAIN reliqs -> Avatars \cup {Nobody}]
    BY <1>2 DEF Items!Init
  <2> QED BY <1>1, <1>2, <1>5, <2>1, <2>2, <2>3 DEF Items!TypeOK
<1>7. WornInv
  BY <1>1, <1>2, <1>3, <1>5 DEF WornInv, WeaponsInv, ReliqsInv, GuidsInv, ArmedOK, DressedOK, Named
<1> QED BY <1>6, <1>7
-----------------------------------------------------------------------------
(* The draws, any number of them: the bound on them does not enter.        *)

\* The types.
WishTypes ==
  /\ type \in Wishes!Types
  /\ times \in [Wishes!Colors -> Nat]
  /\ mustGetUp \in [Wishes!Colors -> BOOLEAN]
  /\ plain \in Nat
  /\ offBanner \subseteq Wishes!Colors

\* The largest of two or three numbers.
LEMMA MaxOfThree ==
  ASSUME NEW a \in Int, NEW b \in Int, NEW c \in Int, NEW S, S = {a, b, c}
  PROVE  Wishes!Max(S) \in Int /\ Wishes!Max(S) >= a /\ Wishes!Max(S) >= b /\ Wishes!Max(S) >= c
<1>1. \E x \in S : \A y \in S : x >= y
  OBVIOUS
<1>2. Wishes!Max(S) \in S /\ \A y \in S : Wishes!Max(S) >= y
  BY <1>1 DEF Wishes!Max
<1> QED BY <1>2

\* What the correction adds to a weight at n draws, no less than nothing.
LEMMA AddWeightIs ==
  ASSUME WishTypes, NEW c \in Wishes!Colors, NEW n \in Nat
  PROVE  /\ Wishes!AddWeight(c, n) \in Int /\ Wishes!AddWeight(c, n) >= 0
         /\ Wishes!AddWeight(c, n) >= (n - Wishes!FixThreshold(type)[c] + 1) * Wishes!FixValue(type)[c]
<1> DEFINE x == (n - Wishes!FixThreshold(type)[c] + 1) * Wishes!FixValue(type)[c]
<1>1. x \in Int /\ 0 \in Int
  BY DEF WishTypes, Wishes!Types, Wishes!Colors, Wishes!FixThreshold, Wishes!FixValue
<1> DEFINE S == {0, x}
<1>2. S = {0, 0, x}
  OBVIOUS
<1> HIDE DEF x, S
<1>3. Wishes!Max(S) \in Int /\ Wishes!Max(S) >= 0 /\ Wishes!Max(S) >= x
  BY <1>1, <1>2, MaxOfThree, Zenon
<1> QED BY <1>3 DEF Wishes!AddWeight, S, x

\* A draw is blue only where the two others leave something of WeightAll, and four
\* stars only where five stars do: the rows are tried in this order.
LEMMA DrawnLeaves ==
  ASSUME WishTypes, NEW o \in Nat, NEW p \in Nat
  PROVE  LET w == Wishes!Weights([orange |-> o, purple |-> p])
         IN  /\ 2 \in Wishes!Drawn(w)
                  => Wishes!DropConfig(type)[1] + Wishes!AddWeight("orange", o) < Wishes!WeightAll
             /\ 3 \in Wishes!Drawn(w) => Wishes!DropConfig(type)[1] + Wishes!AddWeight("orange", o)
                                  + Wishes!DropConfig(type)[2] + Wishes!AddWeight("purple", p) < Wishes!WeightAll
<1> DEFINE w1 == Wishes!DropConfig(type)[1] + Wishes!AddWeight("orange", o)
           w2 == Wishes!DropConfig(type)[2] + Wishes!AddWeight("purple", p)
           w == Wishes!Weights([orange |-> o, purple |-> p])
<1>1. /\ w1 \in Int /\ w2 \in Int
      /\ w[1] = w1 /\ w[2] = w2
      /\ Wishes!Sums(w)[1] = w1 /\ Wishes!Sums(w)[2] = w1 + w2
  BY AddWeightIs DEF Wishes!DropConfig, WishTypes, Wishes!Types, Wishes!Colors, Wishes!Weights, Wishes!Sums
<1> HIDE DEF w1, w2, w
<1> DEFINE before(i) == {0} \cup {Wishes!Sums(w)[j] : j \in 1..(i - 1)}
<1>2. \A i \in Wishes!Drawn(w) : Wishes!Max(before(i)) < Wishes!WeightAll
  BY DEF Wishes!Drawn
<1>3. before(2) = {0, 0, w1} /\ before(3) = {0, w1, w1 + w2}
  <2>1. 1..(2 - 1) = {1} /\ 1..(3 - 1) = {1, 2}
    OBVIOUS
  <2> QED BY <1>1, <2>1
<1> HIDE DEF before
<1>4. 0 \in Int /\ w1 \in Int /\ w1 + w2 \in Int
  BY <1>1
<1>5. /\ Wishes!Max(before(2)) \in Int /\ Wishes!Max(before(2)) >= w1
      /\ Wishes!Max(before(3)) \in Int /\ Wishes!Max(before(3)) >= w1 + w2
  BY <1>3, <1>4, MaxOfThree, Zenon
<1>6. 2 \in Wishes!Drawn(w) => w1 < Wishes!WeightAll
  BY <1>4, <1>2, <1>5 DEF Wishes!WeightAll
<1>7. 3 \in Wishes!Drawn(w) => w1 + w2 < Wishes!WeightAll
  BY <1>4, <1>2, <1>5 DEF Wishes!WeightAll
<1>8. w1 + w2 = Wishes!DropConfig(type)[1] + Wishes!AddWeight("orange", o)
                + Wishes!DropConfig(type)[2] + Wishes!AddWeight("purple", p)
  BY AddWeightIs DEF w1, w2, Wishes!DropConfig, WishTypes, Wishes!Types, Wishes!Colors
<1> QED BY <1>6, <1>7, <1>8 DEF w1, w

\* The draws at which a colour can no longer fail to come.
LEMMA Certain ==
  ASSUME WishTypes, NEW o \in Nat, NEW p \in Nat
  PROVE  LET w == Wishes!Weights([orange |-> o, purple |-> p])
         IN  /\ 2 \in Wishes!Drawn(w) => o < IF type = "weapon" THEN 77 ELSE 90
             /\ 3 \in Wishes!Drawn(w) => p < 10 /\ o < IF type = "weapon" THEN 77 ELSE 90
<1> DEFINE ao == Wishes!AddWeight("orange", o)
           ap == Wishes!AddWeight("purple", p)
<1>1. /\ ao \in Int /\ ao >= 0 /\ ap \in Int /\ ap >= 0
      /\ ao >= (o - Wishes!FixThreshold(type).orange + 1) * Wishes!FixValue(type).orange
      /\ ap >= (p - Wishes!FixThreshold(type).purple + 1) * Wishes!FixValue(type).purple
  BY AddWeightIs DEF Wishes!Colors
<1> HIDE DEF ao, ap
<1>2. Wishes!DropConfig(type)[1] + ao < 10000 => o < IF type = "weapon" THEN 77 ELSE 90
  BY <1>1 DEF Wishes!DropConfig, Wishes!FixThreshold, Wishes!FixValue, WishTypes, Wishes!Types
<1>3. Wishes!DropConfig(type)[1] + ao + Wishes!DropConfig(type)[2] + ap < 10000
        => p < 10 /\ o < IF type = "weapon" THEN 77 ELSE 90
  BY <1>1 DEF Wishes!DropConfig, Wishes!FixThreshold, Wishes!FixValue, WishTypes, Wishes!Types
<1> QED BY <1>2, <1>3, DrawnLeaves DEF Wishes!WeightAll, ao, ap

\* The invariants: a draw that is not purple counts to both pities; an UP owed is one lost.
PityInv == plain <= times.purple /\ Wishes!Pity
OweInv ==
  /\ \A c \in Wishes!Colors : c \in offBanner <=> mustGetUp[c]
  /\ ~Wishes!UpEnabled => offBanner = {}

\* They hold at the start.
LEMMA GachaInit == Wishes!Init => WishTypes /\ PityInv /\ OweInv
BY DEF Wishes!Init, WishTypes, PityInv, Wishes!Pity, OweInv, Wishes!Colors, Wishes!Types

\* Both counters go up by one before a draw.
LEMMA CountedIs ==
  ASSUME WishTypes
  PROVE  /\ Wishes!Counted \in [Wishes!Colors -> Nat]
         /\ Wishes!Counted.orange = times.orange + 1 /\ Wishes!Counted.purple = times.purple + 1
         /\ Wishes!Weights(Wishes!Counted) = Wishes!Weights([orange |-> times.orange + 1, purple |-> times.purple + 1])
BY DEF WishTypes, Wishes!Counted, Wishes!Colors, Wishes!Weights

\* Every step keeps the types.
LEMMA WishesNext == ASSUME WishTypes, [Wishes!Next]_WishVars PROVE WishTypes'
<1> USE DEF WishTypes
<1>1. ASSUME NEW c \in Wishes!Colors, NEW up \in BOOLEAN, Wishes!DrawColor(c, up), UNCHANGED type PROVE WishTypes'
  <2>1. times' \in [Wishes!Colors -> Nat] /\ plain' \in Nat
    BY <1>1, CountedIs DEF Wishes!DrawColor
  <2>2. mustGetUp' \in [Wishes!Colors -> BOOLEAN] /\ offBanner' \subseteq Wishes!Colors
    BY <1>1 DEF Wishes!DrawColor, Wishes!Settle
  <2> QED BY <1>1, <2>1, <2>2
<1>2. CASE Wishes!DrawBlue /\ UNCHANGED type
  BY <1>2, CountedIs DEF Wishes!DrawBlue
<1>3. CASE UNCHANGED WishVars
  BY <1>3 DEF WishVars
<1> QED BY <1>1, <1>2, <1>3 DEF Wishes!Next, Wishes!DoGachaOnce

\* A draw that is neither blue nor purple starts a count again, another one is made
\* only where it may be.
LEMMA PityNext == ASSUME WishTypes, PityInv, [Wishes!Next]_WishVars PROVE PityInv'
<1> USE DEF PityInv, Wishes!Pity
<1>t. times.orange \in Nat /\ times.purple \in Nat /\ plain \in Nat
  BY DEF WishTypes, Wishes!Colors
<1>1. ASSUME NEW up \in BOOLEAN, Wishes!DrawColor("orange", up), UNCHANGED type PROVE PityInv'
  BY <1>1, <1>t, CountedIs DEF Wishes!DrawColor, Wishes!Colors, WishTypes, Wishes!Types
<1>2. ASSUME NEW up \in BOOLEAN, Wishes!DrawColor("purple", up), UNCHANGED type PROVE PityInv'
  <2>1. 2 \in Wishes!Drawn(Wishes!Weights(Wishes!Counted))
    BY <1>2 DEF Wishes!DrawColor
  <2>2. times.orange + 1 < IF type = "weapon" THEN 77 ELSE 90
    BY <1>t, <2>1, CountedIs, Certain
  <2>3. times'.orange = times.orange + 1 /\ times'.purple = 0 /\ plain' = 0
    BY <1>2, CountedIs DEF Wishes!DrawColor, Wishes!Colors
  <2> QED BY <1>2, <2>2, <2>3
<1>3. CASE Wishes!DrawBlue /\ UNCHANGED type
  <2>1. 3 \in Wishes!Drawn(Wishes!Weights(Wishes!Counted))
    BY <1>3 DEF Wishes!DrawBlue
  <2>2. times.purple + 1 < 10 /\ times.orange + 1 < IF type = "weapon" THEN 77 ELSE 90
    BY <1>t, <2>1, CountedIs, Certain
  <2>3. times'.orange = times.orange + 1 /\ times'.purple = times.purple + 1 /\ plain' = plain + 1
    BY <1>3, CountedIs DEF Wishes!DrawBlue
  <2> QED BY <1>3, <1>t, <2>2, <2>3
<1>4. CASE UNCHANGED WishVars
  BY <1>4 DEF WishVars
<1> QED BY <1>1, <1>2, <1>3, <1>4 DEF Wishes!Next, Wishes!DoGachaOnce, Wishes!Colors

\* The debt that is written down is the one there is, and is paid when it is due.
LEMMA OweNext == ASSUME WishTypes, OweInv, [Wishes!Next]_WishVars PROVE OweInv' /\ [Wishes!UpComes]_WishVars
<1> USE DEF OweInv, Wishes!UpComes, Wishes!UpEnabled
<1>t. times \in [Wishes!Colors -> Nat] /\ mustGetUp \in [Wishes!Colors -> BOOLEAN]
  BY DEF WishTypes
<1>1. ASSUME NEW c \in Wishes!Colors, NEW up \in BOOLEAN, Wishes!DrawColor(c, up), UNCHANGED type
      PROVE  OweInv' /\ Wishes!UpComes
  <2>1. \A d \in Wishes!Colors \ {c} : times'[d] # 0
    BY <1>1, <1>t DEF Wishes!DrawColor, Wishes!Counted
  <2>2. CASE Wishes!UpEnabled
    BY <1>1, <1>t, <2>1, <2>2 DEF Wishes!DrawColor, Wishes!Settle, Wishes!Given
  <2>3. CASE ~Wishes!UpEnabled
    BY <1>1, <1>t, <2>1, <2>3 DEF Wishes!DrawColor
  <2> QED BY <2>2, <2>3
<1>2. CASE Wishes!DrawBlue /\ UNCHANGED type
  BY <1>2, <1>t DEF Wishes!DrawBlue, Wishes!Counted
<1>3. CASE UNCHANGED WishVars
  BY <1>3 DEF WishVars
<1> QED BY <1>1, <1>2, <1>3 DEF Wishes!Next, Wishes!DoGachaOnce
-----------------------------------------------------------------------------
(* The groups of a scene: a chest pays once, and what stands is held.       *)

HeldType == [Groups!Suites -> [Groups!Configs -> Nat]]
GroupType == [loaded : SUBSET Groups!Suites, suites : HeldType, there : [Groups!Configs -> Int],
              pulled : BOOLEAN]
\* A group agrees with its suites, and its chest is there once at most: not when it is not
\* loaded, nor when it has been opened.
GroupSound(r, opened) ==
  /\ r \in GroupType
  /\ \A c \in Groups!Configs : r.there[c] = Groups!SuiteTotal(r, c)
  /\ r.suites[1]["chest"] <= 1 /\ r.suites[2]["chest"] = 0
  /\ r.loaded = {} \/ opened => r.suites[1]["chest"] = 0
ChestOpen(k, g) == <<g, "chest">> \in k[Host]
SceneInv ==
  /\ kills \in [Visitors -> SUBSET (SceneGroups \X Groups!Configs)]
  /\ paid \in [SceneGroups -> 0..1]
  /\ scene \in [SceneGroups -> GroupType]
  /\ \A g \in SceneGroups : /\ GroupSound(scene[g], ChestOpen(kills, g))
                            /\ paid[g] = 1 => ChestOpen(kills, g)

\* One more of each of cs.
LEMMA EntitiesAre ==
  ASSUME NEW N \in {Nat, Int}, NEW there \in [Groups!Configs -> N], NEW cs
  PROVE  /\ Groups!CreateEntities(there, cs) \in [Groups!Configs -> N]
         /\ \A c \in Groups!Configs :
              Groups!CreateEntities(there, cs)[c] = IF c \in cs THEN there[c] + 1 ELSE there[c]
BY DEF Groups!CreateEntities

\* A suite's entities are put into the scene: the chest only with the first suite of a group
\* that is not loaded, while it has not been opened.
LEMMA CreateSound ==
  ASSUME NEW r, NEW opened \in BOOLEAN, GroupSound(r, opened), NEW g, NEW u \in Groups!Suites, NEW cs,
         "chest" \in cs => u = 1 /\ r.loaded = {} /\ ~opened
  PROVE  GroupSound(Groups!CreateAll(r, g, u, cs), opened)
<1> DEFINE t == Groups!CreateAll(r, g, u, cs)
<1>1. /\ r.loaded \subseteq Groups!Suites /\ r.suites \in HeldType /\ r.pulled \in BOOLEAN
      /\ r.there \in [Groups!Configs -> Int]
  BY DEF GroupSound, GroupType
<1>2. /\ t = [loaded |-> t.loaded, suites |-> t.suites, there |-> t.there, pulled |-> t.pulled]
      /\ t.loaded = r.loaded \cup {u} /\ t.pulled \in BOOLEAN
      /\ t.suites = [r.suites EXCEPT ![u] = Groups!CreateEntities(@, cs)]
      /\ t.there = Groups!CreateEntities(r.there, cs)
  BY <1>1 DEF Groups!CreateAll
<1>3. t.there \in [Groups!Configs -> Int] /\ \A c \in Groups!Configs :
        t.there[c] = IF c \in cs THEN r.there[c] + 1 ELSE r.there[c]
  BY <1>1, <1>2, EntitiesAre
<1>4. /\ Groups!CreateEntities(r.suites[u], cs) \in [Groups!Configs -> Nat]
      /\ \A c \in Groups!Configs : Groups!CreateEntities(r.suites[u], cs)[c]
                                     = IF c \in cs THEN r.suites[u][c] + 1 ELSE r.suites[u][c]
  BY <1>1, EntitiesAre DEF HeldType
<1>5. t.suites \in HeldType
  BY <1>1, <1>2, <1>4 DEF HeldType
<1>6. \A v \in Groups!Suites, c \in Groups!Configs :
        t.suites[v][c] = IF v = u /\ c \in cs THEN r.suites[v][c] + 1 ELSE r.suites[v][c]
  BY <1>1, <1>2, <1>4 DEF HeldType
<1>7. t \in GroupType
  BY <1>1, <1>2, <1>3, <1>5 DEF GroupType
<1> HIDE DEF t
<1>8. ASSUME NEW c \in Groups!Configs PROVE t.there[c] = Groups!SuiteTotal(t, c)
  BY <1>1, <1>3, <1>6 DEF GroupSound, Groups!SuiteTotal, Groups!Suites, HeldType
<1>9. "chest" \in Groups!Configs /\ r.suites[1]["chest"] \in Nat
  BY <1>1 DEF Groups!Configs, HeldType, Groups!Suites
<1>10. /\ t.suites[1]["chest"] <= 1 /\ t.suites[2]["chest"] = 0
       /\ t.loaded = {} \/ opened => t.suites[1]["chest"] = 0
  BY <1>2, <1>6, <1>9 DEF GroupSound, Groups!Suites
<1>11. GroupSound(t, opened)
  BY <1>7, <1>8, <1>10, Zenon DEF GroupSound
<1> QED BY <1>11 DEF t

\* A suite that is added, but for the first of a group that is there.
LEMMA SuiteSound ==
  ASSUME NEW r, NEW g \in SceneGroups, NEW k, GroupSound(r, ChestOpen(k, g)), NEW u \in Groups!Suites,
         u = 1 => r.loaded = {}
  PROVE  GroupSound(Groups!AddSuite(r, k, g, u), ChestOpen(k, g))
<1> DEFINE cs == {c \in Groups!SuiteConfigs[u] : <<g, c>> \notin k[Host]} \cup {"npc"}
<1>1. "chest" \in cs => u = 1 /\ ~ChestOpen(k, g)
  BY DEF Groups!SuiteConfigs, Groups!InitSuite, Groups!Suites, ChestOpen
<1>2. ChestOpen(k, g) \in BOOLEAN
  BY DEF ChestOpen
<1> HIDE DEF cs
<1>3. GroupSound(Groups!CreateAll(r, g, u, cs), ChestOpen(k, g))
  BY <1>1, <1>2, CreateSound
<1> QED BY <1>3 DEF cs, Groups!AddSuite

\* AddSceneGroup loads a group whose suites are sound.
LEMMA AddedSound ==
  ASSUME NEW r, NEW g \in SceneGroups, GroupSound(r, ChestOpen(kills, g))
  PROVE  GroupSound(Groups!AddSceneGroup(r, g), ChestOpen(kills, g))
<1>1. Groups!InitSuite = 1 /\ 1 \in Groups!Suites
  BY DEF Groups!InitSuite, Groups!Suites
<1> QED BY <1>1, SuiteSound DEF Groups!AddSceneGroup

\* A group that is not loaded is sound.
LEMMA NoGroupSound == \A opened \in BOOLEAN : GroupSound(Groups!NoGroup, opened)
BY DEF GroupSound, GroupType, HeldType, Groups!NoGroup, Groups!Empty, Groups!SuiteTotal, Groups!Suites,
       Groups!Configs

\* RemoveSceneGroup takes out what the group put in.
LEMMA RemovedSound ==
  ASSUME NEW r, NEW opened \in BOOLEAN, GroupSound(r, opened)
  PROVE  GroupSound(Groups!RemoveSceneGroup(r), opened)
<1> DEFINE t == Groups!RemoveSceneGroup(r)
<1>1. \A c \in Groups!Configs : r.there[c] - Groups!SuiteTotal(r, c) = 0
  BY DEF GroupSound, GroupType
<1>2. [c \in Groups!Configs |-> r.there[c] - Groups!SuiteTotal(r, c)] = Groups!Empty
  BY <1>1 DEF Groups!Empty
<1>3. t = Groups!NoGroup
  BY <1>2 DEF Groups!RemoveSceneGroup, Groups!NoGroup
<1> QED BY <1>3, NoGroupSound

\* Groups that are unloaded and loaded.
LEMMA GroupsAdded ==
  ASSUME NEW s \in [SceneGroups -> GroupType], NEW gs,
         \A g \in SceneGroups : GroupSound(s[g], ChestOpen(kills, g))
  PROVE  /\ Groups!AddGroups(s, gs) \in [SceneGroups -> GroupType]
         /\ \A g \in SceneGroups : GroupSound(Groups!AddGroups(s, gs)[g], ChestOpen(kills, g))
<1>1. \A g \in SceneGroups : GroupSound(Groups!AddSceneGroup(s[g], g), ChestOpen(kills, g))
  BY AddedSound
<1>2. \A g \in SceneGroups : Groups!AddSceneGroup(s[g], g) \in GroupType
  BY <1>1 DEF GroupSound
<1> QED BY <1>1, <1>2 DEF Groups!AddGroups
\* RemoveGroups leaves every group sound.
LEMMA GroupsRemoved ==
  ASSUME NEW s \in [SceneGroups -> GroupType], NEW gs,
         \A g \in SceneGroups : GroupSound(s[g], ChestOpen(kills, g))
  PROVE  /\ Groups!RemoveGroups(s, gs) \in [SceneGroups -> GroupType]
         /\ \A g \in SceneGroups : GroupSound(Groups!RemoveGroups(s, gs)[g], ChestOpen(kills, g))
<1>1. \A g \in SceneGroups : GroupSound(Groups!RemoveSceneGroup(s[g]), ChestOpen(kills, g))
  <2>1. \A g \in SceneGroups : ChestOpen(kills, g) \in BOOLEAN
    BY DEF ChestOpen
  <2> QED BY <2>1, RemovedSound
<1>2. \A g \in SceneGroups : Groups!RemoveSceneGroup(s[g]) \in GroupType
  BY <1>1 DEF GroupSound
<1> QED BY <1>1, <1>2 DEF Groups!RemoveGroups

\* What is killed leaves the scene and its suite, and a monster's death may bring the second
\* suite.
LEMMA EntityGone ==
  ASSUME NEW r, NEW opened \in BOOLEAN, GroupSound(r, opened), NEW c \in Groups!Configs,
         NEW t \in Groups!GroupDestroyEntity(Groups!DestroyEntity(r, c), c)
  PROVE  GroupSound(t, opened \/ c = "chest")
<1> DEFINE d == Groups!DestroyEntity(r, c)
<1>1. /\ r.loaded \subseteq Groups!Suites /\ r.suites \in HeldType /\ r.pulled \in BOOLEAN
      /\ r.there \in [Groups!Configs -> Int]
  BY DEF GroupSound, GroupType
<1>2. r = [loaded |-> r.loaded, suites |-> r.suites, there |-> r.there, pulled |-> r.pulled]
  BY DEF GroupSound, GroupType
<1>3. /\ d = [r EXCEPT !.there = [r.there EXCEPT ![c] = @ - 1]] /\ d.suites = r.suites
      /\ d \in GroupType
  BY <1>1, <1>2 DEF Groups!DestroyEntity, GroupType
<1>4. PICK u \in Groups!Suites : r.suites[u][c] > 0 /\ t = [d EXCEPT !.suites[u][c] = @ - 1]
  BY <1>3 DEF Groups!GroupDestroyEntity, Groups!FromSuite
<1>5. /\ r.suites[u] \in [Groups!Configs -> Nat] /\ r.suites[u][c] - 1 \in Nat
  BY <1>1, <1>4 DEF HeldType
<1>6. t.suites \in HeldType /\ \A v \in Groups!Suites, x \in Groups!Configs :
        t.suites[v][x] = IF v = u /\ x = c THEN r.suites[v][x] - 1 ELSE r.suites[v][x]
  BY <1>1, <1>3, <1>4, <1>5 DEF HeldType, GroupType
<1>7. t.there \in [Groups!Configs -> Int] /\ \A x \in Groups!Configs :
        t.there[x] = IF x = c THEN r.there[x] - 1 ELSE r.there[x]
  BY <1>1, <1>2, <1>3, <1>4 DEF GroupType
<1>8. t \in GroupType /\ t.loaded = r.loaded
  BY <1>1, <1>3, <1>4, <1>6, <1>7 DEF GroupType
<1>9. ASSUME NEW x \in Groups!Configs PROVE t.there[x] = Groups!SuiteTotal(t, x)
  <2>1. r.suites[1][x] \in Nat /\ r.suites[2][x] \in Nat /\ r.there[x] = r.suites[1][x] + r.suites[2][x]
    BY <1>1 DEF HeldType, GroupSound, Groups!SuiteTotal, Groups!Suites
  <2> QED BY <1>6, <1>7, <2>1 DEF Groups!SuiteTotal, Groups!Suites
<1>10. "chest" \in Groups!Configs /\ r.suites[1]["chest"] \in 0..1 /\ r.suites[2]["chest"] = 0
  BY <1>1 DEF Groups!Configs, HeldType, Groups!Suites, GroupSound
<1>11. /\ t.suites[1]["chest"] <= 1 /\ t.suites[2]["chest"] = 0
       /\ t.loaded = {} \/ (opened \/ c = "chest") => t.suites[1]["chest"] = 0
  <2>a. (c = "chest" => u = 1 /\ r.suites[1]["chest"] = 1) /\ 1 \in Groups!Suites /\ 2 \in Groups!Suites
    BY <1>4, <1>10 DEF Groups!Suites
  <2>b. /\ t.suites[2]["chest"] = IF u = 2 /\ c = "chest" THEN 0 - 1 ELSE 0
        /\ t.suites[1]["chest"] = IF u = 1 /\ c = "chest" THEN r.suites[1]["chest"] - 1
                                                           ELSE r.suites[1]["chest"]
    BY <1>6, <1>10, <2>a
  <2>1. t.suites[2]["chest"] = 0 /\ t.suites[1]["chest"] \in 0..1
    BY <1>10, <2>a, <2>b
  <2>2. c = "chest" => t.suites[1]["chest"] = 0
    BY <1>10, <2>a, <2>b
  <2>3. t.loaded = {} \/ opened => t.suites[1]["chest"] = 0
    BY <1>8, <1>10, <2>a, <2>b DEF GroupSound
  <2> QED BY <2>1, <2>2, <2>3
<1> QED BY <1>8, <1>9, <1>11 DEF GroupSound

\* Killing an entity leaves its group sound.
LEMMA KillSound ==
  ASSUME SceneInv, NEW p, NEW g \in SceneGroups, NEW c \in Groups!Configs, Groups!KillEntity(p, g, c)
  PROVE  /\ kills' \in [Visitors -> SUBSET (SceneGroups \X Groups!Configs)]
         /\ scene' \in [SceneGroups -> GroupType]
         /\ \A h \in SceneGroups : /\ GroupSound(scene'[h], ChestOpen(kills', h))
                                   /\ ChestOpen(kills, h) => ChestOpen(kills', h)
         /\ scene[g].there[c] > 0 /\ c = "chest" => ChestOpen(kills', g) /\ ~ChestOpen(kills, g)
<1>1. Host \in Visitors
  BY Groups!SceneAssumption DEF Groups!SceneAssumption
<1>2. /\ kills' = [kills EXCEPT ![Host] = @ \cup {<<g, c>>}]
      /\ kills' \in [Visitors -> SUBSET (SceneGroups \X Groups!Configs)]
  BY <1>1 DEF SceneInv, Groups!KillEntity, Groups!AddKill
<1>3. \A h \in SceneGroups : ChestOpen(kills', h) <=> ChestOpen(kills, h) \/ (h = g /\ c = "chest")
  BY <1>1, <1>2 DEF SceneInv, ChestOpen
<1>4. PICK r \in Groups!GroupDestroyEntity(Groups!DestroyEntity(scene[g], c), c) :
        scene' = [scene EXCEPT ![g] = IF c \in {"monster", "late"}
                                      THEN Groups!MonsterDieTrigger(r, kills', g) ELSE r]
  BY DEF Groups!KillEntity
<1> DEFINE t == IF c \in {"monster", "late"} THEN Groups!MonsterDieTrigger(r, kills', g) ELSE r
<1>5. GroupSound(r, ChestOpen(kills', g))
  <2>1. ChestOpen(kills, g) \in BOOLEAN /\ GroupSound(scene[g], ChestOpen(kills, g))
    BY DEF ChestOpen, SceneInv
  <2>2. GroupSound(r, ChestOpen(kills, g) \/ c = "chest")
    BY <2>1, EntityGone
  <2> QED BY <1>3, <2>2 DEF GroupSound
<1>6. GroupSound(t, ChestOpen(kills', g))
  <2>1. GroupSound(Groups!AddSuite(r, kills', g, 2), ChestOpen(kills', g))
    BY <1>5, SuiteSound DEF Groups!Suites
  <2> QED BY <1>5, <2>1 DEF Groups!MonsterDieTrigger
<1>7. scene' = [scene EXCEPT ![g] = t]
  BY <1>4
<1> HIDE DEF t
<1>8. \A h \in SceneGroups : scene'[h] = IF h = g THEN t ELSE scene[h]
  BY <1>7 DEF SceneInv
<1>9. scene' \in [SceneGroups -> GroupType]
  BY <1>6, <1>7 DEF SceneInv, GroupSound
<1>10. ASSUME NEW h \in SceneGroups PROVE GroupSound(scene'[h], ChestOpen(kills', h))
  <2>1. CASE h = g
    BY <1>6, <1>8, <2>1
  <2>2. CASE h # g
    BY <1>3, <1>8, <2>2 DEF SceneInv, GroupSound
  <2> QED BY <2>1, <2>2
<1>11. ASSUME scene[g].there[c] > 0, c = "chest" PROVE ChestOpen(kills', g) /\ ~ChestOpen(kills, g)
  <2>1. scene[g].there["chest"] = scene[g].suites[1]["chest"] + scene[g].suites[2]["chest"]
        /\ GroupSound(scene[g], ChestOpen(kills, g))
    BY <1>11 DEF SceneInv, GroupSound, Groups!SuiteTotal
  <2>2. ASSUME ChestOpen(kills, g) PROVE FALSE
    BY <1>11, <2>1, <2>2 DEF GroupSound
  <2> QED BY <1>3, <1>11, <2>2
<1> QED BY <1>2, <1>3, <1>9, <1>10, <1>11

\* Every request of the scene's players keeps it.
LEMMA SceneStep == ASSUME SceneInv, Groups!Next PROVE SceneInv'
<1>1. ASSUME UNCHANGED <<scene, kills, paid>> PROVE SceneInv'
  BY <1>1 DEF SceneInv
<1>2. ASSUME UNCHANGED <<kills, paid>>, scene' \in [SceneGroups -> GroupType],
             \A g \in SceneGroups : GroupSound(scene'[g], ChestOpen(kills, g))
      PROVE  SceneInv'
  BY <1>2 DEF SceneInv
<1>3. ASSUME NEW p, Groups!EnterWorld(p) PROVE SceneInv'
  BY <1>1, <1>3 DEF Groups!EnterWorld, Groups!records
<1>4. ASSUME Groups!HostEnterMpWorld PROVE SceneInv'
  BY <1>1, <1>4 DEF Groups!HostEnterMpWorld, Groups!records
<1>5. ASSUME NEW p, Groups!LeaveWorld(p) PROVE SceneInv'
  <2>1. UNCHANGED <<kills, paid>> /\ scene' \in {Groups!NoScene, scene}
    BY <1>5 DEF Groups!LeaveWorld, Groups!records
  <2>2. \A g \in SceneGroups : GroupSound(Groups!NoGroup, ChestOpen(kills, g))
    <3>1. \A g \in SceneGroups : ChestOpen(kills, g) \in BOOLEAN
      BY DEF ChestOpen
    <3> QED BY <3>1, NoGroupSound
  <2>3. \A g \in SceneGroups : Groups!NoGroup \in GroupType
    BY <2>2 DEF GroupSound
  <2>4. scene' \in [SceneGroups -> GroupType]
    BY <2>1, <2>3 DEF Groups!NoScene, SceneInv
  <2>5. \A g \in SceneGroups : GroupSound(scene'[g], ChestOpen(kills, g))
    BY <2>1, <2>2 DEF Groups!NoScene, SceneInv
  <2> QED BY <1>2, <2>1, <2>4, <2>5
<1>6. ASSUME NEW p, NEW at, Groups!TeleportPlayer(p, at) PROVE SceneInv'
  BY <1>1, <1>6 DEF Groups!TeleportPlayer, Groups!records
<1>7. ASSUME NEW p, Groups!EnterSceneReadyReq(p) PROVE SceneInv'
  <2>1. UNCHANGED <<kills, paid>> /\ \E gs : scene' = Groups!RemoveGroups(scene, gs)
    BY <1>7 DEF Groups!EnterSceneReadyReq, Groups!records
  <2> QED BY <1>2, <2>1, GroupsRemoved DEF SceneInv
<1>8. ASSUME NEW p, Groups!EnterSceneDoneReq(p) PROVE SceneInv'
  <2>1. UNCHANGED <<kills, paid>> /\ \E gs : scene' = Groups!AddGroups(scene, gs)
    BY <1>8 DEF Groups!EnterSceneDoneReq, Groups!records
  <2> QED BY <1>2, <2>1, GroupsAdded DEF SceneInv
<1>9. ASSUME NEW p, NEW at, Groups!EntityMove(p, at) PROVE SceneInv'
  <2>1. UNCHANGED <<kills, paid>>
    BY <1>9 DEF Groups!EntityMove, Groups!records
  <2>2. ASSUME NEW gs, NEW hs, scene' = Groups!AddGroups(Groups!RemoveGroups(scene, gs), hs)
        PROVE  SceneInv'
    <3>1. /\ Groups!RemoveGroups(scene, gs) \in [SceneGroups -> GroupType]
          /\ \A g \in SceneGroups : GroupSound(Groups!RemoveGroups(scene, gs)[g], ChestOpen(kills, g))
      BY GroupsRemoved DEF SceneInv
    <3> QED BY <1>2, <2>1, <2>2, <3>1, GroupsAdded
  <2>3. (\E gs, hs : scene' = Groups!AddGroups(Groups!RemoveGroups(scene, gs), hs)) \/ scene' = scene
    BY <1>9 DEF Groups!EntityMove
  <2> QED BY <1>1, <2>1, <2>2, <2>3
<1>10. ASSUME NEW p, NEW g \in SceneGroups, NEW c \in Groups!Configs, Groups!BeingHit(p, g, c)
       PROVE  SceneInv'
  <2>1. Groups!KillEntity(p, g, c) /\ UNCHANGED paid
    BY <1>10 DEF Groups!BeingHit
  <2> QED BY <2>1, KillSound DEF SceneInv
<1>11. ASSUME NEW p, NEW g \in SceneGroups, Groups!GadgetInteractReq(p, g) PROVE SceneInv'
  <2>1. /\ Groups!KillEntity(p, g, "chest") /\ scene[g].there["chest"] > 0
        /\ paid' = [paid EXCEPT ![g] = @ + 1] /\ "chest" \in Groups!Configs
    BY <1>11 DEF Groups!GadgetInteractReq, Groups!Reaches, Groups!Configs
  <2>2. ChestOpen(kills', g) /\ ~ChestOpen(kills, g)
    BY <2>1, KillSound
  <2>3. paid[g] = 0
    BY <2>2 DEF SceneInv
  <2>4. paid' \in [SceneGroups -> 0..1] /\ \A h \in SceneGroups : h # g => paid'[h] = paid[h]
    BY <2>1, <2>3 DEF SceneInv
  <2> QED BY <2>1, <2>2, <2>4, KillSound DEF SceneInv
<1>12. ASSUME NEW p, NEW g \in SceneGroups, Groups!ChangeGadgetState(p, g) PROVE SceneInv'
  <2>1. UNCHANGED <<kills, paid>> /\ scene' = [scene EXCEPT ![g].pulled = TRUE]
    BY <1>12 DEF Groups!ChangeGadgetState
  <2>2. /\ scene' \in [SceneGroups -> GroupType]
        /\ \A h \in SceneGroups : /\ scene'[h].loaded = scene[h].loaded
                                  /\ scene'[h].suites = scene[h].suites
                                  /\ scene'[h].there = scene[h].there
    BY <2>1 DEF SceneInv, GroupType
  <2>3. \A h \in SceneGroups : GroupSound(scene'[h], ChestOpen(kills, h))
    BY <2>2 DEF SceneInv, GroupSound, Groups!SuiteTotal
  <2> QED BY <1>2, <2>1, <2>2, <2>3
<1>13. ASSUME NEW p, NEW g \in SceneGroups, Groups!SceneGroupCreateEntity(p, g) PROVE SceneInv'
  <2> DEFINE t == Groups!CreateAll(scene[g], g, Groups!InitSuite, {"late"})
  <2>1. UNCHANGED <<kills, paid>> /\ scene' = [scene EXCEPT ![g] = t]
    BY <1>13 DEF Groups!SceneGroupCreateEntity, Groups!records
  <2>2. GroupSound(t, ChestOpen(kills, g))
    <3>1. GroupSound(scene[g], ChestOpen(kills, g)) /\ ChestOpen(kills, g) \in BOOLEAN
      BY DEF SceneInv, ChestOpen
    <3>2. Groups!InitSuite \in Groups!Suites /\ "chest" \notin {"late"}
      BY DEF Groups!InitSuite, Groups!Suites
    <3> QED BY <3>1, <3>2, CreateSound
  <2> HIDE DEF t
  <2>3. t \in GroupType
    BY <2>2 DEF GroupSound
  <2>4. scene' \in [SceneGroups -> GroupType]
    BY <2>1, <2>3 DEF SceneInv
  <2>5. \A h \in SceneGroups : GroupSound(scene'[h], ChestOpen(kills, h))
    BY <2>1, <2>2 DEF SceneInv
  <2> QED BY <1>2, <2>1, <2>4, <2>5
<1> QED
  BY <1>3, <1>4, <1>5, <1>6, <1>7, <1>8, <1>9, <1>10, <1>11, <1>12, <1>13 DEF Groups!Next

\* The start of the scene.
LEMMA SceneStart == Groups!Init => SceneInv
<1>1. \A g \in SceneGroups : GroupSound(Groups!NoGroup, FALSE) /\ Groups!NoGroup \in GroupType
  BY NoGroupSound DEF GroupSound
<1>2. Host \in Visitors
  BY Groups!SceneAssumption DEF Groups!SceneAssumption
<1> SUFFICES ASSUME Groups!Init PROVE SceneInv
  OBVIOUS
<1>3. /\ scene = Groups!NoScene /\ kills = [p \in Visitors |-> {}] /\ paid = [g \in SceneGroups |-> 0]
  BY DEF Groups!Init
<1>4. \A g \in SceneGroups : ~ChestOpen(kills, g)
  BY <1>2, <1>3 DEF ChestOpen
<1>5. \A g \in SceneGroups : GroupSound(scene[g], ChestOpen(kills, g))
  BY <1>1, <1>3, <1>4 DEF Groups!NoScene, GroupSound
<1>6. scene \in [SceneGroups -> GroupType]
  BY <1>1, <1>3 DEF Groups!NoScene
<1> QED BY <1>3, <1>5, <1>6 DEF SceneInv
\* The two properties of the scene.
LEMMA SceneHolds == SceneInv => Groups!ChestPaysOnce /\ Groups!SuitesAgree
BY DEF SceneInv, GroupSound, Groups!ChestPaysOnce, Groups!SuitesAgree
-----------------------------------------------------------------------------
(* Quests: what a quest waited for opens it.                                *)

Tasks == ({"start"} \X QuestIds) \cup ({"notify"} \X UNION {StartFires[q] : q \in QuestIds})
         \cup {<<"accept">>}
Begun == \E q \in QuestIds : Quests!Has(state, q)
\* Whether the quest is to be started, by what is on the list.
OnList(list, x) == \E i \in DOMAIN list : list[i] = x
ToStart(list, q) == OnList(list, <<"start", q>>)
\* No quest waits for nothing but finished ones.
Opened(st) == \A q \in QuestIds :
  Quests!OnlyFinished(q) /\ Quests!CanAccept(st, q) => Quests!Has(st, q)
QuestInv ==
  /\ state \in [QuestIds -> Quests!States] /\ agenda \in Seq(Tasks)
  /\ \A q \in QuestIds : state[q] = "unstarted" => ToStart(agenda, q)
  /\ Begun => Opened(state)
  /\ present => Begun

\* The module counts as FiniteSets does.
LEMMA QuestCounts ==
  ASSUME NEW S PROVE /\ Quests!Cardinality(S) = Cardinality(S)
                     /\ Quests!IsFiniteSet(S) <=> IsFiniteSet(S)
BY DEF Quests!Cardinality, Cardinality, Quests!IsFiniteSet, IsFiniteSet

\* Lists.
LEMMA OrdersAre ==
  ASSUME NEW S, Quests!IsFiniteSet(S), NEW list \in Quests!Orders(S)
  PROVE  list \in Seq(S) /\ \A x \in S : \E i \in 1..Len(list) : list[i] = x
<1>1. Quests!Cardinality(S) \in Nat
  BY QuestCounts, FS_CardinalityType
<1> QED BY <1>1 DEF Quests!Orders
\* A list that is appended to another.
LEMMA ListJoined ==
  ASSUME NEW S, NEW a \in Seq(S), NEW b \in Seq(S)
  PROVE  /\ a \o b \in Seq(S)
         /\ \A x : OnList(a, x) \/ OnList(b, x) => OnList(a \o b, x)
<1>1. a \o b \in Seq(S) /\ DOMAIN (a \o b) = 1..(Len(a) + Len(b))
  OBVIOUS
<1>2. ASSUME NEW i \in DOMAIN a PROVE i \in DOMAIN (a \o b) /\ (a \o b)[i] = a[i]
  BY <1>1
<1>3. ASSUME NEW i \in DOMAIN b PROVE Len(a) + i \in DOMAIN (a \o b) /\ (a \o b)[Len(a) + i] = b[i]
  BY <1>1
<1> QED BY <1>1, <1>2, <1>3 DEF OnList
\* The list without its first task.
LEMMA ListTail ==
  ASSUME NEW S, NEW a \in Seq(S), a # <<>>
  PROVE  /\ Tail(a) \in Seq(S) /\ Head(a) \in S
         /\ \A x : OnList(a, x) => x = Head(a) \/ OnList(Tail(a), x)
<1>1. Tail(a) \in Seq(S) /\ Head(a) \in S /\ Head(a) = a[1] /\ DOMAIN a = 1..Len(a)
      /\ DOMAIN Tail(a) = 1..(Len(a) - 1) /\ Len(a) \in Nat
  OBVIOUS
<1>2. ASSUME NEW i \in DOMAIN a, i # 1 PROVE i - 1 \in DOMAIN Tail(a) /\ Tail(a)[i - 1] = a[i]
  BY <1>1, <1>2
<1> QED BY <1>1, <1>2 DEF OnList

\* What is accepted in a pass is no finished quest: it changes nothing for those that wait for
\* finished ones only.
LEMMA PassOpensNone ==
  ASSUME NEW st \in [QuestIds -> Quests!States], NEW q \in QuestIds, Quests!OnlyFinished(q),
         NEW qs, \A x \in qs : x \in QuestIds => ~Quests!Has(st, x)
  PROVE  Quests!CanAccept(Quests!Accepted(st, qs), q) <=> Quests!CanAccept(st, q)
<1>1. ASSUME NEW c \in AcceptOf[q]
      PROVE  Quests!Holds(Quests!Accepted(st, qs), c) <=> Quests!Holds(st, c)
  <2>1. c[1] \in QuestIds /\ c[2] = "equal" /\ c[3] = "finished"
    BY <1>1, Quests!QuestAssumption DEF Quests!QuestAssumption, Quests!OnlyFinished
  <2>2. Quests!Accepted(st, qs)[c[1]] = IF c[1] \in qs THEN "unstarted" ELSE st[c[1]]
    BY <2>1 DEF Quests!Accepted
  <2> QED BY <2>1, <2>2 DEF Quests!Holds, Quests!Has
<1> QED BY <1>1 DEF Quests!CanAccept

\* AcceptQuest leaves nothing that could be accepted and waits for finished quests only, and
\* starts all it has accepted.
LEMMA AcceptOpens ==
  ASSUME NEW st \in [QuestIds -> Quests!States], NEW rest \in Seq(Tasks),
         \A q \in QuestIds : st[q] = "unstarted" => ToStart(rest, q),
         Quests!AcceptQuest(st, rest)
  PROVE  /\ state' \in [QuestIds -> Quests!States] /\ agenda' \in Seq(Tasks)
         /\ \A q \in QuestIds : state'[q] = "unstarted" => ToStart(agenda', q)
         /\ Opened(state')
         /\ \A q \in QuestIds : Quests!Has(st, q) => Quests!Has(state', q)
<1>a. PICK new \in SUBSET {q \in QuestIds : ~Quests!Has(st, q)} :
        \E list \in Quests!Orders(new) :
          /\ Quests!Pass(st, list)
          /\ state' = Quests!Accepted(st, new)
          /\ agenda' = [i \in 1..Len(list) |-> <<"start", list[i]>>] \o rest
  BY DEF Quests!AcceptQuest
<1>1. PICK list \in Quests!Orders(new) :
        /\ Quests!Pass(st, list)
        /\ state' = Quests!Accepted(st, new)
        /\ agenda' = [i \in 1..Len(list) |-> <<"start", list[i]>>] \o rest
  BY <1>a
<1> DEFINE starts == [i \in 1..Len(list) |-> <<"start", list[i]>>]
<1>2. list \in Seq(new) /\ \A q \in new : \E i \in 1..Len(list) : list[i] = q
  <2>1. Quests!IsFiniteSet(new)
    BY Quests!QuestAssumption, QuestCounts, FS_Subset DEF Quests!QuestAssumption
  <2> QED BY <1>1, <2>1, OrdersAre
<1>3. /\ starts \in Seq(Tasks) /\ DOMAIN starts = 1..Len(list)
      /\ \A i \in 1..Len(list) : starts[i] = <<"start", list[i]>>
  BY <1>1, <1>2 DEF Tasks
<1>s. agenda' = starts \o rest
  BY <1>1
<1> HIDE DEF starts
<1>4. \A x : OnList(starts, x) \/ OnList(rest, x) => OnList(agenda', x)
  BY <1>s, <1>3, ListJoined
<1>5. agenda' \in Seq(Tasks)
  BY <1>s, <1>3, ListJoined
<1>6. /\ state' \in [QuestIds -> Quests!States]
      /\ \A q \in QuestIds : state'[q] = IF q \in new THEN "unstarted" ELSE st[q]
  BY <1>1 DEF Quests!Accepted, Quests!States
<1>7. ASSUME NEW q \in QuestIds, state'[q] = "unstarted" PROVE ToStart(agenda', q)
  <2>1. CASE q \in new
    <3>1. PICK i \in 1..Len(list) : list[i] = q
      BY <1>2, <2>1
    <3>2. OnList(starts, <<"start", q>>)
      BY <1>3, <3>1 DEF OnList
    <3> QED BY <1>4, <3>2 DEF ToStart
  <2>2. CASE q \notin new
    BY <1>4, <1>6, <1>7, <2>2 DEF ToStart
  <2> QED BY <2>1, <2>2
<1>8. ASSUME NEW q \in QuestIds, Quests!OnlyFinished(q), Quests!CanAccept(state', q),
             ~Quests!Has(state', q)
      PROVE  FALSE
  <2>1. ~Quests!Has(st, q) /\ q \notin new
    BY <1>6, <1>8 DEF Quests!Has
  <2>2. q \notin Quests!First(list, Len(list))
    BY <1>2, <2>1 DEF Quests!First
  <2>3. PICK k \in 0..Len(list) : ~Quests!CanAccept(Quests!Accepted(st, Quests!First(list, k)), q)
    BY <1>1, <2>1, <2>2 DEF Quests!Pass
  <2>4. Quests!First(list, k) \subseteq new
    BY <1>2 DEF Quests!First
  <2>5. ~Quests!CanAccept(st, q)
    BY <1>1, <1>8, <2>3, <2>4, PassOpensNone
  <2> QED BY <1>1, <1>8, <2>5, PassOpensNone
<1>9. \A q \in QuestIds : Quests!Has(st, q) => Quests!Has(state', q)
  BY <1>6 DEF Quests!Has
<1> QED BY <1>5, <1>6, <1>7, <1>8, <1>9 DEF Opened

\* The finish of quests that run, and every request about a state in which no quest waits.
LEMMA FinishKeeps ==
  ASSUME NEW st \in [QuestIds -> Quests!States], NEW qs
  PROVE  /\ Quests!ForceFinish(st, qs) \in [QuestIds -> Quests!States]
         /\ \A q \in QuestIds : /\ Quests!ForceFinish(st, qs)[q] = "unstarted" => st[q] = "unstarted"
                                /\ Quests!Has(st, q) => Quests!Has(Quests!ForceFinish(st, qs), q)
BY DEF Quests!ForceFinish, Quests!Has, Quests!States

\* What has to be kept while nothing is finished or accepted: states only go on from
\* unstarted to unfinished.
LEMMA OpenedStays ==
  ASSUME QuestInv, state' \in [QuestIds -> Quests!States],
         \A q \in QuestIds : \/ state'[q] = state[q]
                             \/ state[q] \in {"none", "unstarted"} /\ state'[q] = "unfinished",
         Begun
  PROVE  Begun' /\ Opened(state')
<1>1. ASSUME NEW q \in QuestIds PROVE Quests!Has(state, q) => Quests!Has(state', q)
  BY DEF QuestInv, Quests!Has
<1>2. ASSUME NEW q \in QuestIds, Quests!OnlyFinished(q), Quests!CanAccept(state', q)
      PROVE  Quests!CanAccept(state, q)
  <2>1. ASSUME NEW c \in AcceptOf[q], Quests!Holds(state', c) PROVE Quests!Holds(state, c)
    <3>1. c[1] \in QuestIds /\ c[2] = "equal" /\ c[3] = "finished"
      BY <1>2, <2>1, Quests!QuestAssumption DEF Quests!QuestAssumption, Quests!OnlyFinished
    <3> QED BY <2>1, <3>1 DEF Quests!Holds, Quests!Has
  <2> QED BY <1>2, <2>1 DEF Quests!CanAccept
<1> QED BY <1>1, <1>2 DEF QuestInv, Begun, Opened

\* AcceptQuest keeps the invariant.
LEMMA AcceptKeeps ==
  ASSUME QuestInv, NEW st \in [QuestIds -> Quests!States], NEW rest \in Seq(Tasks),
         \A q \in QuestIds : st[q] = "unstarted" => ToStart(rest, q),
         \A q \in QuestIds : Quests!Has(state, q) => Quests!Has(st, q),
         Quests!AcceptQuest(st, rest), UNCHANGED present
  PROVE  QuestInv'
BY AcceptOpens DEF QuestInv, Begun

\* TriggerQuest keeps it.
LEMMA TriggerKeeps ==
  ASSUME QuestInv, NEW e, NEW rest \in Seq(Tasks), Quests!TriggerQuest(e, rest), UNCHANGED present,
         \A q \in QuestIds : state[q] = "unstarted" => ToStart(rest, q)
  PROVE  QuestInv'
<1>1. CASE Quests!Waiting(state, e) = {}
  BY <1>1 DEF Quests!TriggerQuest, QuestInv, Begun
<1>2. CASE Quests!Waiting(state, e) # {}
  <2> DEFINE st == Quests!ForceFinish(state, Quests!Waiting(state, e))
  <2>1. Quests!AcceptQuest(st, rest)
    BY <1>2 DEF Quests!TriggerQuest
  <2>2. /\ st \in [QuestIds -> Quests!States]
        /\ \A q \in QuestIds : /\ st[q] = "unstarted" => state[q] = "unstarted"
                               /\ Quests!Has(state, q) => Quests!Has(st, q)
    BY FinishKeeps DEF QuestInv
  <2> HIDE DEF st
  <2> QED BY <2>1, <2>2, AcceptKeeps
<1> QED BY <1>1, <1>2

\* Every request and every step of a handler keeps it.
LEMMA QuestStep == ASSUME QuestInv, Quests!Next PROVE QuestInv'
<1>r. ASSUME Quests!AtRest
      PROVE  agenda = <<>> /\ <<>> \in Seq(Tasks) /\ \A q \in QuestIds : state[q] # "unstarted"
  BY <1>r DEF QuestInv, ToStart, OnList, Quests!AtRest
<1>t. ASSUME ~Quests!AtRest
      PROVE  /\ Tail(agenda) \in Seq(Tasks) /\ Head(agenda) \in Tasks
             /\ \A q \in QuestIds : state[q] = "unstarted" =>
                  Head(agenda) = <<"start", q>> \/ ToStart(Tail(agenda), q)
  BY <1>t, ListTail DEF QuestInv, ToStart, Quests!AtRest
<1>1. ASSUME Quests!StartQuest PROVE QuestInv'
  <2>1. PICK order \in Quests!Orders(Quests!Scripts(Head(agenda)[2])) :
          agenda' = [i \in 1..Len(order) |-> <<"notify", order[i]>>] \o Tail(agenda)
    BY <1>1 DEF Quests!StartQuest
  <2>2. PICK q \in QuestIds : Head(agenda) = <<"start", q>>
    BY <1>1, <1>t DEF Quests!StartQuest, Tasks
  <2> DEFINE heard1 == [i \in 1..Len(order) |-> <<"notify", order[i]>>]
  <2>3. order \in Seq(StartFires[q])
    <3>1. Quests!IsFiniteSet(Quests!Scripts(q)) /\ Quests!Scripts(q) \subseteq StartFires[q]
      <4>1. Quests!Scripts(q) \in {{}, StartFires[q]}
        BY DEF Quests!Scripts
      <4> QED BY <4>1, Quests!QuestAssumption, QuestCounts, FS_EmptySet DEF Quests!QuestAssumption
    <3>2. order \in Seq(Quests!Scripts(q))
      BY <2>2, <3>1, OrdersAre
    <3> QED BY <3>1, <3>2
  <2>4. heard1 \in Seq(Tasks)
    BY <2>3 DEF Tasks
  <2>5. agenda' = heard1 \o Tail(agenda)
    BY <2>1
  <2> HIDE DEF heard1
  <2>6. agenda' \in Seq(Tasks) /\ \A x : OnList(Tail(agenda), x) => OnList(agenda', x)
    BY <1>1, <1>t, <2>4, <2>5, ListJoined DEF Quests!StartQuest
  <2>7. /\ state' = [state EXCEPT ![q] = IF @ = "unstarted" THEN "unfinished" ELSE @]
        /\ present' = present /\ ~Quests!AtRest
    <3>1. Head(agenda)[2] = q
      BY <2>2
    <3>2. state' = Quests!Started(q) /\ present' = present /\ ~Quests!AtRest
      BY <1>1, <3>1 DEF Quests!StartQuest
    <3> QED BY <3>2 DEF Quests!Started
  <2>8. state' \in [QuestIds -> Quests!States]
    BY <2>7 DEF QuestInv, Quests!States
  <2>9. ASSUME NEW r \in QuestIds, state'[r] = "unstarted" PROVE ToStart(agenda', r)
    <3>1. state[r] = "unstarted" /\ r # q
      BY <2>7, <2>9 DEF QuestInv
    <3>2. ToStart(Tail(agenda), r)
      BY <1>t, <2>2, <2>7, <3>1
    <3> QED BY <2>6, <3>2 DEF ToStart
  <2>10. Begun => Begun' /\ Opened(state')
    <3>1. \A r \in QuestIds : \/ state'[r] = state[r]
                              \/ state[r] \in {"none", "unstarted"} /\ state'[r] = "unfinished"
      BY <2>7 DEF QuestInv
    <3> QED BY <2>8, <3>1, OpenedStays
  <2>11. Begun' => Begun
    BY <2>7 DEF QuestInv, Begun, Quests!Has
  <2> QED BY <2>6, <2>7, <2>8, <2>9, <2>10, <2>11 DEF QuestInv
<1>2. ASSUME Quests!NotifyQuest PROVE QuestInv'
  <2>1. \A q \in QuestIds : Head(agenda) # <<"start", q>>
    BY <1>2 DEF Quests!NotifyQuest
  <2> QED BY <1>2, <1>t, <2>1, TriggerKeeps DEF Quests!NotifyQuest
<1>3. ASSUME Quests!AcceptAgain PROVE QuestInv'
  <2>1. \A q \in QuestIds : Head(agenda) # <<"start", q>>
    BY <1>3 DEF Quests!AcceptAgain
  <2> QED BY <1>3, <1>t, <2>1, AcceptKeeps DEF Quests!AcceptAgain, QuestInv
<1>4. ASSUME Quests!SetPlayerBornDataReq PROVE QuestInv'
  BY <1>4, <1>r, AcceptKeeps DEF Quests!SetPlayerBornDataReq, QuestInv
<1>5. ASSUME Quests!CreateWorld \/ Quests!LeaveWorld PROVE QuestInv'
  BY <1>5 DEF Quests!CreateWorld, Quests!LeaveWorld, QuestInv, Begun
<1>6. ASSUME NEW e, NEW rest \in {<<>>, <<<<"accept">>>>}, Quests!AtRest, UNCHANGED present,
             Quests!TriggerQuest(e, rest)
      PROVE  QuestInv'
  <2>1. rest \in Seq(Tasks) /\ \A q \in QuestIds : state[q] # "unstarted"
    <3>1. <<"accept">> \in Tasks
      BY DEF Tasks
    <3>2. << <<"accept">> >> \in Seq(Tasks)
      BY <3>1
    <3> QED BY <1>6, <1>r, <3>2
  <2> QED BY <1>6, <2>1, TriggerKeeps
<1>7. ASSUME NEW e, \/ Quests!NpcTalkReq(e) \/ Quests!AddQuestContentProgressReq(e)
                    \/ Quests!UnlockTransPointReq(e)
      PROVE  QuestInv'
  BY <1>6, <1>7 DEF Quests!NpcTalkReq, Quests!AddQuestContentProgressReq, Quests!UnlockTransPointReq
<1>8. ASSUME NEW q \in QuestIds, Quests!GMAddQuest(q) PROVE QuestInv'
  <2>1. /\ state' = [state EXCEPT ![q] = IF @ \in {"none", "unstarted"} THEN "unfinished" ELSE @]
        /\ UNCHANGED <<agenda, present>> /\ present = TRUE
    BY <1>8 DEF Quests!GMAddQuest
  <2>2. state' \in [QuestIds -> Quests!States]
    BY <2>1 DEF QuestInv, Quests!States
  <2>3. \A r \in QuestIds : \/ state'[r] = state[r]
                            \/ state[r] \in {"none", "unstarted"} /\ state'[r] = "unfinished"
    BY <2>1 DEF QuestInv
  <2>4. Begun' /\ Opened(state')
    BY <2>1, <2>2, <2>3, OpenedStays DEF QuestInv
  <2> QED BY <2>1, <2>2, <2>3, <2>4 DEF QuestInv
<1>9. ASSUME NEW qs, Quests!GMFinishQuest(qs) PROVE QuestInv'
  <2>1. Quests!ForceFinish(state, qs) \in [QuestIds -> Quests!States]
    BY FinishKeeps DEF QuestInv
  <2>2. \A q \in QuestIds : /\ Quests!ForceFinish(state, qs)[q] # "unstarted"
                            /\ Quests!Has(state, q) => Quests!Has(Quests!ForceFinish(state, qs), q)
    BY <1>9, <1>r, FinishKeeps DEF QuestInv, Quests!GMFinishQuest
  <2> QED BY <1>9, <1>r, <2>1, <2>2, AcceptKeeps DEF Quests!GMFinishQuest
<1> QED BY <1>1, <1>2, <1>3, <1>4, <1>5, <1>7, <1>8, <1>9 DEF Quests!Next

\* The property in these words, and the start.
LEMMA QuestOpens == QuestInv => Quests!FinishOpensNext
BY DEF QuestInv, Quests!FinishOpensNext, Quests!AtRest, ToStart, OnList, Opened, Begun
\* The start of the quests.
LEMMA QuestStart == Quests!Init => QuestInv
BY DEF QuestInv, Quests!Init, Begun, Quests!Has, Quests!States
-----------------------------------------------------------------------------
(* The cells of the big world: those a player's cell is beside are those    *)
(* around its position.                                                     *)

\* Quotient and remainder, for any divisor.
LEMMA DivMod ==
  ASSUME NEW n \in Nat \ {0}, NEW a \in Int, NEW r \in 0..(n - 1)
  PROVE  (a * n + r) % n = r /\ (a * n + r) \div n = a
OBVIOUS
\* The cells along one axis.
LEMMA DivRange ==
  ASSUME NEW n \in Nat \ {0}, NEW m \in Nat \ {0}, NEW s \in Int, s > 0, s < m * n
  PROVE  s \div n \in 0..(m - 1)
OBVIOUS
\* A pair of coordinates as one number.
LEMMA PairRange ==
  ASSUME NEW n \in Nat \ {0}, NEW m \in Nat \ {0}, NEW x \in 0..(n - 1), NEW z \in 0..(m - 1)
  PROVE  z * n + x \in 0..(m * n - 1)
OBVIOUS

\* The constants of the big world.
LEMMA BigNums ==
  /\ NumX \in Nat \ {0} /\ NumY \in Nat \ {0} /\ NumZ \in Nat \ {0} /\ CellLength \in Nat \ {0}
  /\ NumX * NumZ \in Nat \ {0} /\ AreaLimit \in Nat /\ Sites \subseteq Int \X Int \X Int
<1>1. /\ NumX \in Nat \ {0} /\ NumY \in Nat \ {0} /\ NumZ \in Nat \ {0} /\ CellLength \in Nat \ {0}
      /\ AreaLimit \in Nat /\ Sites \subseteq Int \X Int \X Int
  BY Big!BigWorldAssumption DEF Big!BigWorldAssumption
<1>2. NumX * NumZ \in Nat \ {0}
  BY <1>1
<1> QED BY <1>1, <1>2

Beside1(x, n) == {i \in 0..(n - 1) : i - x \in -1..1}
Xs == 0..(NumX - 1)
Ys == 0..(NumY - 1)
Zs == 0..(NumZ - 1)

\* The parts of a gid.
LEMMA GidParts ==
  ASSUME NEW x \in Xs, NEW y \in Ys, NEW z \in Zs
  PROVE  LET g == Big!GidOf(x, y, z) IN
         /\ (g % (NumX * NumZ)) % NumX = x /\ (g % (NumX * NumZ)) \div NumX = z
         /\ g \div (NumX * NumZ) = y /\ g \in Big!Gids /\ g \in Int
<1> DEFINE m == NumX * NumZ
<1>1. z * NumX + x \in 0..(m - 1)
  BY BigNums, PairRange DEF Xs, Zs
<1>2. m \in Nat \ {0} /\ y \in Int /\ NumY \in Nat \ {0}
  BY BigNums DEF Ys
<1>3. Big!GidOf(x, y, z) = y * m + (z * NumX + x)
  BY BigNums DEF Big!GidOf, Xs, Ys, Zs
<1>4. NumX * NumY * NumZ = NumY * m
  BY BigNums
<1> DEFINE r == z * NumX + x
<1>5. r % NumX = x /\ r \div NumX = z
  BY BigNums, DivMod DEF Xs, Zs
<1>6. r \in 0..(m - 1)
  BY <1>1
<1> HIDE DEF m, r
<1>7. (y * m + r) % m = r /\ (y * m + r) \div m = y
  BY <1>2, <1>6, DivMod
<1>8. y * m + r \in 0..(NumY * m - 1)
  BY <1>2, <1>6, PairRange DEF Ys
<1>9. Big!GidOf(x, y, z) = y * m + r
  BY <1>3 DEF r
<1> QED BY <1>4, <1>5, <1>7, <1>8, <1>9 DEF m, Big!Gids

\* The cells along one axis.
LEMMA AlongEach ==
  ASSUME NEW x \in Xs, NEW y \in Ys, NEW z \in Zs
  PROVE  LET g == Big!GidOf(x, y, z) IN
         /\ Big!AlongX(g) = {Big!GidOf(i, y, z) : i \in Beside1(x, NumX)}
         /\ Big!AlongY(g) = {Big!GidOf(x, i, z) : i \in Beside1(y, NumY)}
         /\ Big!AlongZ(g) = {Big!GidOf(x, y, i) : i \in Beside1(z, NumZ)}
<1> DEFINE g == Big!GidOf(x, y, z)
<1> USE BigNums
<1>1. /\ (g % (NumX * NumZ)) % NumX = x /\ (g % (NumX * NumZ)) \div NumX = z
      /\ g \div (NumX * NumZ) = y /\ g \in Int
  BY GidParts
<1>2. x \in Int /\ y \in Int /\ z \in Int /\ x \in 0..(NumX - 1) /\ y \in 0..(NumY - 1) /\ z \in 0..(NumZ - 1)
  BY DEF Xs, Ys, Zs
<1>3. \A i \in Int : Big!GidOf(i, y, z) = g + (i - x)
  BY <1>2 DEF Big!GidOf
<1>4. \A i \in Int : Big!GidOf(x, y, i) = g + (i - z) * NumX
  BY <1>2 DEF Big!GidOf
<1>5. \A i \in Int : Big!GidOf(x, i, z) = g + (i - y) * (NumX * NumZ)
  BY <1>2 DEF Big!GidOf
<1> HIDE DEF g
<1>6. Big!AlongX(g) = {Big!GidOf(i, y, z) : i \in Beside1(x, NumX)}
  <2>1. Beside1(x, NumX) = {x} \cup (IF x > 0 THEN {x - 1} ELSE {}) \cup (IF x < NumX - 1 THEN {x + 1} ELSE {})
    BY <1>2 DEF Beside1
  <2>2. Big!GidOf(x, y, z) = g /\ Big!GidOf(x - 1, y, z) = g - 1 /\ Big!GidOf(x + 1, y, z) = g + 1
    BY <1>1, <1>2, <1>3
  <2> QED BY <2>1, <2>2, <1>1 DEF Big!AlongX
<1>7. Big!AlongZ(g) = {Big!GidOf(x, y, i) : i \in Beside1(z, NumZ)}
  <2>1. Beside1(z, NumZ) = {z} \cup (IF z > 0 THEN {z - 1} ELSE {}) \cup (IF z < NumZ - 1 THEN {z + 1} ELSE {})
    BY <1>2 DEF Beside1
  <2>2. Big!GidOf(x, y, z) = g /\ Big!GidOf(x, y, z - 1) = g - NumX /\ Big!GidOf(x, y, z + 1) = g + NumX
    BY <1>1, <1>2, <1>4
  <2> QED BY <2>1, <2>2, <1>1 DEF Big!AlongZ
<1>8. Big!AlongY(g) = {Big!GidOf(x, i, z) : i \in Beside1(y, NumY)}
  <2>1. Beside1(y, NumY) = {y} \cup (IF y > 0 THEN {y - 1} ELSE {}) \cup (IF y < NumY - 1 THEN {y + 1} ELSE {})
    BY <1>2 DEF Beside1
  <2>2. Big!GidOf(x, y, z) = g /\ Big!GidOf(x, y - 1, z) = g - NumX * NumZ /\ Big!GidOf(x, y + 1, z) = g + NumX * NumZ
    BY <1>1, <1>2, <1>5
  <2> QED BY <2>1, <2>2, <1>1 DEF Big!AlongY
<1> QED BY <1>6, <1>7, <1>8 DEF g

\* The cells around one: at most one away in each direction.
LEMMA Surrounding ==
  ASSUME NEW x \in Xs, NEW y \in Ys, NEW z \in Zs
  PROVE  LET around == Big!GetSurrGridListByGid(Big!GidOf(x, y, z)) IN
         /\ around \subseteq Big!Gids
         /\ \A i \in Xs, j \in Ys, k \in Zs :
              Big!GidOf(i, j, k) \in around
                <=> i \in Beside1(x, NumX) /\ j \in Beside1(y, NumY) /\ k \in Beside1(z, NumZ)
<1> DEFINE around == Big!GetSurrGridListByGid(Big!GidOf(x, y, z))
           bx == Beside1(x, NumX)
           by == Beside1(y, NumY)
           bz == Beside1(z, NumZ)
<1>1. bx \subseteq Xs /\ by \subseteq Ys /\ bz \subseteq Zs
  BY DEF Beside1, Xs, Ys, Zs
<1>2. Big!GidOf(x, y, z) # Outside
  BY GidParts, Big!BigWorldAssumption DEF Big!BigWorldAssumption, Big!Gids
<1>3. around = UNION {Big!AlongY(h) : h \in UNION {Big!AlongZ(k) : k \in Big!AlongX(Big!GidOf(x, y, z))}}
  BY <1>2 DEF Big!GetSurrGridListByGid
<1>4. \A i \in Xs : Big!AlongZ(Big!GidOf(i, y, z)) = {Big!GidOf(i, y, k) : k \in bz}
  BY AlongEach
<1>5. \A i \in Xs, k \in Zs : Big!AlongY(Big!GidOf(i, y, k)) = {Big!GidOf(i, j, k) : j \in by}
  BY AlongEach
<1>6. Big!AlongX(Big!GidOf(x, y, z)) = {Big!GidOf(i, y, z) : i \in bx}
  BY AlongEach
<1> HIDE DEF bx, by, bz, around
<1>7. \A g : g \in around <=> \E i \in bx, j \in by, k \in bz : g = Big!GidOf(i, j, k)
  <2> DEFINE along == UNION {Big!AlongZ(k) : k \in Big!AlongX(Big!GidOf(x, y, z))}
  <2>1. ASSUME NEW h PROVE h \in along <=> \E i \in bx, k \in bz : h = Big!GidOf(i, y, k)
    <3>1. h \in along <=> \E i \in bx : h \in Big!AlongZ(Big!GidOf(i, y, z))
      BY <1>6
    <3>2. \A i \in bx : h \in Big!AlongZ(Big!GidOf(i, y, z)) <=> \E k \in bz : h = Big!GidOf(i, y, k)
      BY <1>1, <1>4
    <3> HIDE DEF along
    <3> QED BY <3>1, <3>2
  <2> HIDE DEF along
  <2>2. ASSUME NEW g PROVE g \in around <=> \E i \in bx, j \in by, k \in bz : g = Big!GidOf(i, j, k)
    <3>1. g \in around <=> \E h \in along : g \in Big!AlongY(h)
      BY <1>3 DEF along
    <3>2. \A i \in bx, k \in bz : g \in Big!AlongY(Big!GidOf(i, y, k)) <=> \E j \in by : g = Big!GidOf(i, j, k)
      BY <1>1, <1>5
    <3>3. (\E h \in along : g \in Big!AlongY(h)) <=> \E i \in bx, k \in bz : g \in Big!AlongY(Big!GidOf(i, y, k))
      BY <2>1
    <3> QED BY <3>1, <3>2, <3>3
  <2> QED BY <2>2
<1>8. around \subseteq Big!Gids
  BY <1>1, <1>7, GidParts
<1>9. ASSUME NEW i \in Xs, NEW j \in Ys, NEW k \in Zs
      PROVE  Big!GidOf(i, j, k) \in around <=> i \in bx /\ j \in by /\ k \in bz
  <2>1. ASSUME NEW a \in bx, NEW b \in by, NEW c \in bz, Big!GidOf(i, j, k) = Big!GidOf(a, b, c)
        PROVE  i = a /\ j = b /\ k = c
    <3>1. a \in Xs /\ b \in Ys /\ c \in Zs
      BY <1>1
    <3> QED BY <2>1, <3>1, GidParts
  <2> QED BY <1>7, <2>1
<1> QED BY <1>8, <1>9 DEF around, bx, by, bz

\* The cell of a position, and the cells around it.
CellOf(s) == Big!GetGidByPos(s)
CellsBy(s) == Big!GetSurrGridListByGid(Big!GetGidByPos(s))
\* Positions at most one cell apart in each direction.
Close(s, t) ==
  /\ Big!IsValidAoiPos(s) /\ Big!IsValidAoiPos(t)
  /\ \A i \in 1..3 : (s[i] \div CellLength) - (t[i] \div CellLength) \in -1..1

\* A position of the area is in a cell of it.
LEMMA ValidCell ==
  ASSUME NEW s \in Sites, Big!IsValidAoiPos(s)
  PROVE  /\ s[1] \div CellLength \in Xs /\ s[2] \div CellLength \in Ys /\ s[3] \div CellLength \in Zs
         /\ Big!GetGidByPos(s) = Big!GidOf(s[1] \div CellLength, s[2] \div CellLength, s[3] \div CellLength)
<1>1. s[1] \in Int /\ s[2] \in Int /\ s[3] \in Int
  BY BigNums
<1>2. s[1] \div CellLength \in Xs
  BY <1>1, BigNums, DivRange DEF Xs, Big!IsValidAoiPos
<1>3. s[2] \div CellLength \in Ys
  BY <1>1, BigNums, DivRange DEF Ys, Big!IsValidAoiPos
<1>4. s[3] \div CellLength \in Zs
  BY <1>1, BigNums, DivRange DEF Zs, Big!IsValidAoiPos
<1> QED BY <1>2, <1>3, <1>4 DEF Big!GetGidByPos

\* What the cells come to: all the proof below uses of them.
LEMMA CellsAround ==
  /\ Outside \notin Big!Gids
  /\ \A s \in Sites :
       /\ CellOf(s) \in Big!Gids \cup {Outside}
       /\ CellsBy(s) \subseteq Big!Gids
       /\ CellOf(s) \in Big!Gids => CellOf(s) \in CellsBy(s)
       /\ CellOf(s) = Outside => CellsBy(s) = {}
  /\ \A s, t \in Sites : CellOf(t) \in CellsBy(s) <=> Close(s, t)
  /\ \A s, t \in Sites : Close(s, t) <=> Close(t, s)
<1>1. Outside \notin Big!Gids
  BY Big!BigWorldAssumption DEF Big!BigWorldAssumption, Big!Gids
<1>2. ASSUME NEW s \in Sites, ~ Big!IsValidAoiPos(s)
      PROVE  CellOf(s) = Outside /\ CellsBy(s) = {}
  BY <1>2 DEF CellOf, CellsBy, Big!GetGidByPos, Big!GetSurrGridListByGid
<1>3. ASSUME NEW s \in Sites, Big!IsValidAoiPos(s)
      PROVE  CellOf(s) \in Big!Gids /\ CellsBy(s) \subseteq Big!Gids
  BY <1>3, ValidCell, GidParts, Surrounding DEF CellOf, CellsBy
<1>4. ASSUME NEW s \in Sites, NEW t \in Sites, Big!IsValidAoiPos(s), Big!IsValidAoiPos(t)
      PROVE  CellOf(t) \in CellsBy(s) <=> \A i \in 1..3 : (s[i] \div CellLength) - (t[i] \div CellLength) \in -1..1
  <2> DEFINE C(u, i) == u[i] \div CellLength
  <2>1. C(s, 1) \in Xs /\ C(s, 2) \in Ys /\ C(s, 3) \in Zs /\ C(t, 1) \in Xs /\ C(t, 2) \in Ys /\ C(t, 3) \in Zs
    BY <1>4, ValidCell
  <2>2. CellOf(t) = Big!GidOf(C(t, 1), C(t, 2), C(t, 3)) /\ CellOf(s) = Big!GidOf(C(s, 1), C(s, 2), C(s, 3))
    BY <1>4, ValidCell DEF CellOf
  <2>3. /\ C(s, 1) \in Int /\ C(s, 2) \in Int /\ C(s, 3) \in Int
        /\ C(t, 1) \in Int /\ C(t, 2) \in Int /\ C(t, 3) \in Int
    BY <2>1 DEF Xs, Ys, Zs
  <2> HIDE DEF C
  <2>4. CellOf(t) \in CellsBy(s) <=> /\ C(t, 1) \in Beside1(C(s, 1), NumX) /\ C(t, 2) \in Beside1(C(s, 2), NumY)
                          /\ C(t, 3) \in Beside1(C(s, 3), NumZ)
    BY <2>1, <2>2, Surrounding DEF CellsBy, CellOf
  <2>5. C(t, 1) \in Beside1(C(s, 1), NumX) <=> C(s, 1) - C(t, 1) \in -1..1
    BY <2>1, <2>3 DEF Beside1, Xs
  <2>6. C(t, 2) \in Beside1(C(s, 2), NumY) <=> C(s, 2) - C(t, 2) \in -1..1
    BY <2>1, <2>3 DEF Beside1, Ys
  <2>7. C(t, 3) \in Beside1(C(s, 3), NumZ) <=> C(s, 3) - C(t, 3) \in -1..1
    BY <2>1, <2>3 DEF Beside1, Zs
  <2>8. (\A i \in 1..3 : C(s, i) - C(t, i) \in -1..1)
          <=> C(s, 1) - C(t, 1) \in -1..1 /\ C(s, 2) - C(t, 2) \in -1..1 /\ C(s, 3) - C(t, 3) \in -1..1
    <3>1. \A i \in 1..3 : i = 1 \/ i = 2 \/ i = 3
      OBVIOUS
    <3>2. 1 \in 1..3 /\ 2 \in 1..3 /\ 3 \in 1..3
      OBVIOUS
    <3> QED BY <3>1, <3>2
  <2> QED BY <2>4, <2>5, <2>6, <2>7, <2>8 DEF C
<1>5. ASSUME NEW s \in Sites, NEW t \in Sites
      PROVE  CellOf(t) \in CellsBy(s) <=> Close(s, t)
  BY <1>1, <1>2, <1>3, <1>4 DEF Close
<1>6. ASSUME NEW s \in Sites, NEW t \in Sites, Close(s, t)
      PROVE  Close(t, s)
  <2>1. s[1] \in Int /\ s[2] \in Int /\ s[3] \in Int /\ t[1] \in Int /\ t[2] \in Int /\ t[3] \in Int
    BY BigNums
  <2>2. \A i \in 1..3 : s[i] \in Int /\ t[i] \in Int
    BY <2>1
  <2>3. \A i \in 1..3 : (t[i] \div CellLength) - (s[i] \div CellLength) \in -1..1
    BY <1>6, <2>2, BigNums DEF Close
  <2> QED BY <1>6, <2>3 DEF Close
<1>7. ASSUME NEW s \in Sites, CellOf(s) \in Big!Gids
      PROVE  CellOf(s) \in CellsBy(s)
  <2>1. Big!IsValidAoiPos(s)
    BY <1>1, <1>2, <1>7
  <2>2. \A i \in 1..3 : s[i] \in Int
    BY BigNums
  <2>3. \A i \in 1..3 : (s[i] \div CellLength) - (s[i] \div CellLength) \in -1..1
    BY <2>2, BigNums
  <2> QED BY <1>4, <2>1, <2>3
<1> QED BY <1>1, <1>2, <1>3, <1>5, <1>6, <1>7
-----------------------------------------------------------------------------
(* BigWorld.  What a client shows of the players that kept their avatar is  *)
(* what is around it.                                                       *)
Objects == Wanderers \X Avatars
BigType ==
  /\ state \in [Wanderers -> {"away", "loading", "done"}] /\ pos \in [Wanderers -> Sites]
  /\ active \in [Wanderers -> Avatars] /\ grids \in [Big!Gids -> SUBSET Objects]
  /\ away \subseteq {p \in Wanderers : state[p] # "away"} /\ sees \in [Wanderers -> SUBSET Objects]
  /\ changed \subseteq Wanderers
\* The object of one that kept its avatar is its active avatar.
ObjectsActive == \A g \in Big!Gids, q \in Wanderers, a \in Avatars :
                   <<q, a>> \in grids[g] /\ q \notin changed => a = active[q]
\* A client that loads the scene shows nothing; one that is told everything
\* shows what is close.
ViewAgrees ==
  /\ \A p \in Wanderers : state[p] # "done" => sees[p] = {}
  /\ \A p \in Wanderers, q \in Wanderers \ changed, a \in Avatars :
       state[p] = "done" /\ p \notin away =>
         (<<q, a>> \in sees[p] <=> state[q] = "done" /\ q # p /\ a = active[q] /\ Close(pos[p], pos[q]))
BigInv ==
  /\ BigType /\ Big!GridAgrees /\ ObjectsActive /\ ViewAgrees /\ Big!AreaLimitHolds /\ Big!HeardBySeers

\* The players of a set of objects.
LEMMA UidsAre ==
  ASSUME NEW S \in SUBSET Objects
  PROVE  /\ Big!UidsOf(S) \subseteq Wanderers
         /\ \A q \in Wanderers : q \in Big!UidsOf(S) <=> \E a \in Avatars : <<q, a>> \in S
<1>1. ASSUME NEW o \in S PROVE o = <<o[1], o[2]>> /\ o[1] \in Wanderers /\ o[2] \in Avatars
  BY DEF Objects
<1>2. ASSUME NEW q \in Wanderers, q \in Big!UidsOf(S) PROVE \E a \in Avatars : <<q, a>> \in S
  <2>1. PICK o \in S : q = o[1]
    BY <1>2 DEF Big!UidsOf
  <2> QED BY <1>1, <2>1
<1>3. ASSUME NEW q \in Wanderers, NEW a \in Avatars, <<q, a>> \in S PROVE q \in Big!UidsOf(S)
  <2>1. <<q, a>>[1] = q
    OBVIOUS
  <2> QED BY <1>3, <2>1 DEF Big!UidsOf
<1>4. Big!UidsOf(S) \subseteq Wanderers
  BY <1>1 DEF Big!UidsOf
<1> QED BY <1>2, <1>3, <1>4

\* A cell with a player put in or taken out.
PutIn(m, map, g, p, b) ==
  /\ m \in [Big!Gids -> SUBSET Objects]
  /\ \A h \in Big!Gids, q \in Wanderers, a \in Avatars :
       <<q, a>> \in m[h] <=> IF h = g /\ q = p THEN a = b ELSE <<q, a>> \in map[h]
TakenOut(m, map, g, p) ==
  /\ m \in [Big!Gids -> SUBSET Objects]
  /\ \A h \in Big!Gids, q \in Wanderers, a \in Avatars :
       <<q, a>> \in m[h] <=> <<q, a>> \in map[h] /\ ~ (h = g /\ q = p)
\* With puts a player into its cell.
LEMMA GridsWith ==
  ASSUME NEW map \in [Big!Gids -> SUBSET Objects], NEW g \in Big!Gids \cup {Outside},
         NEW p \in Wanderers, NEW b \in Avatars
  PROVE  PutIn(Big!With(map, g, <<p, b>>), map, g, p, b)
<1> DEFINE o == <<p, b>>
           rest == {x \in map[g] : x[1] # o[1]}
<1>1. o \in Objects /\ o[1] = p /\ \A q \in Wanderers, a \in Avatars : <<q, a>>[1] = q /\ (<<q, a>> = o <=> q = p /\ a = b)
  BY DEF Objects
<1>2. CASE g = Outside
  BY <1>2, CellsAround DEF Big!With, PutIn
<1>3. CASE g # Outside
  <2>1. g \in Big!Gids /\ map[g] \in SUBSET Objects
    BY <1>3
  <2>2. Big!With(map, g, o) = [map EXCEPT ![g] = rest \cup {o}]
    BY <1>3 DEF Big!With
  <2>3. rest \cup {o} \in SUBSET Objects
    BY <1>1, <2>1
  <2>4. \A q \in Wanderers, a \in Avatars : <<q, a>> \in rest \cup {o} <=> IF q = p THEN a = b ELSE <<q, a>> \in map[g]
    BY <1>1
  <2> HIDE DEF rest, o
  <2>5. Big!With(map, g, o) \in [Big!Gids -> SUBSET Objects]
    BY <2>1, <2>2, <2>3
  <2>6. \A h \in Big!Gids : Big!With(map, g, o)[h] = IF h = g THEN rest \cup {o} ELSE map[h]
    BY <2>1, <2>2
  <2> QED BY <2>4, <2>5, <2>6 DEF o, PutIn
<1> QED BY <1>2, <1>3
\* Without takes it out.
LEMMA GridsWithout ==
  ASSUME NEW map \in [Big!Gids -> SUBSET Objects], NEW g \in Big!Gids \cup {Outside}, NEW p \in Wanderers
  PROVE  TakenOut(Big!Without(map, g, p), map, g, p)
<1> DEFINE rest == {x \in map[g] : x[1] # p}
<1>1. \A q \in Wanderers, a \in Avatars : <<q, a>>[1] = q
  OBVIOUS
<1>2. CASE g = Outside
  BY <1>2, CellsAround DEF Big!Without, TakenOut
<1>3. CASE g # Outside
  <2>1. g \in Big!Gids /\ map[g] \in SUBSET Objects
    BY <1>3
  <2>2. Big!Without(map, g, p) = [map EXCEPT ![g] = rest]
    BY <1>3 DEF Big!Without
  <2>3. rest \in SUBSET Objects
    BY <2>1
  <2>4. \A q \in Wanderers, a \in Avatars : <<q, a>> \in rest <=> <<q, a>> \in map[g] /\ q # p
    BY <1>1
  <2> HIDE DEF rest
  <2>5. Big!Without(map, g, p) \in [Big!Gids -> SUBSET Objects]
    BY <2>1, <2>2, <2>3
  <2>6. \A h \in Big!Gids : Big!Without(map, g, p)[h] = IF h = g THEN rest ELSE map[h]
    BY <2>1, <2>2
  <2> QED BY <2>4, <2>5, <2>6 DEF TakenOut
<1> QED BY <1>2, <1>3

\* The objects in some cells.
LEMMA ObjectsAre ==
  ASSUME NEW map \in [Big!Gids -> SUBSET Objects], NEW gs \in SUBSET Big!Gids
  PROVE  /\ Big!ObjectsIn(gs, map) \in SUBSET Objects
         /\ \A o : o \in Big!ObjectsIn(gs, map) <=> \E g \in gs : o \in map[g]
BY DEF Big!ObjectsIn

\* What clients are told to show and not to show.
LEMMA ObjectIs ==
  ASSUME NEW p \in Wanderers, NEW b \in Avatars
  PROVE  /\ <<p, b>> \in Objects /\ <<p, b>>[1] = p
         /\ \A q \in Wanderers, a \in Avatars : <<q, a>>[1] = q /\ (<<q, a>> = <<p, b>> <=> q = p /\ a = b)
BY DEF Objects
\* A set without any pair is empty.
LEMMA NoObjects ==
  ASSUME NEW S \in SUBSET Objects, \A q \in Wanderers, a \in Avatars : <<q, a>> \notin S
  PROVE  S = {}
<1>1. \A o \in Objects : o = <<o[1], o[2]>> /\ o[1] \in Wanderers /\ o[2] \in Avatars
  BY DEF Objects
<1> QED BY <1>1
AllGained(t, s, to, p, b) ==
  /\ t \in [Wanderers -> SUBSET Objects]
  /\ \A r \in Wanderers, q \in Wanderers, a \in Avatars :
       <<q, a>> \in t[r] <=> <<q, a>> \in s[r] \/ (q = p /\ a = b /\ r \in to /\ r # p /\ r \notin away)
AllLost(t, s, to, p, b) ==
  /\ t \in [Wanderers -> SUBSET Objects]
  /\ \A r \in Wanderers, q \in Wanderers, a \in Avatars :
       <<q, a>> \in t[r] <=> <<q, a>> \in s[r] /\ ~ (q = p /\ a = b /\ r \in to /\ r \notin away)
OneGained(t, s, p, S) ==
  /\ t \in [Wanderers -> SUBSET Objects]
  /\ \A r \in Wanderers, q \in Wanderers, a \in Avatars :
       <<q, a>> \in t[r] <=> <<q, a>> \in s[r] \/ (r = p /\ p \notin away /\ <<q, a>> \in S /\ q # p)
\* Many clients show one avatar.
LEMMA AllShown ==
  ASSUME NEW s \in [Wanderers -> SUBSET Objects], NEW to, NEW p \in Wanderers, NEW b \in Avatars
  PROVE  AllGained(Big!AllShow(s, to, <<p, b>>), s, to, p, b)
<1> DEFINE o == <<p, b>>
<1>1. o \in Objects /\ o[1] = p /\ \A q \in Wanderers, a \in Avatars : <<q, a>> = o <=> q = p /\ a = b
  BY ObjectIs
<1> HIDE DEF o
<1>2. /\ Big!AllShow(s, to, o) \in [Wanderers -> SUBSET Objects]
      /\ \A r \in Wanderers : Big!AllShow(s, to, o)[r] = IF r \in to /\ r # p /\ r \notin away THEN s[r] \cup {o} ELSE s[r]
  BY <1>1 DEF Big!AllShow, Big!Told
<1>3. ASSUME NEW r \in Wanderers, NEW q \in Wanderers, NEW a \in Avatars
      PROVE  <<q, a>> \in Big!AllShow(s, to, o)[r]
               <=> <<q, a>> \in s[r] \/ (q = p /\ a = b /\ r \in to /\ r # p /\ r \notin away)
  BY <1>1, <1>2
<1> QED BY <1>2, <1>3 DEF o, AllGained
\* Many clients show one avatar no longer.
LEMMA NoneShown ==
  ASSUME NEW s \in [Wanderers -> SUBSET Objects], NEW to, NEW p \in Wanderers, NEW b \in Avatars
  PROVE  AllLost(Big!AllLose(s, to, <<p, b>>), s, to, p, b)
<1> DEFINE o == <<p, b>>
<1>1. o \in Objects /\ o[1] = p /\ \A q \in Wanderers, a \in Avatars : <<q, a>> = o <=> q = p /\ a = b
  BY ObjectIs
<1> HIDE DEF o
<1>2. /\ Big!AllLose(s, to, o) \in [Wanderers -> SUBSET Objects]
      /\ \A r \in Wanderers : Big!AllLose(s, to, o)[r] = IF r \in to /\ r \notin away THEN s[r] \ {o} ELSE s[r]
  BY DEF Big!AllLose, Big!Told
<1>3. ASSUME NEW r \in Wanderers, NEW q \in Wanderers, NEW a \in Avatars
      PROVE  <<q, a>> \in Big!AllLose(s, to, o)[r]
               <=> <<q, a>> \in s[r] /\ ~ (q = p /\ a = b /\ r \in to /\ r \notin away)
  BY <1>1, <1>2
<1> QED BY <1>2, <1>3 DEF o, AllLost
\* One client shows many avatars.
LEMMA OneShown ==
  ASSUME NEW s \in [Wanderers -> SUBSET Objects], NEW p \in Wanderers, NEW S \in SUBSET Objects
  PROVE  OneGained(Big!Shows(s, p, S), s, p, S)
<1>1. \A q \in Wanderers, a \in Avatars : <<q, a>>[1] = q
  OBVIOUS
<1>2. /\ Big!Shows(s, p, S) \in [Wanderers -> SUBSET Objects]
      /\ \A r \in Wanderers :
           Big!Shows(s, p, S)[r] = IF r = p /\ p \notin away THEN s[r] \cup {x \in S : x[1] # p} ELSE s[r]
  BY DEF Big!Shows, Big!Told
<1>3. ASSUME NEW r \in Wanderers, NEW q \in Wanderers, NEW a \in Avatars
      PROVE  <<q, a>> \in Big!Shows(s, p, S)[r]
               <=> <<q, a>> \in s[r] \/ (r = p /\ p \notin away /\ <<q, a>> \in S /\ q # p)
  BY <1>1, <1>2
<1> QED BY <1>2, <1>3 DEF OneGained

\* The players in some cells.
LEMMA FoundIn ==
  ASSUME BigType, Big!GridAgrees, ObjectsActive, NEW gs \in SUBSET Big!Gids
  PROVE  /\ Big!ObjectsIn(gs, grids) \in SUBSET Objects
         /\ \A q \in Wanderers :
              q \in Big!UidsOf(Big!ObjectsIn(gs, grids)) <=> state[q] = "done" /\ CellOf(pos[q]) \in gs
         /\ \A q \in Wanderers \ changed, a \in Avatars :
              <<q, a>> \in Big!ObjectsIn(gs, grids) <=> state[q] = "done" /\ CellOf(pos[q]) \in gs /\ a = active[q]
<1>1. /\ Big!ObjectsIn(gs, grids) \in SUBSET Objects
      /\ \A o : o \in Big!ObjectsIn(gs, grids) <=> \E g \in gs : o \in grids[g]
  BY ObjectsAre DEF BigType
<1>2. \A q \in Wanderers, g \in Big!Gids :
        (\E a \in Avatars : <<q, a>> \in grids[g]) <=> state[q] = "done" /\ g = CellOf(pos[q])
  <2>1. \A g \in Big!Gids : grids[g] \in SUBSET Objects
    BY DEF BigType
  <2> QED BY <2>1, UidsAre DEF Big!GridAgrees, CellOf
<1>3. ASSUME NEW q \in Wanderers
      PROVE  q \in Big!UidsOf(Big!ObjectsIn(gs, grids)) <=> state[q] = "done" /\ CellOf(pos[q]) \in gs
  <2>1. q \in Big!UidsOf(Big!ObjectsIn(gs, grids)) <=> \E a \in Avatars : <<q, a>> \in Big!ObjectsIn(gs, grids)
    BY <1>1, UidsAre
  <2>2. (\E a \in Avatars : <<q, a>> \in Big!ObjectsIn(gs, grids)) <=> \E g \in gs : \E a \in Avatars : <<q, a>> \in grids[g]
    BY <1>1
  <2>3. (\E g \in gs : \E a \in Avatars : <<q, a>> \in grids[g]) <=> \E g \in gs : state[q] = "done" /\ g = CellOf(pos[q])
    BY <1>2
  <2> QED BY <2>1, <2>2, <2>3
<1>4. ASSUME NEW q \in Wanderers \ changed, NEW a \in Avatars
      PROVE  <<q, a>> \in Big!ObjectsIn(gs, grids) <=> state[q] = "done" /\ CellOf(pos[q]) \in gs /\ a = active[q]
  <2>1. \A g \in Big!Gids : <<q, a>> \in grids[g] => a = active[q]
    BY DEF ObjectsActive
  <2>2. active[q] \in Avatars
    BY DEF BigType
  <2>3. \A g \in Big!Gids : <<q, active[q]>> \in grids[g] <=> state[q] = "done" /\ g = CellOf(pos[q])
    <3>1. \A g \in Big!Gids, c \in Avatars : <<q, c>> \in grids[g] => c = active[q]
      BY DEF ObjectsActive
    <3> QED BY <1>2, <2>2, <3>1
  <2> QED BY <1>1, <2>1, <2>3
<1> QED BY <1>1, <1>3, <1>4

\* Those a message of one player is sent to.
LEMMA SentTo ==
  ASSUME BigType, Big!GridAgrees, ObjectsActive, NEW p \in Wanderers
  PROVE  /\ Big!SendToSceneA(p, grids) \subseteq Wanderers
         /\ \A q \in Wanderers : q \in Big!SendToSceneA(p, grids) <=> state[q] = "done" /\ Close(pos[p], pos[q])
<1>1. pos[p] \in Sites /\ \A q \in Wanderers : pos[q] \in Sites
  BY DEF BigType
<1>2. CellsBy(pos[p]) \in SUBSET Big!Gids /\ \A q \in Wanderers : CellOf(pos[q]) \in CellsBy(pos[p]) <=> Close(pos[p], pos[q])
  BY <1>1, CellsAround
<1>3. Big!SendToSceneA(p, grids) = Big!UidsOf(Big!ObjectsIn(CellsBy(pos[p]), grids))
  BY DEF Big!SendToSceneA, Big!GetObjectListByPos, CellsBy
<1>4. Big!SendToSceneA(p, grids) \subseteq Wanderers
  BY <1>2, <1>3, FoundIn, UidsAre
<1> QED BY <1>2, <1>3, <1>4, FoundIn

\* Counting players.
LEMMA BigCounts ==
  ASSUME NEW S PROVE /\ Big!Cardinality(S) = Cardinality(S)
                     /\ Big!IsFiniteSet(S) <=> IsFiniteSet(S)
BY DEF Big!Cardinality, Cardinality, Big!IsFiniteSet, IsFiniteSet
\* A part of few players is few players.
LEMMA FewerFew ==
  ASSUME NEW S \in SUBSET Wanderers, Big!Cardinality(S) <= AreaLimit, NEW T \in SUBSET S
  PROVE  Big!Cardinality(T) <= AreaLimit
<1>1. IsFiniteSet(Wanderers)
  BY BigCounts, Big!BigWorldAssumption DEF Big!BigWorldAssumption
<1>2. IsFiniteSet(S)
  BY <1>1, FS_Subset
<1>3. Cardinality(T) <= Cardinality(S) /\ Cardinality(S) \in Nat /\ Cardinality(T) \in Nat /\ Cardinality(S) <= AreaLimit
  BY <1>2, FS_Subset, FS_CardinalityType, BigCounts
<1> QED BY <1>3, BigCounts, BigNums
\* Few objects are of few players.
LEMMA FewPlayers ==
  ASSUME NEW S \in SUBSET Objects, ~ Big!TooMany(Big!Cardinality(S)), NEW T \in SUBSET Big!UidsOf(S)
  PROVE  Big!Cardinality(T) <= AreaLimit
<1>1. IsFiniteSet(Wanderers) /\ IsFiniteSet(Avatars)
  BY BigCounts, Big!BigWorldAssumption DEF Big!BigWorldAssumption
<1>2. IsFiniteSet(S)
  BY <1>1, FS_Product, FS_Subset DEF Objects
<1> DEFINE f == [o \in S |-> o[1]]
           U == Big!UidsOf(S)
<1>3. f \in Surjection(S, U)
  <2>1. \A u \in U : \E o \in S : f[o] = u
    BY DEF Big!UidsOf
  <2>2. f \in [S -> U]
    BY DEF Big!UidsOf
  <2> QED BY <2>1, <2>2 DEF Surjection
<1> HIDE DEF f
<1>4. IsFiniteSet(U) /\ Cardinality(U) <= Cardinality(S)
  BY <1>2, <1>3, FS_Surjection
<1>5. Cardinality(S) \in Nat /\ Cardinality(U) \in Nat
  BY <1>2, <1>4, FS_CardinalityType
<1>6. Cardinality(S) <= AreaLimit
  BY <1>5, BigCounts, BigNums DEF Big!TooMany
<1>7. Big!Cardinality(U) <= AreaLimit
  BY <1>4, <1>5, <1>6, BigCounts, BigNums
<1> QED BY <1>7, FewerFew, UidsAre

\* The cells by the avatars in them.
CellsTold == \A p \in Wanderers, g \in Big!Gids :
               (\E a \in Avatars : <<p, a>> \in grids[g]) <=> state[p] = "done" /\ g = CellOf(pos[p])
\* GridAgrees in these words.
LEMMA CellsTell == BigType => (Big!GridAgrees <=> CellsTold)
<1> SUFFICES ASSUME BigType PROVE Big!GridAgrees <=> CellsTold
  OBVIOUS
<1>1. \A g \in Big!Gids : grids[g] \in SUBSET Objects
  BY DEF BigType
<1>2. \A g \in Big!Gids, p \in Wanderers : p \in Big!UidsOf(grids[g]) <=> \E a \in Avatars : <<p, a>> \in grids[g]
  BY <1>1, UidsAre
<1> QED BY <1>2 DEF Big!GridAgrees, CellsTold, CellOf
\* The same after a step.
LEMMA CellsTellNext == BigType' => (Big!GridAgrees' <=> CellsTold')
<1>1. BigType => (Big!GridAgrees <=> CellsTold)
  BY CellsTell
<1> QED BY <1>1, PTL
\* Where players are and what they are.
LEMMA BigPlaces ==
  ASSUME BigType PROVE \A p \in Wanderers : pos[p] \in Sites /\ CellOf(pos[p]) \in Big!Gids \cup {Outside}
                                            /\ active[p] \in Avatars /\ sees[p] \in SUBSET Objects
<1>1. \A p \in Wanderers : pos[p] \in Sites /\ active[p] \in Avatars /\ sees[p] \in SUBSET Objects
  BY DEF BigType
<1> QED BY <1>1, CellsAround

\* No action but those of the fights lets anything be heard.
LEMMA BigUnheard == ASSUME heard' = {} PROVE Big!HeardBySeers'
BY DEF Big!HeardBySeers

\* A limit that no cell's players come closer to.
LEMMA AreaKept ==
  ASSUME BigType, Big!AreaLimitHolds,
         \A g \in Big!Gids : \/ Big!UidsOf(grids'[g]) \ away' \subseteq Big!UidsOf(grids[g]) \ away
                             \/ Big!Cardinality(Big!UidsOf(grids'[g]) \ away') <= AreaLimit
  PROVE  Big!AreaLimitHolds'
<1> SUFFICES ASSUME NEW g \in Big!Gids PROVE Big!Cardinality(Big!UidsOf(grids'[g]) \ away') <= AreaLimit
  BY BigCounts DEF Big!AreaLimitHolds, BigType
<1>1. Big!UidsOf(grids[g]) \ away \in SUBSET Wanderers
  BY UidsAre DEF BigType
<1>2. Big!Cardinality(Big!UidsOf(grids[g]) \ away) <= AreaLimit
  BY DEF Big!AreaLimitHolds
<1> QED BY <1>1, <1>2, FewerFew

\* A player that enters is shown to those around it and shown them; when they are too many
\* it is sent away.
LEMMA BigEnters ==
  ASSUME BigInv, NEW p \in Wanderers, Big!EnterSceneDoneReq(p)
  PROVE  BigInv'
<1> DEFINE b == active[p]
           self == <<p, b>>
           g == CellOf(pos[p])
           near == CellsBy(pos[p])
           map == Big!With(grids, g, self)
           around == Big!ObjectsIn(near, map)
           met == Big!AddSceneEntityNotify(around)
           seen == Big!AllShow(sees, Big!UidsOf(around), self)
<1>1. BigType /\ Big!GridAgrees /\ CellsTold /\ ObjectsActive /\ ViewAgrees /\ Big!AreaLimitHolds
  BY CellsTell DEF BigInv
<1>2. /\ state[p] = "loading" /\ p \notin away
      /\ state' = [state EXCEPT ![p] = "done"]
      /\ grids' = map
      /\ sees' = Big!Shows(seen, p, met)
      /\ away' = IF Big!TooMany(Big!Cardinality(around)) THEN away \cup {p} ELSE away
      /\ heard' = {}
      /\ pos' = pos /\ active' = active /\ changed' = changed
  BY DEF Big!EnterSceneDoneReq, Big!GetObjectListByPos, CellOf, CellsBy
<1>3. /\ pos[p] \in Sites /\ g \in Big!Gids \cup {Outside} /\ b \in Avatars /\ near \in SUBSET Big!Gids
      /\ g \in Big!Gids => g \in near
  BY <1>1, BigPlaces, CellsAround
<1>4. \A q \in Wanderers : (CellOf(pos[q]) \in near <=> Close(pos[p], pos[q])) /\ (Close(pos[p], pos[q]) <=> Close(pos[q], pos[p]))
  BY <1>1, BigPlaces, CellsAround
<1> HIDE DEF b, g, near
<1>5. /\ map \in [Big!Gids -> SUBSET Objects]
      /\ \A h \in Big!Gids, q \in Wanderers, a \in Avatars :
           <<q, a>> \in map[h] <=> IF h = g /\ q = p THEN a = b ELSE <<q, a>> \in grids[h]
  <2>1. grids \in [Big!Gids -> SUBSET Objects]
    BY <1>1 DEF BigType
  <2>2. PutIn(map, grids, g, p, b)
    BY <1>3, <2>1, GridsWith
  <2> HIDE DEF map
  <2> QED BY <2>2 DEF PutIn
<1>6. around \in SUBSET Objects /\ \A o : o \in around <=> \E h \in near : o \in map[h]
  BY <1>3, <1>5, ObjectsAre
<1>7. met \in SUBSET Objects /\ \A q \in Wanderers, a \in Avatars : <<q, a>> \in met <=> <<q, a>> \in around /\ a = active[q]
  <2>1. \A q \in Wanderers, a \in Avatars : <<q, a>>[1] = q /\ <<q, a>>[2] = a
    OBVIOUS
  <2> HIDE DEF around
  <2> QED BY <1>6, <2>1 DEF Big!AddSceneEntityNotify
<1>8. \A q \in Wanderers, h \in Big!Gids :
        (\E a \in Avatars : <<q, a>> \in grids[h]) <=> state[q] = "done" /\ h = CellOf(pos[q])
  BY <1>1 DEF CellsTold
<1>9. ASSUME NEW q \in Wanderers, q # p
      PROVE  q \in Big!UidsOf(around) <=> state[q] = "done" /\ Close(pos[p], pos[q])
  <2>1. q \in Big!UidsOf(around) <=> \E a \in Avatars : <<q, a>> \in around
    BY <1>6, UidsAre
  <2>2. \A a \in Avatars : <<q, a>> \in around <=> \E h \in near : <<q, a>> \in grids[h]
    BY <1>3, <1>5, <1>6, <1>9
  <2>3. (\E a \in Avatars : <<q, a>> \in around) <=> \E h \in near : \E a \in Avatars : <<q, a>> \in grids[h]
    BY <2>2
  <2>4. (\E h \in near : \E a \in Avatars : <<q, a>> \in grids[h]) <=> \E h \in near : state[q] = "done" /\ h = CellOf(pos[q])
    BY <1>3, <1>8
  <2> QED BY <1>4, <2>1, <2>3, <2>4
<1>10. ASSUME NEW q \in Wanderers \ changed, q # p, NEW a \in Avatars
       PROVE  <<q, a>> \in met <=> state[q] = "done" /\ Close(pos[p], pos[q]) /\ a = active[q]
  <2>1. <<q, a>> \in around <=> \E h \in near : <<q, a>> \in grids[h]
    BY <1>3, <1>5, <1>6, <1>10
  <2>2. \A h \in Big!Gids : \A c \in Avatars : <<q, c>> \in grids[h] => c = active[q]
    BY <1>1 DEF ObjectsActive
  <2>3. active[q] \in Avatars
    BY <1>1, BigPlaces
  <2>4. \A h \in Big!Gids : <<q, active[q]>> \in grids[h] <=> state[q] = "done" /\ h = CellOf(pos[q])
    BY <1>8, <2>2, <2>3
  <2> QED BY <1>3, <1>4, <1>7, <2>1, <2>4
<1>11. /\ seen \in [Wanderers -> SUBSET Objects] /\ sees' \in [Wanderers -> SUBSET Objects]
       /\ \A r \in Wanderers, q \in Wanderers, a \in Avatars :
            <<q, a>> \in sees'[r] <=> \/ <<q, a>> \in sees[r]
                                      \/ q = p /\ a = b /\ r \in Big!UidsOf(around) /\ r # p /\ r \notin away
                                      \/ r = p /\ <<q, a>> \in met /\ q # p
  <2>1. sees \in [Wanderers -> SUBSET Objects]
    BY <1>1 DEF BigType
  <2> HIDE DEF met, around
  <2>2. AllGained(seen, sees, Big!UidsOf(around), p, b)
    BY <1>3, <2>1, AllShown
  <2> HIDE DEF seen
  <2>3. seen \in [Wanderers -> SUBSET Objects]
    BY <2>2 DEF AllGained
  <2>4. OneGained(sees', seen, p, met)
    BY <1>2, <1>7, <2>3, OneShown
  <2> QED BY <1>2, <2>2, <2>4 DEF AllGained, OneGained
<1>12. state' \in [Wanderers -> {"away", "loading", "done"}]
       /\ \A q \in Wanderers : state'[q] = IF q = p THEN "done" ELSE state[q]
  BY <1>1, <1>2 DEF BigType
<1> HIDE DEF met, around, map, seen, g, near
<1>13. BigType'
  <2>1. away' \subseteq {q \in Wanderers : state'[q] # "away"}
    BY <1>1, <1>2, <1>12 DEF BigType
  <2> QED BY <1>1, <1>2, <1>5, <1>11, <1>12, <2>1 DEF BigType
<1>14. Big!GridAgrees'
  <2>1. ASSUME NEW q \in Wanderers, NEW h \in Big!Gids
        PROVE  (\E a \in Avatars : <<q, a>> \in grids'[h]) <=> state'[q] = "done" /\ h = CellOf(pos'[q])
    <3>1. CASE q = p
      <4>1. \A a \in Avatars : <<p, a>> \notin grids[h]
        BY <1>2, <1>8
      <4>2. \A a \in Avatars : <<p, a>> \in grids'[h] <=> h = g /\ a = b
        BY <1>2, <1>5, <4>1
      <4> QED BY <1>2, <1>3, <1>12, <3>1, <4>2 DEF g
    <3>2. CASE q # p
      BY <1>2, <1>5, <1>8, <1>12, <3>2
    <3> QED BY <3>1, <3>2
  <2>2. CellsTold'
    BY <2>1 DEF CellsTold
  <2> QED BY <1>13, <2>2, CellsTellNext
<1>15. ObjectsActive'
  BY <1>1, <1>2, <1>5 DEF ObjectsActive, b
<1>16. ViewAgrees'
  <2>1. ASSUME NEW r \in Wanderers, state'[r] # "done" PROVE sees'[r] = {}
    <3>1. r # p /\ state[r] # "done" /\ sees[r] = {}
      BY <1>1, <1>12, <2>1 DEF ViewAgrees
    <3>2. r \notin Big!UidsOf(around)
      BY <1>9, <3>1
    <3>3. ASSUME NEW q \in Wanderers, NEW a \in Avatars PROVE <<q, a>> \notin sees'[r]
      BY <1>11, <3>1, <3>2
    <3>4. sees'[r] \in SUBSET Objects
      BY <1>11
    <3> QED BY <3>3, <3>4, NoObjects
  <2>2. ASSUME NEW r \in Wanderers, NEW q \in Wanderers \ changed', NEW a \in Avatars, state'[r] = "done", r \notin away'
        PROVE  <<q, a>> \in sees'[r] <=> state'[q] = "done" /\ q # r /\ a = active'[q] /\ Close(pos'[r], pos'[q])
    <3>0. q \in Wanderers \ changed /\ r \notin away
      BY <1>2, <2>2
    <3>1. CASE r = p
      <4>1. sees[r] = {}
        BY <1>1, <1>2, <3>1 DEF ViewAgrees
      <4> QED BY <1>2, <1>10, <1>11, <1>12, <3>0, <3>1, <4>1
    <3>2. CASE r # p
      <4>1. <<q, a>> \in sees[r] <=> state[q] = "done" /\ q # r /\ a = active[q] /\ Close(pos[r], pos[q])
        BY <1>1, <1>12, <2>2, <3>0, <3>2 DEF ViewAgrees
      <4> QED BY <1>2, <1>4, <1>9, <1>11, <1>12, <2>2, <3>0, <3>2, <4>1 DEF b
    <3> QED BY <3>1, <3>2
  <2> QED BY <2>1, <2>2 DEF ViewAgrees
<1>17. Big!AreaLimitHolds'
  <2>1. ASSUME NEW h \in Big!Gids
        PROVE  \/ Big!UidsOf(grids'[h]) \ away' \subseteq Big!UidsOf(grids[h]) \ away
               \/ Big!Cardinality(Big!UidsOf(grids'[h]) \ away') <= AreaLimit
    <3>1. grids'[h] \in SUBSET Objects /\ grids[h] \in SUBSET Objects /\ away \subseteq away'
      BY <1>1, <1>2, <1>5 DEF BigType
    <3>2. /\ \A q \in Wanderers : q \in Big!UidsOf(grids'[h]) <=> \E a \in Avatars : <<q, a>> \in grids'[h]
          /\ \A q \in Wanderers : q \in Big!UidsOf(grids[h]) <=> \E a \in Avatars : <<q, a>> \in grids[h]
          /\ Big!UidsOf(grids'[h]) \subseteq Wanderers
      BY <3>1, UidsAre
    <3>3. \A q \in Wanderers : q # p /\ q \in Big!UidsOf(grids'[h]) => q \in Big!UidsOf(grids[h])
      BY <1>2, <1>5, <3>2
    <3>4. CASE h # g
      <4>1. Big!UidsOf(grids'[h]) \subseteq Big!UidsOf(grids[h])
        BY <1>2, <1>5, <3>2, <3>4
      <4> QED BY <3>1, <4>1
    <3>5. CASE Big!TooMany(Big!Cardinality(around))
      BY <1>2, <3>2, <3>3, <3>5
    <3>6. CASE h = g /\ ~ Big!TooMany(Big!Cardinality(around))
      <4>1. grids'[h] \subseteq around
        BY <1>2, <1>3, <1>6, <3>6
      <4>2. Big!UidsOf(grids'[h]) \ away' \subseteq Big!UidsOf(around)
        BY <4>1 DEF Big!UidsOf
      <4> QED BY <1>6, <3>6, <4>2, FewPlayers
    <3> QED BY <3>4, <3>5, <3>6
  <2> QED BY <1>1, <2>1, AreaKept
<1> QED BY <1>2, <1>13, <1>14, <1>15, <1>16, <1>17, BigUnheard DEF BigInv

\* Crossing into another cell.
LEMMA BigCrosses ==
  ASSUME BigInv, NEW p \in Wanderers, NEW s \in Sites, Big!EntityMove(p, s), CellOf(s) # CellOf(pos[p])
  PROVE  BigInv'
<1> DEFINE b == active[p]
           self == <<p, b>>
           here == CellOf(pos[p])
           there == CellOf(s)
           del == CellsBy(pos[p]) \ CellsBy(s)
           add == CellsBy(s) \ CellsBy(pos[p])
           left == Big!Without(grids, here, p)
           map == Big!With(left, there, self)
           gone == Big!ObjectsIn(del, grids)
           come == Big!ObjectsIn(add, grids)
           met == Big!AddSceneEntityNotify(come)
           mine == [sees EXCEPT ![p] = @ \ gone]
           lost == Big!AllLose(mine, Big!UidsOf(gone), self)
           more == Big!Shows(lost, p, met)
<1>1. BigType /\ Big!GridAgrees /\ CellsTold /\ ObjectsActive /\ ViewAgrees /\ Big!AreaLimitHolds
  BY CellsTell DEF BigInv
<1>2. /\ state[p] = "done" /\ p \notin away
      /\ pos' = [pos EXCEPT ![p] = s]
      /\ grids' = map
      /\ sees' = Big!AllShow(more, Big!UidsOf(come), self)
      /\ away' = IF there # Outside /\ Big!TooMany(Big!Cardinality(grids'[there])) THEN away \cup {p} ELSE away
      /\ heard' = {}
      /\ state' = state /\ active' = active /\ changed' = changed
  <2>1. Big!GetGidByPos(pos[p]) # Big!GetGidByPos(s)
    BY DEF CellOf
  <2>2. Big!Told(p)
    BY DEF Big!EntityMove, Big!Handled, Big!Told
  <2> QED BY <2>1, <2>2 DEF Big!EntityMove, Big!Handled, Big!CrossGrids, CellOf, CellsBy
<1>3. /\ here \in Big!Gids \cup {Outside} /\ there \in Big!Gids \cup {Outside} /\ b \in Avatars
      /\ del \in SUBSET Big!Gids /\ add \in SUBSET Big!Gids
  BY <1>1, BigPlaces, CellsAround
<1>4. \A q \in Wanderers :
        /\ CellOf(pos[q]) \in del <=> Close(pos[p], pos[q]) /\ ~ Close(s, pos[q])
        /\ CellOf(pos[q]) \in add <=> Close(s, pos[q]) /\ ~ Close(pos[p], pos[q])
        /\ Close(pos[p], pos[q]) <=> Close(pos[q], pos[p])
        /\ Close(s, pos[q]) <=> Close(pos[q], s)
  BY <1>1, BigPlaces, CellsAround
<1>5. /\ grids \in [Big!Gids -> SUBSET Objects] /\ sees \in [Wanderers -> SUBSET Objects]
      /\ state \in [Wanderers -> {"away", "loading", "done"}] /\ pos \in [Wanderers -> Sites]
  BY <1>1 DEF BigType
<1>6. /\ gone \in SUBSET Objects /\ come \in SUBSET Objects
      /\ \A q \in Wanderers :
           /\ q \in Big!UidsOf(gone) <=> state[q] = "done" /\ Close(pos[p], pos[q]) /\ ~ Close(s, pos[q])
           /\ q \in Big!UidsOf(come) <=> state[q] = "done" /\ Close(s, pos[q]) /\ ~ Close(pos[p], pos[q])
      /\ \A q \in Wanderers \ changed, a \in Avatars :
           /\ <<q, a>> \in gone <=> state[q] = "done" /\ Close(pos[p], pos[q]) /\ ~ Close(s, pos[q]) /\ a = active[q]
           /\ <<q, a>> \in come <=> state[q] = "done" /\ Close(s, pos[q]) /\ ~ Close(pos[p], pos[q]) /\ a = active[q]
  <2> HIDE DEF del, add
  <2> QED BY <1>1, <1>3, <1>4, FoundIn
<1>7. met \in SUBSET Objects /\ \A q \in Wanderers, a \in Avatars : <<q, a>> \in met <=> <<q, a>> \in come /\ a = active[q]
  <2>1. \A q \in Wanderers, a \in Avatars : <<q, a>>[1] = q /\ <<q, a>>[2] = a
    OBVIOUS
  <2> HIDE DEF come
  <2> QED BY <1>6, <2>1 DEF Big!AddSceneEntityNotify
<1> HIDE DEF b, here, there, del, add, gone, come, met
<1>8. /\ map \in [Big!Gids -> SUBSET Objects]
      /\ \A h \in Big!Gids, q \in Wanderers, a \in Avatars :
           <<q, a>> \in map[h] <=> IF q = p THEN (h = there /\ a = b) \/ (h # there /\ h # here /\ <<q, a>> \in grids[h])
                                   ELSE <<q, a>> \in grids[h]
  <2>0. grids \in [Big!Gids -> SUBSET Objects] /\ here \in Big!Gids \cup {Outside} /\ there \in Big!Gids \cup {Outside} /\ b \in Avatars
    BY <1>3, <1>5
  <2>1. TakenOut(left, grids, here, p)
    BY <2>0, GridsWithout
  <2> HIDE DEF left
  <2>2. left \in [Big!Gids -> SUBSET Objects]
    BY <2>1 DEF TakenOut
  <2>3. PutIn(map, left, there, p, b)
    BY <2>0, <2>2, GridsWith
  <2> HIDE DEF map
  <2>4. ASSUME NEW h \in Big!Gids, NEW q \in Wanderers, NEW a \in Avatars
        PROVE  <<q, a>> \in map[h] <=> IF q = p THEN (h = there /\ a = b) \/ (h # there /\ h # here /\ <<q, a>> \in grids[h])
                                        ELSE <<q, a>> \in grids[h]
    BY <2>1, <2>3 DEF TakenOut, PutIn
  <2> QED BY <2>3, <2>4 DEF PutIn
<1>9. \A q \in Wanderers, h \in Big!Gids :
        (\E a \in Avatars : <<q, a>> \in grids[h]) <=> state[q] = "done" /\ h = CellOf(pos[q])
  BY <1>1 DEF CellsTold
<1>10. \A h \in Big!Gids, q \in Wanderers, a \in Avatars :
         <<q, a>> \in map[h] <=> IF q = p THEN h = there /\ a = b ELSE <<q, a>> \in grids[h]
  <2>1. ASSUME NEW h \in Big!Gids, NEW a \in Avatars PROVE h # here => <<p, a>> \notin grids[h]
    BY <1>9 DEF here
  <2> QED BY <1>8, <2>1
<1>11. /\ sees' \in [Wanderers -> SUBSET Objects]
       /\ \A r \in Wanderers, q \in Wanderers, a \in Avatars :
            <<q, a>> \in sees'[r] <=>
              \/ /\ <<q, a>> \in sees[r] /\ ~ (r = p /\ <<q, a>> \in gone)
                 /\ ~ (q = p /\ a = b /\ r \in Big!UidsOf(gone) /\ r \notin away)
              \/ r = p /\ <<q, a>> \in met /\ q # p
              \/ q = p /\ a = b /\ r \in Big!UidsOf(come) /\ r # p /\ r \notin away
  <2>0. b \in Avatars
    BY <1>3
  <2>1. mine \in [Wanderers -> SUBSET Objects]
    BY <1>5
  <2>a. \A r \in Wanderers : mine[r] = IF r = p THEN sees[r] \ gone ELSE sees[r]
    BY <1>5
  <2> HIDE DEF mine
  <2>2. AllLost(lost, mine, Big!UidsOf(gone), p, b)
    BY <2>0, <2>1, NoneShown
  <2> HIDE DEF lost
  <2>3. lost \in [Wanderers -> SUBSET Objects]
    BY <2>2 DEF AllLost
  <2>4. OneGained(more, lost, p, met)
    BY <1>7, <2>3, OneShown
  <2> HIDE DEF more
  <2>7. more \in [Wanderers -> SUBSET Objects]
    BY <2>4 DEF OneGained
  <2>8. AllGained(sees', more, Big!UidsOf(come), p, b)
    BY <1>2, <2>0, <2>7, AllShown
  <2>5. ASSUME NEW r \in Wanderers, NEW q \in Wanderers, NEW a \in Avatars
        PROVE  <<q, a>> \in mine[r] <=> <<q, a>> \in sees[r] /\ ~ (r = p /\ <<q, a>> \in gone)
    BY <2>a
  <2>6. ASSUME NEW r \in Wanderers, NEW q \in Wanderers, NEW a \in Avatars
        PROVE  <<q, a>> \in sees'[r] <=>
              \/ /\ <<q, a>> \in sees[r] /\ ~ (r = p /\ <<q, a>> \in gone)
                 /\ ~ (q = p /\ a = b /\ r \in Big!UidsOf(gone) /\ r \notin away)
              \/ r = p /\ <<q, a>> \in met /\ q # p
              \/ q = p /\ a = b /\ r \in Big!UidsOf(come) /\ r # p /\ r \notin away
    BY <1>2, <2>2, <2>4, <2>5, <2>8 DEF AllLost, OneGained, AllGained
  <2> QED BY <2>6, <2>8 DEF AllGained
<1> HIDE DEF map, more
<1>12. pos' \in [Wanderers -> Sites] /\ \A q \in Wanderers : pos'[q] = IF q = p THEN s ELSE pos[q]
  BY <1>2, <1>5
<1>13. away' \subseteq away \cup {p} /\ away \subseteq away'
  BY <1>2
<1>14. BigType'
  BY <1>1, <1>2, <1>8, <1>11, <1>12, <1>13 DEF BigType
<1>15. Big!GridAgrees'
  <2>1. ASSUME NEW q \in Wanderers, NEW h \in Big!Gids
        PROVE  (\E a \in Avatars : <<q, a>> \in grids'[h]) <=> state'[q] = "done" /\ h = CellOf(pos'[q])
    <3>1. CASE q = p
      BY <1>2, <1>3, <1>10, <1>12, <3>1 DEF there
    <3>2. CASE q # p
      <4>1. \A a \in Avatars : <<q, a>> \in grids'[h] <=> <<q, a>> \in grids[h]
        BY <1>2, <1>10, <3>2
      <4> QED BY <1>2, <1>9, <1>12, <3>2, <4>1
    <3> QED BY <3>1, <3>2
  <2>2. CellsTold'
    BY <2>1 DEF CellsTold
  <2> QED BY <1>14, <2>2, CellsTellNext
<1>16. ObjectsActive'
  BY <1>1, <1>2, <1>10 DEF ObjectsActive, b
<1>17. ViewAgrees'
  <2>1. ASSUME NEW r \in Wanderers, state'[r] # "done" PROVE sees'[r] = {}
    <3>1. r # p /\ state[r] # "done" /\ sees[r] = {}
      BY <1>1, <1>2, <2>1 DEF ViewAgrees
    <3>2. ASSUME NEW q \in Wanderers, NEW a \in Avatars PROVE <<q, a>> \notin sees'[r]
      BY <1>6, <1>11, <3>1
    <3>3. sees'[r] \in SUBSET Objects
      BY <1>11
    <3> QED BY <3>2, <3>3, NoObjects
  <2>2. ASSUME NEW r \in Wanderers, NEW q \in Wanderers \ changed', NEW a \in Avatars, state'[r] = "done", r \notin away'
        PROVE  <<q, a>> \in sees'[r] <=> state'[q] = "done" /\ q # r /\ a = active'[q] /\ Close(pos'[r], pos'[q])
    <3>0. q \in Wanderers \ changed /\ r \notin away /\ state[r] = "done"
      BY <1>2, <1>13, <2>2
    <3>1. <<q, a>> \in sees[r] <=> state[q] = "done" /\ q # r /\ a = active[q] /\ Close(pos[r], pos[q])
      BY <1>1, <3>0 DEF ViewAgrees
    <3>2. CASE r = p
      <4>1. <<q, a>> \in sees'[r] <=> \/ <<q, a>> \in sees[r] /\ <<q, a>> \notin gone
                                      \/ <<q, a>> \in met /\ q # p
        BY <1>11, <3>1, <3>2
      <4>2. q # p => Close(pos'[r], pos'[q]) = Close(s, pos[q])
        BY <1>12, <3>2
      <4> QED BY <1>2, <1>6, <1>7, <3>0, <3>1, <3>2, <4>1, <4>2
    <3>3. CASE r # p /\ q = p
      <4>1. Close(pos'[r], pos'[q]) = Close(pos[r], s)
        BY <1>12, <3>3
      <4> QED BY <1>2, <1>4, <1>6, <1>11, <3>0, <3>1, <3>3, <4>1 DEF b
    <3>4. CASE r # p /\ q # p
      BY <1>2, <1>11, <1>12, <3>1, <3>4
    <3> QED BY <3>2, <3>3, <3>4
  <2> QED BY <2>1, <2>2 DEF ViewAgrees
<1>18. Big!AreaLimitHolds'
  <2>1. ASSUME NEW h \in Big!Gids
        PROVE  \/ Big!UidsOf(grids'[h]) \ away' \subseteq Big!UidsOf(grids[h]) \ away
               \/ Big!Cardinality(Big!UidsOf(grids'[h]) \ away') <= AreaLimit
    <3>1. grids'[h] \in SUBSET Objects /\ grids[h] \in SUBSET Objects
      BY <1>2, <1>5, <1>8
    <3>2. /\ \A q \in Wanderers : q \in Big!UidsOf(grids'[h]) <=> \E a \in Avatars : <<q, a>> \in grids'[h]
          /\ \A q \in Wanderers : q \in Big!UidsOf(grids[h]) <=> \E a \in Avatars : <<q, a>> \in grids[h]
          /\ Big!UidsOf(grids'[h]) \subseteq Wanderers
      BY <3>1, UidsAre
    <3>3. \A q \in Wanderers : q # p /\ q \in Big!UidsOf(grids'[h]) => q \in Big!UidsOf(grids[h])
      BY <1>2, <1>10, <3>2
    <3>4. CASE h # there
      <4>1. p \notin Big!UidsOf(grids'[h])
        BY <1>2, <1>10, <3>2, <3>4
      <4> QED BY <1>13, <3>2, <3>3, <4>1
    <3>5. CASE Big!TooMany(Big!Cardinality(grids'[h])) /\ h = there
      <4>1. p \in away'
        BY <1>2, <3>5, CellsAround
      <4> QED BY <1>13, <3>2, <3>3, <4>1
    <3>6. CASE ~ Big!TooMany(Big!Cardinality(grids'[h]))
      BY <3>1, <3>6, FewPlayers
    <3> QED BY <3>4, <3>5, <3>6
  <2> QED BY <1>1, <2>1, AreaKept
<1> QED BY <1>2, <1>14, <1>15, <1>16, <1>17, <1>18, BigUnheard DEF BigInv

\* A step that leaves the records alone.
LEMMA BigStays ==
  ASSUME BigInv, UNCHANGED <<state, pos, active, grids, away, sees, changed>>
  PROVE  /\ BigType' /\ Big!GridAgrees' /\ ObjectsActive' /\ ViewAgrees' /\ Big!AreaLimitHolds'
         /\ (heard' = {} => Big!HeardBySeers')
<1>1. BigType'
  BY DEF BigInv, BigType
<1>2. Big!GridAgrees'
  BY DEF BigInv, Big!GridAgrees
<1>3. ObjectsActive'
  BY DEF BigInv, ObjectsActive
<1>4. ViewAgrees'
  BY DEF BigInv, ViewAgrees
<1>5. Big!AreaLimitHolds'
  <2>1. \A g \in Big!Gids : Big!UidsOf(grids'[g]) \ away' \subseteq Big!UidsOf(grids[g]) \ away
    OBVIOUS
  <2> QED BY <2>1, AreaKept DEF BigInv
<1> QED BY <1>1, <1>2, <1>3, <1>4, <1>5, BigUnheard

\* Moving within a cell.
LEMMA BigMoves ==
  ASSUME BigInv, NEW p \in Wanderers, NEW s \in Sites, Big!EntityMove(p, s), CellOf(s) = CellOf(pos[p])
  PROVE  BigInv'
<1>1. BigType /\ Big!GridAgrees /\ ObjectsActive /\ ViewAgrees /\ Big!AreaLimitHolds
  BY DEF BigInv
<1>2. /\ pos' = [pos EXCEPT ![p] = s]
      /\ UNCHANGED <<state, active, grids, away, sees, changed>> /\ heard' = {}
  BY DEF Big!EntityMove, CellOf
<1>3. pos' \in [Wanderers -> Sites] /\ \A q \in Wanderers : pos'[q] = IF q = p THEN s ELSE pos[q]
  BY <1>1, <1>2 DEF BigType
<1>4. \A q \in Wanderers : CellOf(pos'[q]) = CellOf(pos[q]) /\ CellsBy(pos'[q]) = CellsBy(pos[q])
  BY <1>3 DEF CellOf, CellsBy
<1>5. BigType'
  BY <1>1, <1>2, <1>3 DEF BigType
<1>6. Big!GridAgrees'
  BY <1>1, <1>2, <1>4 DEF Big!GridAgrees, CellOf
<1>7. ObjectsActive'
  BY <1>1, <1>2 DEF ObjectsActive
<1>8. ViewAgrees'
  <2>1. \A r, q \in Wanderers : Close(pos'[r], pos'[q]) <=> Close(pos[r], pos[q])
    <3>1. \A r \in Wanderers : pos[r] \in Sites /\ pos'[r] \in Sites
      BY <1>1, <1>3, BigPlaces
    <3>2. ASSUME NEW r \in Wanderers, NEW q \in Wanderers
          PROVE  Close(pos'[r], pos'[q]) <=> Close(pos[r], pos[q])
      <4>1. Close(pos'[r], pos'[q]) <=> CellOf(pos'[q]) \in CellsBy(pos'[r])
        BY <3>1, CellsAround
      <4>2. Close(pos[r], pos[q]) <=> CellOf(pos[q]) \in CellsBy(pos[r])
        BY <3>1, CellsAround
      <4> QED BY <1>4, <4>1, <4>2
    <3> QED BY <3>2
  <2> QED BY <1>1, <1>2, <2>1 DEF ViewAgrees
<1>9. Big!AreaLimitHolds'
  <2>1. \A g \in Big!Gids : Big!UidsOf(grids'[g]) \ away' \subseteq Big!UidsOf(grids[g]) \ away
    BY <1>2
  <2> QED BY <1>1, <2>1, AreaKept
<1> QED BY <1>2, <1>5, <1>6, <1>7, <1>8, <1>9, BigUnheard DEF BigInv

\* A change of avatar: the cell keeps the former one, and the player is one of those that
\* changed.
LEMMA BigChanges ==
  ASSUME BigInv, NEW p \in Wanderers, NEW a \in Avatars, Big!ChangeAvatarReq(p, a)
  PROVE  BigInv'
<1> DEFINE b == active[p]
           to == Big!SendToSceneA(p, grids)
           lost == Big!AllLose(sees, to, <<p, b>>)
<1>1. BigType /\ Big!GridAgrees /\ ObjectsActive /\ ViewAgrees /\ Big!AreaLimitHolds
  BY DEF BigInv
<1>2. /\ state[p] = "done"
      /\ active' = [active EXCEPT ![p] = a]
      /\ sees' = Big!AllShow(lost, to, <<p, a>>)
      /\ changed' = changed \cup {p}
      /\ UNCHANGED <<state, pos, grids, away>> /\ heard' = {}
  BY DEF Big!ChangeAvatarReq, Big!Handled
<1>3. to \subseteq Wanderers /\ \A q \in to : state[q] = "done"
  BY <1>1, SentTo
<1>4. b \in Avatars /\ sees \in [Wanderers -> SUBSET Objects]
  BY <1>1, BigPlaces DEF BigType
<1> HIDE DEF b, to
<1>5. /\ lost \in [Wanderers -> SUBSET Objects]
      /\ \A r \in Wanderers, q \in Wanderers, c \in Avatars :
           <<q, c>> \in lost[r] <=> <<q, c>> \in sees[r] /\ ~ (q = p /\ c = b /\ r \in to /\ r \notin away)
  <2>1. AllLost(lost, sees, to, p, b)
    BY <1>4, NoneShown
  <2> HIDE DEF lost
  <2> QED BY <2>1 DEF AllLost
<1> HIDE DEF lost
<1>6. /\ sees' \in [Wanderers -> SUBSET Objects]
      /\ \A r \in Wanderers, q \in Wanderers, c \in Avatars :
           <<q, c>> \in sees'[r] <=> <<q, c>> \in lost[r] \/ (q = p /\ c = a /\ r \in to /\ r # p /\ r \notin away)
  <2>1. AllGained(sees', lost, to, p, a)
    BY <1>2, <1>5, AllShown
  <2> QED BY <2>1 DEF AllGained
<1>7. active' \in [Wanderers -> Avatars] /\ \A q \in Wanderers : q # p => active'[q] = active[q]
  BY <1>1, <1>2 DEF BigType
<1>8. BigType'
  BY <1>1, <1>2, <1>6, <1>7 DEF BigType
<1>9. Big!GridAgrees'
  BY <1>1, <1>2 DEF Big!GridAgrees
<1>10. ObjectsActive'
  BY <1>1, <1>2, <1>7 DEF ObjectsActive
<1>11. ViewAgrees'
  <2>1. ASSUME NEW r \in Wanderers, state'[r] # "done" PROVE sees'[r] = {}
    <3>1. r \notin to /\ sees[r] = {}
      BY <1>1, <1>2, <1>3, <2>1 DEF ViewAgrees
    <3>2. ASSUME NEW q \in Wanderers, NEW c \in Avatars PROVE <<q, c>> \notin sees'[r]
      BY <1>5, <1>6, <3>1
    <3>3. sees'[r] \in SUBSET Objects
      BY <1>6
    <3> QED BY <3>2, <3>3, NoObjects
  <2>2. ASSUME NEW r \in Wanderers, NEW q \in Wanderers \ changed', NEW c \in Avatars, state'[r] = "done", r \notin away'
        PROVE  <<q, c>> \in sees'[r] <=> state'[q] = "done" /\ q # r /\ c = active'[q] /\ Close(pos'[r], pos'[q])
    <3>1. q # p /\ q \in Wanderers \ changed
      BY <1>2, <2>2
    <3>2. <<q, c>> \in sees[r] <=> state[q] = "done" /\ q # r /\ c = active[q] /\ Close(pos[r], pos[q])
      BY <1>1, <1>2, <2>2, <3>1 DEF ViewAgrees
    <3>3. <<q, c>> \in sees'[r] <=> <<q, c>> \in sees[r]
      BY <1>5, <1>6, <3>1
    <3> QED BY <1>2, <1>7, <3>1, <3>2, <3>3
  <2> QED BY <2>1, <2>2 DEF ViewAgrees
<1>12. Big!AreaLimitHolds'
  <2>1. \A g \in Big!Gids : Big!UidsOf(grids'[g]) \ away' \subseteq Big!UidsOf(grids[g]) \ away
    BY <1>2
  <2> QED BY <1>1, <2>1, AreaKept
<1> QED BY <1>2, <1>8, <1>9, <1>10, <1>11, <1>12, BigUnheard DEF BigInv

\* Leaving the scene, to load it anew elsewhere or for good.
LEMMA BigLeaves ==
  ASSUME BigInv, NEW p \in Wanderers, NEW x \in {"loading", "away"},
         state[p] = "done" \/ x = "away",
         state' = [state EXCEPT ![p] = x],
         sees' = [Big!AllLose(sees, Big!SendToSceneA(p, grids), <<p, active[p]>>) EXCEPT ![p] = {}],
         grids' = Big!Without(grids, Big!GetGidByPos(pos[p]), p),
         pos' \in [Wanderers -> Sites], \A q \in Wanderers \ {p} : pos'[q] = pos[q],
         away' = IF x = "away" THEN away \ {p} ELSE away,
         UNCHANGED <<active, changed>>, heard' = {}
  PROVE  BigInv'
<1> DEFINE b == active[p]
           g == CellOf(pos[p])
           to == Big!SendToSceneA(p, grids)
           lost == Big!AllLose(sees, to, <<p, b>>)
<1>1. BigType /\ Big!GridAgrees /\ CellsTold /\ ObjectsActive /\ ViewAgrees /\ Big!AreaLimitHolds
  BY CellsTell DEF BigInv
<1>2. to \subseteq Wanderers /\ \A q \in Wanderers : q \in to <=> state[q] = "done" /\ Close(pos[p], pos[q])
  BY <1>1, SentTo
<1>3. \A q \in Wanderers : Close(pos[p], pos[q]) <=> Close(pos[q], pos[p])
  BY <1>1, BigPlaces, CellsAround
<1>4. b \in Avatars /\ sees \in [Wanderers -> SUBSET Objects] /\ grids \in [Big!Gids -> SUBSET Objects]
      /\ g \in Big!Gids \cup {Outside}
  BY <1>1, BigPlaces DEF BigType
<1>5. \A q \in Wanderers, h \in Big!Gids :
        (\E a \in Avatars : <<q, a>> \in grids[h]) <=> state[q] = "done" /\ h = CellOf(pos[q])
  BY <1>1 DEF CellsTold
<1>6. grids' = Big!Without(grids, g, p) /\ sees' = [lost EXCEPT ![p] = {}]
  BY DEF CellOf
<1>7. \A a \in Avatars, h \in Big!Gids : <<p, a>> \in grids[h] => h = g
  BY <1>5
<1> HIDE DEF b, to, g
<1>8. /\ lost \in [Wanderers -> SUBSET Objects]
      /\ \A r \in Wanderers, q \in Wanderers, c \in Avatars :
           <<q, c>> \in lost[r] <=> <<q, c>> \in sees[r] /\ ~ (q = p /\ c = b /\ r \in to /\ r \notin away)
  <2>1. AllLost(lost, sees, to, p, b)
    BY <1>4, NoneShown
  <2> HIDE DEF lost
  <2> QED BY <2>1 DEF AllLost
<1> HIDE DEF lost
<1>9. /\ sees' \in [Wanderers -> SUBSET Objects]
      /\ \A r \in Wanderers : sees'[r] = IF r = p THEN {} ELSE lost[r]
  BY <1>6, <1>8
<1>10. /\ grids' \in [Big!Gids -> SUBSET Objects]
       /\ \A h \in Big!Gids, q \in Wanderers, a \in Avatars : <<q, a>> \in grids'[h] <=> <<q, a>> \in grids[h] /\ q # p
  <2>1. TakenOut(grids', grids, g, p)
    <3>1. TakenOut(Big!Without(grids, g, p), grids, g, p)
      BY <1>4, GridsWithout
    <3> QED BY <1>6, <3>1
  <2> QED BY <1>7, <2>1 DEF TakenOut
<1>11. state' \in [Wanderers -> {"away", "loading", "done"}]
       /\ \A q \in Wanderers : state'[q] = IF q = p THEN x ELSE state[q]
  BY <1>1 DEF BigType
<1>12. BigType'
  <2>1. away' \subseteq {q \in Wanderers : state'[q] # "away"}
    BY <1>1, <1>11 DEF BigType
  <2> QED BY <1>1, <1>9, <1>10, <1>11, <2>1 DEF BigType
<1>13. Big!GridAgrees'
  <2>1. ASSUME NEW q \in Wanderers, NEW h \in Big!Gids
        PROVE  (\E a \in Avatars : <<q, a>> \in grids'[h]) <=> state'[q] = "done" /\ h = CellOf(pos'[q])
    <3>1. CASE q = p
      BY <1>10, <1>11, <3>1
    <3>2. CASE q # p
      <4>1. \A a \in Avatars : <<q, a>> \in grids'[h] <=> <<q, a>> \in grids[h]
        BY <1>10, <3>2
      <4> QED BY <1>5, <1>11, <3>2, <4>1
    <3> QED BY <3>1, <3>2
  <2>2. CellsTold'
    BY <2>1 DEF CellsTold
  <2> QED BY <1>12, <2>2, CellsTellNext
<1>14. ObjectsActive'
  BY <1>1, <1>10 DEF ObjectsActive
<1>15. ViewAgrees'
  <2>1. ASSUME NEW r \in Wanderers, state'[r] # "done" PROVE sees'[r] = {}
    <3>1. CASE r = p
      BY <1>9, <3>1
    <3>2. CASE r # p
      <4>1. sees[r] = {}
        BY <1>1, <1>11, <2>1, <3>2 DEF ViewAgrees
      <4>2. ASSUME NEW q \in Wanderers, NEW c \in Avatars PROVE <<q, c>> \notin sees'[r]
        BY <1>8, <1>9, <3>2, <4>1
      <4>3. sees'[r] \in SUBSET Objects
        BY <1>9
      <4> QED BY <4>2, <4>3, NoObjects
    <3> QED BY <3>1, <3>2
  <2>2. ASSUME NEW r \in Wanderers, NEW q \in Wanderers \ changed', NEW c \in Avatars, state'[r] = "done", r \notin away'
        PROVE  <<q, c>> \in sees'[r] <=> state'[q] = "done" /\ q # r /\ c = active'[q] /\ Close(pos'[r], pos'[q])
    <3>1. r # p /\ r \notin away /\ state[r] = "done"
      BY <1>11, <2>2
    <3>2. <<q, c>> \in sees[r] <=> state[q] = "done" /\ q # r /\ c = active[q] /\ Close(pos[r], pos[q])
      BY <1>1, <2>2, <3>1 DEF ViewAgrees
    <3>3. <<q, c>> \in sees'[r] <=> <<q, c>> \in sees[r] /\ ~ (q = p /\ c = b /\ r \in to /\ r \notin away)
      BY <1>8, <1>9, <3>1
    <3>4. CASE q = p
      <4>1. ~ <<q, c>> \in sees'[r]
        BY <1>2, <1>3, <3>1, <3>2, <3>3, <3>4 DEF b
      <4> QED BY <1>11, <3>4, <4>1
    <3>5. CASE q # p
      BY <1>11, <3>1, <3>2, <3>3, <3>5
    <3> QED BY <3>4, <3>5
  <2> QED BY <2>1, <2>2 DEF ViewAgrees
<1>16. Big!AreaLimitHolds'
  <2>1. ASSUME NEW h \in Big!Gids
        PROVE  Big!UidsOf(grids'[h]) \ away' \subseteq Big!UidsOf(grids[h]) \ away
    <3>1. grids'[h] \in SUBSET Objects /\ grids[h] \in SUBSET Objects
      BY <1>4, <1>10
    <3>2. /\ \A q \in Wanderers : q \in Big!UidsOf(grids'[h]) <=> \E a \in Avatars : <<q, a>> \in grids'[h]
          /\ \A q \in Wanderers : q \in Big!UidsOf(grids[h]) <=> \E a \in Avatars : <<q, a>> \in grids[h]
          /\ Big!UidsOf(grids'[h]) \subseteq Wanderers
      BY <3>1, UidsAre
    <3>3. \A q \in Big!UidsOf(grids'[h]) : q # p /\ q \in Big!UidsOf(grids[h])
      BY <1>10, <3>2
    <3> QED BY <3>3
  <2> QED BY <1>1, <2>1, AreaKept
<1> QED BY <1>12, <1>13, <1>14, <1>15, <1>16, BigUnheard DEF BigInv

\* Forwarding.
LEMMA BigForwards ==
  ASSUME BigInv, NEW p \in Wanderers, Big!Handled(p), NEW to \in SUBSET Big!SendToSceneA(p, grids),
         heard' = {<<p, q>> : q \in to},
         UNCHANGED <<state, pos, active, grids, away, sees, changed>>
  PROVE  BigInv'
<1>1. BigType /\ Big!GridAgrees /\ ObjectsActive /\ ViewAgrees
  BY DEF BigInv
<1>2. to \subseteq Wanderers /\ \A q \in to : state[q] = "done" /\ Close(pos[p], pos[q])
  BY <1>1, SentTo
<1>3. ASSUME NEW q \in to, p \notin changed, q # p, q \notin away
      PROVE  <<p, active[p]>> \in sees[q]
  <2>1. Close(pos[q], pos[p]) /\ active[p] \in Avatars
    BY <1>1, <1>2, BigPlaces, CellsAround
  <2> QED BY <1>1, <1>2, <1>3, <2>1 DEF ViewAgrees, Big!Handled
<1>4. Big!HeardBySeers'
  <2>1. ASSUME NEW h \in heard'
        PROVE  h[1] \in changed \/ h[2] \in {h[1]} \cup away \/ <<h[1], active[h[1]]>> \in sees[h[2]]
    <3>1. PICK q \in to : h = <<p, q>>
      OBVIOUS
    <3>2. h[1] = p /\ h[2] = q
      BY <3>1
    <3> QED BY <1>3, <3>2
  <2> QED BY <2>1 DEF Big!HeardBySeers
<1> QED BY <1>4, BigStays DEF BigInv

\* Every action keeps it.
LEMMA BigStep == ASSUME BigInv, Big!Next PROVE BigInv'
<1>1. PICK p \in Wanderers :
    \/ Big!UserWorldAddPlayer(p) \/ Big!EnterSceneDoneReq(p) \/ Big!UserWorldRemovePlayer(p) \/ Big!UnionCmdNotify(p)
    \/ \E s \in Sites : Big!EntityMove(p, s) \/ Big!TeleportPlayer(p, s)
    \/ \E a \in Avatars : Big!ChangeAvatarReq(p, a)
    \/ \E f \in Big!Forwards :
         Big!CombatInvocationsNotify(p, f) \/ Big!AbilityInvocationsNotify(p, f) \/ Big!ClientAbilityNotify(p, f)
    \/ Big!EvtNotify(p)
  BY DEF Big!Next
<1>2. BigType /\ Big!GridAgrees /\ ObjectsActive /\ ViewAgrees /\ Big!AreaLimitHolds /\ pos \in [Wanderers -> Sites]
  BY DEF BigInv, BigType
<1>3. CASE Big!UserWorldAddPlayer(p)
  <2>1. /\ state[p] = "away" /\ state' = [state EXCEPT ![p] = "loading"]
        /\ UNCHANGED <<pos, active, grids, away, sees, heard, changed>>
    BY <1>3 DEF Big!UserWorldAddPlayer
  <2>2. state' \in [Wanderers -> {"away", "loading", "done"}]
        /\ \A q \in Wanderers : state'[q] = IF q = p THEN "loading" ELSE state[q]
    BY <1>2, <2>1 DEF BigType
  <2>3. BigType'
    BY <1>2, <2>1, <2>2 DEF BigType
  <2>4. \A q \in Wanderers : state'[q] = "done" <=> state[q] = "done"
    BY <2>1, <2>2
  <2>5. Big!GridAgrees' /\ ObjectsActive' /\ ViewAgrees'
    BY <1>2, <2>1, <2>4 DEF Big!GridAgrees, ObjectsActive, ViewAgrees
  <2>6. Big!HeardBySeers'
    BY <2>1 DEF BigInv, Big!HeardBySeers
  <2>7. Big!AreaLimitHolds'
    <3>1. \A g \in Big!Gids : Big!UidsOf(grids'[g]) \ away' \subseteq Big!UidsOf(grids[g]) \ away
      BY <2>1
    <3> QED BY <1>2, <3>1, AreaKept
  <2> QED BY <2>3, <2>5, <2>6, <2>7 DEF BigInv
<1>4. CASE Big!EnterSceneDoneReq(p)
  BY <1>4, BigEnters
<1>5. CASE Big!UserWorldRemovePlayer(p)
  BY <1>2, <1>5, BigLeaves DEF Big!UserWorldRemovePlayer, Big!Leave
<1>6. CASE Big!UnionCmdNotify(p)
  <2> DEFINE waiting(handler) == {f \in Big!Forwards : <<handler, f>> \in said[p]}
             to == Big!DoForward(p, waiting("combat")) \cup Big!DoForward(p, waiting("ability"))
  <2>1. to \subseteq Big!SendToSceneA(p, grids)
    BY DEF Big!DoForward, Big!SendToSceneAEC
  <2>2. /\ Big!Handled(p) /\ heard' = {<<p, q>> : q \in to}
        /\ UNCHANGED <<state, pos, active, grids, away, sees, changed>>
    BY <1>6 DEF Big!UnionCmdNotify
  <2> HIDE DEF to
  <2> QED BY <2>1, <2>2, BigForwards
<1>7. ASSUME NEW s \in Sites, Big!EntityMove(p, s) PROVE BigInv'
  BY <1>7, BigCrosses, BigMoves
<1>8. ASSUME NEW s \in Sites, Big!TeleportPlayer(p, s) PROVE BigInv'
  <2>1. pos' \in [Wanderers -> Sites] /\ \A q \in Wanderers \ {p} : pos'[q] = pos[q]
    BY <1>2, <1>8 DEF Big!TeleportPlayer
  <2> QED BY <1>8, <2>1, BigLeaves DEF Big!TeleportPlayer
<1>9. ASSUME NEW a \in Avatars, Big!ChangeAvatarReq(p, a) PROVE BigInv'
  BY <1>9, BigChanges
<1>10. ASSUME NEW f \in Big!Forwards, Big!CombatInvocationsNotify(p, f) \/ Big!AbilityInvocationsNotify(p, f)
       PROVE  BigInv'
  <2>1. UNCHANGED <<state, pos, active, grids, away, sees, changed>> /\ heard' = {}
    BY <1>10 DEF Big!CombatInvocationsNotify, Big!AbilityInvocationsNotify, Big!AddEntry
  <2> QED BY <2>1, BigStays DEF BigInv
<1>11. ASSUME NEW f \in Big!Forwards, Big!ClientAbilityNotify(p, f) PROVE BigInv'
  <2>1. Big!DoForward(p, {f}) \subseteq Big!SendToSceneA(p, grids)
    BY DEF Big!DoForward, Big!SendToSceneAEC
  <2> QED BY <1>11, <2>1, BigForwards DEF Big!ClientAbilityNotify, Big!ForwardNow
<1>12. CASE Big!EvtNotify(p)
  BY <1>12, BigForwards DEF Big!EvtNotify, Big!ForwardNow
<1> QED BY <1>1, <1>3, <1>4, <1>5, <1>6, <1>7, <1>8, <1>9, <1>10, <1>11, <1>12

\* The start of the big world.
LEMMA BigStart == ASSUME Big!Init PROVE BigInv
<1> DEFINE b == CHOOSE a \in Avatars : TRUE
<1>1. /\ state = [p \in Wanderers |-> "away"] /\ pos \in [Wanderers -> Sites]
      /\ active \in [Wanderers -> {b}] /\ grids = [g \in Big!Gids |-> {}]
      /\ away = {} /\ sees = [p \in Wanderers |-> {}] /\ heard = {} /\ changed = {}
  BY DEF Big!Init
<1>2. b \in Avatars
  BY Big!BigWorldAssumption DEF Big!BigWorldAssumption
<1> HIDE DEF b
<1>3. BigType
  BY <1>1, <1>2 DEF BigType
<1>4. ObjectsActive /\ ViewAgrees /\ Big!HeardBySeers /\ CellsTold
  BY <1>1 DEF ObjectsActive, ViewAgrees, Big!HeardBySeers, CellsTold
<1>5. Big!AreaLimitHolds
  <2>1. ASSUME NEW g \in Big!Gids PROVE Big!Cardinality(Big!UidsOf(grids[g]) \ away) <= AreaLimit
    <3>1. Big!UidsOf(grids[g]) \ away = {}
      BY <1>1 DEF Big!UidsOf
    <3> QED BY <3>1, BigCounts, BigNums, FS_EmptySet
  <2> QED BY <2>1 DEF Big!AreaLimitHolds
<1> QED BY <1>3, <1>4, <1>5, CellsTell DEF BigInv

\* The properties of the big world.
LEMMA BigHolds == ASSUME BigInv PROVE Big!SeesAgree /\ Big!GridAgrees /\ Big!AreaLimitHolds /\ Big!HeardBySeers
<1>1. Big!SeesAgree
  <2> SUFFICES ASSUME NEW p \in Big!Entered \ away
               PROVE  {o \in sees[p] : o[1] \notin changed}
                        = {<<q, active[q]>> : q \in {r \in Big!Entered \ ({p} \cup changed) : Big!Beside(p, r)}}
    BY DEF Big!SeesAgree
  <2>1. \A q \in Wanderers : Big!Beside(p, q) <=> Close(pos[p], pos[q])
    BY DEF Big!Beside, Big!Cell, Close
  <2>2. p \in Wanderers /\ state[p] = "done" /\ p \notin away /\ sees[p] \in SUBSET Objects
    BY BigPlaces DEF Big!Entered, BigInv
  <2>3. ASSUME NEW o \in Objects
        PROVE  o \in sees[p] /\ o[1] \notin changed
                 <=> \E q \in {r \in Big!Entered \ ({p} \cup changed) : Big!Beside(p, r)} : o = <<q, active[q]>>
    <3>1. o = <<o[1], o[2]>> /\ o[1] \in Wanderers /\ o[2] \in Avatars
      BY DEF Objects
    <3>2. o[1] \notin changed =>
            (o \in sees[p] <=> state[o[1]] = "done" /\ o[1] # p /\ o[2] = active[o[1]] /\ Close(pos[p], pos[o[1]]))
      BY <2>2, <3>1 DEF BigInv, ViewAgrees
    <3>3. \A q : o = <<q, active[q]>> <=> q = o[1] /\ o[2] = active[q]
      BY <3>1
    <3> QED BY <2>1, <3>1, <3>2, <3>3 DEF Big!Entered
  <2>4. \A q \in Wanderers : <<q, active[q]>> \in Objects
    BY BigPlaces DEF Objects, BigInv
  <2> QED BY <2>2, <2>3, <2>4 DEF Big!Entered
<1> QED BY <1>1 DEF BigInv
-----------------------------------------------------------------------------
(* Stamina and skiffs.                                                     *)

\* What is kept of a player's stamina: it has waited no longer than it was not charged.
StaminaType ==
  [state : Sea!Motions \cup {"none"}, cost : {-1, 0, 1}, delay : Nat, skiffDelay : Nat,
   back : Nat, cur : 0..MaxStamina, pause : BOOLEAN, dead : BOOLEAN]
Waited(i, s) == i \in StaminaType /\ s \in Nat /\ i.delay <= s /\ s <= RestoreDelay

\* What is kept of the skiffs: a player's last one is its own while it is there, and
\* whoever takes itself to be aboard is.
SkiffType == [owner : Sea!Here \X Nat, scene : Shores, members : SUBSET (Sea!Here \X Nat), cur : 0..MaxStamina]
SkiffsInv ==
  /\ ids \in Nat /\ DOMAIN skiffs \subseteq 1..ids /\ skiffs \in [DOMAIN skiffs -> SkiffType]
  /\ aboard \in [Sea!Here -> 0..ids] /\ last \in [Sea!Here -> 0..ids]
  /\ login \in [Sea!Here -> Nat] /\ shore \in [Sea!Here -> Shores]
  /\ \A p \in Sea!Here : last[p] \in DOMAIN skiffs => skiffs[last[p]].owner = Sea!Self(p)
  /\ Sea!AboardAgrees
StaminaInv == /\ info \in [Sea!Here -> StaminaType] /\ since \in [Sea!Here -> Nat]
              /\ \A p \in Sea!Here : Waited(info[p], since[p])

\* The bounds.
LEMMA SeaNums ==
  /\ MaxStamina \in Nat /\ RestoreDelay \in Nat /\ DrownDelay \in Nat /\ DrownDelay >= 2
  /\ MaxSkiffs \in Nat /\ Shores # {}
BY Sea!StaminaAssumption DEF Sea!StaminaAssumption

\* What motions cost.
LEMMA SeaCosts ==
  /\ \A m \in DOMAIN Sea!TickCost : Sea!TickCost[m] \in {-1, 0, 1}
  /\ \A m \in DOMAIN Sea!StartCost : Sea!StartCost[m] \in {-1, -2}
<1>1. DOMAIN Sea!TickCost = {"stand", "dash", "climb", "swim", "swimDash", "poweredFly", "skiff",
                             "skiffDash", "skiffPowered"}
  BY DEF Sea!TickCost
<1>2. DOMAIN Sea!StartCost = {"climb", "climbJump", "dashBefore", "swimDash"}
  BY DEF Sea!StartCost
<1>3. \A m \in DOMAIN Sea!TickCost : Sea!TickCost[m] \in {-1, 0, 1}
  BY <1>1 DEF Sea!TickCost
<1>4. \A m \in DOMAIN Sea!StartCost : Sea!StartCost[m] \in {-1, -2}
  BY <1>2 DEF Sea!StartCost
<1> QED BY <1>3, <1>4

\* Stamina stays between its bounds, and goes where the cost goes.
LEMMA ChangeIs ==
  ASSUME NEW c \in 0..MaxStamina, NEW cost \in -2..1
  PROVE  Sea!Change(c, cost) \in 0..MaxStamina /\ (cost < 0 => Sea!Change(c, cost) <= c)
BY SeaNums DEF Sea!Change

\* A charge ends the wait; a restoration is a tick of it until it is over.
LEMMA UpdateIs ==
  ASSUME NEW i \in StaminaType, NEW cost \in -2..1
  PROVE  LET u == Sea!UpdatePlayerStamina(i, cost) IN
         /\ u \in StaminaType
         /\ u.state = i.state /\ u.cost = i.cost /\ u.pause = i.pause
         /\ u.back = i.back \/ u.back = 1
         /\ cost = 0 => u = i
         /\ cost < 0 => u.delay = 0 /\ u.cur <= i.cur
         /\ cost > 0 => \/ i.delay < RestoreDelay /\ u.delay = i.delay + 1 /\ u.cur = i.cur
                        \/ u.delay = i.delay /\ (i.delay >= RestoreDelay \/ i.state = "poweredFly")
<1> DEFINE d == Sea!HandleDrown(i, Sea!Change(i.cur, cost))
           w == [i EXCEPT !.delay = @ + 1]
           ch == Sea!Charge(i, cost)
<1>1. /\ d \in StaminaType /\ d.state = i.state /\ d.cost = i.cost /\ d.pause = i.pause
      /\ d.delay = i.delay /\ (d.back = i.back \/ d.back = 1)
  BY DEF Sea!HandleDrown, Sea!KillPlayerAvatar, StaminaType
<1>2. /\ w \in StaminaType /\ w.delay = i.delay + 1 /\ w.cur = i.cur /\ w.state = i.state
      /\ w.cost = i.cost /\ w.pause = i.pause /\ w.back = i.back
  BY DEF StaminaType
<1>3. Sea!Change(i.cur, cost) \in 0..MaxStamina /\ (cost < 0 => Sea!Change(i.cur, cost) <= i.cur)
  BY ChangeIs DEF StaminaType
<1>4. ch = [d EXCEPT !.cur = Sea!Change(i.cur, cost), !.delay = IF cost < 0 THEN 0 ELSE @]
  BY DEF Sea!Charge
<1> HIDE DEF d, w, ch
<1>5. /\ ch \in StaminaType /\ ch.state = i.state /\ ch.cost = i.cost /\ ch.pause = i.pause
      /\ (ch.back = i.back \/ ch.back = 1) /\ ch.cur = Sea!Change(i.cur, cost)
      /\ ch.delay = IF cost < 0 THEN 0 ELSE i.delay
  BY <1>1, <1>3, <1>4 DEF StaminaType
<1>6. Sea!UpdatePlayerStamina(i, cost) = IF cost = 0 THEN i ELSE IF Sea!Waits(i, cost) THEN w ELSE ch
  BY DEF Sea!UpdatePlayerStamina, w, ch
<1>7. Sea!Waits(i, cost) <=> cost > 0 /\ i.delay < RestoreDelay /\ i.state # "poweredFly"
  BY DEF Sea!Waits
<1>8. i.delay \in Nat
  BY DEF StaminaType
<1>9. CASE cost = 0
  BY <1>6, <1>9
<1>10. CASE cost # 0 /\ Sea!Waits(i, cost)
  BY <1>2, <1>6, <1>7, <1>8, <1>10
<1>11. CASE cost # 0 /\ ~ Sea!Waits(i, cost)
  BY <1>3, <1>5, <1>6, <1>7, <1>8, <1>11, SeaNums
<1> QED BY <1>9, <1>10, <1>11

\* Counting for a skiff leaves the player's own stamina alone.
LEMMA SkiffDelayIs ==
  ASSUME NEW i \in StaminaType, NEW cost \in -2..1
  PROVE  LET u == Sea!SkiffDelay(i, cost) IN
         /\ u \in StaminaType
         /\ u.state = i.state /\ u.cost = i.cost /\ u.pause = i.pause
         /\ u.back = i.back /\ u.delay = i.delay /\ u.cur = i.cur
BY DEF Sea!SkiffDelay, StaminaType

\* One that drowned gets stamina on the ground, and nobody else does.
LEMMA DrownBackIs ==
  ASSUME NEW i \in StaminaType
  PROVE  LET u == Sea!DrownBack(i) IN
         u \in StaminaType /\ u.delay = i.delay /\ (i.back # DrownDelay => u.cur = i.cur)
<1> DEFINE a == [Sea!RevivePlayerAvatar(i) EXCEPT !.back = 0]
           b == [i EXCEPT !.cur = MaxStamina \div 2, !.back = @ + 1]
           c == [i EXCEPT !.back = @ + 1]
<1>1. MaxStamina \div 2 \in 0..MaxStamina
  BY SeaNums
<1>2. a \in StaminaType /\ a.delay = i.delay /\ a.cur = i.cur
  BY DEF Sea!RevivePlayerAvatar, StaminaType
<1>3. b \in StaminaType /\ b.delay = i.delay
  <2> DEFINE h == [i EXCEPT !.cur = MaxStamina \div 2]
  <2>1. \A n \in 0..MaxStamina : [i EXCEPT !.cur = n] \in StaminaType /\ [i EXCEPT !.cur = n].delay = i.delay
    BY DEF StaminaType
  <2>2. h \in StaminaType /\ h.delay = i.delay /\ h.back = i.back
    BY <1>1, <2>1 DEF StaminaType
  <2>3. b = [h EXCEPT !.back = i.back + 1]
    OBVIOUS
  <2> HIDE DEF h
  <2>4. \A n \in Nat : [h EXCEPT !.back = n] \in StaminaType /\ [h EXCEPT !.back = n].delay = h.delay
    BY <2>2 DEF StaminaType
  <2>5. i.back + 1 \in Nat
    BY DEF StaminaType
  <2> QED BY <2>2, <2>3, <2>4, <2>5
<1>4. c \in StaminaType /\ c.delay = i.delay /\ c.cur = i.cur
  BY DEF StaminaType
<1>5. Sea!DrownBack(i) = IF i.back = 0 THEN i ELSE IF i.back > DrownDelay THEN a
                         ELSE IF i.back = DrownDelay THEN b ELSE c
  <2>1. i.back \in Nat
    BY DEF StaminaType
  <2> HIDE DEF a, b, c
  <2>2. CASE i.back = 0
    BY <2>2, SeaNums DEF Sea!DrownBack
  <2>3. CASE i.back > DrownDelay
    BY <2>1, <2>3, SeaNums DEF Sea!DrownBack, a
  <2>4. CASE i.back = DrownDelay
    BY <2>1, <2>4, SeaNums DEF Sea!DrownBack, b
  <2>5. CASE i.back # 0 /\ ~ i.back > DrownDelay /\ i.back # DrownDelay
    BY <2>1, <2>5, SeaNums DEF Sea!DrownBack, c
  <2> QED BY <2>1, <2>2, <2>3, <2>4, <2>5, SeaNums
<1> HIDE DEF a, b, c
<1> QED BY <1>2, <1>3, <1>4, <1>5

\* What a step may do with a player's stamina.
Sound(i, s, j, t) ==
  /\ Waited(j, t)
  /\ j.cur > i.cur => s >= RestoreDelay \/ i.state = "poweredFly" \/ i.back = DrownDelay

\* A charge.
LEMMA ChargeSound ==
  ASSUME NEW i, NEW s, Waited(i, s), NEW j \in StaminaType, j.cur = i.cur, NEW cost \in {-1, -2}
  PROVE  Sound(i, s, Sea!UpdatePlayerStamina(j, cost), 0)
<1> DEFINE u == Sea!UpdatePlayerStamina(j, cost)
<1>1. u \in StaminaType /\ u.delay = 0 /\ u.cur <= j.cur
  BY UpdateIs
<1> HIDE DEF u
<1>2. i.cur \in Nat /\ u.cur \in Nat
  BY <1>1, SeaNums DEF Waited, StaminaType
<1>3. Sound(i, s, u, 0)
  BY <1>1, <1>2, SeaNums DEF Sound, Waited
<1> QED BY <1>3 DEF u

\* What leaves a player's stamina alone, and lets it wait no less.
LEMMA StillSound ==
  ASSUME NEW i, NEW s, Waited(i, s), NEW j \in StaminaType, j.cur = i.cur, j.delay = i.delay
  PROVE  Sound(i, s, j, s)
<1>1. i.cur \in Nat
  BY SeaNums DEF Waited, StaminaType
<1> QED BY <1>1 DEF Sound, Waited

\* A tick of 200 ms.
LEMMA TickSound ==
  ASSUME NEW i, NEW s, Waited(i, s), NEW e, NEW in \in BOOLEAN
  PROVE  Sound(i, s, Sea!DrownBack(Sea!Restore(Sea!Sustain(i, e, in), e, in)),
               IF ~in /\ i.cost < 0 THEN 0 ELSE IF s < RestoreDelay THEN s + 1 ELSE s)
<1> DEFINE one == Sea!Sustain(i, e, in)
           two == Sea!Restore(one, e, in)
           u == Sea!DrownBack(two)
           t == IF ~in /\ i.cost < 0 THEN 0 ELSE IF s < RestoreDelay THEN s + 1 ELSE s
<1>1. /\ i \in StaminaType /\ i.cost \in -2..1 /\ i.delay \in Nat /\ i.cur \in Nat /\ i.back \in Nat
      /\ s \in Nat /\ i.delay <= s /\ s <= RestoreDelay
  BY SeaNums DEF Waited, StaminaType
<1>2. /\ two \in StaminaType /\ (two.back = i.back \/ two.back = 1)
      /\ two.delay <= t /\ (two.cur > i.cur => s >= RestoreDelay \/ i.state = "poweredFly")
  <2>1. CASE in
    <3>1. one \in StaminaType /\ one.state = i.state /\ one.back = i.back /\ one.delay = i.delay /\ one.cur = i.cur
      BY <1>1, <2>1, SkiffDelayIs DEF Sea!Sustain
    <3> HIDE DEF one
    <3>2. two = Sea!UpdatePlayerStamina(one, 1)
      BY <2>1 DEF Sea!Restore
    <3>3. /\ two \in StaminaType /\ (two.back = one.back \/ two.back = 1)
          /\ \/ one.delay < RestoreDelay /\ two.delay = one.delay + 1 /\ two.cur = one.cur
             \/ two.delay = one.delay /\ (one.delay >= RestoreDelay \/ one.state = "poweredFly")
      BY <3>1, <3>2, UpdateIs
    <3> HIDE DEF two
    <3> QED BY <1>1, <2>1, <3>1, <3>3, SeaNums
  <2>2. CASE ~in
    <3>1. one = Sea!UpdatePlayerStamina(i, i.cost)
      BY <2>2 DEF Sea!Sustain
    <3>2. /\ one \in StaminaType /\ (one.back = i.back \/ one.back = 1)
          /\ i.cost = 0 => one = i
          /\ i.cost < 0 => one.delay = 0 /\ one.cur <= i.cur
          /\ i.cost > 0 => \/ i.delay < RestoreDelay /\ one.delay = i.delay + 1 /\ one.cur = i.cur
                           \/ one.delay = i.delay /\ (i.delay >= RestoreDelay \/ i.state = "poweredFly")
      BY <1>1, <3>1, UpdateIs
    <3> HIDE DEF one
    <3>3. two \in StaminaType /\ two.back = one.back /\ two.delay = one.delay /\ two.cur = one.cur
      BY <2>2, <3>2, SkiffDelayIs DEF Sea!Restore
    <3> HIDE DEF two
    <3>4. one.cur \in Nat
      BY <3>2, SeaNums DEF StaminaType
    <3> QED BY <1>1, <2>2, <3>2, <3>3, <3>4, SeaNums
  <2> QED BY <2>1, <2>2
<1> HIDE DEF two
<1>3. u \in StaminaType /\ u.delay = two.delay /\ (two.back # DrownDelay => u.cur = two.cur)
  BY <1>2, DrownBackIs
<1> HIDE DEF u
<1>4. t \in Nat /\ t <= RestoreDelay
  BY <1>1, SeaNums
<1> HIDE DEF t
<1>5. Sound(i, s, u, t)
  BY <1>1, <1>2, <1>3, <1>4, SeaNums DEF Sound, Waited
<1> QED BY <1>5 DEF u, t, two, one

\* A step for one player.
LEMMA OneSound ==
  ASSUME StaminaInv, NEW p \in Sea!Here, NEW u, NEW t, Sound(info[p], since[p], u, t),
         info' = [info EXCEPT ![p] = u], since' = [since EXCEPT ![p] = t]
  PROVE  Sea!WaitedOut /\ StaminaInv'
<1>1. Sea!Here' = Sea!Here
  BY DEF Sea!Here, StaminaInv
<1>2. u \in StaminaType /\ t \in Nat
  BY DEF Sound, Waited
<1>3. info' \in [Sea!Here -> StaminaType] /\ since' \in [Sea!Here -> Nat]
  BY <1>2 DEF StaminaInv
<1>4. \A x \in Sea!Here : IF x = p THEN info'[x] = u /\ since'[x] = t
                          ELSE info'[x] = info[x] /\ since'[x] = since[x]
  BY DEF StaminaInv
<1>5. \A x \in Sea!Here : Waited(info'[x], since'[x])
  BY <1>4 DEF StaminaInv, Sound
<1>6. \A x \in Sea!Here : info[x].cur \in Nat /\ info'[x].cur \in Nat
  BY <1>3, SeaNums DEF StaminaInv, StaminaType
<1>7. Sea!WaitedOut
  <2> SUFFICES ASSUME NEW x \in Sea!Here, info'[x].cur > info[x].cur
               PROVE  \/ since[x] >= RestoreDelay
                      \/ info[x].state = "poweredFly"
                      \/ info[x].back = DrownDelay
    BY DEF Sea!WaitedOut
  <2>1. x = p
    BY <1>4, <1>6
  <2> QED BY <1>4, <2>1 DEF Sound
<1>8. StaminaInv'
  BY <1>1, <1>3, <1>5 DEF StaminaInv, StaminaType
<1> QED BY <1>7, <1>8

LEMMA SameSound ==
  ASSUME StaminaInv, UNCHANGED <<info, since>>
  PROVE  Sea!WaitedOut /\ StaminaInv'
<1>1. \A x \in Sea!Here : info[x].cur \in Nat
  BY SeaNums DEF StaminaInv, StaminaType
<1> QED BY <1>1 DEF Sea!WaitedOut, StaminaInv, StaminaType, Sea!Here, Waited

\* Stamina is restored when its time has come, by every step.
LEMMA StaminaStep ==
  ASSUME StaminaInv, Sea!Next
  PROVE  Sea!WaitedOut /\ StaminaInv'
<1>1. PICK p \in Sea!Here :
        \/ \E m \in Sea!Motions : Sea!ImmediateStamina(p, m)
        \/ Sea!SceneAvatarStaminaStepReq(p) \/ Sea!HandleAbilityStamina(p)
        \/ Sea!PlayerSetPauseReq(p) \/ Sea!OnTick(p)
        \/ Sea!EnterSceneDoneReq(p) \/ Sea!ReLogin(p) \/ Sea!CreateVehicleReq(p)
        \/ \E s \in Shores : Sea!TeleportPlayer(p, s)
        \/ \E e \in 1..MaxSkiffs : Sea!EnterVehicle(p, e) \/ Sea!ExitVehicle(p, e) \/ Sea!VehicleDestroyMotion(p, e)
  BY DEF Sea!Next
<1> DEFINE i == info[p]
           s == since[p]
<1>2. Waited(i, s) /\ i \in StaminaType /\ s \in Nat /\ i.delay <= s /\ s <= RestoreDelay
  BY DEF StaminaInv, Waited
<1>3. since = [since EXCEPT ![p] = s]
  BY DEF StaminaInv
<1> HIDE DEF i, s
<1>4. ASSUME NEW m \in Sea!Motions, Sea!ImmediateStamina(p, m)
      PROVE  Sea!WaitedOut /\ StaminaInv'
  <2> DEFINE c == IF m \in DOMAIN Sea!TickCost THEN Sea!TickCost[m] ELSE i.cost
             set == [i EXCEPT !.cost = c, !.state = m]
             charged == m \in DOMAIN Sea!StartCost /\ m # i.state
             u == IF charged THEN Sea!UpdatePlayerStamina(set, Sea!StartCost[m]) ELSE set
             t == IF charged THEN 0 ELSE s
  <2>1. info' = [info EXCEPT ![p] = u] /\ since' = [since EXCEPT ![p] = t]
    BY <1>4 DEF Sea!ImmediateStamina, i, s
  <2>2. c \in {-1, 0, 1}
    BY <1>2, SeaCosts DEF StaminaType
  <2> HIDE DEF c
  <2>3. set \in StaminaType /\ set.cur = i.cur /\ set.delay = i.delay
    BY <1>2, <2>2 DEF StaminaType
  <2> HIDE DEF set
  <2>4. CASE charged
    <3>1. Sea!StartCost[m] \in {-1, -2}
      BY <2>4, SeaCosts
    <3>2. Sound(i, s, Sea!UpdatePlayerStamina(set, Sea!StartCost[m]), 0)
      BY <1>2, <2>3, <3>1, ChargeSound
    <3> HIDE DEF charged
    <3>3. Sound(i, s, u, t)
      BY <2>4, <3>2
    <3> QED BY <2>1, <3>3, OneSound DEF i, s
  <2>5. CASE ~charged
    <3>1. Sound(i, s, set, s)
      BY <1>2, <2>3, StillSound
    <3>2. Sound(i, s, u, t)
      BY <2>5, <3>1
    <3> QED BY <2>1, <3>2, OneSound DEF i, s
  <2> QED BY <2>4, <2>5
<1>5. CASE Sea!SceneAvatarStaminaStepReq(p) \/ Sea!HandleAbilityStamina(p)
  <2>1. Sound(i, s, Sea!UpdatePlayerStamina(i, -1), 0)
    BY <1>2, ChargeSound
  <2>2. info' = [info EXCEPT ![p] = Sea!UpdatePlayerStamina(i, -1)] /\ since' = [since EXCEPT ![p] = 0]
    BY <1>5 DEF Sea!SceneAvatarStaminaStepReq, Sea!HandleAbilityStamina, i
  <2> QED BY <2>1, <2>2, OneSound DEF i, s
<1>6. CASE Sea!PlayerSetPauseReq(p)
  <2> DEFINE j == [i EXCEPT !.pause = ~@]
  <2>1. j \in StaminaType /\ j.cur = i.cur /\ j.delay = i.delay
    BY <1>2 DEF StaminaType
  <2>2. info' = [info EXCEPT ![p] = j] /\ since' = [since EXCEPT ![p] = s]
    BY <1>3, <1>6 DEF Sea!PlayerSetPauseReq, i
  <2> HIDE DEF j
  <2>3. Sound(i, s, j, s)
    BY <1>2, <2>1, StillSound
  <2> QED BY <2>2, <2>3, OneSound DEF i, s
<1>7. CASE Sea!OnTick(p)
  <2> DEFINE e == IF aboard[p] # 0 /\ Sea!Seen(p, aboard[p]) THEN aboard[p] ELSE 0
             in == e # 0 /\ Sea!IsPlayerInVehicle(p, e)
             u == Sea!DrownBack(Sea!Restore(Sea!Sustain(i, e, in), e, in))
             t == IF ~in /\ i.cost < 0 THEN 0 ELSE IF s < RestoreDelay THEN s + 1 ELSE s
  <2>1. in \in BOOLEAN
    BY DEF Sea!IsPlayerInVehicle
  <2>2. info' = [info EXCEPT ![p] = u] /\ since' = [since EXCEPT ![p] = t]
    BY <1>7 DEF Sea!OnTick, i, s
  <2> HIDE DEF e, in
  <2>3. Sound(i, s, u, t)
    BY <1>2, <2>1, TickSound
  <2> HIDE DEF u, t
  <2> QED BY <2>2, <2>3, OneSound DEF i, s
<1>8. CASE Sea!ReLogin(p)
  <2> DEFINE j == [Sea!Fresh EXCEPT !.cur = i.cur]
  <2>1. i.cur \in 0..MaxStamina
    BY <1>2 DEF StaminaType
  <2>2. j \in StaminaType /\ j.cur = i.cur /\ j.delay = 0
    BY <2>1 DEF StaminaType, Sea!Fresh
  <2>3. info' = [info EXCEPT ![p] = j] /\ since' = [since EXCEPT ![p] = 0]
    BY <1>8 DEF Sea!ReLogin, i
  <2> HIDE DEF j
  <2>4. i.cur \in Nat
    BY <2>1, SeaNums
  <2>5. Sound(i, s, j, 0)
    BY <2>2, <2>4, SeaNums DEF Sound, Waited
  <2> QED BY <2>3, <2>5, OneSound DEF i, s
<1>9. CASE \/ Sea!EnterSceneDoneReq(p) \/ Sea!CreateVehicleReq(p)
           \/ \E x \in Shores : Sea!TeleportPlayer(p, x)
           \/ \E e \in 1..MaxSkiffs : Sea!EnterVehicle(p, e) \/ Sea!ExitVehicle(p, e) \/ Sea!VehicleDestroyMotion(p, e)
  <2>1. UNCHANGED <<info, since>>
    BY <1>9 DEF Sea!EnterSceneDoneReq, Sea!CreateVehicleReq, Sea!TeleportPlayer, Sea!EnterVehicle, Sea!ExitVehicle,
                Sea!VehicleDestroyMotion
  <2> QED BY <2>1, SameSound
<1> QED BY <1>1, <1>4, <1>5, <1>6, <1>7, <1>8, <1>9

\* What the skiffs' part of a state is, spelled out for the step's proof.
SkiffTypes(n, K, ab, la) ==
  /\ n \in Nat /\ DOMAIN K \subseteq 1..n /\ K \in [DOMAIN K -> SkiffType]
  /\ ab \in [Sea!Here -> 0..n] /\ la \in [Sea!Here -> 0..n]
Owned(K, la, lo) == \A q \in Sea!Here : la[q] \in DOMAIN K => K[la[q]].owner = <<q, lo[q]>>
Seated(K, ab, la, lo) ==
  \A q \in Sea!Here : ab[q] # 0 =>
    IF ab[q] \in DOMAIN K THEN <<q, lo[q]>> \in K[ab[q]].members ELSE ab[q] # la[q]
LEMMA SkiffsAre ==
  SkiffsInv <=> /\ SkiffTypes(ids, skiffs, aboard, last)
                /\ login \in [Sea!Here -> Nat] /\ shore \in [Sea!Here -> Shores]
                /\ Owned(skiffs, last, login) /\ Seated(skiffs, aboard, last, login)
<1>1. Sea!AboardAgrees <=> Seated(skiffs, aboard, last, login)
  BY DEF Sea!AboardAgrees, Seated, Sea!IsPlayerInVehicle, Sea!Self
<1>2. (\A p \in Sea!Here : last[p] \in DOMAIN skiffs => skiffs[last[p]].owner = Sea!Self(p))
        <=> Owned(skiffs, last, login)
  BY DEF Owned, Sea!Self
<1> QED BY <1>1, <1>2 DEF SkiffsInv, SkiffTypes

\* A skiff goes, and its owner with it.
LEMMA SkiffGoes ==
  ASSUME SkiffsInv, NEW p \in Sea!Here, NEW e, Sea!Owns(p, e)
  PROVE  /\ SkiffTypes(ids, Sea!Without(e), Sea!Left(p, e), last)
         /\ Owned(Sea!Without(e), last, login)
         /\ Seated(Sea!Without(e), Sea!Left(p, e), last, login)
         /\ e \notin DOMAIN Sea!Without(e)
<1> DEFINE K == Sea!Without(e)
           ab == Sea!Left(p, e)
<1>1. /\ SkiffTypes(ids, skiffs, aboard, last) /\ login \in [Sea!Here -> Nat]
      /\ Owned(skiffs, last, login) /\ Seated(skiffs, aboard, last, login)
  BY SkiffsAre
<1>2. e \in DOMAIN skiffs /\ skiffs[e].owner = <<p, login[p]>>
  BY DEF Sea!Owns, Sea!Seen, Sea!Self
<1>3. DOMAIN K = DOMAIN skiffs \ {e} /\ \A x \in DOMAIN K : K[x] = skiffs[x]
  BY DEF Sea!Without
<1>4. K \in [DOMAIN K -> SkiffType]
  <2>1. \A x \in DOMAIN K : K[x] \in SkiffType
    BY <1>1, <1>3 DEF SkiffTypes
  <2>2. K = [x \in DOMAIN K |-> K[x]]
    BY <1>3 DEF Sea!Without
  <2> HIDE DEF K
  <2> QED BY <2>1, <2>2
<1>5. ab \in [Sea!Here -> 0..ids] /\ \A q \in Sea!Here : ab[q] = aboard[q] \/ (q = p /\ ab[q] = 0)
  BY <1>1 DEF Sea!Left, SkiffTypes
<1>6. aboard[p] = e => ab[p] = 0
  <2> HAVE aboard[p] = e
  <2>1. e # 0
    BY <1>1, <1>2 DEF SkiffTypes
  <2>2. <<p, login[p]>> \in skiffs[e].members
    BY <1>1, <1>2, <2>1 DEF Seated
  <2> QED BY <1>1, <2>2 DEF Sea!Left, Sea!IsPlayerInVehicle, Sea!Self, SkiffTypes
<1> HIDE DEF K, ab
<1>7. SkiffTypes(ids, K, ab, last)
  BY <1>1, <1>3, <1>4, <1>5 DEF SkiffTypes
<1>8. Owned(K, last, login)
  BY <1>1, <1>3 DEF Owned
<1>9. Seated(K, ab, last, login)
  <2> SUFFICES ASSUME NEW q \in Sea!Here, ab[q] # 0
               PROVE  IF ab[q] \in DOMAIN K THEN <<q, login[q]>> \in K[ab[q]].members ELSE ab[q] # last[q]
    BY DEF Seated
  <2>1. ab[q] = aboard[q]
    BY <1>5
  <2>2. CASE aboard[q] # e
    BY <1>1, <1>3, <2>1, <2>2 DEF Seated
  <2>3. CASE aboard[q] = e
    <3>1. q # p
      BY <1>6, <2>3
    <3>2. last[q] # e
      BY <1>1, <1>2, <3>1 DEF Owned
    <3> QED BY <1>3, <2>1, <2>3, <3>2
  <2> QED BY <2>2, <2>3
<1> QED BY <1>3, <1>7, <1>8, <1>9 DEF K, ab

\* Nobody is aboard none, by every step.
LEMMA SkiffsStep ==
  ASSUME SkiffsInv, StaminaInv, Sea!Here' = Sea!Here, Sea!Next
  PROVE  SkiffsInv'
<1> DEFINE H == Sea!Here
<1>1. PICK p \in Sea!Here :
        \/ \E m \in Sea!Motions : Sea!ImmediateStamina(p, m)
        \/ Sea!SceneAvatarStaminaStepReq(p) \/ Sea!HandleAbilityStamina(p)
        \/ Sea!PlayerSetPauseReq(p) \/ Sea!OnTick(p)
        \/ Sea!EnterSceneDoneReq(p) \/ Sea!ReLogin(p) \/ Sea!CreateVehicleReq(p)
        \/ \E s \in Shores : Sea!TeleportPlayer(p, s)
        \/ \E e \in 1..MaxSkiffs : Sea!EnterVehicle(p, e) \/ Sea!ExitVehicle(p, e) \/ Sea!VehicleDestroyMotion(p, e)
  BY DEF Sea!Next
<1>2. /\ SkiffTypes(ids, skiffs, aboard, last)
      /\ login \in [Sea!Here -> Nat] /\ shore \in [Sea!Here -> Shores]
      /\ Owned(skiffs, last, login) /\ Seated(skiffs, aboard, last, login)
  BY SkiffsAre
<1>3. SUFFICES /\ SkiffTypes(ids', skiffs', aboard', last')
               /\ login' \in [Sea!Here -> Nat] /\ shore' \in [Sea!Here -> Shores]
               /\ Owned(skiffs', last', login') /\ Seated(skiffs', aboard', last', login')
  <2>1. Sea!AboardAgrees' <=> Seated(skiffs', aboard', last', login')
    BY DEF Sea!AboardAgrees, Seated, Sea!IsPlayerInVehicle, Sea!Self
  <2>2. (\A q \in Sea!Here : last'[q] \in DOMAIN skiffs' => skiffs'[last'[q]].owner = Sea!Self(q)')
          <=> Owned(skiffs', last', login')
    BY DEF Owned, Sea!Self
  <2>3. SkiffType' = SkiffType
    BY DEF SkiffType
  <2> QED BY <1>3, <2>1, <2>2, <2>3 DEF SkiffsInv, SkiffTypes
<1>4. CASE \/ \E m \in Sea!Motions : Sea!ImmediateStamina(p, m)
           \/ Sea!SceneAvatarStaminaStepReq(p) \/ Sea!HandleAbilityStamina(p)
           \/ Sea!PlayerSetPauseReq(p) \/ Sea!EnterSceneDoneReq(p)
  <2>1. UNCHANGED <<ids, skiffs, aboard, last, login, shore>>
    BY <1>4 DEF Sea!ImmediateStamina, Sea!SceneAvatarStaminaStepReq, Sea!HandleAbilityStamina,
                Sea!PlayerSetPauseReq, Sea!EnterSceneDoneReq, Sea!sailing
  <2> QED BY <1>2, <2>1
<1>5. CASE Sea!OnTick(p)
  <2>1. UNCHANGED <<ids, aboard, last, login, shore>>
    BY <1>5 DEF Sea!OnTick
  <2>6. PICK e \in DOMAIN skiffs \cup {0}, in \in BOOLEAN :
          \E j : skiffs' = IF e = 0 THEN skiffs
                          ELSE [skiffs EXCEPT ![e].cur = IF in THEN Sea!SkiffCur(info[p], @, info[p].cost)
                                                         ELSE Sea!SkiffCur(j, @, 1)]
    BY <1>5 DEF Sea!OnTick, Sea!Seen, Sea!IsPlayerInVehicle
  <2>2. PICK j :
          skiffs' = IF e = 0 THEN skiffs
                    ELSE [skiffs EXCEPT ![e].cur = IF in THEN Sea!SkiffCur(info[p], @, info[p].cost)
                                                   ELSE Sea!SkiffCur(j, @, 1)]
    BY <2>6
  <2>3. CASE e = 0
    BY <1>2, <2>1, <2>2, <2>3
  <2>4. CASE e # 0
    <3> DEFINE c == IF in THEN Sea!SkiffCur(info[p], skiffs[e].cur, info[p].cost)
                    ELSE Sea!SkiffCur(j, skiffs[e].cur, 1)
    <3>1. skiffs[e].cur \in 0..MaxStamina /\ info[p].cost \in -2..1 /\ 1 \in -2..1
      BY <1>2, <2>4 DEF SkiffTypes, SkiffType, StaminaInv, StaminaType
    <3>2. c \in 0..MaxStamina
      BY <3>1, ChangeIs DEF Sea!SkiffCur
    <3>3. e \in DOMAIN skiffs /\ skiffs' = [skiffs EXCEPT ![e].cur = c]
      BY <2>2, <2>4
    <3> HIDE DEF c
    <3>4. /\ DOMAIN skiffs' = DOMAIN skiffs /\ skiffs' \in [DOMAIN skiffs -> SkiffType]
          /\ \A x \in DOMAIN skiffs : skiffs'[x].owner = skiffs[x].owner
          /\ \A x \in DOMAIN skiffs : skiffs'[x].members = skiffs[x].members
      BY <1>2, <3>2, <3>3 DEF SkiffTypes, SkiffType
    <3>5. SkiffTypes(ids', skiffs', aboard', last')
      BY <1>2, <2>1, <3>4 DEF SkiffTypes
    <3>6. Owned(skiffs', last', login') /\ Seated(skiffs', aboard', last', login')
      BY <1>2, <2>1, <3>4 DEF Owned, Seated
    <3> QED BY <1>2, <2>1, <3>5, <3>6
  <2> QED BY <2>3, <2>4
<1>6. CASE \E s \in Shores : Sea!TeleportPlayer(p, s)
  BY <1>2, <1>6 DEF Sea!TeleportPlayer
<1>7. CASE Sea!ReLogin(p)
  <2>1. /\ login' = [login EXCEPT ![p] = @ + 1] /\ aboard' = [aboard EXCEPT ![p] = 0]
        /\ last' = [last EXCEPT ![p] = 0] /\ UNCHANGED <<shore, skiffs, ids>>
    BY <1>7 DEF Sea!ReLogin
  <2>2. login' \in [H -> Nat] /\ aboard' \in [H -> 0..ids] /\ last' \in [H -> 0..ids]
    BY <1>2, <2>1 DEF SkiffTypes
  <2>3. \A q \in H : IF q = p THEN aboard'[q] = 0 /\ last'[q] = 0
                     ELSE aboard'[q] = aboard[q] /\ last'[q] = last[q] /\ login'[q] = login[q]
    BY <1>2, <2>1 DEF SkiffTypes
  <2>4. 0 \notin DOMAIN skiffs
    BY <1>2 DEF SkiffTypes
  <2>5. Owned(skiffs', last', login')
    BY <1>2, <2>1, <2>3, <2>4 DEF Owned
  <2>6. Seated(skiffs', aboard', last', login')
    BY <1>2, <2>1, <2>3 DEF Seated
  <2> QED BY <1>2, <2>1, <2>2, <2>5, <2>6 DEF SkiffTypes
<1>8. CASE Sea!CreateVehicleReq(p)
  <2> DEFINE e == ids + 1
             was == last[p] # 0 /\ Sea!Owns(p, last[p])
             kept == IF was THEN Sea!Without(last[p]) ELSE skiffs
             ab == IF was THEN Sea!Left(p, last[p]) ELSE aboard
             fresh == Sea!CreateEntityGadgetVehicle(p)
  <2>1. /\ ids' = e /\ aboard' = ab /\ last' = [last EXCEPT ![p] = e] /\ UNCHANGED <<shore, login>>
        /\ skiffs' = [x \in DOMAIN kept \cup {e} |-> IF x = e THEN fresh ELSE kept[x]]
    BY <1>8 DEF Sea!CreateVehicleReq, Sea!GetNextWorldEntityId
  <2>2. /\ SkiffTypes(ids, kept, ab, last) /\ Owned(kept, last, login) /\ Seated(kept, ab, last, login)
        /\ last[p] \notin DOMAIN kept \/ ~was
    BY <1>2, SkiffGoes
  <2>3. fresh \in SkiffType /\ fresh.owner = <<p, login[p]>>
    BY <1>2, SeaNums DEF Sea!CreateEntityGadgetVehicle, Sea!Self, SkiffType
  <2> HIDE DEF kept, ab, fresh
  <2>4. ids \in Nat /\ e \in Nat /\ e \notin DOMAIN kept /\ e # 0
    BY <2>2 DEF SkiffTypes
  <2>5. /\ DOMAIN skiffs' = DOMAIN kept \cup {e} /\ skiffs'[e] = fresh
        /\ \A x \in DOMAIN kept : skiffs'[x] = kept[x]
    BY <2>1, <2>4
  <2>6. skiffs' \in [DOMAIN skiffs' -> SkiffType]
    <3>1. \A x \in DOMAIN kept \cup {e} : (IF x = e THEN fresh ELSE kept[x]) \in SkiffType
      BY <2>2, <2>3 DEF SkiffTypes
    <3> QED BY <2>1, <3>1
  <2>7. /\ ab \in [H -> 0..e] /\ last' \in [H -> 0..e] /\ DOMAIN skiffs' \subseteq 1..e
        /\ \A q \in H : ab[q] \in 0..ids
        /\ \A q \in H : last'[q] = IF q = p THEN e ELSE last[q]
    BY <2>1, <2>2, <2>4, <2>5 DEF SkiffTypes
  <2>8. SkiffTypes(ids', skiffs', aboard', last')
    BY <2>1, <2>4, <2>6, <2>7 DEF SkiffTypes
  <2>9. Owned(skiffs', last', login')
    <3>1. \A q \in H : last[q] # e
      BY <2>2, <2>4 DEF SkiffTypes
    <3> HIDE DEF e
    <3> QED BY <2>1, <2>2, <2>3, <2>5, <2>7, <3>1 DEF Owned
  <2>10. Seated(skiffs', aboard', last', login')
    <3>1. \A q \in H : ab[q] # e
      BY <2>4, <2>7
    <3> HIDE DEF e
    <3> QED BY <2>1, <2>2, <2>5, <2>7, <3>1 DEF Seated
  <2> QED BY <1>2, <2>1, <2>8, <2>9, <2>10
<1>9. ASSUME NEW e \in 1..MaxSkiffs, Sea!EnterVehicle(p, e) \/ Sea!ExitVehicle(p, e)
      PROVE  /\ SkiffTypes(ids', skiffs', aboard', last')
             /\ login' \in [Sea!Here -> Nat] /\ shore' \in [Sea!Here -> Shores]
             /\ Owned(skiffs', last', login') /\ Seated(skiffs', aboard', last', login')
  <2>1. /\ e \in DOMAIN skiffs /\ UNCHANGED <<ids, last, login, shore>>
        /\ \/ /\ skiffs[e].members = {} /\ skiffs' = [skiffs EXCEPT ![e].members = {<<p, login[p]>>}]
              /\ aboard' = [aboard EXCEPT ![p] = e]
           \/ /\ skiffs' = [skiffs EXCEPT ![e].members = @ \ {<<p, login[p]>>}]
              /\ aboard' = [aboard EXCEPT ![p] = 0]
    BY <1>9 DEF Sea!EnterVehicle, Sea!ExitVehicle, Sea!Self, Sea!Seen
  <2>2. PICK M \in SUBSET (H \X Nat) : skiffs' = [skiffs EXCEPT ![e].members = M] /\ 
          \/ skiffs[e].members = {} /\ M = {<<p, login[p]>>} /\ aboard' = [aboard EXCEPT ![p] = e]
          \/ M = skiffs[e].members \ {<<p, login[p]>>} /\ aboard' = [aboard EXCEPT ![p] = 0]
    <3>1. login[p] \in Nat /\ skiffs[e].members \in SUBSET (H \X Nat)
      BY <1>2, <2>1 DEF SkiffTypes, SkiffType
    <3>2. {<<p, login[p]>>} \in SUBSET (H \X Nat) /\ skiffs[e].members \ {<<p, login[p]>>} \in SUBSET (H \X Nat)
      BY <3>1
    <3> QED BY <2>1, <3>2
  <2>3. /\ DOMAIN skiffs' = DOMAIN skiffs /\ skiffs' \in [DOMAIN skiffs -> SkiffType]
        /\ \A x \in DOMAIN skiffs : skiffs'[x].owner = skiffs[x].owner
        /\ \A x \in DOMAIN skiffs : skiffs'[x].members = IF x = e THEN M ELSE skiffs[x].members
    BY <1>2, <2>1, <2>2 DEF SkiffTypes, SkiffType
  <2>4. e \in 0..ids /\ 0 \in 0..ids
    BY <1>2, <2>1 DEF SkiffTypes
  <2>5. aboard' \in [H -> 0..ids] /\ \A q \in H : q # p => aboard'[q] = aboard[q]
    BY <1>2, <2>2, <2>4 DEF SkiffTypes
  <2>6. SkiffTypes(ids', skiffs', aboard', last')
    BY <1>2, <2>1, <2>3, <2>5 DEF SkiffTypes
  <2>7. Owned(skiffs', last', login')
    BY <1>2, <2>1, <2>3 DEF Owned
  <2>8. Seated(skiffs', aboard', last', login')
    <3> SUFFICES ASSUME NEW q \in H, aboard'[q] # 0
                 PROVE  IF aboard'[q] \in DOMAIN skiffs'
                        THEN <<q, login'[q]>> \in skiffs'[aboard'[q]].members ELSE aboard'[q] # last'[q]
      BY DEF Seated
    <3>1. CASE q = p
      <4>1. aboard'[q] = e /\ M = {<<p, login[p]>>}
        BY <1>2, <2>2, <3>1 DEF SkiffTypes
      <4> QED BY <2>1, <2>3, <3>1, <4>1
    <3>2. CASE q # p /\ aboard[q] # e
      BY <1>2, <2>1, <2>3, <2>5, <3>2 DEF Seated
    <3>3. CASE q # p /\ aboard[q] = e
      <4>1. <<q, login[q]>> \in skiffs[e].members
        BY <1>2, <2>1, <2>5, <3>3 DEF Seated
      <4>2. <<q, login[q]>> \in M
        BY <2>2, <3>3, <4>1
      <4> QED BY <2>1, <2>3, <2>5, <3>3, <4>2
    <3> QED BY <3>1, <3>2, <3>3
  <2> QED BY <1>2, <2>1, <2>6, <2>7, <2>8
<1>10. ASSUME NEW e \in 1..MaxSkiffs, Sea!VehicleDestroyMotion(p, e)
       PROVE  /\ SkiffTypes(ids', skiffs', aboard', last')
              /\ login' \in [Sea!Here -> Nat] /\ shore' \in [Sea!Here -> Shores]
              /\ Owned(skiffs', last', login') /\ Seated(skiffs', aboard', last', login')
  <2>1. /\ Sea!Owns(p, e) /\ aboard' = Sea!Left(p, e) /\ skiffs' = Sea!Without(e)
        /\ UNCHANGED <<ids, last, login, shore>>
    BY <1>10 DEF Sea!VehicleDestroyMotion
  <2> QED BY <1>2, <2>1, SkiffGoes
<1> QED BY <1>1, <1>4, <1>5, <1>6, <1>7, <1>8, <1>9, <1>10

LEMMA SeaInitInv ==
  ASSUME Sea!Init
  PROVE  StaminaInv /\ SkiffsInv
<1>1. PICK w \in Voyages :
        /\ info = [p \in w.players |-> Sea!Fresh]
        /\ shore = [p \in w.players |-> CHOOSE s \in Shores : TRUE]
        /\ aboard = [p \in w.players |-> 0] /\ last = [p \in w.players |-> 0]
        /\ skiffs = << >> /\ ids = 0 /\ login = [p \in w.players |-> 0]
        /\ since = [p \in w.players |-> RestoreDelay]
  BY DEF Sea!Init
<1>2. Sea!Here = w.players
  BY <1>1 DEF Sea!Here
<1>3. Sea!Fresh \in StaminaType /\ Sea!Fresh.delay = 0
  BY SeaNums DEF Sea!Fresh, StaminaType
<1>4. (CHOOSE s \in Shores : TRUE) \in Shores
  BY SeaNums
<1>5. StaminaInv
  BY <1>1, <1>2, <1>3, SeaNums DEF StaminaInv, Waited
<1>6. DOMAIN skiffs = {}
  BY <1>1
<1>7. SkiffTypes(ids, skiffs, aboard, last)
  BY <1>1, <1>2, <1>6 DEF SkiffTypes
<1>8. Owned(skiffs, last, login) /\ Seated(skiffs, aboard, last, login)
  BY <1>1, <1>2, <1>6 DEF Owned, Seated
<1>9. SkiffsInv
  BY <1>1, <1>2, <1>4, <1>7, <1>8, SkiffsAre
<1> QED BY <1>5, <1>9
-----------------------------------------------------------------------------
(* A behaviour of MCGame runs one part: what holds of its steps holds.      *)

\* What is kept of each part while it is the one that runs.
OwnInv == part = "items" => Items!TypeOK /\ WornInv
WishInv == part = "wishes" => WishTypes /\ PityInv /\ OweInv
GroupsInv == part = "groups" => SceneInv
TasksInv == part = "quests" => QuestInv
WorldInv == part = "big" => BigInv
SailInv == part = "sea" => StaminaInv /\ SkiffsInv

\* The start.
LEMMA GameStart ==
  GameInit => /\ OwnInv /\ WishInv /\ GroupsInv /\ TasksInv /\ WorldInv
              /\ SailInv
<1> SUFFICES ASSUME GameInit
             PROVE  /\ OwnInv /\ WishInv /\ GroupsInv /\ TasksInv /\ WorldInv
                    /\ SailInv
  OBVIOUS
<1> USE DEF OwnInv, WishInv, GroupsInv, TasksInv, WorldInv, SailInv
<1>1. CASE part = "items"
  BY <1>1, ItemsStart DEF GameInit, Elsewhere
<1>2. CASE part = "wishes"
  BY <1>2, GachaInit DEF GameInit, Elsewhere
<1>3. CASE part = "groups"
  BY <1>3, SceneStart DEF GameInit, Elsewhere
<1>4. CASE part = "quests"
  BY <1>4, QuestStart DEF GameInit, Elsewhere
<1>5. CASE part = "big"
  BY <1>5, BigStart DEF GameInit, Elsewhere
<1>6. CASE part \in {"teams", "cards"}
  BY <1>6 DEF GameInit, Elsewhere
<1>8. CASE part = "sea"
  BY <1>8, SeaInitInv DEF GameInit, Elsewhere
<1> QED BY <1>1, <1>2, <1>3, <1>4, <1>5, <1>6, <1>8 DEF GameInit, Elsewhere

\* A step is one of the part that runs, which stays the one chosen.
LEMMA PartSteps ==
  ASSUME [GameNext]_GameVars
  PROVE  /\ part' = part
         /\ part = "items" => Items!Next \/ UNCHANGED ItemVars
         /\ part = "wishes" => [Wishes!Next]_WishVars
         /\ part = "groups" => Groups!Next \/ UNCHANGED SceneVars
         /\ part = "quests" => Quests!Next \/ UNCHANGED <<QuestVars, state>>
         /\ part = "big" => Big!Next \/ UNCHANGED <<BigVars, SharedVars>>
         /\ part = "sea" => Sea!Next \/ UNCHANGED SeaVars
<1>1. CASE UNCHANGED GameVars
  BY <1>1 DEF GameVars, OwnVars, SharedVars
<1>2. CASE GameNext
  <2>1. part' = part
    BY <1>2 DEF GameNext
  <2>2. part = "items" => Items!Next
    BY <1>2 DEF GameNext
  <2>3. part = "wishes" => Wishes!Next
    BY <1>2 DEF GameNext
  <2>4. part = "groups" => Groups!Next
    BY <1>2 DEF GameNext
  <2>5. part = "quests" => Quests!Next
    BY <1>2 DEF GameNext
  <2>6. part = "big" => Big!Next
    BY <1>2 DEF GameNext
  <2>9. part = "sea" => Sea!Next
    BY <1>2 DEF GameNext
  <2> QED BY <2>1, <2>2, <2>3, <2>4, <2>5, <2>6, <2>9
<1> QED BY <1>1, <1>2

\* PlayerItems' steps.
LEMMA OwnStep == ASSUME OwnInv, [GameNext]_GameVars
                 PROVE  OwnInv' /\ (part = "items" => Items!PaysForSomething)
<1>1. ASSUME part = "items", Items!Next, part' = part PROVE OwnInv' /\ Items!PaysForSomething
  BY <1>1, ItemsStep DEF Kept, OwnInv
<1>2. ASSUME part = "items", UNCHANGED ItemVars, part' = part PROVE OwnInv' /\ Items!PaysForSomething
  <2>1. UNCHANGED <<items, weapons, reliqs, grown, hand, slot, guids, inWorld, made, requests, doubtful>>
    BY <1>2 DEF ItemVars
  <2>2. OwnInv'
    BY <1>2, <2>1 DEF OwnInv, WornInv, WeaponsInv, ReliqsInv, GuidsInv, ArmedOK, DressedOK, Named,
                      Items!TypeOK, Items!Owned, Items!Held
  <2>3. Items!TypeOK /\ Items!Held' = Items!Held
    BY <1>2, <2>1 DEF OwnInv, Items!Held
  <2>4. Items!PaysForSomething
    BY <2>1, <2>3, NothingPaid DEF Items!TypeOK
  <2> QED BY <2>2, <2>4
<1>3. CASE part = "items"
  BY <1>1, <1>2, <1>3, PartSteps
<1>4. CASE part # "items"
  BY <1>4, PartSteps DEF OwnInv
<1> QED BY <1>3, <1>4

\* Gacha's steps.
LEMMA WishStep == ASSUME WishInv, [GameNext]_GameVars
                  PROVE  WishInv' /\ [part = "wishes" => Wishes!UpComes]_GameVars
<1>1. CASE part = "wishes"
  <2>1. WishInv' /\ [Wishes!UpComes]_WishVars
    BY <1>1, PartSteps, WishesNext, PityNext, OweNext DEF WishInv
  <2>2. UNCHANGED GameVars \/ Wishes!Next
    BY <1>1 DEF GameNext
  <2>3. Wishes!Next => Wishes!UpComes \/ UNCHANGED WishVars
    BY <2>1
  <2>4. GameNext /\ part = "wishes" => UNCHANGED <<part, NotWishes>>
    BY DEF GameNext
  <2> QED BY <1>1, <2>1, <2>4 DEF GameVars, OwnVars, NotWishes
<1>2. CASE part # "wishes"
  BY <1>2, PartSteps DEF WishInv
<1> QED BY <1>1, <1>2

\* Scene's steps.
LEMMA GroupsStep == ASSUME GroupsInv, [GameNext]_GameVars PROVE GroupsInv'
<1>1. ASSUME SceneInv, UNCHANGED SceneVars PROVE SceneInv'
  <2>1. UNCHANGED <<scene, kills, paid>>
    BY <1>1 DEF SceneVars
  <2> QED BY <1>1, <2>1 DEF SceneInv, ChestOpen
<1> QED BY <1>1, PartSteps, SceneStep DEF GroupsInv

\* Quest's steps.
LEMMA TasksStep == ASSUME TasksInv, [GameNext]_GameVars PROVE TasksInv'
<1>1. ASSUME QuestInv, UNCHANGED <<QuestVars, state>> PROVE QuestInv'
  <2>1. UNCHANGED <<agenda, present, state>>
    BY <1>1 DEF QuestVars
  <2> QED BY <1>1, <2>1 DEF QuestInv, Begun
<1> QED BY <1>1, PartSteps, QuestStep DEF TasksInv

\* BigWorld's steps.
LEMMA WorldStep == ASSUME WorldInv, [GameNext]_GameVars PROVE WorldInv'
<1>1. ASSUME BigInv, UNCHANGED <<BigVars, SharedVars>> PROVE BigInv'
  <2>1. UNCHANGED <<state, pos, active, grids, away, sees, heard, changed>>
    BY <1>1 DEF BigVars, SharedVars
  <2>2. Big!HeardBySeers'
    BY <1>1, <2>1 DEF BigInv, Big!HeardBySeers
  <2> QED BY <1>1, <2>1, <2>2, BigStays DEF BigInv
<1> QED BY <1>1, PartSteps, BigStep DEF WorldInv

\* No player comes or goes.
LEMMA StaysHere == ASSUME Sea!Next PROVE Sea!Here' = Sea!Here
<1>1. PICK p \in Sea!Here :
        \/ \E m \in Sea!Motions : Sea!ImmediateStamina(p, m)
        \/ Sea!SceneAvatarStaminaStepReq(p) \/ Sea!HandleAbilityStamina(p)
        \/ Sea!PlayerSetPauseReq(p) \/ Sea!OnTick(p)
        \/ Sea!EnterSceneDoneReq(p) \/ Sea!ReLogin(p) \/ Sea!CreateVehicleReq(p)
        \/ \E s \in Shores : Sea!TeleportPlayer(p, s)
        \/ \E e \in 1..MaxSkiffs : Sea!EnterVehicle(p, e) \/ Sea!ExitVehicle(p, e) \/ Sea!VehicleDestroyMotion(p, e)
  BY DEF Sea!Next
<1>2. ASSUME NEW i, info' = [info EXCEPT ![p] = i] PROVE Sea!Here' = Sea!Here
  BY <1>2 DEF Sea!Here
<1>3. ASSUME NEW m, Sea!ImmediateStamina(p, m) PROVE Sea!Here' = Sea!Here
  BY <1>3 DEF Sea!ImmediateStamina, Sea!Here
<1>4. CASE Sea!SceneAvatarStaminaStepReq(p) \/ Sea!HandleAbilityStamina(p)
  BY <1>4 DEF Sea!SceneAvatarStaminaStepReq, Sea!HandleAbilityStamina, Sea!Here
<1>5. CASE Sea!PlayerSetPauseReq(p)
  BY <1>5 DEF Sea!PlayerSetPauseReq, Sea!Here
<1>6. CASE Sea!OnTick(p)
  BY <1>2, <1>6 DEF Sea!OnTick
<1>7. CASE Sea!ReLogin(p)
  BY <1>2, <1>7 DEF Sea!ReLogin
<1>8. CASE \/ Sea!EnterSceneDoneReq(p) \/ Sea!CreateVehicleReq(p)
           \/ \E s \in Shores : Sea!TeleportPlayer(p, s)
           \/ \E e \in 1..MaxSkiffs : Sea!EnterVehicle(p, e) \/ Sea!ExitVehicle(p, e) \/ Sea!VehicleDestroyMotion(p, e)
  BY <1>8 DEF Sea!EnterSceneDoneReq, Sea!CreateVehicleReq, Sea!TeleportPlayer, Sea!EnterVehicle,
              Sea!ExitVehicle, Sea!VehicleDestroyMotion, Sea!Here
<1> QED BY <1>1, <1>3, <1>4, <1>5, <1>6, <1>7, <1>8

\* Stamina's steps: players stay, and the next state keeps their seats.
LEMMA SailStep == ASSUME SailInv, [GameNext]_GameVars
                  PROVE  SailInv' /\ (part = "sea" => Sea!WaitedOut /\ Sea!AboardAgrees')
<1>1. ASSUME StaminaInv, SkiffsInv, Sea!Next PROVE StaminaInv' /\ SkiffsInv' /\ Sea!WaitedOut
  <2>1. StaminaInv' /\ Sea!WaitedOut
    BY <1>1, StaminaStep
  <2>2. Sea!Here' = Sea!Here
    BY <1>1, StaysHere
  <2> QED BY <1>1, <2>1, <2>2, SkiffsStep
<1>2. ASSUME StaminaInv, SkiffsInv, UNCHANGED SeaVars
      PROVE  StaminaInv' /\ SkiffsInv' /\ Sea!WaitedOut
  <2>1. UNCHANGED <<info, since, skiffs, ids, aboard, last, login, shore>>
    BY <1>2 DEF SeaVars
  <2>2. StaminaInv' /\ Sea!WaitedOut
    BY <1>2, <2>1, SameSound
  <2>3. SkiffsInv'
    BY <1>2, <2>1 DEF SkiffsInv, SkiffType, Sea!Here, Sea!Self, Sea!AboardAgrees,
                      Sea!IsPlayerInVehicle
  <2> QED BY <2>2, <2>3
<1>3. SkiffsInv' => Sea!AboardAgrees'
  BY DEF SkiffsInv
<1>4. CASE part = "sea"
  BY <1>1, <1>2, <1>3, <1>4, PartSteps DEF SailInv
<1>5. CASE part # "sea"
  BY <1>5, PartSteps DEF SailInv
<1> QED BY <1>4, <1>5

\* The three records of who wears what agree, however weapons, reliquaries and avatars are
\* taken, traded, given, eaten and rebuilt by a login: for any number of them.
THEOREM EquipCorrect == GameSpec => []EquipAgrees
<1>1. OwnInv => EquipAgrees
  BY EquipFromWorn DEF OwnInv, EquipAgrees
<1>2. OwnInv /\ [GameNext]_GameVars => OwnInv'
  BY OwnStep
<1> QED BY <1>1, <1>2, GameStart, PTL DEF GameSpec

\* No request takes items or weapons without improving something or buying something, but
\* for the four that the property names.
THEOREM NothingLostCorrect == GameSpec => NothingLostInVain
<1>1. OwnInv /\ [GameNext]_GameVars => OwnInv' /\ (part = "items" => Items!PaysForSomething)
  BY OwnStep
<1> QED BY <1>1, GameStart, PTL DEF GameSpec, NothingLostInVain

\* However long the series of unlucky draws, ten hold an item of four or five stars
\* and ninety (in the weapon pool seventy-seven) one of five: what the tables' weights
\* and the correction of doGachaOnce come to.
THEOREM PityCorrect == GameSpec => []Pity
<1>1. WishInv => Pity
  BY DEF WishInv, PityInv, Pity
<1>2. WishInv /\ [GameNext]_GameVars => WishInv'
  BY WishStep
<1> QED BY <1>1, <1>2, GameStart, PTL DEF GameSpec

\* Of two items of a rarity in a row one is featured, whatever is drawn between them.
THEOREM UpCorrect == GameSpec => UpGuaranteed
<1>1. WishInv /\ [GameNext]_GameVars => WishInv' /\ [part = "wishes" => Wishes!UpComes]_GameVars
  BY WishStep
<1> QED BY <1>1, GameStart, PTL DEF GameSpec, UpGuaranteed

\* A chest gives its reward once in its owner's world, whoever opens it, and however often its
\* group is unloaded, loaded and pulled down: for any number of groups and visitors.
THEOREM ChestCorrect == GameSpec => []ChestPaysOnce
<1>1. GroupsInv => ChestPaysOnce
  BY SceneHolds DEF GroupsInv, ChestPaysOnce
<1>2. GroupsInv /\ [GameNext]_GameVars => GroupsInv'
  BY GroupsStep
<1> QED BY <1>1, <1>2, GameStart, PTL DEF GameSpec

\* What stands in the scene is what the suites of its groups hold.
THEOREM SuitesCorrect == GameSpec => []SuitesAgree
<1>1. GroupsInv => SuitesAgree
  BY SceneHolds DEF GroupsInv, SuitesAgree
<1>2. GroupsInv /\ [GameNext]_GameVars => GroupsInv'
  BY GroupsStep
<1> QED BY <1>1, <1>2, GameStart, PTL DEF GameSpec

\* Between two requests no quest that waited for finished ones is left behind, in whatever
\* order quests are accepted and started: for every table of quests.
THEOREM QuestsCorrect == GameSpec => []FinishOpensNext
<1>1. TasksInv => FinishOpensNext
  BY QuestOpens DEF TasksInv, FinishOpensNext
<1>2. TasksInv /\ [GameNext]_GameVars => TasksInv'
  BY TasksStep
<1> QED BY <1>1, <1>2, GameStart, PTL DEF GameSpec

\* What a client shows, put together from what came and went, is what stands at most one cell
\* away, and no cell holds more players than it may: for any area, cells and players.
THEOREM SeesCorrect == GameSpec => []SeesAgree
<1>1. WorldInv => SeesAgree
  BY BigHolds DEF WorldInv, SeesAgree
<1>2. WorldInv /\ [GameNext]_GameVars => WorldInv'
  BY WorldStep
<1> QED BY <1>1, <1>2, GameStart, PTL DEF GameSpec

\* No entry of combat reaches a client that does not show the sender.
THEOREM HeardCorrect == GameSpec => []HeardBySeers
<1>1. WorldInv => HeardBySeers
  BY BigHolds DEF WorldInv, HeardBySeers
<1>2. WorldInv /\ [GameNext]_GameVars => WorldInv'
  BY WorldStep
<1> QED BY <1>1, <1>2, GameStart, PTL DEF GameSpec

\* No stamina comes back before its delay, and nobody that sails its own skiff is left sailing
\* none: for any stamina, delays, scenes, skiffs and players.
THEOREM StaminaCorrect == GameSpec => StaminaAgrees
<1>1. SailInv /\ [GameNext]_GameVars
        => SailInv' /\ (part = "sea" => Sea!WaitedOut /\ Sea!AboardAgrees')
  BY SailStep
<1> QED BY <1>1, GameStart, PTL DEF GameSpec, StaminaAgrees
=============================================================================
