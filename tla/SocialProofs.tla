---------------------------- MODULE SocialProofs ----------------------------
(* Proofs about Social, for any number of players and servers.              *)
EXTENDS Social, FiniteSetTheorems, SequenceTheorems, TLAPS

-----------------------------------------------------------------------------
(* Boxes of messages from one server to another.                            *)

Pairs == Servers \X Servers
Boxes == [Pairs -> Seq(MailType)]

\* A message is in one of the boxes.
Holds(box, m) == \E c \in DOMAIN box : \E i \in DOMAIN box[c] : box[c][i] = m

\* What is appended is in the sequence, next to what was.
LEMMA Appended ==
  ASSUME NEW T, NEW s \in Seq(T), NEW x \in T
  PROVE  /\ Append(s, x) \in Seq(T)
         /\ \A m : (\E i \in DOMAIN Append(s, x) : Append(s, x)[i] = m)
                   <=> (\E i \in DOMAIN s : s[i] = m) \/ m = x
<1>1. /\ Append(s, x) \in Seq(T) /\ Len(s) \in Nat /\ Append(s, x)[Len(s) + 1] = x
      /\ DOMAIN s = 1 .. Len(s) /\ DOMAIN Append(s, x) = 1 .. Len(s) + 1
      /\ \A i \in 1 .. Len(s) : Append(s, x)[i] = s[i]
  OBVIOUS
<1> DEFINE t == Append(s, x)
<1> HIDE DEF t
<1>2. \A i : i \in DOMAIN t <=> i \in DOMAIN s \/ i = Len(s) + 1
  BY <1>1 DEF t
<1>3. \A i \in DOMAIN s : t[i] = s[i]
  BY <1>1 DEF t
<1>4. t[Len(s) + 1] = x
  BY <1>1 DEF t
<1>5. \A m : (\E i \in DOMAIN t : t[i] = m) <=> (\E i \in DOMAIN s : s[i] = m) \/ m = x
  BY <1>2, <1>3, <1>4
<1> QED BY <1>1, <1>5 DEF t

\* Without its first message a box holds the others.
LEMMA Taken ==
  ASSUME NEW T, NEW s \in Seq(T), s # << >>
  PROVE  /\ Tail(s) \in Seq(T) /\ Head(s) \in T
         /\ \A m : (\E i \in DOMAIN s : s[i] = m)
                   <=> (\E i \in DOMAIN Tail(s) : Tail(s)[i] = m) \/ m = Head(s)
<1>1. /\ Tail(s) \in Seq(T) /\ Head(s) \in T /\ Head(s) = s[1] /\ Len(s) \in Nat \ {0}
      /\ DOMAIN s = 1 .. Len(s) /\ DOMAIN Tail(s) = 1 .. Len(s) - 1
      /\ \A i \in 1 .. Len(s) - 1 : Tail(s)[i] = s[i + 1]
  OBVIOUS
<1> DEFINE t == Tail(s)
<1> HIDE DEF t
<1>2. ASSUME NEW m, NEW i \in DOMAIN s, s[i] = m
      PROVE  (\E j \in DOMAIN t : t[j] = m) \/ m = Head(s)
  <2>1. CASE i = 1
    BY <1>1, <1>2, <2>1
  <2>2. CASE i # 1
    <3>1. i - 1 \in 1 .. Len(s) - 1 /\ (i - 1) + 1 = i
      BY <1>1, <1>2, <2>2
    <3>2. i - 1 \in DOMAIN t /\ t[i - 1] = m
      BY <1>1, <1>2, <3>1 DEF t
    <3> QED BY <3>2
  <2> QED BY <2>1, <2>2
<1>3. ASSUME NEW m, NEW j \in DOMAIN t, t[j] = m PROVE \E i \in DOMAIN s : s[i] = m
  <2>1. j \in 1 .. Len(s) - 1
    BY <1>1, <1>3 DEF t
  <2>2. j + 1 \in DOMAIN s /\ s[j + 1] = m
    BY <1>1, <1>3, <2>1 DEF t
  <2> QED BY <2>2
<1>4. 1 \in DOMAIN s /\ s[1] = Head(s)
  BY <1>1
<1>5. \A m : (\E i \in DOMAIN s : s[i] = m) <=> (\E i \in DOMAIN t : t[i] = m) \/ m = Head(s)
  BY <1>2, <1>3, <1>4
<1> QED BY <1>1, <1>5 DEF t

\* A message that is sent is on its way with all the others.
LEMMA Sent ==
  ASSUME NEW box \in Boxes, NEW s \in Servers, NEW t \in Servers, NEW x \in MailType
  PROVE  /\ SendToGs(box, s, t, x) \in Boxes
         /\ \A m : Holds(SendToGs(box, s, t, x), m) <=> Holds(box, m) \/ m = x
<1> DEFINE c == <<s, t>>
           new == SendToGs(box, s, t, x)
<1>1. c \in Pairs /\ box[c] \in Seq(MailType)
  BY DEF Pairs, Boxes
<1>2. DOMAIN new = Pairs /\ DOMAIN box = Pairs /\ new[c] = Append(box[c], x)
      /\ \A d \in Pairs : d # c => new[d] = box[d]
  BY <1>1 DEF SendToGs, Boxes
<1>3. new = [d \in Pairs |-> new[d]]
  BY <1>1 DEF SendToGs, Boxes
<1> HIDE DEF c, new
<1>4. Append(box[c], x) \in Seq(MailType)
      /\ \A m : (\E i \in DOMAIN new[c] : new[c][i] = m) <=> (\E i \in DOMAIN box[c] : box[c][i] = m) \/ m = x
  BY <1>1, <1>2, Appended
<1>5. \A d \in Pairs : new[d] \in Seq(MailType)
  BY <1>2, <1>4 DEF Boxes
<1>6. new \in Boxes
  BY <1>3, <1>5 DEF Boxes
<1>7. \A m : Holds(new, m) <=> Holds(box, m) \/ m = x
  <2>1. ASSUME NEW m PROVE Holds(new, m) <=> \E d \in Pairs : \E i \in DOMAIN new[d] : new[d][i] = m
    BY <1>2 DEF Holds
  <2>2. ASSUME NEW m PROVE Holds(box, m) <=> \E d \in Pairs : \E i \in DOMAIN box[d] : box[d][i] = m
    BY <1>2 DEF Holds
  <2> QED BY <1>1, <1>2, <1>4, <2>1, <2>2
<1> QED BY <1>6, <1>7 DEF new

\* A message that is taken is no longer to be counted on, the others are.
LEMMA Took ==
  ASSUME NEW box \in Boxes, NEW c \in Pairs, box[c] # << >>
  PROVE  /\ [box EXCEPT ![c] = Tail(@)] \in Boxes /\ Head(box[c]) \in MailType
         /\ Holds(box, Head(box[c]))
         /\ \A m : Holds(box, m) <=> Holds([box EXCEPT ![c] = Tail(@)], m) \/ m = Head(box[c])
<1> DEFINE new == [box EXCEPT ![c] = Tail(@)]
<1>1. box[c] \in Seq(MailType)
  BY DEF Boxes
<1>2. DOMAIN new = Pairs /\ DOMAIN box = Pairs /\ new[c] = Tail(box[c])
      /\ \A d \in Pairs : d # c => new[d] = box[d]
  BY DEF Boxes
<1>3. new = [d \in Pairs |-> new[d]]
  BY DEF Boxes
<1> HIDE DEF new
<1>4. /\ Tail(box[c]) \in Seq(MailType) /\ Head(box[c]) \in MailType
      /\ \A m : (\E i \in DOMAIN box[c] : box[c][i] = m)
                <=> (\E i \in DOMAIN new[c] : new[c][i] = m) \/ m = Head(box[c])
  <2> DEFINE b == box[c]
  <2>1. b \in Seq(MailType) /\ b # << >> /\ new[c] = Tail(b)
    BY <1>1, <1>2
  <2> HIDE DEF b
  <2>2. /\ Tail(b) \in Seq(MailType) /\ Head(b) \in MailType
        /\ \A m : (\E i \in DOMAIN b : b[i] = m)
                  <=> (\E i \in DOMAIN Tail(b) : Tail(b)[i] = m) \/ m = Head(b)
    BY <2>1, Taken
  <2> QED BY <2>1, <2>2 DEF b
<1>5. \A d \in Pairs : new[d] \in Seq(MailType)
  BY <1>2, <1>4 DEF Boxes
<1>6. new \in Boxes
  BY <1>3, <1>5 DEF Boxes
<1>7. Holds(box, Head(box[c]))
  BY <1>2, <1>4 DEF Holds
<1>8. \A m : Holds(box, m) <=> Holds(new, m) \/ m = Head(box[c])
  <2>1. ASSUME NEW m PROVE Holds(new, m) <=> \E d \in Pairs : \E i \in DOMAIN new[d] : new[d][i] = m
    BY <1>2 DEF Holds
  <2>2. ASSUME NEW m PROVE Holds(box, m) <=> \E d \in Pairs : \E i \in DOMAIN box[d] : box[d][i] = m
    BY <1>2 DEF Holds
  <2>3. ASSUME NEW m, Holds(box, m) PROVE Holds(new, m) \/ m = Head(box[c])
    <3>1. PICK d \in Pairs : \E i \in DOMAIN box[d] : box[d][i] = m
      BY <2>2, <2>3
    <3>2. CASE d = c
      BY <1>4, <2>1, <3>1, <3>2
    <3>3. CASE d # c
      BY <1>2, <2>1, <3>1, <3>3
    <3> QED BY <3>2, <3>3
  <2>4. ASSUME NEW m, Holds(new, m) PROVE Holds(box, m)
    <3>1. PICK d \in Pairs : \E i \in DOMAIN new[d] : new[d][i] = m
      BY <2>1, <2>4
    <3>2. CASE d = c
      BY <1>4, <2>2, <3>1, <3>2
    <3>3. CASE d # c
      BY <1>2, <2>2, <3>1, <3>3
    <3> QED BY <3>2, <3>3
  <2> QED BY <1>7, <2>3, <2>4
<1> QED BY <1>4, <1>6, <1>7, <1>8 DEF new

\* A broadcast puts nothing but itself on its way.
LEMMA Broadcast ==
  ASSUME mail \in Boxes, NEW s \in Servers, NEW x \in MailType
  PROVE  /\ ToOthers(s, x) \in Boxes
         /\ \A m : m # x => (Holds(ToOthers(s, x), m) <=> Holds(mail, m))
<1> DEFINE new == ToOthers(s, x)
<1>1. DOMAIN mail = Pairs /\ DOMAIN new = Pairs /\ new = [d \in Pairs |-> new[d]]
      /\ \A d \in Pairs : new[d] = mail[d] \/ new[d] = Append(mail[d], x)
  BY DEF ToOthers, Boxes
<1> HIDE DEF new
<1>2. ASSUME NEW d \in Pairs
      PROVE  /\ new[d] \in Seq(MailType)
             /\ \A m : m # x => ((\E i \in DOMAIN new[d] : new[d][i] = m)
                                 <=> (\E i \in DOMAIN mail[d] : mail[d][i] = m))
  <2> DEFINE b == mail[d]
  <2>1. b \in Seq(MailType) /\ (new[d] = b \/ new[d] = Append(b, x))
    BY <1>1 DEF Boxes
  <2> HIDE DEF b
  <2>2. CASE new[d] = b
    BY <2>1, <2>2 DEF b
  <2>3. CASE new[d] = Append(b, x)
    <3> DEFINE a == new[d]
    <3>1. a = Append(b, x)
      BY <2>3
    <3> HIDE DEF a
    <3>2. /\ a \in Seq(MailType)
          /\ \A m : (\E i \in DOMAIN a : a[i] = m) <=> (\E i \in DOMAIN b : b[i] = m) \/ m = x
      BY <2>1, <3>1, Appended
    <3> QED BY <3>2 DEF a, b
  <2> QED BY <2>1, <2>2, <2>3
<1>3. new \in Boxes
  BY <1>1, <1>2 DEF Boxes
<1>4. ASSUME NEW m, m # x PROVE Holds(new, m) <=> Holds(mail, m)
  <2>1. Holds(new, m) <=> \E d \in Pairs : \E i \in DOMAIN new[d] : new[d][i] = m
    BY <1>1 DEF Holds
  <2>2. Holds(mail, m) <=> \E d \in Pairs : \E i \in DOMAIN mail[d] : mail[d][i] = m
    BY <1>1 DEF Holds
  <2> QED BY <1>2, <1>4, <2>1, <2>2
<1> QED BY <1>3, <1>4 DEF new

-----------------------------------------------------------------------------
(* The types of the places and the records.                                 *)

\* What the message at the head of a box is, and the boxes without it.
LEMMA HeadIs ==
  ASSUME PeopleOK, NEW s \in Servers, NEW t \in Servers, NEW k, Receive(s, t, k)
  PROVE  /\ mail' \in Boxes
         /\ \A m : Holds(mail, m) <=> Holds(mail', m) \/ m = Head(mail[<<s, t>>])
         /\ Holds(mail, Head(mail[<<s, t>>]))
         /\ Head(mail[<<s, t>>]) \in MailType /\ Head(mail[<<s, t>>]).k = k
<1>1. mail \in Boxes /\ <<s, t>> \in Pairs
  BY DEF PeopleOK, Boxes, Pairs
<1>2. /\ mail[<<s, t>>] # << >> /\ Head(mail[<<s, t>>]).k = k
      /\ mail' = [mail EXCEPT ![<<s, t>>] = Tail(@)]
  BY DEF Receive
<1> DEFINE c == <<s, t>>
<1> HIDE DEF c
<1>3. c \in Pairs /\ mail[c] # << >> /\ mail' = [mail EXCEPT ![c] = Tail(@)]
  BY <1>1, <1>2 DEF c
<1>4. /\ mail' \in Boxes /\ Head(mail[c]) \in MailType /\ Holds(mail, Head(mail[c]))
      /\ \A m : Holds(mail, m) <=> Holds(mail', m) \/ m = Head(mail[c])
  BY <1>1, <1>3, Took
<1> QED BY <1>2, <1>4 DEF c

\* A message that goes from the server of a player that is on to one known to have another.
LEMMA SentIs ==
  ASSUME PeopleOK, NEW p \in Players, stage[p] = "on", NEW q \in Players,
         GetRemoteUserOnlineState(at[p], q), NEW x \in MailType,
         mail' = SendToGs(mail, at[p], knows[at[p]][q], x)
  PROVE  mail' \in Boxes /\ \A m : Holds(mail', m) <=> Holds(mail, m) \/ m = x
<1>1. mail \in Boxes /\ at[p] \in Servers
  BY DEF PeopleOK, Boxes, Pairs
<1>2. knows[at[p]][q] \in Servers
  BY <1>1 DEF PeopleOK, GetRemoteUserOnlineState, Places
<1> QED BY <1>1, <1>2, Sent

\* Where players are and how far, and what others are told of it.
LEMMA PlacesType ==
  ASSUME PeopleOK, NEW p \in Players,
         \/ \E s \in Servers : OnlineUser(p, s)
         \/ OnLogin(p) \/ OfflineUser(p) \/ SaveOffline(p) \/ UserOfflineSaveToDbFinish(p)
  PROVE  /\ PeopleOK' /\ UNCHANGED <<friends, lost>>
         /\ \A m : m.k # "state" => (Holds(mail', m) <=> Holds(mail, m))
<1>0. mail \in Boxes
  BY DEF PeopleOK, Boxes, Pairs
<1>1. ASSUME NEW x \in Places, at[p] \in Servers, mail' = ToOthers(at[p], [k |-> "state", p |-> p, at |-> x])
      PROVE  mail' \in Boxes /\ \A m : m.k # "state" => (Holds(mail', m) <=> Holds(mail, m))
  <2> DEFINE n == [k |-> "state", p |-> p, at |-> x]
  <2>1. n \in MailType /\ n.k = "state"
    BY DEF MailType
  <2> HIDE DEF n
  <2>2. mail' = ToOthers(at[p], n)
    BY <1>1 DEF n
  <2>3. mail' \in Boxes /\ \A m : m # n => (Holds(mail', m) <=> Holds(mail, m))
    BY <1>0, <1>1, <2>1, <2>2, Broadcast
  <2> QED BY <2>1, <2>3
<1>2. ASSUME NEW s \in Servers, OnlineUser(p, s)
      PROVE  PeopleOK' /\ UNCHANGED <<friends, lost, mail>>
  BY <1>2 DEF OnlineUser, PeopleOK, people, Places
<1>3. CASE OnLogin(p)
  <2>1. at[p] \in Servers /\ at[p] \in Places
    BY <1>3 DEF OnLogin, PeopleOK
  <2>2. mail' \in Boxes /\ \A m : m.k # "state" => (Holds(mail', m) <=> Holds(mail, m))
    BY <1>1, <1>3, <2>1 DEF OnLogin
  <2>3. /\ stage' \in [Players -> {"off", "loading", "on", "saving", "saved"}]
        /\ \A q \in Players : stage'[q] # "off" => at[q] \in Servers
    BY <1>3, <2>1 DEF OnLogin, PeopleOK
  <2>4. UNCHANGED <<at, friends, applies, lost, knows>>
    BY <1>3 DEF OnLogin, people
  <2> QED BY <2>2, <2>3, <2>4 DEF PeopleOK, Boxes, Pairs
<1>4. CASE OfflineUser(p) \/ SaveOffline(p)
  <2>1. UNCHANGED <<at, friends, applies, lost, knows, mail>>
    BY <1>4 DEF OfflineUser, SaveOffline, people
  <2>2. /\ stage' \in [Players -> {"off", "loading", "on", "saving", "saved"}]
        /\ \A q \in Players : stage'[q] # "off" => at[q] \in Servers
    BY <1>4 DEF OfflineUser, SaveOffline, PeopleOK
  <2> QED BY <2>1, <2>2 DEF PeopleOK
<1>5. CASE UserOfflineSaveToDbFinish(p)
  <2>1. at[p] \in Servers /\ Nowhere \in Places
    BY <1>5 DEF UserOfflineSaveToDbFinish, PeopleOK, Places
  <2>2. mail' \in Boxes /\ \A m : m.k # "state" => (Holds(mail', m) <=> Holds(mail, m))
    BY <1>1, <1>5, <2>1 DEF UserOfflineSaveToDbFinish
  <2>3. /\ stage' \in [Players -> {"off", "loading", "on", "saving", "saved"}]
        /\ at' \in [Players -> Places]
        /\ \A q \in Players : stage'[q] # "off" => at'[q] \in Servers
    BY <1>5, <2>1 DEF UserOfflineSaveToDbFinish, PeopleOK
  <2>4. UNCHANGED <<friends, applies, lost, knows>>
    BY <1>5 DEF UserOfflineSaveToDbFinish, people
  <2> QED BY <2>2, <2>3, <2>4 DEF PeopleOK, Boxes, Pairs
<1> QED BY <1>2, <1>3, <1>4, <1>5

\* An application is of a player, in the record of another.
LEMMA AppliedType ==
  ASSUME PeopleOK, NEW p \in Players, NEW q \in Players
  PROVE  Applied(p, q) \in [Players -> SUBSET Players]
BY DEF PeopleOK, Applied

\* What the client of a player asks.
LEMMA AskType ==
  ASSUME PeopleOK, NEW p \in Players, NEW q \in Players, AskAddFriendReq(p, q)
  PROVE  /\ PeopleOK' /\ UNCHANGED <<friends, lost>>
         /\ \A m : m.k # "ask" => (Holds(mail', m) <=> Holds(mail, m))
<1> DEFINE n == [k |-> "ask", from |-> p, p |-> q]
<1>1. n \in MailType /\ n.k = "ask"
  BY DEF MailType
<1>2. UNCHANGED <<at, stage, friends, lost, knows>> /\ stage[p] = "on"
  BY DEF AskAddFriendReq
<1>3. /\ applies' \in {applies, Applied(p, q)}
      /\ \/ mail' = mail
         \/ GetRemoteUserOnlineState(at[p], q) /\ mail' = SendToGs(mail, at[p], knows[at[p]][q], n)
  BY DEF AskAddFriendReq
<1> HIDE DEF n
<1>4. mail' \in Boxes /\ \A m : m.k # "ask" => (Holds(mail', m) <=> Holds(mail, m))
  <2>1. CASE mail' = mail
    BY <2>1 DEF PeopleOK, Boxes, Pairs
  <2>2. CASE GetRemoteUserOnlineState(at[p], q) /\ mail' = SendToGs(mail, at[p], knows[at[p]][q], n)
    <3>1. mail' \in Boxes /\ \A m : Holds(mail', m) <=> Holds(mail, m) \/ m = n
      BY <1>1, <1>2, <2>2, SentIs
    <3> QED BY <1>1, <3>1
  <2> QED BY <1>3, <2>1, <2>2
<1>5. applies' \in [Players -> SUBSET Players]
  BY <1>3, AppliedType DEF PeopleOK
<1> QED BY <1>2, <1>4, <1>5 DEF PeopleOK, Boxes, Pairs

\* The message that tells p of its new friend q.
Deal(p, q) == [k |-> "deal", from |-> q, p |-> p]

\* The answer to an application: the one that answers has a new friend, and that friend has it
\* too, or is told of it in vain, or by a message.
LEMMA DealIs ==
  ASSUME PeopleOK, NEW p \in Players, NEW q \in Players, NEW agree \in BOOLEAN,
         DealAddFriendReq(p, q, agree)
  PROVE  /\ PeopleOK' /\ lost \subseteq lost'
         /\ \A r \in Players : friends[r] \subseteq friends'[r]
         /\ \A a, b \in Players : b \in friends'[a] =>
              b \in friends[a] \/ (a = p /\ b = q) \/ (a = q /\ b = p)
         /\ \/ UNCHANGED <<friends, lost, mail>>
            \/ q \in friends'[p] /\ (p \in friends'[q] \/ <<q, p>> \in lost') /\ UNCHANGED mail
            \/ /\ q \in friends'[p]
               /\ \A m : Holds(mail', m) <=> Holds(mail, m) \/ m = Deal(q, p)
<1> DEFINE own == [friends EXCEPT ![p] = @ \cup {q}]
<1>1. /\ UNCHANGED <<at, stage, knows>> /\ applies' = [applies EXCEPT ![p] = @ \ {q}]
      /\ stage[p] = "on"
  BY DEF DealAddFriendReq
<1>2. /\ friends \in [Players -> SUBSET Players] /\ lost \subseteq Players \X Players
      /\ applies' \in [Players -> SUBSET Players] /\ mail \in Boxes
  BY <1>1 DEF PeopleOK, Boxes, Pairs
<1>3. /\ own \in [Players -> SUBSET Players] /\ own[p] = friends[p] \cup {q}
      /\ \A r \in Players : r # p => own[r] = friends[r]
  BY <1>2
<1>4. \/ UNCHANGED <<friends, lost, mail>>
      \/ /\ friends' = TellFriend(own, p, q) /\ UNCHANGED mail
         /\ lost' = IF Lasts(at[p], q) THEN lost ELSE lost \cup {<<q, p>>}
      \/ friends' = own /\ lost' = lost \cup {<<q, p>>} /\ UNCHANGED mail
      \/ /\ GetRemoteUserOnlineState(at[p], q) /\ friends' = own /\ UNCHANGED lost
         /\ mail' = SendToGs(mail, at[p], knows[at[p]][q], Deal(q, p))
  BY DEF DealAddFriendReq, Deal
<1> HIDE DEF own
<1>5. CASE UNCHANGED <<friends, lost, mail>>
  BY <1>1, <1>2, <1>5 DEF PeopleOK
<1>6. CASE /\ friends' = TellFriend(own, p, q) /\ UNCHANGED mail
           /\ lost' = IF Lasts(at[p], q) THEN lost ELSE lost \cup {<<q, p>>}
  <2>1. CASE Lasts(at[p], q)
    <3>1. /\ friends' \in [Players -> SUBSET Players] /\ friends'[q] = own[q] \cup {p}
          /\ \A r \in Players : r # q => friends'[r] = own[r]
      BY <1>3, <1>6, <2>1 DEF TellFriend
    <3>2. UNCHANGED <<lost, mail>>
      BY <1>6, <2>1
    <3>3. PeopleOK'
      BY <1>1, <1>2, <3>1, <3>2 DEF PeopleOK
    <3> QED BY <1>3, <3>1, <3>2, <3>3
  <2>2. CASE ~Lasts(at[p], q)
    <3>1. friends' = own /\ lost' = lost \cup {<<q, p>>} /\ UNCHANGED mail
      BY <1>6, <2>2 DEF TellFriend
    <3>2. lost' \subseteq Players \X Players /\ <<q, p>> \in lost' /\ lost \subseteq lost'
      BY <1>2, <3>1
    <3>3. PeopleOK'
      BY <1>1, <1>2, <1>3, <3>1, <3>2 DEF PeopleOK
    <3> QED BY <1>3, <3>1, <3>2, <3>3
  <2> QED BY <2>1, <2>2
<1>7. CASE /\ GetRemoteUserOnlineState(at[p], q) /\ friends' = own /\ UNCHANGED lost
           /\ mail' = SendToGs(mail, at[p], knows[at[p]][q], Deal(q, p))
  <2>1. Deal(q, p) \in MailType
    BY DEF Deal, MailType
  <2>2. mail' \in Boxes /\ \A m : Holds(mail', m) <=> Holds(mail, m) \/ m = Deal(q, p)
    BY <1>1, <1>7, <2>1, SentIs
  <2>3. PeopleOK'
    BY <1>1, <1>2, <1>3, <1>7, <2>2 DEF PeopleOK, Boxes, Pairs
  <2> QED BY <1>3, <1>7, <2>2, <2>3
<1>8. CASE friends' = own /\ lost' = lost \cup {<<q, p>>} /\ UNCHANGED mail
  <2>1. lost' \subseteq Players \X Players /\ <<q, p>> \in lost' /\ lost \subseteq lost'
    BY <1>2, <1>8
  <2>2. PeopleOK'
    BY <1>1, <1>2, <1>3, <1>8, <2>1 DEF PeopleOK
  <2> QED BY <1>3, <1>8, <2>1, <2>2
<1> QED BY <1>4, <1>5, <1>6, <1>7, <1>8

\* What is said and read concerns nobody's friends.
LEMMA TalkType ==
  ASSUME PeopleOK, NEW p \in Players, NEW q \in Players,
         PrivateChatReq(p, q) \/ ReadPrivateChatReq(p, q), Len(said) \in Nat
  PROVE  /\ PeopleOK' /\ UNCHANGED <<friends, lost>>
         /\ \A m : m.k = "deal" => (Holds(mail', m) <=> Holds(mail, m))
<1> DEFINE n == [k |-> "chat", m |-> Len(said) + 1, p |-> q]
<1>1. n \in MailType /\ n.k = "chat"
  BY DEF MailType
<1>2. UNCHANGED <<at, stage, people, knows>> /\ stage[p] = "on"
  BY DEF PrivateChatReq, SendPrivateChat, ReadPrivateChatReq
<1>3. \/ mail' = mail
      \/ GetRemoteUserOnlineState(at[p], q) /\ mail' = SendToGs(mail, at[p], knows[at[p]][q], n)
  BY DEF PrivateChatReq, SendPrivateChat, ReadPrivateChatReq
<1> HIDE DEF n
<1>4. mail' \in Boxes /\ \A m : m.k = "deal" => (Holds(mail', m) <=> Holds(mail, m))
  <2>1. CASE mail' = mail
    BY <2>1 DEF PeopleOK, Boxes, Pairs
  <2>2. CASE GetRemoteUserOnlineState(at[p], q) /\ mail' = SendToGs(mail, at[p], knows[at[p]][q], n)
    <3>1. mail' \in Boxes /\ \A m : Holds(mail', m) <=> Holds(mail, m) \/ m = n
      BY <1>1, <1>2, <2>2, SentIs
    <3> QED BY <1>1, <3>1
  <2> QED BY <1>3, <2>1, <2>2
<1> QED BY <1>2, <1>4 DEF PeopleOK, Boxes, Pairs, people

\* A message that is not of a new friend is dealt with.
LEMMA ReceiveType ==
  ASSUME PeopleOK, NEW s \in Servers, NEW t \in Servers,
         \/ SetRemoteUserOnlineState(s, t) \/ ServerChatMsgNotify(s, t)
         \/ ServerAddFriendNotify(s, t) /\ Receive(s, t, "ask")
  PROVE  /\ PeopleOK' /\ UNCHANGED <<friends, lost>>
         /\ \A m : m.k = "deal" => (Holds(mail', m) <=> Holds(mail, m))
<1> DEFINE h == Head(mail[<<s, t>>])
<1>1. ASSUME NEW k, k # "deal", Receive(s, t, k)
      PROVE  /\ mail' \in Boxes /\ h \in MailType /\ h.k = k
             /\ \A m : m.k = "deal" => (Holds(mail', m) <=> Holds(mail, m))
  BY <1>1, HeadIs
<1> HIDE DEF h
<1>2. CASE SetRemoteUserOnlineState(s, t)
  <2>1. /\ mail' \in Boxes /\ h \in MailType /\ h.k = "state"
        /\ \A m : m.k = "deal" => (Holds(mail', m) <=> Holds(mail, m))
    BY <1>1, <1>2 DEF SetRemoteUserOnlineState
  <2>2. h.p \in Players /\ h.at \in Places
    BY <2>1 DEF MailType
  <2>3. /\ knows' = [knows EXCEPT ![t][h.p] = h.at] /\ UNCHANGED <<at, stage, people>>
    BY <1>2 DEF SetRemoteUserOnlineState, h
  <2>4. knows' \in [Servers -> [Players -> Places]]
    BY <2>2, <2>3 DEF PeopleOK
  <2> QED BY <2>1, <2>3, <2>4 DEF PeopleOK, Boxes, Pairs, people
<1>3. CASE ServerChatMsgNotify(s, t)
  <2>1. /\ mail' \in Boxes
        /\ \A m : m.k = "deal" => (Holds(mail', m) <=> Holds(mail, m))
    BY <1>1, <1>3 DEF ServerChatMsgNotify
  <2>2. UNCHANGED <<at, stage, people, knows>>
    BY <1>3 DEF ServerChatMsgNotify
  <2> QED BY <2>1, <2>2 DEF PeopleOK, Boxes, Pairs, people
<1>4. CASE ServerAddFriendNotify(s, t) /\ Receive(s, t, "ask")
  <2>1. /\ mail' \in Boxes /\ h \in MailType /\ h.k = "ask"
        /\ \A m : m.k = "deal" => (Holds(mail', m) <=> Holds(mail, m))
    BY <1>1, <1>4
  <2>2. h.p \in Players /\ h.from \in Players
    BY <2>1 DEF MailType
  <2>3. /\ applies' \in {applies, Applied(h.from, h.p)}
        /\ UNCHANGED <<at, stage, friends, lost, knows>>
    BY <1>4, <2>1 DEF ServerAddFriendNotify, Receive, h
  <2>4. applies' \in [Players -> SUBSET Players]
    BY <2>2, <2>3, AppliedType DEF PeopleOK
  <2> QED BY <2>1, <2>3, <2>4 DEF PeopleOK, Boxes, Pairs
<1> QED BY <1>2, <1>3, <1>4

\* A player that is on hears of its new friend, one that is not does so in vain.
LEMMA HearIs ==
  ASSUME PeopleOK, NEW s \in Servers, NEW t \in Servers,
         ServerAddFriendNotify(s, t), Receive(s, t, "deal")
  PROVE  /\ PeopleOK'
         /\ \E p, q \in Players :
              /\ Holds(mail, Deal(p, q))
              /\ \A m : Holds(mail, m) <=> Holds(mail', m) \/ m = Deal(p, q)
              /\ \/ friends' = [friends EXCEPT ![p] = @ \cup {q}] /\ UNCHANGED lost
                 \/ lost' = lost \cup {<<p, q>>} /\ UNCHANGED friends
<1> DEFINE h == Head(mail[<<s, t>>])
<1>1. /\ mail' \in Boxes /\ h \in MailType /\ h.k = "deal" /\ Holds(mail, h)
      /\ \A m : Holds(mail, m) <=> Holds(mail', m) \/ m = h
  BY HeadIs
<1>2. h.p \in Players /\ h.from \in Players /\ h = Deal(h.p, h.from)
  <2> HIDE DEF h
  <2>1. h \in [k : {"ask", "deal"}, from : Players, p : Players]
    BY <1>1 DEF MailType
  <2> QED BY <1>1, <2>1 DEF Deal
<1>3. /\ UNCHANGED <<at, stage, knows, applies>>
      /\ \/ friends' = [friends EXCEPT ![h.p] = @ \cup {h.from}] /\ UNCHANGED lost
         \/ lost' = lost \cup {<<h.p, h.from>>} /\ UNCHANGED friends
  BY DEF ServerAddFriendNotify, Receive
<1> HIDE DEF h
<1>4. friends' \in [Players -> SUBSET Players] /\ lost' \subseteq Players \X Players
  BY <1>2, <1>3 DEF PeopleOK
<1>5. PeopleOK'
  BY <1>1, <1>3, <1>4 DEF PeopleOK, Boxes, Pairs
<1> QED BY <1>1, <1>2, <1>3, <1>5

\* The types of what is said, and what the rest counts on of it.
SaidOK == said \in Seq([from : Players, to : Players])

\* Whoever a message tells of a new friend is that friend's friend already.
DealsHonest == \A p, q \in Players : OnItsWay(p, q) => p \in friends[q]
FriendsInv == FriendsMutual /\ DealsHonest

\* A message on its way is one that a box holds.
LEMMA OnItsWayIs ==
  \A p, q : /\ OnItsWay(p, q) <=> Holds(mail, Deal(p, q))
            /\ OnItsWay(p, q)' <=> Holds(mail', Deal(p, q))
BY DEF OnItsWay, Holds, Deal

\* Friendship stays mutual when nobody loses a friend, every new friend is one of both, and
\* a message leaves its box only when it has been heard, or has been in vain.
LEMMA Kept ==
  ASSUME FriendsInv, lost \subseteq lost',
         \A r \in Players : friends[r] \subseteq friends'[r],
         \A p, q \in Players : q \in friends'[p] =>
           \/ q \in friends[p] \/ p \in friends'[q]
           \/ Holds(mail', Deal(q, p)) \/ <<q, p>> \in lost',
         \A p, q \in Players : Holds(mail, Deal(p, q)) =>
           Holds(mail', Deal(p, q)) \/ q \in friends'[p] \/ <<p, q>> \in lost',
         \A p, q \in Players : Holds(mail', Deal(p, q)) =>
           Holds(mail, Deal(p, q)) \/ p \in friends'[q]
  PROVE  FriendsInv'
<1>1. FriendsMutual'
  <2>1. ASSUME NEW p \in Players, NEW q \in Players, q \in friends'[p]
        PROVE  p \in friends'[q] \/ Holds(mail', Deal(q, p)) \/ <<q, p>> \in lost'
    <3>1. CASE q \in friends[p]
      <4>1. p \in friends[q] \/ Holds(mail, Deal(q, p)) \/ <<q, p>> \in lost
        BY <3>1, OnItsWayIs DEF FriendsInv, FriendsMutual
      <4> QED BY <4>1
    <3> QED BY <2>1, <3>1
  <2>2. \A p, q \in Players : q \in friends'[p] =>
          p \in friends'[q] \/ OnItsWay(q, p)' \/ <<q, p>> \in lost'
    BY <2>1, OnItsWayIs
  <2> QED BY <2>2 DEF FriendsMutual
<1>2. DealsHonest'
  <2>1. ASSUME NEW p \in Players, NEW q \in Players, Holds(mail', Deal(p, q))
        PROVE  p \in friends'[q]
    <3>1. Holds(mail, Deal(p, q)) => p \in friends[q]
      BY OnItsWayIs DEF FriendsInv, DealsHonest
    <3> QED BY <2>1, <3>1
  <2>2. \A p, q \in Players : OnItsWay(p, q)' => p \in friends'[q]
    BY <2>1, OnItsWayIs
  <2> QED BY <2>2 DEF DealsHonest
<1> QED BY <1>1, <1>2 DEF FriendsInv

\* So it does when nothing about friends changes.
LEMMA KeptSame ==
  ASSUME FriendsInv, UNCHANGED <<friends, lost>>,
         \A m : m.k = "deal" => (Holds(mail', m) <=> Holds(mail, m))
  PROVE  FriendsInv'
<1>1. \A p, q : Deal(p, q).k = "deal"
  BY DEF Deal
<1>2. \A p, q : Holds(mail', Deal(p, q)) <=> Holds(mail, Deal(p, q))
  BY <1>1
<1> QED BY <1>2, Kept

\* Every step keeps the types, and friendship mutual.
LEMMA NextFriends ==
  ASSUME PeopleOK, SaidOK, FriendsInv, [Next]_vars
  PROVE  PeopleOK' /\ SaidOK' /\ FriendsInv'
<1>1. SaidOK'
  <2>1. ASSUME NEW p \in Players, NEW q \in Players, PrivateChatReq(p, q) PROVE SaidOK'
    <3>1. said' = Append(said, [from |-> p, to |-> q])
      BY <2>1 DEF PrivateChatReq, SendPrivateChat
    <3>2. [from |-> p, to |-> q] \in [from : Players, to : Players]
      OBVIOUS
    <3> QED BY <3>1, <3>2 DEF SaidOK
  <2>2. CASE said' = said
    BY <2>2 DEF SaidOK
  <2>3. (\E p, q \in Players : PrivateChatReq(p, q)) \/ said' = said
    <3>1. CASE UNCHANGED vars
      BY <3>1 DEF vars, talk
    <3>2. ASSUME NEW p \in Players,
                 \/ \E s \in Servers : OnlineUser(p, s)
                 \/ OnLogin(p) \/ OfflineUser(p) \/ SaveOffline(p) \/ UserOfflineSaveToDbFinish(p)
                 \/ \E q \in Players : AskAddFriendReq(p, q) \/ ReadPrivateChatReq(p, q)
                 \/ \E q \in Players : \E agree \in BOOLEAN : DealAddFriendReq(p, q, agree)
          PROVE  said' = said
      BY <3>2 DEF talk, OnlineUser, OnLogin, OfflineUser, SaveOffline, UserOfflineSaveToDbFinish,
                  AskAddFriendReq, ReadPrivateChatReq, DealAddFriendReq
    <3>3. ASSUME NEW s \in Servers, NEW t \in Servers,
                 \/ SetRemoteUserOnlineState(s, t) \/ ServerAddFriendNotify(s, t)
                 \/ ServerChatMsgNotify(s, t)
          PROVE  said' = said
      BY <3>3 DEF talk, SetRemoteUserOnlineState, ServerAddFriendNotify, ServerChatMsgNotify
    <3>4. ASSUME NEW w \in writes, WriteChat(w) PROVE said' = said
      BY <3>4 DEF WriteChat
    <3> QED BY <3>1, <3>2, <3>3, <3>4 DEF Next
  <2> QED BY <2>1, <2>2, <2>3
<1>2. CASE UNCHANGED <<at, stage, people, knows, mail>>
  <2>1. UNCHANGED <<at, stage, friends, applies, lost, knows, mail>>
    BY <1>2 DEF people
  <2> QED BY <1>1, <2>1, KeptSame DEF PeopleOK
<1>3. ASSUME NEW p \in Players,
             \/ \E s \in Servers : OnlineUser(p, s)
             \/ OnLogin(p) \/ OfflineUser(p) \/ SaveOffline(p) \/ UserOfflineSaveToDbFinish(p)
      PROVE  PeopleOK' /\ FriendsInv'
  BY <1>3, PlacesType, KeptSame
<1>4. ASSUME NEW p \in Players, NEW q \in Players, AskAddFriendReq(p, q)
      PROVE  PeopleOK' /\ FriendsInv'
  BY <1>4, AskType, KeptSame
<1>5. ASSUME NEW p \in Players, NEW q \in Players, PrivateChatReq(p, q) \/ ReadPrivateChatReq(p, q)
      PROVE  PeopleOK' /\ FriendsInv'
  BY <1>5, TalkType, KeptSame DEF SaidOK
<1>6. ASSUME NEW p \in Players, NEW q \in Players, NEW agree \in BOOLEAN,
             DealAddFriendReq(p, q, agree)
      PROVE  PeopleOK' /\ FriendsInv'
  <2>1. /\ PeopleOK' /\ lost \subseteq lost'
        /\ \A r \in Players : friends[r] \subseteq friends'[r]
        /\ \A a, b \in Players : b \in friends'[a] =>
             b \in friends[a] \/ (a = p /\ b = q) \/ (a = q /\ b = p)
        /\ \/ UNCHANGED <<friends, lost, mail>>
           \/ q \in friends'[p] /\ (p \in friends'[q] \/ <<q, p>> \in lost') /\ UNCHANGED mail
           \/ /\ q \in friends'[p]
              /\ \A m : Holds(mail', m) <=> Holds(mail, m) \/ m = Deal(q, p)
    BY <1>6, DealIs
  <2>3. CASE UNCHANGED <<friends, lost, mail>>
    BY <2>1, <2>3, KeptSame
  <2>4. CASE q \in friends'[p] /\ (p \in friends'[q] \/ <<q, p>> \in lost') /\ UNCHANGED mail
    BY <2>1, <2>4, Kept
  <2>5. CASE /\ q \in friends'[p]
             /\ \A m : Holds(mail', m) <=> Holds(mail, m) \/ m = Deal(q, p)
    <3>1. \A a, b : Deal(a, b) = Deal(q, p) => a = q /\ b = p
      BY DEF Deal
    <3> QED BY <2>1, <2>5, <3>1, Kept
  <2> QED BY <2>1, <2>3, <2>4, <2>5
<1>7. ASSUME NEW s \in Servers, NEW t \in Servers,
             \/ SetRemoteUserOnlineState(s, t) \/ ServerChatMsgNotify(s, t)
             \/ ServerAddFriendNotify(s, t) /\ Receive(s, t, "ask")
      PROVE  PeopleOK' /\ FriendsInv'
  BY <1>7, ReceiveType, KeptSame
<1>8. ASSUME NEW s \in Servers, NEW t \in Servers, ServerAddFriendNotify(s, t), Receive(s, t, "deal")
      PROVE  PeopleOK' /\ FriendsInv'
  <2>1. PICK p \in Players, q \in Players :
          /\ Holds(mail, Deal(p, q))
          /\ \A m : Holds(mail, m) <=> Holds(mail', m) \/ m = Deal(p, q)
          /\ \/ friends' = [friends EXCEPT ![p] = @ \cup {q}] /\ UNCHANGED lost
             \/ lost' = lost \cup {<<p, q>>} /\ UNCHANGED friends
    BY <1>8, HearIs
  <2>2. p \in friends[q]
    BY <2>1, OnItsWayIs DEF FriendsInv, DealsHonest
  <2>3. \A a, b : Deal(a, b) = Deal(p, q) => a = p /\ b = q
    BY DEF Deal
  <2>4. PeopleOK'
    BY <1>8, HearIs
  <2>5. CASE friends' = [friends EXCEPT ![p] = @ \cup {q}] /\ UNCHANGED lost
    <3>1. /\ friends'[p] = friends[p] \cup {q}
          /\ \A r \in Players : r # p => friends'[r] = friends[r]
      BY <2>5 DEF PeopleOK
    <3> QED BY <2>1, <2>2, <2>3, <2>4, <2>5, <3>1, Kept
  <2>6. CASE lost' = lost \cup {<<p, q>>} /\ UNCHANGED friends
    BY <2>1, <2>2, <2>3, <2>4, <2>6, Kept
  <2> QED BY <2>1, <2>5, <2>6
<1>9. ASSUME NEW w \in writes, WriteChat(w) PROVE PeopleOK' /\ FriendsInv'
  BY <1>2, <1>9 DEF WriteChat
<1>10. ASSUME NEW s \in Servers, NEW t \in Servers, ServerAddFriendNotify(s, t)
       PROVE  PeopleOK' /\ FriendsInv'
  BY <1>7, <1>8, <1>10 DEF ServerAddFriendNotify
<1>11. CASE Next
  <2>1. CASE \E p \in Players :
               \/ \E s \in Servers : OnlineUser(p, s)
               \/ OnLogin(p) \/ OfflineUser(p) \/ SaveOffline(p) \/ UserOfflineSaveToDbFinish(p)
    BY <1>1, <1>3, <2>1
  <2>2. CASE \E p, q \in Players :
               AskAddFriendReq(p, q) \/ PrivateChatReq(p, q) \/ ReadPrivateChatReq(p, q)
    BY <1>1, <1>4, <1>5, <2>2
  <2>3. CASE \E p, q \in Players : \E agree \in BOOLEAN : DealAddFriendReq(p, q, agree)
    BY <1>1, <1>6, <2>3
  <2>4. CASE \E w \in writes : WriteChat(w)
    BY <1>1, <1>9, <2>4
  <2>5. CASE \E s, t \in Servers :
               \/ SetRemoteUserOnlineState(s, t) \/ ServerAddFriendNotify(s, t)
               \/ ServerChatMsgNotify(s, t)
    BY <1>1, <1>7, <1>10, <2>5
  <2> QED BY <1>11, <2>1, <2>2, <2>3, <2>4, <2>5 DEF Next
<1>12. CASE UNCHANGED vars
  BY <1>2, <1>12 DEF vars
<1> QED BY <1>1, <1>11, <1>12

\* At the start nobody has a friend, and nothing is on its way.
LEMMA InitFriends == Init => PeopleOK /\ SaidOK /\ FriendsInv
<1> SUFFICES ASSUME Init PROVE PeopleOK /\ SaidOK /\ FriendsInv
  OBVIOUS
<1>1. mail = [c \in Servers \X Servers |-> << >>]
  BY DEF Init
<1>2. mail \in Boxes
  BY <1>1 DEF Boxes, Pairs
<1>3. \A m : ~Holds(mail, m)
  BY <1>1 DEF Holds
<1>4. PeopleOK /\ SaidOK
  BY <1>2 DEF Init, PeopleOK, SaidOK, Boxes, Pairs, Places
<1>5. FriendsInv
  BY <1>3, OnItsWayIs DEF Init, FriendsInv, FriendsMutual, DealsHonest
<1> QED BY <1>4, <1>5

\* Players are on servers, their records hold players, and so do the messages.
THEOREM TypesCorrect == Spec => []PeopleOK
BY InitFriends, NextFriends, PTL DEF Spec

\* Friendship is mutual, but for what is on its way and what came in vain.
THEOREM FriendsCorrect == Spec => []FriendsMutual
<1>1. FriendsInv => FriendsMutual
  BY DEF FriendsInv
<1> QED BY <1>1, InitFriends, NextFriends, PTL DEF Spec
-----------------------------------------------------------------------------
(* Lists of chat messages.                                                  *)

\* By their ranks a finite set of numbers is in order, each member once.
LEMMA Ordered ==
  ASSUME NEW S \in SUBSET Nat, IsFiniteSet(S)
  PROVE  /\ Cardinality(S) \in Nat /\ ByTime(S) \in [1 .. Cardinality(S) -> S]
         /\ \A i, j \in 1 .. Cardinality(S) : i < j => ByTime(S)[i] < ByTime(S)[j]
         /\ \A m \in S : \E i \in 1 .. Cardinality(S) : ByTime(S)[i] = m
<1> DEFINE n == Cardinality(S)
           Below(m) == {k \in S : k <= m}
           f == [m \in S |-> Rank(S, m)]
<1>1. n \in Nat
  BY FS_CardinalityType
<1>2. \A m \in S : IsFiniteSet(Below(m)) /\ Rank(S, m) = Cardinality(Below(m)) /\ Rank(S, m) \in 1 .. n
  <2>1. ASSUME NEW m \in S PROVE IsFiniteSet(Below(m)) /\ Rank(S, m) = Cardinality(Below(m)) /\ Rank(S, m) \in 1 .. n
    <3> DEFINE B == Below(m)
    <3>1. B \in SUBSET S /\ m \in B /\ Rank(S, m) = Cardinality(B)
      BY DEF Rank
    <3> HIDE DEF B
    <3>2. IsFiniteSet(B) /\ Cardinality(B) <= Cardinality(S)
      BY <3>1, FS_Subset
    <3>3. Cardinality(B) \in Nat
      BY <3>2, FS_CardinalityType
    <3>4. Cardinality(B) # 0
      BY <3>1, <3>2, FS_EmptySet
    <3> QED BY <1>1, <3>1, <3>2, <3>3, <3>4 DEF B
  <2> QED BY <2>1
<1>3. ASSUME NEW a \in S, NEW b \in S, a < b PROVE Rank(S, a) < Rank(S, b)
  <2> DEFINE A == Below(a)
             B == Below(b)
  <2>1. A \in SUBSET B /\ b \in B /\ b \notin A
    <3>1. a \in Nat /\ b \in Nat /\ \A k \in S : k \in Nat
      OBVIOUS
    <3>2. \A k \in Nat : k <= a => k <= b
      BY <1>3, <3>1
    <3>3. b <= b /\ ~(b <= a)
      BY <1>3, <3>1
    <3> QED BY <3>1, <3>2, <3>3
  <2>2. IsFiniteSet(B) /\ Rank(S, a) = Cardinality(A) /\ Rank(S, b) = Cardinality(B)
        /\ Rank(S, a) \in Nat /\ Rank(S, b) \in Nat
    BY <1>2
  <2> HIDE DEF A, B
  <2>3. Cardinality(A) <= Cardinality(B) /\ (Cardinality(B) = Cardinality(A) => B = A)
    BY <2>1, <2>2, FS_Subset
  <2>4. Cardinality(A) # Cardinality(B)
    BY <2>1, <2>3
  <2> QED BY <2>2, <2>3, <2>4
<1> HIDE DEF n, Below
<1>4. \A a, b \in S : Rank(S, a) = Rank(S, b) => a = b
  <2>1. ASSUME NEW a \in S, NEW b \in S, Rank(S, a) = Rank(S, b), a # b PROVE FALSE
    <3>1. a < b \/ b < a
      BY <2>1
    <3>2. Rank(S, a) \in Nat
      BY <1>1, <1>2
    <3> QED BY <1>3, <2>1, <3>1, <3>2
  <2> QED BY <2>1
<1>5. \A i \in 1 .. n : \E m \in S : Rank(S, m) = i
  <2>1. f \in Injection(S, 1 .. n)
    BY <1>2, <1>4 DEF Injection, IsInjective
  <2>2. IsFiniteSet(1 .. n) /\ Cardinality(1 .. n) = n
    BY <1>1, FS_Interval
  <2>3. Cardinality(S) = Cardinality(1 .. n)
    BY <2>2 DEF n
  <2> HIDE DEF f
  <2>4. f \in Surjection(S, 1 .. n)
    BY <2>1, <2>2, <2>3, FS_Injection
  <2> QED BY <2>4 DEF Surjection, f
<1>6. ByTime(S) = [i \in 1 .. n |-> ByTime(S)[i]]
      /\ \A i \in 1 .. n : ByTime(S)[i] \in S /\ Rank(S, ByTime(S)[i]) = i
  BY <1>5 DEF ByTime, n
<1> HIDE DEF f
<1>7. ASSUME NEW i \in 1 .. n, NEW j \in 1 .. n, i < j PROVE ByTime(S)[i] < ByTime(S)[j]
  <2>1. PICK a \in S : a = ByTime(S)[i] /\ Rank(S, a) = i
    BY <1>6
  <2>2. PICK b \in S : b = ByTime(S)[j] /\ Rank(S, b) = j
    BY <1>6
  <2>3. a # b
    BY <1>7, <2>1, <2>2
  <2>4. ~(b < a)
    <3> SUFFICES ASSUME b < a PROVE FALSE
      OBVIOUS
    <3>1. Rank(S, b) < Rank(S, a)
      BY <1>3
    <3> QED BY <1>1, <1>7, <2>1, <2>2, <3>1
  <2>5. a \in Nat /\ b \in Nat
    OBVIOUS
  <2> QED BY <2>1, <2>2, <2>3, <2>4, <2>5
<1>8. ASSUME NEW m \in S PROVE \E i \in 1 .. n : ByTime(S)[i] = m
  <2>1. Rank(S, m) \in 1 .. n
    BY <1>2
  <2> QED BY <1>4, <1>6, <2>1
<1> QED BY <1>1, <1>6, <1>7, <1>8 DEF n

\* What a list has, that of two of its objects the later one is newer or came late, and that
\* those that pushed a message out were so.
Has(L, m) == \E i \in DOMAIN L : L[i][1] = m
InTurn(L) == \A i, j \in DOMAIN L : i < j => L[j][1] > L[i][1] \/ L[j][2] \in Servers
PushedBy(L, m) == Len(L) >= MaxMsgListLen /\ \A i \in DOMAIN L : L[i][1] > m \/ L[i][2] \in Servers
Object == Nat \X (Places \cup Players)

\* A message that is added is in the list, and whatever was there still is, or was pushed out.
LEMMA Adds ==
  ASSUME MaxMsgListLen \in Nat, NEW T \in SUBSET Object, NEW L \in Seq(T), InTurn(L), NEW o \in T,
         (\A i \in DOMAIN L : o[1] > L[i][1]) \/ o[2] \in Servers
  PROVE  /\ AddMsg(L, o) \in Seq(T) /\ InTurn(AddMsg(L, o)) /\ Has(AddMsg(L, o), o[1])
         /\ \A m \in Nat : (Has(L, m) \/ PushedBy(L, m)) /\ (o[1] > m \/ o[2] \in Servers) =>
              Has(AddMsg(L, o), m) \/ PushedBy(AddMsg(L, o), m)
<1>1. /\ Len(L) \in Nat /\ DOMAIN L = 1 .. Len(L) /\ \A i \in 1 .. Len(L) : L[i] \in T
  OBVIOUS
<1>2. \A x \in T : x[1] \in Nat
  BY DEF Object
<1> DEFINE d == IF Len(L) > MaxMsgListLen THEN 1 ELSE 0
           n == Len(L) - d
           A == AddMsg(L, o)
<1>3. d \in {0, 1} /\ d <= Len(L) /\ n \in Nat /\ n + d = Len(L)
      /\ (d = 1 => n >= MaxMsgListLen /\ Len(L) > MaxMsgListLen)
  BY <1>1
<1>4. /\ A \in Seq(T) /\ Len(A) = n + 1 /\ DOMAIN A = 1 .. n + 1
      /\ A[n + 1] = o /\ \A i \in 1 .. n : A[i] = L[i + d]
  <2>1. CASE Len(L) > MaxMsgListLen
    <3> DEFINE U == Tail(L)
    <3>1. /\ U \in Seq(T) /\ Len(U) = Len(L) - 1
          /\ \A i \in 1 .. Len(L) - 1 : U[i] = L[i + 1]
      BY <1>1, <2>1
    <3>2. A = Append(U, o) /\ d = 1 /\ n = Len(L) - 1
      BY <2>1 DEF AddMsg
    <3> HIDE DEF A, U, d, n
    <3>3. /\ A \in Seq(T) /\ Len(A) = Len(U) + 1 /\ DOMAIN A = 1 .. Len(U) + 1
          /\ A[Len(U) + 1] = o /\ \A i \in 1 .. Len(U) : A[i] = U[i]
      BY <3>1, <3>2
    <3>4. Len(U) = n /\ n \in Nat
      BY <1>1, <3>1, <3>2
    <3>5. \A i \in 1 .. n : A[i] = L[i + 1]
      BY <3>1, <3>2, <3>3, <3>4
    <3> QED BY <3>2, <3>3, <3>4, <3>5
  <2>2. CASE ~(Len(L) > MaxMsgListLen)
    <3>2. A = Append(L, o) /\ d = 0 /\ n = Len(L)
      BY <1>1, <2>2 DEF AddMsg
    <3> HIDE DEF A, d, n
    <3>3. /\ A \in Seq(T) /\ Len(A) = Len(L) + 1 /\ DOMAIN A = 1 .. Len(L) + 1
          /\ A[Len(L) + 1] = o /\ \A i \in 1 .. Len(L) : A[i] = L[i]
      BY <3>2
    <3> QED BY <1>1, <3>2, <3>3
  <2> QED BY <2>1, <2>2
<1> HIDE DEF A, n, d
<1>5. \A i \in 1 .. n : i + d \in DOMAIN L /\ A[i] = L[i + d] /\ A[i] \in T
  BY <1>1, <1>3, <1>4
<1>6. \A i \in DOMAIN A : i \in 1 .. n \/ (i = n + 1 /\ A[i] = o)
  BY <1>3, <1>4
<1>7. Has(A, o[1])
  <2>1. n + 1 \in DOMAIN A
    BY <1>3, <1>4
  <2> QED BY <1>4, <2>1 DEF Has
<1>8. InTurn(A)
  <2>1. ASSUME NEW i \in DOMAIN A, NEW j \in DOMAIN A, i < j
        PROVE  A[j][1] > A[i][1] \/ A[j][2] \in Servers
    <3>1. i \in 1 .. n
      BY <1>3, <1>4, <2>1
    <3>2. CASE j \in 1 .. n
      <4>1. i + d \in DOMAIN L /\ j + d \in DOMAIN L /\ A[i] = L[i + d] /\ A[j] = L[j + d]
        BY <1>5, <3>1, <3>2
      <4>2. d \in Nat /\ n \in Nat
        BY <1>3
      <4>3. i + d < j + d
        BY <2>1, <3>1, <3>2, <4>2
      <4> QED BY <4>1, <4>3 DEF InTurn
    <3>3. CASE j = n + 1 /\ A[j] = o
      BY <1>5, <3>1, <3>3
    <3> QED BY <1>6, <3>2, <3>3
  <2> QED BY <2>1 DEF InTurn
<1>9. ASSUME NEW m \in Nat, Has(L, m) \/ PushedBy(L, m), o[1] > m \/ o[2] \in Servers
      PROVE  Has(A, m) \/ PushedBy(A, m)
  <2>1. CASE Has(L, m)
    <3>1. PICK i \in DOMAIN L : L[i][1] = m
      BY <2>1 DEF Has
    <3>2. CASE i - d \in 1 .. n
      <4>1. (i - d) + d = i /\ i - d \in DOMAIN A
        BY <1>1, <1>3, <1>4, <3>2
      <4>2. A[i - d] = L[i]
        BY <1>4, <3>2, <4>1
      <4> QED BY <3>1, <4>1, <4>2 DEF Has
    <3>3. CASE i - d \notin 1 .. n
      <4>1. i = 1 /\ d = 1
        BY <1>1, <1>3, <3>3
      <4>2. Len(A) >= MaxMsgListLen
        BY <1>3, <1>4, <4>1
      <4>3. ASSUME NEW j \in 1 .. n PROVE A[j][1] > m \/ A[j][2] \in Servers
        <5>1. j + 1 \in DOMAIN L /\ A[j] = L[j + 1] /\ 1 < j + 1 /\ 1 \in DOMAIN L
          BY <1>5, <3>1, <4>1
        <5> QED BY <3>1, <4>1, <5>1 DEF InTurn
      <4> QED BY <1>6, <1>9, <4>2, <4>3 DEF PushedBy
    <3> QED BY <3>2, <3>3
  <2>2. CASE PushedBy(L, m)
    <3>1. Len(L) >= MaxMsgListLen /\ \A i \in DOMAIN L : L[i][1] > m \/ L[i][2] \in Servers
      BY <2>2 DEF PushedBy
    <3>2. Len(A) >= MaxMsgListLen
      BY <1>1, <1>3, <1>4, <3>1
    <3>3. \A i \in 1 .. n : A[i][1] > m \/ A[i][2] \in Servers
      BY <1>5, <3>1
    <3> QED BY <1>6, <1>9, <3>2, <3>3 DEF PushedBy
  <2> QED BY <1>9, <2>1, <2>2
<1> QED BY <1>4, <1>7, <1>8, <1>9 DEF A

\* A list that is loaded is in order, and what it leaves out is older than all it has.
LEMMA LoadedIs ==
  ASSUME MaxMsgListLen \in Nat, NEW S \in SUBSET Nat, IsFiniteSet(S)
  PROVE  LET K == LastOf(ByTime(S), MaxMsgListLen) IN
         /\ K \in Seq(S)
         /\ \A i, j \in DOMAIN K : i < j => K[j] > K[i]
         /\ \A m \in S : (\E i \in DOMAIN K : K[i] = m)
                         \/ (Len(K) >= MaxMsgListLen /\ \A i \in DOMAIN K : K[i] > m)
<1> DEFINE B == ByTime(S)
           n == Cardinality(S)
           d == IF n > MaxMsgListLen THEN n - MaxMsgListLen ELSE 0
           K == LastOf(B, MaxMsgListLen)
<1>1. /\ n \in Nat /\ B \in [1 .. n -> S]
      /\ \A i, j \in 1 .. n : i < j => B[i] < B[j]
      /\ \A m \in S : \E i \in 1 .. n : B[i] = m
  BY Ordered
<1> HIDE DEF n, B
<1>2. B \in Seq(S) /\ Len(B) = n
  BY <1>1
<1>3. d \in Nat /\ d <= n /\ n - d \in Nat /\ (d > 0 => n - d = MaxMsgListLen)
  BY <1>1
<1>4. K = SubSeq(B, d + 1, n)
  BY <1>1, <1>2 DEF LastOf
<1> HIDE DEF d, K
<1>5. /\ K \in Seq(S) /\ Len(K) = n - d
      /\ \A i \in 1 .. n - d : K[i] = B[i + d]
  <2>1. d + 1 \in Int /\ n \in Int /\ \A i \in d + 1 .. n : B[i] \in S
    BY <1>1, <1>3
  <2>2. /\ K \in Seq(S) /\ Len(K) = (IF d + 1 <= n THEN n - (d + 1) + 1 ELSE 0)
        /\ \A i \in 1 .. n - (d + 1) + 1 : K[i] = B[(d + 1) + i - 1]
    BY <1>4, <2>1, SubSeqProperties
  <2>3. n - (d + 1) + 1 = n - d /\ (IF d + 1 <= n THEN n - (d + 1) + 1 ELSE 0) = n - d
    BY <1>1, <1>3
  <2>4. \A i \in 1 .. n - d : (d + 1) + i - 1 = i + d
    BY <1>1, <1>3
  <2> QED BY <2>2, <2>3, <2>4
<1>6. DOMAIN K = 1 .. n - d /\ \A i \in DOMAIN K : i + d \in 1 .. n /\ K[i] = B[i + d]
  BY <1>1, <1>3, <1>5
<1>7. ASSUME NEW i \in DOMAIN K, NEW j \in DOMAIN K, i < j PROVE K[j] > K[i]
  <2>1. i + d \in 1 .. n /\ j + d \in 1 .. n /\ i + d < j + d
    BY <1>3, <1>6, <1>7
  <2>2. B[i + d] < B[j + d] /\ B[i + d] \in Nat /\ B[j + d] \in Nat
    BY <1>1, <2>1
  <2>3. PICK a \in Nat, b \in Nat : a = B[i + d] /\ b = B[j + d] /\ a < b
    BY <2>2
  <2>4. K[i] = a /\ K[j] = b
    BY <1>6, <2>3
  <2> QED BY <2>3, <2>4
<1>8. ASSUME NEW m \in S
      PROVE  (\E i \in DOMAIN K : K[i] = m)
             \/ (Len(K) >= MaxMsgListLen /\ \A i \in DOMAIN K : K[i] > m)
  <2>1. PICK k \in 1 .. n : B[k] = m
    BY <1>1
  <2>2. CASE k > d
    <3>1. k - d \in DOMAIN K /\ (k - d) + d = k
      BY <1>1, <1>3, <1>6, <2>2
    <3>2. K[k - d] = m
      BY <1>6, <2>1, <3>1
    <3> QED BY <3>1, <3>2
  <2>3. CASE ~(k > d)
    <3>1. Len(K) = MaxMsgListLen
      BY <1>1, <1>3, <1>5, <2>3
    <3>2. ASSUME NEW i \in DOMAIN K PROVE K[i] > m
      <4>1. i + d \in 1 .. n /\ k < i + d
        BY <1>1, <1>3, <1>6, <2>3
      <4>2. B[k] < B[i + d] /\ B[i + d] \in Nat
        BY <1>1, <4>1
      <4>3. PICK a \in Nat : a = B[i + d]
        BY <4>2
      <4>4. K[i] = a /\ m < a /\ m \in Nat
        BY <1>6, <2>1, <4>2, <4>3
      <4> QED BY <4>4
    <3> QED BY <3>1, <3>2
  <2> QED BY <2>2, <2>3
<1> QED BY <1>5, <1>7, <1>8 DEF K, B
-----------------------------------------------------------------------------
(* What the players have of their conversations.                            *)

\* The types of what has been said, listed, read and written.
TalkOK ==
  /\ said \in Seq([from : Players, to : Players])
  /\ list \in [Players \X Players -> Seq(Objects)] /\ isRead \subseteq Objects
  /\ writes \subseteq [k : {"insert"}, m : Chats] \cup [k : {"read"}, p : Players, q : Players]
  /\ chatMsg \subseteq [m : Chats, isRead : BOOLEAN] /\ missed \subseteq Players \X Chats

\* The message that brings p what was said in m.
Chat(m, p) == [k |-> "chat", m |-> m, p |-> p]

\* Those that have what they were told: the players that are on, and the ones whose login has
\* loaded it.
Here == {"loading", "on"}
Have(p, q, m) ==
  \/ Has(list[<<p, q>>], m) \/ PushedBy(list[<<p, q>>], m)
  \/ <<p, m>> \in missed \/ Holds(mail, Chat(m, p))
Complete ==
  \A p, q \in Players : p # q /\ stage[p] \in Here => \A m \in Between(p, q) : Have(p, q, m)

\* Every list is in order, and a message on its way is to the player it was said to.
ListsInTurn == \A p, q \in Players : InTurn(list[<<p, q>>])
ChatsHonest ==
  \A p \in Players : \A m \in Nat : Holds(mail, Chat(m, p)) => m \in Chats /\ said[m].to = p
TalkInv == ListsInTurn /\ ChatsHonest /\ Complete

\* So it stays when nothing is said or listed and nobody comes.
LEMMA TalkSame ==
  ASSUME TalkInv, UNCHANGED <<said, list>>, missed \subseteq missed',
         \A p \in Players : stage'[p] \in Here => stage[p] \in Here,
         \A m : m.k = "chat" => (Holds(mail', m) <=> Holds(mail, m))
  PROVE  TalkInv'
<1>1. \A p, m : Holds(mail', Chat(m, p)) <=> Holds(mail, Chat(m, p))
  BY DEF Chat
<1>2. \A p, q : Between(p, q)' = Between(p, q)
  BY DEF Between
<1>3. \A p, q, m : Have(p, q, m) => Have(p, q, m)'
  BY <1>1 DEF Have
<1>4. Complete'
  BY <1>2, <1>3 DEF TalkInv, Complete
<1>5. ListsInTurn'
  BY DEF TalkInv, ListsInTurn, InTurn
<1>6. ChatsHonest'
  BY <1>1 DEF TalkInv, ChatsHonest, Chats
<1> QED BY <1>4, <1>5, <1>6 DEF TalkInv

\* What is said is numbered; it is of players.
LEMMA SaidIs ==
  ASSUME TalkOK
  PROVE  /\ Len(said) \in Nat /\ DOMAIN said = Chats /\ Chats \subseteq Nat /\ IsFiniteSet(Chats)
         /\ \A m \in Chats : said[m] \in [from : Players, to : Players]
         /\ Objects \subseteq Object
<1>1. said \in Seq([from : Players, to : Players])
  BY DEF TalkOK
<1>2. Len(said) \in Nat /\ DOMAIN said = 1 .. Len(said)
      /\ \A m \in 1 .. Len(said) : said[m] \in [from : Players, to : Players]
  <2> DEFINE T == [from : Players, to : Players]
  <2>1. said \in Seq(T)
    BY <1>1
  <2> HIDE DEF T
  <2>2. Len(said) \in Nat /\ DOMAIN said = 1 .. Len(said) /\ \A m \in 1 .. Len(said) : said[m] \in T
    BY <2>1
  <2> QED BY <2>2 DEF T
<1>3. IsFiniteSet(1 .. Len(said))
  BY <1>2, FS_Interval
<1> QED BY <1>2, <1>3 DEF Chats, Objects, Object

\* A login has what it loads, and may do without the rest.
LEMMA LoginTalk ==
  ASSUME SocialAssumption, TalkOK, TalkInv, NEW p \in Players, NEW s \in Servers, OnlineUser(p, s)
  PROVE  TalkOK' /\ TalkInv'
<1>1. /\ UNCHANGED <<said, writes, chatMsg, mail>> /\ stage' = [stage EXCEPT ![p] = "loading"]
      /\ list' = LoadUserChatMsg(p)
      /\ isRead' = {o \in isRead : o[2] # p} \cup {<<e.m, p>> : e \in {x \in chatMsg : x.isRead}}
      /\ missed' = missed \cup {<<p, m>> : m \in Unseen(p) \cup Beyond(p)}
  BY DEF OnlineUser
<1>2. /\ DOMAIN said = Chats /\ Chats \subseteq Nat /\ IsFiniteSet(Chats) /\ UNCHANGED <<Chats, Objects>>
  BY <1>1, SaidIs DEF Chats, Objects
<1>3. Stored \subseteq Chats
  BY DEF Stored, TalkOK
<1>4. missed' \subseteq Players \X Chats /\ missed \subseteq missed'
  <2>1. Unseen(p) \subseteq Chats /\ Beyond(p) \subseteq Chats
    BY <1>2, <1>3 DEF Unseen, Beyond
  <2>2. missed \subseteq Players \X Chats
    BY DEF TalkOK
  <2> QED BY <1>1, <2>1, <2>2
<1>5. isRead' \subseteq Objects
  BY <1>1 DEF Objects, TalkOK
<1> DEFINE S(q) == QueryChatMsgList(p) \cap Between(p, q)
           K(q) == LastOf(ByTime(S(q)), MaxMsgListLen)
<1>6. ASSUME NEW q \in Players
      PROVE  /\ S(q) \subseteq Chats /\ K(q) \in Seq(S(q))
             /\ \A i, j \in DOMAIN K(q) : i < j => K(q)[j] > K(q)[i]
             /\ \A m \in S(q) : (\E i \in DOMAIN K(q) : K(q)[i] = m)
                   \/ (Len(K(q)) >= MaxMsgListLen /\ \A i \in DOMAIN K(q) : K(q)[i] > m)
  <2> DEFINE U == S(q)
  <2>1. U \subseteq Chats
    BY <1>2 DEF Between
  <2> HIDE DEF U
  <2>2. U \in SUBSET Nat /\ IsFiniteSet(U) /\ MaxMsgListLen \in Nat
    BY <1>2, <2>1, FS_Subset DEF SocialAssumption
  <2> QED BY <2>1, <2>2, LoadedIs DEF U
<1>7. ASSUME NEW a \in Players, NEW q \in Players, a # p PROVE list'[<<a, q>>] = list[<<a, q>>]
  BY <1>1, <1>7 DEF LoadUserChatMsg, TalkOK
<1>8. /\ list' = [c \in Players \X Players |-> list'[c]]
      /\ \A q \in Players : list'[<<p, q>>] = [i \in DOMAIN K(q) |-> <<K(q)[i], p>>]
  BY <1>1 DEF LoadUserChatMsg, TalkOK
<1> HIDE DEF S, K
<1>9. ASSUME NEW q \in Players
      PROVE  /\ list'[<<p, q>>] \in Seq(Objects) /\ InTurn(list'[<<p, q>>])
             /\ \A m \in S(q) : Has(list'[<<p, q>>], m) \/ PushedBy(list'[<<p, q>>], m)
  <2> DEFINE L == list'[<<p, q>>]
             Q == K(q)
  <2>1. L = [i \in DOMAIN Q |-> <<Q[i], p>>]
    BY <1>8
  <2>2. /\ S(q) \subseteq Chats /\ Q \in Seq(S(q)) /\ \A i, j \in DOMAIN Q : i < j => Q[j] > Q[i]
        /\ \A m \in S(q) : (\E i \in DOMAIN Q : Q[i] = m)
              \/ (Len(Q) >= MaxMsgListLen /\ \A i \in DOMAIN Q : Q[i] > m)
    BY <1>6
  <2> HIDE DEF L, Q
  <2>3. Len(Q) \in Nat /\ DOMAIN Q = 1 .. Len(Q) /\ \A i \in 1 .. Len(Q) : Q[i] \in S(q)
    BY <2>2
  <2>4. \A i \in 1 .. Len(Q) : <<Q[i], p>> \in Objects
    BY <2>2, <2>3 DEF Objects
  <2>5. L \in Seq(Objects) /\ Len(L) = Len(Q) /\ DOMAIN L = DOMAIN Q
        /\ \A i \in DOMAIN Q : L[i] = <<Q[i], p>> /\ L[i][1] = Q[i]
    BY <2>1, <2>3, <2>4
  <2>6. InTurn(L)
    BY <2>2, <2>5 DEF InTurn
  <2>7. \A m \in S(q) : Has(L, m) \/ PushedBy(L, m)
    BY <2>2, <2>5 DEF Has, PushedBy
  <2> QED BY <2>5, <2>6, <2>7 DEF L
<1>10. list' \in [Players \X Players -> Seq(Objects)]
  <2>1. ASSUME NEW c \in Players \X Players PROVE list'[c] \in Seq(Objects)
    <3>1. PICK a \in Players, q \in Players : c = <<a, q>>
      OBVIOUS
    <3>2. list[<<a, q>>] \in Seq(Objects)
      BY DEF TalkOK
    <3> QED BY <1>7, <1>9, <3>1, <3>2
  <2> QED BY <1>8, <2>1
<1>11. TalkOK'
  BY <1>1, <1>2, <1>4, <1>5, <1>10 DEF TalkOK
<1>12. ListsInTurn'
  <2>1. ASSUME NEW a \in Players, NEW q \in Players PROVE InTurn(list'[<<a, q>>])
    <3>1. InTurn(list[<<a, q>>])
      BY DEF TalkInv, ListsInTurn
    <3> QED BY <1>7, <1>9, <3>1
  <2>2. \A a, q \in Players : InTurn(list'[<<a, q>>])
    BY <2>1 DEF InTurn
  <2> QED BY <2>2 DEF ListsInTurn, InTurn
<1>13. ChatsHonest'
  BY <1>1, <1>2 DEF TalkInv, ChatsHonest, Holds
<1>14. Complete'
  <2>1. ASSUME NEW a \in Players, NEW q \in Players, a # q, stage'[a] \in Here,
               NEW m \in Between(a, q)
        PROVE  \/ Has(list'[<<a, q>>], m) \/ PushedBy(list'[<<a, q>>], m)
               \/ <<a, m>> \in missed' \/ Holds(mail', Chat(m, a))
    <3>1. CASE a = p
      <4>1. m \in Chats /\ p \in {said[m].from, said[m].to}
        BY <1>2, <3>1 DEF Between
      <4>2. CASE m \notin QueryChatMsgList(p)
        <5>1. m \in Unseen(p) \cup Beyond(p)
          BY <1>2, <4>1, <4>2 DEF Unseen, Beyond
        <5> QED BY <1>1, <3>1, <5>1
      <4>3. CASE m \in QueryChatMsgList(p)
        <5>1. m \in S(q)
          BY <2>1, <3>1, <4>3 DEF S
        <5> QED BY <1>9, <3>1, <5>1
      <4> QED BY <4>2, <4>3
    <3>2. CASE a # p
      <4>1. stage[a] \in Here
        BY <1>1, <2>1, <3>2
      <4>2. Have(a, q, m)
        BY <2>1, <4>1 DEF TalkInv, Complete
      <4> QED BY <1>1, <1>4, <1>7, <3>2, <4>2 DEF Have
    <3> QED BY <3>1, <3>2
  <2>2. \A a, q : Between(a, q)' = Between(a, q)
    BY <1>1 DEF Between
  <2> QED BY <2>1, <2>2 DEF Complete, Have
<1> QED BY <1>11, <1>12, <1>13, <1>14 DEF TalkInv

\* What is said is in the list of the one that says it, and reaches the other, or may be missed.
LEMMA SayTalk ==
  ASSUME SocialAssumption, PeopleOK, TalkOK, TalkInv, NEW p \in Players, NEW q \in Players,
         PrivateChatReq(p, q)
  PROVE  TalkOK' /\ TalkInv'
<1> DEFINE m == Len(said) + 1
           o == <<m, Nowhere>>
           mine == [list EXCEPT ![<<p, q>>] = AddMsg(@, o)]
           r == [from |-> p, to |-> q]
<1>1. /\ p # q /\ stage[p] = "on" /\ said' = Append(said, r)
      /\ writes' = writes \cup {[k |-> "insert", m |-> m]}
      /\ UNCHANGED <<at, stage, isRead, chatMsg>>
  BY DEF PrivateChatReq, SendPrivateChat
<1>2. \/ /\ list' = [mine EXCEPT ![<<q, p>>] = AddMsg(@, o)]
         /\ UNCHANGED <<mail, missed>>
      \/ /\ GetRemoteUserOnlineState(at[p], q) /\ list' = mine
         /\ mail' = SendToGs(mail, at[p], knows[at[p]][q], Chat(m, q))
         /\ UNCHANGED missed
      \/ /\ list' = mine
         /\ missed' = IF stage[q] = "off" THEN missed ELSE missed \cup {<<q, m>>}
         /\ UNCHANGED mail
  BY DEF PrivateChatReq, SendPrivateChat, Chat
<1>3. /\ Len(said) \in Nat /\ Chats = 1 .. Len(said) /\ DOMAIN said = Chats /\ Chats \subseteq Nat
      /\ \A k \in Chats : said[k] \in [from : Players, to : Players]
      /\ Objects \subseteq Object
  BY SaidIs DEF Chats
<1>4. r \in [from : Players, to : Players]
  OBVIOUS
<1>5. /\ said' \in Seq([from : Players, to : Players]) /\ Len(said') = m /\ DOMAIN said' = 1 .. m
      /\ said'[m] = r /\ \A k \in Chats : said'[k] = said[k]
  <2> DEFINE T == [from : Players, to : Players]
  <2>1. said \in Seq(T) /\ r \in T
    BY <1>4 DEF TalkOK
  <2> HIDE DEF T, r
  <2>2. /\ said' \in Seq(T) /\ Len(said') = Len(said) + 1 /\ DOMAIN said' = 1 .. Len(said) + 1
        /\ said'[Len(said) + 1] = r /\ \A k \in 1 .. Len(said) : said'[k] = said[k]
    BY <1>1, <2>1
  <2> QED BY <1>3, <2>2 DEF T
<1>6. /\ Chats' = 1 .. m /\ m \in Nat /\ m \in Chats' /\ m \notin Chats /\ Chats \subseteq Chats'
      /\ \A k \in Chats' : k \in Chats \/ k = m
      /\ \A k \in Chats : m > k
  BY <1>3, <1>5 DEF Chats
<1>7. Objects \subseteq Objects' /\ Objects' \subseteq Object /\ o \in Objects' /\ o[1] = m
  <2>1. Objects = Chats \X (Places \cup Players) /\ Objects' = Chats' \X (Places \cup Players)
    BY DEF Objects
  <2>2. Chats' \subseteq Nat /\ Nowhere \in Places
    BY <1>6 DEF Places
  <2> HIDE DEF m
  <2>3. Objects \subseteq Objects' /\ Objects' \subseteq Object
    BY <1>6, <2>1, <2>2 DEF Object
  <2>4. o \in Objects' /\ o[1] = m
    BY <1>6, <2>1, <2>2
  <2> QED BY <2>3, <2>4
<1> HIDE DEF m, o, r
\* Lists.
<1>8. /\ list' = [c \in Players \X Players |-> list'[c]]
      /\ list'[<<p, q>>] = AddMsg(list[<<p, q>>], o)
      /\ \A c \in Players \X Players : list'[c] = list[c] \/ list'[c] = AddMsg(list[c], o)
      /\ \/ list'[<<q, p>>] = AddMsg(list[<<q, p>>], o)
         \/ Holds(mail', Chat(m, q))
         \/ stage[q] = "off" \/ <<q, m>> \in missed'
  <2> DEFINE there == <<p, q>>
             back == <<q, p>>
  <2>1. there \in Players \X Players /\ back \in Players \X Players /\ there # back
    BY <1>1
  <2>2. list = [c \in Players \X Players |-> list[c]]
    BY DEF TalkOK
  <2> HIDE DEF there, back
  <2>3. /\ mine = [c \in Players \X Players |-> mine[c]]
        /\ mine[there] = AddMsg(list[there], o)
        /\ \A c \in Players \X Players : c # there => mine[c] = list[c]
    BY <2>1, <2>2 DEF there
  <2> HIDE DEF mine
  <2>4. CASE /\ list' = [mine EXCEPT ![<<q, p>>] = AddMsg(@, o)]
             /\ UNCHANGED <<mail, missed>>
    <3>1. /\ list' = [c \in Players \X Players |-> list'[c]]
          /\ list'[back] = AddMsg(mine[back], o)
          /\ \A c \in Players \X Players : c # back => list'[c] = mine[c]
      BY <2>1, <2>3, <2>4 DEF back
    <3> QED BY <2>1, <2>3, <3>1 DEF there, back
  <2>5. CASE /\ GetRemoteUserOnlineState(at[p], q) /\ list' = mine
             /\ mail' = SendToGs(mail, at[p], knows[at[p]][q], Chat(m, q))
             /\ UNCHANGED missed
    <3>1. Chat(m, q) \in MailType
      BY <1>6 DEF Chat, MailType
    <3>2. Holds(mail', Chat(m, q))
      BY <1>1, <2>5, <3>1, SentIs
    <3> QED BY <2>1, <2>3, <2>5, <3>2 DEF there
  <2>6. CASE /\ list' = mine
             /\ missed' = IF stage[q] = "off" THEN missed ELSE missed \cup {<<q, m>>}
             /\ UNCHANGED mail
    <3>1. stage[q] = "off" \/ <<q, m>> \in missed'
      BY <2>6
    <3> QED BY <2>1, <2>3, <2>6, <3>1 DEF there
  <2> QED BY <1>2, <2>4, <2>5, <2>6
<1>9. ASSUME NEW a \in Players, NEW b \in Players
      PROVE  /\ AddMsg(list[<<a, b>>], o) \in Seq(Objects') /\ list[<<a, b>>] \in Seq(Objects')
             /\ InTurn(list[<<a, b>>]) /\ InTurn(AddMsg(list[<<a, b>>], o))
             /\ Has(AddMsg(list[<<a, b>>], o), m)
             /\ \A k \in Chats : Has(list[<<a, b>>], k) \/ PushedBy(list[<<a, b>>], k) =>
                  Has(AddMsg(list[<<a, b>>], o), k) \/ PushedBy(AddMsg(list[<<a, b>>], o), k)
  <2> DEFINE L == list[<<a, b>>]
             U == Objects'
  <2>1. L \in Seq(Objects) /\ InTurn(L)
    BY DEF TalkOK, TalkInv, ListsInTurn
  <2>2. \A i \in DOMAIN L : L[i] \in Objects
    BY <2>1
  <2>3. \A i \in DOMAIN L : m > L[i][1]
    BY <1>6, <2>2 DEF Objects
  <2>4. U \in SUBSET Object /\ o \in U /\ Objects \subseteq U /\ MaxMsgListLen \in Nat
    BY <1>7 DEF SocialAssumption
  <2> HIDE DEF U, L
  <2>5. L \in Seq(U)
    BY <2>1, <2>4
  <2>6. /\ AddMsg(L, o) \in Seq(U) /\ InTurn(AddMsg(L, o)) /\ Has(AddMsg(L, o), o[1])
        /\ \A k \in Nat : (Has(L, k) \/ PushedBy(L, k)) /\ (o[1] > k \/ o[2] \in Servers) =>
             Has(AddMsg(L, o), k) \/ PushedBy(AddMsg(L, o), k)
    BY <1>7, <2>1, <2>3, <2>4, <2>5, Adds
  <2> QED BY <1>3, <1>6, <1>7, <2>1, <2>5, <2>6 DEF L, U
<1>10. ASSUME NEW a \in Players, NEW b \in Players
       PROVE  /\ list'[<<a, b>>] \in Seq(Objects') /\ InTurn(list'[<<a, b>>])
              /\ \A k \in Chats : Has(list[<<a, b>>], k) \/ PushedBy(list[<<a, b>>], k) =>
                   Has(list'[<<a, b>>], k) \/ PushedBy(list'[<<a, b>>], k)
  <2>1. list'[<<a, b>>] = list[<<a, b>>] \/ list'[<<a, b>>] = AddMsg(list[<<a, b>>], o)
    BY <1>8
  <2> QED BY <1>9, <2>1
\* Messages on their way.
<1>11. \A x : Holds(mail, x) => Holds(mail', x)
  <2>1. Chat(m, q) \in MailType
    BY <1>6 DEF Chat, MailType
  <2> QED BY <1>1, <1>2, <2>1, SentIs
<1>12. \A x : Holds(mail', x) => Holds(mail, x) \/ x = Chat(m, q)
  <2>1. Chat(m, q) \in MailType
    BY <1>6 DEF Chat, MailType
  <2> QED BY <1>1, <1>2, <2>1, SentIs
<1>13. ChatsHonest'
  <2>1. ASSUME NEW a \in Players, NEW k \in Nat, Holds(mail', Chat(k, a))
        PROVE  k \in Chats' /\ said'[k].to = a
    <3>1. CASE Holds(mail, Chat(k, a))
      <4>1. k \in Chats /\ said[k].to = a
        BY <3>1 DEF TalkInv, ChatsHonest
      <4> QED BY <1>5, <1>6, <4>1
    <3>2. CASE Chat(k, a) = Chat(m, q)
      <4>1. k = m /\ a = q
        BY <3>2 DEF Chat
      <4> QED BY <1>5, <1>6, <4>1 DEF r
    <3> QED BY <1>12, <2>1, <3>1, <3>2
  <2> QED BY <2>1 DEF ChatsHonest
<1>14. ListsInTurn'
  BY <1>10 DEF ListsInTurn, InTurn
<1>15. missed \subseteq missed' /\ missed' \subseteq missed \cup {<<q, m>>}
  BY <1>2
<1>16. TalkOK'
  <2>1. ASSUME NEW c \in Players \X Players PROVE list'[c] \in Seq(Objects')
    <3>1. PICK a \in Players, b \in Players : c = <<a, b>>
      OBVIOUS
    <3> QED BY <1>10, <3>1
  <2>2. list' \in [Players \X Players -> Seq(Objects')]
    BY <1>8, <2>1
  <2>3. isRead' \subseteq Objects'
    BY <1>1, <1>7 DEF TalkOK
  <2>4. chatMsg' \subseteq [m : Chats', isRead : BOOLEAN]
    <3>1. [m : Chats, isRead : BOOLEAN] \subseteq [m : Chats', isRead : BOOLEAN]
      BY <1>6
    <3> QED BY <1>1, <3>1 DEF TalkOK
  <2>6. missed' \subseteq Players \X Chats'
    <3>1. missed \subseteq Players \X Chats
      BY DEF TalkOK
    <3>2. <<q, m>> \in Players \X Chats' /\ Players \X Chats \subseteq Players \X Chats'
      BY <1>6
    <3> QED BY <1>15, <3>1, <3>2
  <2>5. writes' \subseteq [k : {"insert"}, m : Chats'] \cup [k : {"read"}, p : Players, q : Players]
    <3>1. [k |-> "insert", m |-> m] \in [k : {"insert"}, m : Chats']
      BY <1>6
    <3>2. [k : {"insert"}, m : Chats] \subseteq [k : {"insert"}, m : Chats']
      BY <1>6
    <3> QED BY <1>1, <3>1, <3>2 DEF TalkOK
  <2> QED BY <1>5, <2>2, <2>3, <2>4, <2>5, <2>6 DEF TalkOK
<1>17. Complete'
  <2>1. ASSUME NEW a \in Players, NEW b \in Players, a # b, stage[a] \in Here,
               NEW k \in Chats', {said'[k].from, said'[k].to} = {a, b}
        PROVE  \/ Has(list'[<<a, b>>], k) \/ PushedBy(list'[<<a, b>>], k)
               \/ <<a, k>> \in missed' \/ Holds(mail', Chat(k, a))
    <3>1. CASE k \in Chats
      <4>1. k \in Between(a, b)
        BY <1>3, <1>5, <2>1, <3>1 DEF Between
      <4>2. Have(a, b, k)
        BY <2>1, <4>1 DEF TalkInv, Complete
      <4> QED BY <1>10, <1>11, <1>15, <3>1, <4>2 DEF Have
    <3>2. CASE k = m
      <4>1. (a = p /\ b = q) \/ (a = q /\ b = p)
        <5>1. said'[k].from = p /\ said'[k].to = q
          BY <1>5, <3>2 DEF r
        <5>2. {p, q} = {a, b}
          BY <2>1, <5>1
        <5> QED BY <1>1, <2>1, <5>2
      <4>2. CASE a = p /\ b = q
        BY <1>8, <1>9, <3>2, <4>2
      <4>3. CASE a = q /\ b = p
        <5>1. stage[q] # "off"
          BY <2>1, <4>3 DEF Here
        <5>2. Has(AddMsg(list[<<q, p>>], o), m)
          BY <1>9
        <5> QED BY <1>8, <3>2, <4>3, <5>1, <5>2
      <4> QED BY <4>1, <4>2, <4>3
    <3> QED BY <1>6, <3>1, <3>2
  <2>2. \A a, b : Between(a, b)' = {k \in Chats' : {said'[k].from, said'[k].to} = {a, b}}
    BY <1>5, <1>6 DEF Between
  <2> QED BY <1>1, <2>1, <2>2 DEF Complete, Have
<1> QED BY <1>13, <1>14, <1>16, <1>17 DEF TalkInv

\* A message that comes is listed if its player is on, or may be missed.
LEMMA HearTalk ==
  ASSUME SocialAssumption, PeopleOK, TalkOK, TalkInv, NEW s \in Servers, NEW t \in Servers,
         ServerChatMsgNotify(s, t)
  PROVE  TalkOK' /\ TalkInv'
<1> DEFINE h == Head(mail[<<s, t>>])
           b == said[h.m].from
           o == <<h.m, s>>
<1>1. /\ h \in MailType /\ h.k = "chat" /\ Holds(mail, h)
      /\ \A x : Holds(mail, x) <=> Holds(mail', x) \/ x = h
  BY HeadIs DEF ServerChatMsgNotify
<1>2. /\ UNCHANGED <<at, stage, said, isRead, writes, chatMsg>>
      /\ \/ list' = [list EXCEPT ![<<h.p, b>>] = AddMsg(@, o)] /\ missed' = missed
         \/ list' = list /\ missed' = missed \cup {<<h.p, h.m>>}
  BY DEF ServerChatMsgNotify
<1>3. /\ DOMAIN said = Chats /\ Chats \subseteq Nat /\ Objects \subseteq Object
      /\ \A k \in Chats : said[k] \in [from : Players, to : Players]
  BY SaidIs
<1> HIDE DEF h
<1>4. h.p \in Players /\ h.m \in Nat /\ h = Chat(h.m, h.p)
  <2>1. h \in [k : {"chat"}, m : Nat, p : Players]
    BY <1>1 DEF MailType
  <2> QED BY <1>1, <2>1 DEF Chat
<1>5. h.m \in Chats /\ said[h.m].to = h.p
  BY <1>1, <1>4 DEF TalkInv, ChatsHonest
<1>6. b \in Players /\ o \in Objects /\ o[1] = h.m /\ o[2] = s
  BY <1>3, <1>5 DEF Objects, Places
<1> HIDE DEF b, o
<1> DEFINE c == <<h.p, b>>
           L == list[c]
<1>7. c \in Players \X Players /\ L \in Seq(Objects) /\ InTurn(L)
  BY <1>4, <1>6 DEF TalkOK, TalkInv, ListsInTurn
<1>8. /\ AddMsg(L, o) \in Seq(Objects) /\ InTurn(AddMsg(L, o)) /\ Has(AddMsg(L, o), h.m)
      /\ \A k \in Nat : Has(L, k) \/ PushedBy(L, k) => Has(AddMsg(L, o), k) \/ PushedBy(AddMsg(L, o), k)
  <2>1. MaxMsgListLen \in Nat /\ Objects \in SUBSET Object /\ o[2] \in Servers
    BY <1>3, <1>6 DEF SocialAssumption
  <2> HIDE DEF L
  <2>2. /\ AddMsg(L, o) \in Seq(Objects) /\ InTurn(AddMsg(L, o)) /\ Has(AddMsg(L, o), o[1])
        /\ \A m \in Nat : (Has(L, m) \/ PushedBy(L, m)) /\ (o[1] > m \/ o[2] \in Servers) =>
             Has(AddMsg(L, o), m) \/ PushedBy(AddMsg(L, o), m)
    BY <1>6, <1>7, <2>1, Adds
  <2> QED BY <1>6, <2>1, <2>2
<1>9. /\ list' = [d \in Players \X Players |-> list'[d]]
      /\ \A d \in Players \X Players : list'[d] = list[d] \/ (d = c /\ list'[d] = AddMsg(L, o))
      /\ list'[c] = AddMsg(L, o) \/ <<h.p, h.m>> \in missed'
      /\ missed \subseteq missed' /\ missed' \subseteq missed \cup {<<h.p, h.m>>}
  <2>1. list = [d \in Players \X Players |-> list[d]]
    BY DEF TalkOK
  <2> HIDE DEF c
  <2>2. \/ list' = [list EXCEPT ![c] = AddMsg(L, o)] /\ missed' = missed
        \/ list' = list /\ missed' = missed \cup {<<h.p, h.m>>}
    BY <1>2 DEF c
  <2> HIDE DEF L
  <2>3. CASE list' = [list EXCEPT ![c] = AddMsg(L, o)] /\ missed' = missed
    BY <1>7, <2>1, <2>3
  <2>4. CASE list' = list /\ missed' = missed \cup {<<h.p, h.m>>}
    BY <2>1, <2>4
  <2> QED BY <2>2, <2>3, <2>4
<1>10. ASSUME NEW d \in Players \X Players
       PROVE  /\ list'[d] \in Seq(Objects) /\ InTurn(list'[d])
              /\ \A k \in Nat : Has(list[d], k) \/ PushedBy(list[d], k) =>
                   Has(list'[d], k) \/ PushedBy(list'[d], k)
  <2>1. PICK a \in Players, e \in Players : d = <<a, e>>
    OBVIOUS
  <2>2. list[d] \in Seq(Objects) /\ InTurn(list[d])
    BY <2>1 DEF TalkOK, TalkInv, ListsInTurn
  <2>3. CASE list'[d] = list[d]
    BY <2>2, <2>3
  <2>4. CASE d = c /\ list'[d] = AddMsg(L, o)
    <3> HIDE DEF c
    <3>1. list[d] = L
      BY <2>4
    <3> HIDE DEF L
    <3> QED BY <1>8, <2>4, <3>1
  <2> QED BY <1>9, <2>3, <2>4
<1>11. UNCHANGED <<Chats, Objects>>
  BY <1>2 DEF Chats, Objects
<1>12. TalkOK'
  <2>1. list' \in [Players \X Players -> Seq(Objects)]
    BY <1>9, <1>10
  <2>2. missed' \subseteq Players \X Chats
    <3>1. missed \subseteq Players \X Chats
      BY DEF TalkOK
    <3> QED BY <1>4, <1>5, <1>9, <3>1
  <2> QED BY <1>2, <1>11, <2>1, <2>2 DEF TalkOK
<1>13. ListsInTurn'
  <2>1. \A a, q \in Players : InTurn(list'[<<a, q>>])
    BY <1>10
  <2> QED BY <2>1 DEF ListsInTurn, InTurn
<1>14. ChatsHonest'
  BY <1>1, <1>2, <1>11 DEF TalkInv, ChatsHonest
<1>15. Complete'
  <2>1. ASSUME NEW a \in Players, NEW q \in Players, a # q, stage[a] \in Here, NEW k \in Between(a, q)
        PROVE  \/ Has(list'[<<a, q>>], k) \/ PushedBy(list'[<<a, q>>], k)
               \/ <<a, k>> \in missed' \/ Holds(mail', Chat(k, a))
    <3>1. Have(a, q, k) /\ k \in Chats /\ k \in Nat /\ <<a, q>> \in Players \X Players
      BY <1>3, <2>1 DEF TalkInv, Complete, Between
    <3>2. CASE Has(list[<<a, q>>], k) \/ PushedBy(list[<<a, q>>], k)
      BY <1>10, <3>1, <3>2
    <3>3. CASE <<a, k>> \in missed \/ Holds(mail', Chat(k, a))
      BY <1>9, <3>3
    <3>4. CASE Chat(k, a) = h
      <4>1. k = h.m /\ a = h.p
        BY <1>4, <3>4 DEF Chat
      <4>2. b = q
        BY <1>5, <2>1, <4>1 DEF Between, b
      <4>3. list'[<<a, q>>] = AddMsg(L, o) \/ <<a, k>> \in missed'
        BY <1>9, <4>1, <4>2
      <4> QED BY <1>8, <4>1, <4>3
    <3> QED BY <1>1, <3>1, <3>2, <3>3, <3>4 DEF Have
  <2>2. \A a, q : Between(a, q)' = Between(a, q)
    BY <1>2 DEF Between
  <2> QED BY <1>2, <2>1, <2>2 DEF Complete, Have
<1> QED BY <1>12, <1>13, <1>14, <1>15 DEF TalkInv

\* What is read is marked, in memory and in the collection, and what was said is written there.
LEMMA MarkTalk ==
  ASSUME TalkOK, TalkInv,
         \/ \E p, q \in Players : ReadPrivateChatReq(p, q)
         \/ \E w \in writes : WriteChat(w)
  PROVE  TalkOK' /\ TalkInv'
<1>1. /\ UNCHANGED <<said, list, missed, stage, mail>>
  BY DEF ReadPrivateChatReq, WriteChat
<1>2. TalkInv'
  BY <1>1, TalkSame
<1>3. UNCHANGED <<Chats, Objects>>
  BY <1>1 DEF Chats, Objects
<1>4. ASSUME NEW p \in Players, NEW q \in Players, ReadPrivateChatReq(p, q) PROVE TalkOK'
  <2>1. /\ isRead' = isRead \cup ToSet(list[<<p, q>>]) /\ UNCHANGED chatMsg
        /\ writes' = writes \cup {[k |-> "read", p |-> p, q |-> q]}
    BY <1>4 DEF ReadPrivateChatReq
  <2>2. ToSet(list[<<p, q>>]) \subseteq Objects
    <3>1. list[<<p, q>>] \in Seq(Objects)
      BY DEF TalkOK
    <3> QED BY <3>1 DEF ToSet
  <2>3. [k |-> "read", p |-> p, q |-> q] \in [k : {"read"}, p : Players, q : Players]
    OBVIOUS
  <2> QED BY <1>1, <1>3, <2>1, <2>2, <2>3 DEF TalkOK
<1>5. ASSUME NEW w \in writes, WriteChat(w) PROVE TalkOK'
  <2>1. /\ writes' = writes \ {w} /\ UNCHANGED isRead
        /\ \/ /\ w.k = "insert"
              /\ chatMsg' = chatMsg \cup {[m |-> w.m, isRead |-> <<w.m, Nowhere>> \in isRead]}
           \/ chatMsg' = {IF e.m \in Between(w.p, w.q) THEN [e EXCEPT !.isRead = TRUE] ELSE e : e \in chatMsg}
    BY <1>5 DEF WriteChat
  <2>2. ASSUME w.k = "insert"
        PROVE  [m |-> w.m, isRead |-> <<w.m, Nowhere>> \in isRead] \in [m : Chats, isRead : BOOLEAN]
    <3>1. w.m \in Chats
      BY <2>2 DEF TalkOK
    <3>2. (<<w.m, Nowhere>> \in isRead) \in BOOLEAN
      OBVIOUS
    <3> QED BY <3>1, <3>2
  <2>3. ASSUME NEW e \in chatMsg PROVE [e EXCEPT !.isRead = TRUE] \in [m : Chats, isRead : BOOLEAN]
    <3>1. e \in [m : Chats, isRead : BOOLEAN]
      BY DEF TalkOK
    <3> QED BY <3>1
  <2>4. chatMsg' \subseteq [m : Chats, isRead : BOOLEAN]
    <3>1. chatMsg \subseteq [m : Chats, isRead : BOOLEAN]
      BY DEF TalkOK
    <3> DEFINE T == [m : Chats, isRead : BOOLEAN]
               n == [m |-> w.m, isRead |-> <<w.m, Nowhere>> \in isRead]
               R(e) == [e EXCEPT !.isRead = TRUE]
    <3> HIDE DEF T, n, R
    <3>2. chatMsg \subseteq T /\ (w.k = "insert" => n \in T) /\ \A e \in chatMsg : R(e) \in T
      BY <2>2, <2>3, <3>1 DEF T, n, R
    <3>3. \/ w.k = "insert" /\ chatMsg' = chatMsg \cup {n}
          \/ chatMsg' = {IF e.m \in Between(w.p, w.q) THEN R(e) ELSE e : e \in chatMsg}
      BY <2>1 DEF n, R
    <3>4. chatMsg' \subseteq T
      BY <3>2, <3>3
    <3> QED BY <3>4 DEF T
  <2>5. writes' \subseteq [k : {"insert"}, m : Chats] \cup [k : {"read"}, p : Players, q : Players]
    BY <2>1 DEF TalkOK
  <2> QED BY <1>1, <1>3, <2>1, <2>4, <2>5 DEF TalkOK
<1> QED BY <1>2, <1>4, <1>5

\* Nothing is said, listed, read or written.
LEMMA TalkStays ==
  ASSUME TalkOK, TalkInv, UNCHANGED talk,
         \A p \in Players : stage'[p] \in Here => stage[p] \in Here,
         \A m : m.k = "chat" => (Holds(mail', m) <=> Holds(mail, m))
  PROVE  TalkOK' /\ TalkInv'
<1>1. UNCHANGED <<said, list, isRead, writes, chatMsg, missed>>
  BY DEF talk
<1>2. UNCHANGED <<Chats, Objects>>
  BY <1>1 DEF Chats, Objects
<1>3. TalkOK'
  BY <1>1, <1>2 DEF TalkOK
<1>4. TalkInv'
  BY <1>1, TalkSame
<1> QED BY <1>3, <1>4

\* Every step keeps the types of what is said, and every conversation complete.
LEMMA NextTalk ==
  ASSUME SocialAssumption, PeopleOK, TalkOK, TalkInv, [Next]_vars
  PROVE  TalkOK' /\ TalkInv'
<1>1. ASSUME NEW p \in Players, NEW s \in Servers, OnlineUser(p, s) PROVE TalkOK' /\ TalkInv'
  BY <1>1, LoginTalk
<1>2. ASSUME NEW p \in Players,
             OnLogin(p) \/ OfflineUser(p) \/ SaveOffline(p) \/ UserOfflineSaveToDbFinish(p)
      PROVE  TalkOK' /\ TalkInv'
  <2>1. \A m : m.k # "state" => (Holds(mail', m) <=> Holds(mail, m))
    BY <1>2, PlacesType
  <2>2. \A m : m.k = "chat" => (Holds(mail', m) <=> Holds(mail, m))
    BY <2>1
  <2>3. UNCHANGED talk
    BY <1>2 DEF OnLogin, OfflineUser, SaveOffline, UserOfflineSaveToDbFinish
  <2>4. /\ \/ stage[p] = "loading" /\ stage' = [stage EXCEPT ![p] = "on"]
           \/ \E x \in {"saving", "saved", "off"} : stage' = [stage EXCEPT ![p] = x]
        /\ stage = [q \in Players |-> stage[q]]
    BY <1>2 DEF OnLogin, OfflineUser, SaveOffline, UserOfflineSaveToDbFinish, PeopleOK
  <2>5. \A q \in Players : stage'[q] \in Here => stage[q] \in Here
    BY <2>4 DEF Here
  <2> QED BY <2>2, <2>3, <2>5, TalkStays
<1>3. ASSUME NEW p \in Players, NEW q \in Players, AskAddFriendReq(p, q) PROVE TalkOK' /\ TalkInv'
  <2>1. \A m : m.k # "ask" => (Holds(mail', m) <=> Holds(mail, m))
    BY <1>3, AskType
  <2>2. \A m : m.k = "chat" => (Holds(mail', m) <=> Holds(mail, m))
    BY <2>1
  <2>3. UNCHANGED <<talk, stage>>
    BY <1>3 DEF AskAddFriendReq
  <2> QED BY <2>2, <2>3, TalkStays
<1>4. ASSUME NEW p \in Players, NEW q \in Players, NEW agree \in BOOLEAN, DealAddFriendReq(p, q, agree)
      PROVE  TalkOK' /\ TalkInv'
  <2>1. UNCHANGED mail \/ \A m : Holds(mail', m) <=> Holds(mail, m) \/ m = Deal(q, p)
    BY <1>4, DealIs
  <2>2. Deal(q, p).k = "deal"
    BY DEF Deal
  <2>3. \A m : m.k = "chat" => (Holds(mail', m) <=> Holds(mail, m))
    BY <2>1, <2>2
  <2>4. UNCHANGED <<talk, stage>>
    BY <1>4 DEF DealAddFriendReq
  <2> QED BY <2>3, <2>4, TalkStays
<1>5. ASSUME NEW p \in Players, NEW q \in Players, PrivateChatReq(p, q) PROVE TalkOK' /\ TalkInv'
  BY <1>5, SayTalk
<1>6. ASSUME NEW p \in Players, NEW q \in Players, ReadPrivateChatReq(p, q) PROVE TalkOK' /\ TalkInv'
  BY <1>6, MarkTalk
<1>7. ASSUME NEW w \in writes, WriteChat(w) PROVE TalkOK' /\ TalkInv'
  BY <1>7, MarkTalk
<1>8. ASSUME NEW s \in Servers, NEW t \in Servers,
             SetRemoteUserOnlineState(s, t) \/ ServerAddFriendNotify(s, t)
      PROVE  TalkOK' /\ TalkInv'
  <2>1. PICK k \in {"state", "ask", "deal"} : Receive(s, t, k)
    BY <1>8 DEF SetRemoteUserOnlineState, ServerAddFriendNotify
  <2>2. /\ \A m : Holds(mail, m) <=> Holds(mail', m) \/ m = Head(mail[<<s, t>>])
        /\ Head(mail[<<s, t>>]).k = k
    BY <2>1, HeadIs
  <2>3. \A m : m.k = "chat" => (Holds(mail', m) <=> Holds(mail, m))
    BY <2>2
  <2>4. UNCHANGED <<talk, stage>>
    BY <1>8 DEF SetRemoteUserOnlineState, ServerAddFriendNotify
  <2> QED BY <2>3, <2>4, TalkStays
<1>9. ASSUME NEW s \in Servers, NEW t \in Servers, ServerChatMsgNotify(s, t) PROVE TalkOK' /\ TalkInv'
  BY <1>9, HearTalk
<1>10. CASE UNCHANGED vars
  <2>1. UNCHANGED <<talk, stage, mail>>
    BY <1>10 DEF vars
  <2> QED BY <2>1, TalkStays
<1>11. CASE Next
  BY <1>1, <1>2, <1>3, <1>4, <1>5, <1>6, <1>7, <1>8, <1>9, <1>11 DEF Next
<1> QED BY <1>10, <1>11

\* At the start nothing has been said.
LEMMA InitTalk == Init => TalkOK /\ TalkInv
<1> SUFFICES ASSUME Init PROVE TalkOK /\ TalkInv
  OBVIOUS
<1>1. /\ said = << >> /\ list = [c \in Players \X Players |-> << >>]
      /\ isRead = {} /\ writes = {} /\ chatMsg = {} /\ missed = {}
      /\ mail = [c \in Servers \X Servers |-> << >>]
  BY DEF Init
<1>2. TalkOK
  BY <1>1 DEF TalkOK
<1>3. ListsInTurn
  BY <1>1 DEF ListsInTurn, InTurn
<1>4. ChatsHonest
  BY <1>1 DEF ChatsHonest, Holds
<1>5. Complete
  BY <1>1 DEF Complete, Between
<1> QED BY <1>2, <1>3, <1>4, <1>5 DEF TalkInv

\* The type invariant.
THEOREM TypeCorrect == ASSUME SocialAssumption PROVE Spec => []TypeOK
<1>1. Init => PeopleOK /\ SaidOK /\ FriendsInv /\ TalkOK /\ TalkInv
  BY InitFriends, InitTalk
<1>2. PeopleOK /\ SaidOK /\ FriendsInv /\ TalkOK /\ TalkInv /\ [Next]_vars
        => (PeopleOK /\ SaidOK /\ FriendsInv /\ TalkOK /\ TalkInv)'
  BY NextFriends, NextTalk
<1>3. PeopleOK /\ TalkOK => TypeOK
  BY DEF TypeOK, TalkOK
<1> QED BY <1>1, <1>2, <1>3, PTL DEF Spec

\* What a player that is on lacks of a conversation is on its way, was said while it was logging
\* in or out, was left out by a login's query, or was pushed out by newer or late ones.
THEOREM ChatCorrect == ASSUME SocialAssumption PROVE Spec => []ChatComplete
<1>1. Init => PeopleOK /\ SaidOK /\ FriendsInv /\ TalkOK /\ TalkInv
  BY InitFriends, InitTalk
<1>2. PeopleOK /\ SaidOK /\ FriendsInv /\ TalkOK /\ TalkInv /\ [Next]_vars
        => (PeopleOK /\ SaidOK /\ FriendsInv /\ TalkOK /\ TalkInv)'
  BY NextFriends, NextTalk
<1>3. TalkInv => ChatComplete
  <2>1. ASSUME TalkInv, NEW p \in Players, NEW q \in Players, p # q, stage[p] = "on",
               NEW m \in Between(p, q)
        PROVE  Listed(p, q, m) \/ <<p, m>> \in missed \/ ChatOnItsWay(p, m) \/ PushedOut(p, q, m)
    <3>1. Have(p, q, m)
      BY <2>1 DEF TalkInv, Complete, Here
    <3>2. ChatOnItsWay(p, m) <=> Holds(mail, Chat(m, p))
      BY DEF ChatOnItsWay, Holds, Chat
    <3> QED BY <3>1, <3>2 DEF Have, Has, PushedBy, Listed, PushedOut
  <2> QED BY <2>1 DEF ChatComplete
<1> QED BY <1>1, <1>2, <1>3, PTL DEF Spec
=============================================================================
