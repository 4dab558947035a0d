--------------------------------- MODULE Social ---------------------------------
(***************************************************************************)
(* Friends and private chat of players on several game servers             *)
(* (gs/game/player_social.go, player_chat.go, the chat half of             *)
(* game_user_manager.go and dao/player_mongo.go).  What concerns a player  *)
(* on the same server is done in memory; one on another server is sent a   *)
(* server message, which counts on that player to be there still; the      *)
(* record of one that is nowhere is loaded, edited and saved.              *)
(*                                                                         *)
(* A server is its main loop.  A record is one store here: redis, the      *)
(* database and the lock between them are UserManager's.  A player logs in *)
(* when its last logout is through, as GateSession has it.                 *)
(***************************************************************************)
EXTENDS Naturals, FiniteSets, Sequences, SequencesExt

CONSTANTS
  Players,       \* player ids
  Servers,       \* game servers
  Nowhere,       \* where an offline player is
  MaxMsgListLen, \* 100 in the code
  MaxQuery,      \* MaxQueryChatMsgLen, 1000 in the code
  Budgets        \* bounds: how many logins, asks, deals, said and reads a behaviour has

SocialAssumption == MaxMsgListLen \in Nat /\ MaxQuery \in Nat

VARIABLES
  at,      \* the server each player is on
  stage,   \* "off", "loading", "on", "saving" or "saved" there
  friends, \* FriendList, of the record in memory or, of a player that is off, stored
  applies, \* FriendApplyList
  knows,   \* remotePlayerMap of each server
  mail,    \* server messages from one server to another, in order
  said,    \* chat messages so far: [from, to], numbered by their Time
  list,    \* ChatMsgMap: objects, <<message, the one that made it>>
  isRead,  \* the objects whose IsRead is set
  writes,  \* goroutines that have still to write to chat_msg
  chatMsg, \* the chat_msg collection: [m, isRead]
  lost,    \* ghost: <<p, q>>, the record of p was told of q in vain
  missed,  \* ghost: <<p, m>>, what p may have to do without, and why it may
  left     \* what is left of its budget

people == <<friends, applies, lost>>
talk == <<said, list, isRead, writes, chatMsg, missed>>
vars == <<at, stage, people, knows, mail, talk, left>>

Init ==
  /\ at = [p \in Players |-> Nowhere]
  /\ stage = [p \in Players |-> "off"]
  /\ friends = [p \in Players |-> {}]
  /\ applies = [p \in Players |-> {}]
  /\ knows = [s \in Servers |-> [p \in Players |-> Nowhere]]
  /\ mail = [c \in Servers \X Servers |-> <<>>]
  /\ said = <<>>
  /\ list = [c \in Players \X Players |-> <<>>]
  /\ isRead = {}
  /\ writes = {}
  /\ chatMsg = {}
  /\ lost = {}
  /\ missed = {}
  /\ left \in Budgets

Spend(e) == left[e] > 0 /\ left' = [left EXCEPT ![e] = @ - 1]

\* GetOnlineUser of a server, and where it sends what concerns another's player.
Online(s, p) == at[p] = s /\ stage[p] = "on"
GetRemoteUserOnlineState(s, p) == knows[s][p] # Nowhere
SendToGs(box, s, t, msg) == [box EXCEPT ![<<s, t>>] = Append(@, msg)]
ToOthers(s, msg) ==
  [c \in DOMAIN mail |-> IF c[1] = s /\ c[2] # s THEN Append(mail[c], msg) ELSE mail[c]]

-----------------------------------------------------------------------------
\* Messages of a conversation, and their part of chat_msg as a login asks for it:
\* the first MaxQuery by Time of all that concern the player, the last
\* MaxMsgListLen of those with each other player.
Between(p, q) == {m \in DOMAIN said : {said[m].from, said[m].to} = {p, q}}
Rank(S, m) == Cardinality({k \in S : k <= m})
ByTime(S) == [i \in 1 .. Cardinality(S) |-> CHOOSE m \in S : Rank(S, m) = i]
Stored == {e.m : e \in chatMsg}
QueryChatMsgList(p) ==
  LET mine == {m \in Stored : p \in {said[m].from, said[m].to}}
  IN {m \in mine : Rank(mine, m) <= MaxQuery}
LastOf(seq, n) == SubSeq(seq, IF Len(seq) > n THEN Len(seq) - n + 1 ELSE 1, Len(seq))
LoadUserChatMsg(p) ==
  [c \in DOMAIN list |->
     IF c[1] # p THEN list[c]
     ELSE LET kept == LastOf(ByTime(QueryChatMsgList(p) \cap Between(p, c[2])), MaxMsgListLen)
          IN [i \in DOMAIN kept |-> <<kept[i], p>>]]

\* AddMsg to a list that may hold one more than MaxMsgListLen.
\* Mutant: a full list takes no more.
AddMsgNot(seq, o) == IF Len(seq) > MaxMsgListLen THEN seq ELSE Append(seq, o)
AddMsg(seq, o) == Append(IF Len(seq) > MaxMsgListLen THEN Tail(seq) ELSE seq, o)

\* What a login that loads now will have to do without: messages not yet
\* written, and those the query leaves out.
Unseen(p) == {m \in DOMAIN said : p \in {said[m].from, said[m].to}} \ Stored
Beyond(p) == Stored \ QueryChatMsgList(p)

\* OnlineUser, its goroutine: the record and the chat are loaded.
OnlineUser(p, s) ==
  /\ stage[p] = "off"
  /\ Spend("logins")
  /\ at' = [at EXCEPT ![p] = s]
  /\ stage' = [stage EXCEPT ![p] = "loading"]
  /\ list' = LoadUserChatMsg(p)
  /\ isRead' = {o \in isRead : o[2] # p} \cup {<<e.m, p>> : e \in {x \in chatMsg : x.isRead}}
  /\ missed' = missed \cup {<<p, m>> : m \in Unseen(p) \cup Beyond(p)}
  /\ UNCHANGED <<people, knows, mail, said, writes, chatMsg>>

\* OnLogin: the other servers are told.
OnLogin(p) ==
  /\ stage[p] = "loading"
  /\ stage' = [stage EXCEPT ![p] = "on"]
  /\ mail' = ToOthers(at[p], [k |-> "state", p |-> p, at |-> at[p]])
  /\ UNCHANGED <<at, people, knows, talk, left>>

\* OnUserOffline and OfflineUser; its goroutine saves what was there, over what
\* others stored meanwhile; then the others are told.
OfflineUser(p) ==
  /\ stage[p] = "on"
  /\ stage' = [stage EXCEPT ![p] = "saving"]
  /\ UNCHANGED <<at, people, knows, mail, talk, left>>
SaveOffline(p) ==
  /\ stage[p] = "saving"
  /\ stage' = [stage EXCEPT ![p] = "saved"]
  /\ UNCHANGED <<at, people, knows, mail, talk, left>>
UserOfflineSaveToDbFinish(p) ==
  /\ stage[p] = "saved"
  /\ stage' = [stage EXCEPT ![p] = "off"]
  /\ at' = [at EXCEPT ![p] = Nowhere]
  /\ mail' = ToOthers(at[p], [k |-> "state", p |-> p, at |-> Nowhere])
  /\ UNCHANGED <<people, knows, talk, left>>

-----------------------------------------------------------------------------
\* Where an edit of the record of q by server s lasts: in memory if q is on there,
\* or where it is stored if no server will store over it what it has in memory.
Lasts(s, q) == Online(s, q) \/ stage[q] \in {"off", "saved"}

\* An application of p to q in the record of q.
Applied(p, q) == IF p \in applies[q] \cup friends[q] THEN applies
                 ELSE [applies EXCEPT ![q] = @ \cup {p}]

\* The client of p asks anyone.  LoadTempOfflineUser may have no record to give: the
\* lock's call fails, or nothing is stored; then nothing is done.
AskAddFriendReq(p, q) ==
  LET s == at[p] IN
  /\ stage[p] = "on"
  /\ Spend("asks")
  /\ \/ /\ Online(s, q) \/ ~GetRemoteUserOnlineState(s, q)
        /\ applies' = (IF Lasts(s, q) THEN Applied(p, q) ELSE applies) /\ mail' = mail
     \/ /\ ~Online(s, q) /\ ~GetRemoteUserOnlineState(s, q)
        /\ UNCHANGED <<applies, mail>>
     \/ /\ ~Online(s, q) /\ GetRemoteUserOnlineState(s, q)
        /\ applies' = applies /\ mail' = SendToGs(mail, s, knows[s][q], [k |-> "ask", from |-> p, p |-> q])
  /\ UNCHANGED <<at, stage, friends, lost, knows, talk>>

\* Mutant: it is told online players only.
TellFriendOnline(f, p, q) == IF Online(at[p], q) THEN [f EXCEPT ![q] = @ \cup {p}] ELSE f
TellFriend(f, p, q) == IF Lasts(at[p], q) THEN [f EXCEPT ![q] = @ \cup {p}] ELSE f

\* The client of p answers q, with yes or with no, whether q applied or not.  With a
\* yes and no record of q to be had, p alone has a new friend.
DealAddFriendReq(p, q, agree) ==
  LET s == at[p]
      own == [friends EXCEPT ![p] = @ \cup {q}]
  IN /\ stage[p] = "on"
     /\ Spend("deals")
     /\ applies' = [applies EXCEPT ![p] = @ \ {q}]
     /\ \/ ~agree /\ UNCHANGED <<friends, lost, mail>>
        \/ /\ agree /\ (Online(s, q) \/ ~GetRemoteUserOnlineState(s, q))
           /\ friends' = TellFriend(own, p, q)
           /\ lost' = IF Lasts(s, q) THEN lost ELSE lost \cup {<<q, p>>}
           /\ UNCHANGED mail
        \/ /\ agree /\ ~Online(s, q) /\ ~GetRemoteUserOnlineState(s, q)
           /\ friends' = own
           /\ lost' = lost \cup {<<q, p>>}
           /\ UNCHANGED mail
        \/ /\ agree /\ ~Online(s, q) /\ GetRemoteUserOnlineState(s, q)
           /\ friends' = own
           /\ mail' = SendToGs(mail, s, knows[s][q], [k |-> "deal", from |-> p, p |-> q])
           /\ UNCHANGED lost
     /\ UNCHANGED <<at, stage, knows, talk>>

-----------------------------------------------------------------------------
\* SendPrivateChat: the goroutine that writes it, the sender's list, and the
\* list of the other if it is on.
SendPrivateChat(p, q) ==
  LET s == at[p]
      m == Len(said) + 1
      mine == [list EXCEPT ![<<p, q>>] = AddMsg(@, <<m, Nowhere>>)]
  IN /\ p # q /\ stage[p] = "on"
     /\ Spend("said")
     /\ said' = Append(said, [from |-> p, to |-> q])
     /\ writes' = writes \cup {[k |-> "insert", m |-> m]}
     /\ \/ /\ Online(s, q)
           /\ list' = [mine EXCEPT ![<<q, p>>] = AddMsg(@, <<m, Nowhere>>)]
           /\ UNCHANGED <<mail, missed>>
        \/ /\ ~Online(s, q) /\ GetRemoteUserOnlineState(s, q)
           /\ list' = mine
           /\ mail' = SendToGs(mail, s, knows[s][q], [k |-> "chat", m |-> m, p |-> q])
           /\ UNCHANGED missed
        \/ /\ ~Online(s, q) /\ ~GetRemoteUserOnlineState(s, q)
           /\ list' = mine
           /\ missed' = IF stage[q] = "off" THEN missed ELSE missed \cup {<<q, m>>}
           /\ UNCHANGED mail
     /\ UNCHANGED <<at, stage, people, knows, isRead, chatMsg>>

\* A text or an icon; a text that is too long goes nowhere.
PrivateChatReq(p, q) == SendPrivateChat(p, q)

\* ReadPrivateChatReq: both directions of the conversation, here and, by a
\* goroutine, in chat_msg.
ReadPrivateChatReq(p, q) ==
  /\ stage[p] = "on" /\ list[<<p, q>>] # <<>>
  /\ Spend("reads")
  /\ isRead' = isRead \cup ToSet(list[<<p, q>>])
  /\ writes' = writes \cup {[k |-> "read", p |-> p, q |-> q]}
  /\ UNCHANGED <<at, stage, people, knows, mail, said, list, chatMsg, missed>>

\* InsertChatMsg writes the sender's object as it is by then;
\* ReadAndUpdateChatMsgByUid marks what is there by then.
WriteChat(w) ==
  /\ w \in writes
  /\ writes' = writes \ {w}
  /\ chatMsg' = IF w.k = "insert"
                THEN chatMsg \cup {[m |-> w.m, isRead |-> <<w.m, Nowhere>> \in isRead]}
                ELSE {IF e.m \in Between(w.p, w.q) THEN [e EXCEPT !.isRead = TRUE] ELSE e : e \in chatMsg}
  /\ UNCHANGED <<at, stage, people, knows, mail, said, list, isRead, missed, left>>

-----------------------------------------------------------------------------
\* A server takes the next message of another.
Receive(s, t, k) == /\ mail[<<s, t>>] # <<>> /\ Head(mail[<<s, t>>]).k = k
                    /\ mail' = [mail EXCEPT ![<<s, t>>] = Tail(@)]

SetRemoteUserOnlineState(s, t) ==
  LET msg == Head(mail[<<s, t>>]) IN
  /\ Receive(s, t, "state")
  /\ knows' = [knows EXCEPT ![t][msg.p] = msg.at]
  /\ UNCHANGED <<at, stage, people, talk, left>>
ServerAddFriendNotify(s, t) ==
  LET msg == Head(mail[<<s, t>>])
      there == Online(t, msg.p)
  IN /\ \/ /\ Receive(s, t, "ask")
           /\ applies' = IF there THEN Applied(msg.from, msg.p) ELSE applies
           /\ UNCHANGED <<friends, lost>>
        \/ /\ Receive(s, t, "deal")
           /\ friends' = IF there THEN [friends EXCEPT ![msg.p] = @ \cup {msg.from}] ELSE friends
           /\ lost' = IF there THEN lost ELSE lost \cup {<<msg.p, msg.from>>}
           /\ UNCHANGED applies
     /\ UNCHANGED <<at, stage, knows, talk, left>>
ServerChatMsgNotify(s, t) ==
  LET msg == Head(mail[<<s, t>>])
      with == said[msg.m].from
  IN /\ Receive(s, t, "chat")
     /\ IF Online(t, msg.p)
        THEN list' = [list EXCEPT ![<<msg.p, with>>] = AddMsg(@, <<msg.m, s>>)] /\ missed' = missed
        ELSE list' = list /\ missed' = missed \cup {<<msg.p, msg.m>>}
     /\ UNCHANGED <<at, stage, people, knows, said, isRead, writes, chatMsg, left>>

Next ==
  \/ \E p \in Players :
       \/ \E s \in Servers : OnlineUser(p, s)
       \/ OnLogin(p) \/ OfflineUser(p) \/ SaveOffline(p) \/ UserOfflineSaveToDbFinish(p)
       \/ \E q \in Players :
            \/ AskAddFriendReq(p, q) \/ PrivateChatReq(p, q) \/ ReadPrivateChatReq(p, q)
            \/ \E agree \in BOOLEAN : DealAddFriendReq(p, q, agree)
  \/ \E w \in writes : WriteChat(w)
  \/ \E s, t \in Servers :
       \/ SetRemoteUserOnlineState(s, t) \/ ServerAddFriendNotify(s, t) \/ ServerChatMsgNotify(s, t)

Spec == Init /\ [][Next]_vars
-----------------------------------------------------------------------------
Places == Servers \cup {Nowhere}
MailType ==
  [k : {"state"}, p : Players, at : Places] \cup [k : {"ask", "deal"}, from : Players, p : Players]
  \cup [k : {"chat"}, m : Nat, p : Players]
Chats == 1 .. Len(said)
Objects == Chats \X (Places \cup Players)

\* The types of where players are and of their records; a player that is not off is somewhere.
PeopleOK ==
  /\ at \in [Players -> Places]
  /\ stage \in [Players -> {"off", "loading", "on", "saving", "saved"}]
  /\ \A p \in Players : stage[p] # "off" => at[p] \in Servers
  /\ friends \in [Players -> SUBSET Players] /\ applies \in [Players -> SUBSET Players]
  /\ knows \in [Servers -> [Players -> Places]]
  /\ mail \in [Servers \X Servers -> Seq(MailType)]
  /\ lost \subseteq Players \X Players

\* The type invariant: those, and what has been said, listed, read and written.
TypeOK ==
  /\ PeopleOK
  /\ said \in Seq([from : Players, to : Players])
  /\ list \in [Players \X Players -> Seq(Objects)] /\ isRead \subseteq Objects
  /\ writes \subseteq [k : {"insert"}, m : Chats] \cup [k : {"read"}, p : Players, q : Players]
  /\ chatMsg \subseteq [m : Chats, isRead : BOOLEAN] /\ missed \subseteq Players \X Chats

\* Friendship is mutual: whoever has another for a friend is that one's friend
\* too, or the message that says so is still on its way, or came to a player that
\* had gone, or the record was edited as one of an offline player whose server was
\* to store its own over it, or could not be had at all.
OnItsWay(p, q) == \E c \in DOMAIN mail : \E i \in DOMAIN mail[c] : mail[c][i] = [k |-> "deal", from |-> q, p |-> p]
FriendsMutual ==
  \A p, q \in Players : q \in friends[p] => p \in friends[q] \/ OnItsWay(q, p) \/ <<q, p>> \in lost

\* A player that is on has of each conversation what was said in it, but for what is
\* still on its way, for what was said or not yet written while it was logging in or
\* out, for what a login's query left out because MaxQuery older messages concern the
\* player (it sorts by Time upwards: the newest are those it leaves out), and for what
\* MaxMsgListLen others pushed out, each newer or come late from another server.
Listed(p, q, m) == \E i \in DOMAIN list[<<p, q>>] : list[<<p, q>>][i][1] = m
ChatOnItsWay(p, m) ==
  \E c \in DOMAIN mail : \E i \in DOMAIN mail[c] : mail[c][i] = [k |-> "chat", m |-> m, p |-> p]
PushedOut(p, q, m) ==
  /\ Len(list[<<p, q>>]) >= MaxMsgListLen
  /\ \A i \in DOMAIN list[<<p, q>>] : list[<<p, q>>][i][1] > m \/ list[<<p, q>>][i][2] \in Servers
ChatComplete ==
  \A p, q \in Players : p # q /\ stage[p] = "on" =>
    \A m \in Between(p, q) :
      Listed(p, q, m) \/ <<p, m>> \in missed \/ ChatOnItsWay(p, m) \/ PushedOut(p, q, m)
=============================================================================
