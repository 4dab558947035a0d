-------------------------------- MODULE Accounts --------------------------------
(***************************************************************************)
(* The dispatch server's accounts (dispatch/controller/login_controller.go *)
(* and gate_controller.go, dispatch/dao/account_mongo.go and               *)
(* account_redis.go, dispatch/service/service.go).  Every HTTP request is  *)
(* handled by a goroutine of its own, and a request is a sequence of       *)
(* separate reads and writes of redis and of the account collection, which *)
(* has no unique index and no transaction: any of them may fail, and any   *)
(* request may run between two of another.                                 *)
(*                                                                         *)
(* A client logs in under a name, which registers a name it does not find, *)
(* trades its token for a combo token, and is let in by a gate that asks   *)
(* for the combo token.  Passwords are right and a token is the number of  *)
(* the request that made it; time is whether what is stored is fresh.      *)
(***************************************************************************)
EXTENDS Integers, Sequences, FiniteSets

CONSTANTS
  Requests,  \* the requests there are: each is handled once
  Usernames, \* the names they log in under
  Nobody,    \* no account, no token, a key that redis does not have
  MaxEvents  \* bound: failures, changes of password and days that go by, in all

Keys == {"AccountId", "YuanShenUid"}
IdBegin == 0 \* 10000 and 100000000

\* An account as it is stored.
AccountType ==
  [AccountID : Nat, PlayerID : Nat, Username : Usernames, Token : Requests \cup {Nobody},
   TokenFresh : BOOLEAN, ComboToken : Requests \cup {Nobody}, ComboFresh : BOOLEAN]

\* What Nobody is not: whoever instantiates the module sees to it.
NobodyAssumption == Nobody \notin Nat \cup Requests \cup AccountType

VARIABLES
  redis,    \* the counters, Nobody before they are made
  accounts, \* the collection, in the order of insertion, which Find returns
  reqs,     \* the requests: what each does and where it is
  held,     \* the answers OK: [account, token] of a login, [account, combo] of v2Login
  seeded,   \* ghost: whether the counters had been made when this run began
  aged,     \* ghost: whether a day went by or a password was changed
  used      \* failures and such events so far

vars == <<redis, accounts, reqs, held, seeded, aged, used>>

Idle == [op |-> "none", at |-> "idle", name |-> Nobody, key |-> "AccountId",
         id |-> Nobody, uid |-> Nobody, found |-> FALSE]

Init ==
  /\ seeded \in BOOLEAN
  /\ redis = [k \in Keys |-> IF seeded THEN IdBegin ELSE Nobody]
  /\ accounts = << >>
  /\ reqs = [r \in Requests |-> Idle]
  /\ held = {}
  /\ aged = FALSE
  /\ used = 0

Go(r, at) == reqs' = [reqs EXCEPT ![r].at = at]
At(r, op, at) == reqs[r].op = op /\ reqs[r].at = at

\* QueryAccountByField, whose first result is used.
QueryAccountByField(field, v) ==
  LET S == {i \in DOMAIN accounts : accounts[i][field] = v}
  IN IF S = {} THEN Nobody ELSE accounts[CHOOSE i \in S : \A j \in S : i <= j]
\* UpdateAccountFieldByFieldName updates every account that has the value.
Updated(field, v, change, to) ==
  [i \in DOMAIN accounts |->
     IF accounts[i][field] = v THEN [accounts[i] EXCEPT ![change] = to] ELSE accounts[i]]

-----------------------------------------------------------------------------
\* apiLogin: read the name, register it if it is not there.
ApiLogin(r, n) ==
  LET a == QueryAccountByField("Username", n)
  IN /\ reqs[r].at = "idle"
     /\ reqs' = [reqs EXCEPT ![r] = [reqs[r] EXCEPT !.op = "login", !.name = n, !.found = a # Nobody,
                   !.at = IF a = Nobody THEN "exists" ELSE "token",
                   !.id = IF a = Nobody THEN Nobody ELSE a.AccountID]]
     /\ UNCHANGED <<redis, accounts, held, seeded, aged, used>>

\* redisInc, first of AccountId and then of YuanShenUid: EXISTS, SET and INCR.
RedisExists(r) ==
  /\ At(r, "login", "exists")
  /\ Go(r, IF redis[reqs[r].key] = Nobody THEN "set" ELSE "incr")
  /\ UNCHANGED <<redis, accounts, held, seeded, aged, used>>
RedisSet(r) ==
  /\ At(r, "login", "set")
  /\ redis' = [redis EXCEPT ![reqs[r].key] = IdBegin]
  /\ Go(r, "incr")
  /\ UNCHANGED <<accounts, held, seeded, aged, used>>
\* Mutant: the number is that of the collection.
NumberOf(k) == Len(accounts) + 1
NextNumber(k) == redis[k] + 1
RedisIncr(r) ==
  LET k == reqs[r].key
      n == NextNumber(k)
  IN /\ At(r, "login", "incr")
     /\ redis' = [redis EXCEPT ![k] = n]
     /\ reqs' = [reqs EXCEPT ![r] = IF k = "AccountId"
                   THEN [reqs[r] EXCEPT !.id = n, !.key = "YuanShenUid", !.at = "exists"]
                   ELSE [reqs[r] EXCEPT !.uid = n, !.at = "insert"]]
     /\ UNCHANGED <<accounts, held, seeded, aged, used>>

InsertAccount(r) ==
  /\ At(r, "login", "insert")
  /\ accounts' = Append(accounts,
       [AccountID |-> reqs[r].id, PlayerID |-> reqs[r].uid, Username |-> reqs[r].name,
        Token |-> Nobody, TokenFresh |-> FALSE, ComboToken |-> Nobody, ComboFresh |-> FALSE])
  /\ Go(r, "token")
  /\ UNCHANGED <<redis, held, seeded, aged, used>>

\* The token, then when it was made, then the answer.
WriteToken(r) ==
  /\ At(r, "login", "token")
  /\ accounts' = Updated("AccountID", reqs[r].id, "Token", r)
  /\ Go(r, "time")
  /\ UNCHANGED <<redis, held, seeded, aged, used>>
WriteTokenTime(r) ==
  /\ At(r, "login", "time")
  /\ accounts' = Updated("AccountID", reqs[r].id, "TokenFresh", TRUE)
  /\ held' = held \cup {[account |-> reqs[r].id, token |-> r, name |-> reqs[r].name, found |-> reqs[r].found]}
  /\ Go(r, "done")
  /\ UNCHANGED <<redis, seeded, aged, used>>

\* v2Login trades a token for a combo token.
V2Login(r, h) ==
  LET a == QueryAccountByField("AccountID", h.account)
  IN /\ reqs[r].at = "idle"
     /\ reqs' = [reqs EXCEPT ![r] = [reqs[r] EXCEPT !.op = "v2", !.id = h.account, !.name = h.name,
                   !.at = IF a = Nobody \/ a.Token # h.token THEN "done" ELSE "token"]]
     /\ UNCHANGED <<redis, accounts, held, seeded, aged, used>>
WriteCombo(r) ==
  /\ At(r, "v2", "token")
  /\ accounts' = Updated("AccountID", reqs[r].id, "ComboToken", r)
  /\ Go(r, "time")
  /\ UNCHANGED <<redis, held, seeded, aged, used>>
\* Mutant: when it was made is not written.
ComboMadeNot(r) == accounts
ComboMade(r) == Updated("AccountID", reqs[r].id, "ComboFresh", TRUE)
WriteComboTime(r) ==
  /\ At(r, "v2", "time")
  /\ accounts' = ComboMade(r)
  /\ Go(r, "done")
  /\ UNCHANGED <<redis, held, seeded, aged, used>>

\* A read or write fails, and the request is answered with an error or not at all.
DbError(r) ==
  /\ reqs[r].at \notin {"idle", "done", "failed"} /\ used < MaxEvents
  /\ used' = used + 1
  /\ Go(r, "failed")
  /\ UNCHANGED <<redis, accounts, held, seeded, aged>>

-----------------------------------------------------------------------------
\* UserPasswordChange of an account's player, and a day that goes by.
UserPasswordChange(u) ==
  /\ used < MaxEvents
  /\ used' = used + 1 /\ aged' = TRUE
  /\ accounts' = Updated("PlayerID", u, "TokenFresh", FALSE)
  /\ UNCHANGED <<redis, reqs, held, seeded>>
Day ==
  /\ used < MaxEvents /\ accounts # << >>
  /\ used' = used + 1 /\ aged' = TRUE
  /\ accounts' = [i \in DOMAIN accounts |-> [accounts[i] EXCEPT !.ComboFresh = FALSE]]
  /\ UNCHANGED <<redis, reqs, held, seeded>>

Next ==
  \/ \E r \in Requests :
       \/ \E n \in Usernames : ApiLogin(r, n)
       \/ \E h \in held : V2Login(r, h)
       \/ RedisExists(r) \/ RedisSet(r) \/ RedisIncr(r) \/ InsertAccount(r)
       \/ WriteToken(r) \/ WriteTokenTime(r) \/ WriteCombo(r) \/ WriteComboTime(r) \/ DbError(r)
  \/ \E i \in DOMAIN accounts : UserPasswordChange(accounts[i].PlayerID)
  \/ Day

Spec == Init /\ [][Next]_vars
-----------------------------------------------------------------------------
\* What the stages of a request have in hand: a number counted up is one that was there.
Stages == {"idle", "exists", "set", "incr", "insert", "token", "time", "done", "failed"}
HasNumbers(q) ==
  /\ q.op = "none" <=> q.at = "idle"
  /\ q.op # "login" => q.key = "AccountId"
  /\ q.op = "v2" => q.at \in {"token", "time", "done", "failed"} /\ q.id \in Nat
  /\ q.at \in {"insert", "token", "time"} => q.id \in Nat
  /\ q.key = "YuanShenUid" => q.id \in Nat
  /\ q.at = "insert" => q.key = "YuanShenUid" /\ q.uid \in Nat
RequestType ==
  [op : {"none", "login", "v2"}, at : Stages, name : Usernames \cup {Nobody}, key : Keys,
   id : Nat \cup {Nobody}, uid : Nat \cup {Nobody}, found : BOOLEAN]
AnswerType == [account : Nat, token : Requests, name : Usernames, found : BOOLEAN]
TypeOK ==
  /\ redis \in [Keys -> Nat \cup {Nobody}]
  /\ accounts \in Seq(AccountType)
  /\ reqs \in [Requests -> RequestType]
  /\ \A r \in Requests :
       /\ HasNumbers(reqs[r])
       /\ reqs[r].op # "none" => reqs[r].name \in Usernames
       /\ reqs[r].at = "incr" => redis[reqs[r].key] \in Nat
  /\ held \subseteq AnswerType
  /\ seeded \in BOOLEAN /\ aged \in BOOLEAN /\ used \in Nat

\* Two accounts never have an id in common, nor two players, whatever requests
\* registered at the same time and failed half way, once the counters are made.
IdsUnique ==
  seeded => \A i, j \in DOMAIN accounts : i # j =>
    accounts[i].AccountID # accounts[j].AccountID /\ accounts[i].PlayerID # accounts[j].PlayerID

\* A name keeps its account: every login that found it registered is answered
\* with the account first inserted, although two may have registered it at once.
NameKeepsAccount ==
  \A h \in held : h.found =>
    \E i \in DOMAIN accounts :
      /\ accounts[i].Username = h.name /\ accounts[i].AccountID = h.account
      /\ \A j \in 1..(i - 1) : accounts[j].Username # h.name

\* apiVerify of a token and gateTokenVerify of a combo token.
ApiVerify(id, token) ==
  LET a == QueryAccountByField("AccountID", id) IN a # Nobody /\ a.Token = token /\ a.TokenFresh
GateTokenVerify(id, combo) ==
  LET a == QueryAccountByField("AccountID", id) IN a # Nobody /\ a.ComboToken = combo /\ a.ComboFresh

\* A token that a client was given, and that no later one replaced, is good until
\* a day goes by: no request that ran meanwhile or failed half way spoils it.
TokensGood ==
  (seeded /\ ~aged) =>
    /\ \A h \in held : (\E i \in DOMAIN accounts : accounts[i].Token = h.token) => ApiVerify(h.account, h.token)
    /\ \A r \in Requests :
         At(r, "v2", "done") /\ (\E i \in DOMAIN accounts : accounts[i].ComboToken = r)
           => GateTokenVerify(reqs[r].id, r)
=============================================================================
