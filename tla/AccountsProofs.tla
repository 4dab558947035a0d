---------------------------- MODULE AccountsProofs ----------------------------
(* Proofs about Accounts, for any requests, names and failures.            *)
EXTENDS Accounts, WellFoundedInduction, TLAPS

-----------------------------------------------------------------------------
(* The collection and its first results.                                   *)

\* The fields that are written after the insertion of an account.
Written == {"Token", "TokenFresh", "ComboToken", "ComboFresh"}
ValueOf(change) == IF change \in {"Token", "ComboToken"} THEN Requests ELSE BOOLEAN

\* An account is of its type.
LEMMA AccountIs ==
  ASSUME TypeOK, NEW i \in DOMAIN accounts
  PROVE  /\ accounts[i] \in AccountType
         /\ accounts[i].AccountID \in Nat /\ accounts[i].PlayerID \in Nat
         /\ accounts[i].Username \in Usernames
         /\ accounts[i].Token \in Requests \cup {Nobody}
         /\ accounts[i].ComboToken \in Requests \cup {Nobody}
<1>1. accounts[i] \in AccountType
  BY DEF TypeOK
<1> QED BY <1>1 DEF AccountType

\* A write of one of them changes it in the accounts that have the value, and nothing else.
LEMMA UpdatedIs ==
  ASSUME TypeOK, NEW field, NEW v, NEW change \in Written, NEW to \in ValueOf(change),
         accounts' = Updated(field, v, change, to)
  PROVE  /\ accounts' \in Seq(AccountType)
         /\ DOMAIN accounts' = DOMAIN accounts /\ Len(accounts') = Len(accounts)
         /\ \A i \in DOMAIN accounts :
              /\ accounts'[i].AccountID = accounts[i].AccountID
              /\ accounts'[i].PlayerID = accounts[i].PlayerID
              /\ accounts'[i].Username = accounts[i].Username
              /\ \A c \in Written :
                   accounts'[i][c] = IF c = change /\ accounts[i][field] = v THEN to
                                     ELSE accounts[i][c]
<1>1. DOMAIN accounts' = DOMAIN accounts /\ DOMAIN accounts = 1 .. Len(accounts) /\ Len(accounts) \in Nat
  BY DEF TypeOK, Updated
<1>2. ASSUME NEW i \in DOMAIN accounts
      PROVE  /\ accounts'[i] \in AccountType
             /\ accounts'[i].AccountID = accounts[i].AccountID
             /\ accounts'[i].PlayerID = accounts[i].PlayerID
             /\ accounts'[i].Username = accounts[i].Username
             /\ \A c \in Written :
                  accounts'[i][c] = IF c = change /\ accounts[i][field] = v THEN to
                                    ELSE accounts[i][c]
  <2>1. accounts[i] \in AccountType
    BY AccountIs
  <2>2. accounts'[i] = IF accounts[i][field] = v THEN [accounts[i] EXCEPT ![change] = to] ELSE accounts[i]
    BY <1>2 DEF Updated
  <2>3. CASE accounts[i][field] # v
    BY <2>1, <2>2, <2>3 DEF Written
  <2>4. CASE accounts[i][field] = v
    <3> DEFINE a == [accounts[i] EXCEPT ![change] = to]
    <3>1. a \in AccountType
      BY <2>1 DEF AccountType, Written, ValueOf
    <3>2. /\ a.AccountID = accounts[i].AccountID
          /\ a.PlayerID = accounts[i].PlayerID
          /\ a.Username = accounts[i].Username
          /\ \A c \in Written : a[c] = IF c = change THEN to ELSE accounts[i][c]
      BY <2>1 DEF AccountType, Written
    <3>3. accounts'[i] = a
      BY <2>2, <2>4
    <3> HIDE DEF a
    <3> QED BY <2>4, <3>1, <3>2, <3>3
  <2> QED BY <2>3, <2>4
<1>3. accounts' \in Seq(AccountType) /\ Len(accounts') = Len(accounts)
  BY <1>1, <1>2 DEF Updated
<1> QED BY <1>1, <1>2, <1>3

\* A set of numbers has a least one.
LEMMA LeastOf == ASSUME NEW S \in SUBSET Nat, S # {} PROVE \E i \in S : \A j \in S : i <= j
<1>1. PICK i \in S : \A j \in S : <<j, i>> \notin OpToRel(<, Nat)
  BY NatLessThanWellFounded, WFMin
<1>2. ASSUME NEW j \in S PROVE i <= j
  <2>1. <<j, i>> \in OpToRel(<, Nat) <=> j < i
    BY DEF OpToRel
  <2>2. ~ j < i
    BY <1>1, <2>1, Zenon
  <2> QED BY <2>2
<1> QED BY <1>2

\* Find returns the first account that has the value.
LEMMA QueryIs ==
  ASSUME TypeOK, NobodyAssumption, NEW field, NEW v
  PROVE  LET a == QueryAccountByField(field, v)
         IN  /\ a = Nobody => \A i \in DOMAIN accounts : accounts[i][field] # v
             /\ a # Nobody => \E i \in DOMAIN accounts :
                                /\ accounts[i] = a /\ accounts[i][field] = v
                                /\ \A j \in 1 .. (i - 1) : accounts[j][field] # v
<1> DEFINE S == {i \in DOMAIN accounts : accounts[i][field] = v}
           a == QueryAccountByField(field, v)
           f == CHOOSE i \in S : \A j \in S : i <= j
<1>1. CASE S = {}
  BY <1>1 DEF QueryAccountByField
<1>2. CASE S # {}
  <2>0. S \subseteq Nat /\ DOMAIN accounts = 1 .. Len(accounts) /\ Len(accounts) \in Nat
    BY DEF TypeOK
  <2>1. \E i \in S : \A j \in S : i <= j
    BY <1>2, <2>0, LeastOf
  <2>2. f \in S /\ \A j \in S : f <= j
    BY <2>1
  <2>3. a = accounts[f]
    BY <1>2 DEF QueryAccountByField
  <2> HIDE DEF f, a
  <2>4. accounts[f] # Nobody
    BY <2>2, AccountIs DEF NobodyAssumption
  <2>5. \A j \in 1 .. (f - 1) : accounts[j][field] # v
    BY <2>0, <2>2
  <2> QED BY <2>2, <2>3, <2>4, <2>5 DEF a
<1> QED BY <1>1, <1>2

\* The collection is empty and every request idle at the start.
LEMMA InitType == Init => TypeOK
<1> SUFFICES ASSUME Init PROVE TypeOK
  OBVIOUS
<1>1. Idle \in RequestType /\ Idle.op = "none" /\ Idle.at = "idle" /\ Idle.key = "AccountId"
  BY DEF Idle, RequestType, Stages, Keys
<1>2. reqs = [r \in Requests |-> Idle]
  BY DEF Init
<1> HIDE DEF Idle
<1>3. HasNumbers(Idle)
  <2>1. Idle.at \notin {"insert", "token", "time"}
    BY <1>1
  <2> QED BY <1>1, <2>1 DEF HasNumbers
<1>4. redis \in [Keys -> Nat \cup {Nobody}]
  BY DEF Init, IdBegin
<1>6. accounts = << >> /\ held = {} /\ seeded \in BOOLEAN /\ aged = FALSE /\ used = 0
  BY Zenon DEF Init
<1>7. accounts \in Seq(AccountType) /\ held \subseteq AnswerType
  BY <1>6
<1>5. reqs \in [Requests -> RequestType] /\ \A r \in Requests : reqs[r] = Idle
  BY <1>1, <1>2
<1> QED BY <1>1, <1>3, <1>4, <1>5, <1>6, <1>7 DEF TypeOK

\* What the record of a request must be for the types to hold.
RequestOk(q) ==
  /\ q \in RequestType /\ HasNumbers(q)
  /\ q.op # "none" => q.name \in Usernames

\* A step that makes such a record, and keeps what the rest of the state is.
LEMMA RequestStep ==
  ASSUME TypeOK, NEW r \in Requests, NEW q, RequestOk(q), reqs' = [reqs EXCEPT ![r] = q],
         redis' \in [Keys -> Nat \cup {Nobody}],
         \A k \in Keys : redis[k] \in Nat => redis'[k] \in Nat,
         q.at = "incr" => redis'[q.key] \in Nat,
         accounts' \in Seq(AccountType), held' \subseteq AnswerType,
         seeded' = seeded, aged' = aged, used' \in Nat
  PROVE  TypeOK'
<1>1. reqs' \in [Requests -> RequestType] /\ reqs'[r] = q
  BY DEF TypeOK, RequestOk
<1>2. \A p \in Requests \ {r} : reqs'[p] = reqs[p] /\ reqs[p].key \in Keys
  BY DEF TypeOK, RequestType
<1>3. \A p \in Requests : /\ HasNumbers(reqs'[p])
                          /\ reqs'[p].op # "none" => reqs'[p].name \in Usernames
                          /\ reqs'[p].at = "incr" => redis'[reqs'[p].key] \in Nat
  BY <1>1, <1>2 DEF TypeOK, RequestOk
<1> QED BY <1>1, <1>3 DEF TypeOK

\* A request that goes on keeps its fields.
LEMMA GoIs ==
  ASSUME TypeOK, NEW r \in Requests, NEW at, Go(r, at)
  PROVE  /\ reqs' = [reqs EXCEPT ![r] = [reqs[r] EXCEPT !.at = at]]
         /\ LET q == [reqs[r] EXCEPT !.at = at]
            IN  /\ q.op = reqs[r].op /\ q.at = at /\ q.name = reqs[r].name /\ q.key = reqs[r].key
                /\ q.id = reqs[r].id /\ q.uid = reqs[r].uid /\ q.found = reqs[r].found
                /\ at \in Stages => q \in RequestType
<1>1. reqs[r] \in RequestType
  BY DEF TypeOK
<1> QED BY <1>1 DEF Go, TypeOK, RequestType

\* The steps of a login that registers a name.
LEMMA LoginType ==
  ASSUME TypeOK, NobodyAssumption, NEW r \in Requests,
         \/ \E n \in Usernames : ApiLogin(r, n)
         \/ RedisExists(r) \/ RedisSet(r) \/ RedisIncr(r) \/ InsertAccount(r)
  PROVE  TypeOK'
<1>r. reqs[r] \in RequestType /\ HasNumbers(reqs[r]) /\ reqs[r].key \in Keys
  BY DEF TypeOK, RequestType
<1>n. reqs[r].op # "none" => reqs[r].name \in Usernames
  BY DEF TypeOK
<1>d. redis \in [Keys -> Nat \cup {Nobody}]
  BY DEF TypeOK
<1>k. accounts \in Seq(AccountType) /\ held \subseteq AnswerType /\ used \in Nat
  BY DEF TypeOK
<1>1. ASSUME NEW n \in Usernames, ApiLogin(r, n) PROVE TypeOK'
  <2> DEFINE a == QueryAccountByField("Username", n)
             q == [reqs[r] EXCEPT !.op = "login", !.name = n, !.found = a # Nobody,
                     !.at = IF a = Nobody THEN "exists" ELSE "token",
                     !.id = IF a = Nobody THEN Nobody ELSE a.AccountID]
  <2>1. a # Nobody => a.AccountID \in Nat
    BY QueryIs, AccountIs
  <2>2. reqs' = [reqs EXCEPT ![r] = q] /\ UNCHANGED <<redis, accounts, held, seeded, aged, used>>
        /\ reqs[r].at = "idle"
    BY <1>1 DEF ApiLogin
  <2>3. reqs[r].key # "YuanShenUid"
    BY <1>r, <2>2 DEF HasNumbers
  <2> HIDE DEF a
  <2>4. RequestOk(q) /\ q.at # "incr"
    BY <1>r, <2>1, <2>3 DEF RequestOk, RequestType, HasNumbers, Stages
  <2> HIDE DEF q
  <2> QED BY <1>d, <1>k, <2>2, <2>4, RequestStep
<1>2. CASE RedisExists(r)
  <2> DEFINE at == IF redis[reqs[r].key] = Nobody THEN "set" ELSE "incr"
             q == [reqs[r] EXCEPT !.at = at]
  <2>1. Go(r, at) /\ At(r, "login", "exists") /\ UNCHANGED <<redis, accounts, held, seeded, aged, used>>
    BY <1>2 DEF RedisExists
  <2>2. /\ reqs' = [reqs EXCEPT ![r] = q] /\ q \in RequestType
        /\ q.op = "login" /\ q.at = at /\ q.name = reqs[r].name /\ q.key = reqs[r].key
        /\ q.id = reqs[r].id /\ q.uid = reqs[r].uid
    BY <2>1, GoIs DEF At, Stages
  <2>3. at = "incr" => redis[reqs[r].key] \in Nat
    BY <1>r, <1>d
  <2> HIDE DEF q
  <2>4. RequestOk(q)
    BY <1>r, <1>n, <2>1, <2>2 DEF RequestOk, HasNumbers, At
  <2> QED BY <1>d, <1>k, <2>1, <2>2, <2>3, <2>4, RequestStep
<1>3. CASE RedisSet(r)
  <2> DEFINE q == [reqs[r] EXCEPT !.at = "incr"]
  <2>1. /\ Go(r, "incr") /\ At(r, "login", "set") /\ redis' = [redis EXCEPT ![reqs[r].key] = 0]
        /\ UNCHANGED <<accounts, held, seeded, aged, used>>
    BY <1>3 DEF RedisSet, IdBegin
  <2>2. /\ reqs' = [reqs EXCEPT ![r] = q] /\ q \in RequestType
        /\ q.op = "login" /\ q.at = "incr" /\ q.name = reqs[r].name /\ q.key = reqs[r].key
        /\ q.id = reqs[r].id /\ q.uid = reqs[r].uid
    BY <2>1, GoIs DEF At, Stages
  <2>3. /\ redis' \in [Keys -> Nat \cup {Nobody}] /\ redis'[reqs[r].key] \in Nat
        /\ \A k \in Keys : redis[k] \in Nat => redis'[k] \in Nat
    BY <1>r, <1>d, <2>1
  <2> HIDE DEF q
  <2>4. RequestOk(q)
    BY <1>r, <1>n, <2>1, <2>2 DEF RequestOk, HasNumbers, At
  <2> QED BY <1>k, <2>1, <2>2, <2>3, <2>4, RequestStep
<1>4. CASE RedisIncr(r)
  <2> DEFINE k == reqs[r].key
             n == redis[k] + 1
             q == IF k = "AccountId"
                  THEN [reqs[r] EXCEPT !.id = n, !.key = "YuanShenUid", !.at = "exists"]
                  ELSE [reqs[r] EXCEPT !.uid = n, !.at = "insert"]
  <2>1. /\ At(r, "login", "incr") /\ redis' = [redis EXCEPT ![k] = n]
        /\ reqs' = [reqs EXCEPT ![r] = q]
        /\ UNCHANGED <<accounts, held, seeded, aged, used>>
    BY <1>4 DEF RedisIncr, NextNumber
  <2>2. redis[k] \in Nat /\ n \in Nat
    BY <2>1 DEF TypeOK, At
  <2> HIDE DEF n
  <2>3. /\ redis' \in [Keys -> Nat \cup {Nobody}]
        /\ \A l \in Keys : redis[l] \in Nat => redis'[l] \in Nat
    BY <1>r, <1>d, <2>1, <2>2
  <2>4. RequestOk(q) /\ q.at # "incr"
    BY <1>r, <1>n, <2>1, <2>2 DEF RequestOk, RequestType, HasNumbers, At, Stages, Keys
  <2> HIDE DEF q
  <2> QED BY <1>k, <2>1, <2>3, <2>4, RequestStep
<1>5. CASE InsertAccount(r)
  <2> DEFINE a == [AccountID |-> reqs[r].id, PlayerID |-> reqs[r].uid, Username |-> reqs[r].name,
                   Token |-> Nobody, TokenFresh |-> FALSE, ComboToken |-> Nobody, ComboFresh |-> FALSE]
             q == [reqs[r] EXCEPT !.at = "token"]
  <2>1. /\ Go(r, "token") /\ At(r, "login", "insert") /\ accounts' = Append(accounts, a)
        /\ UNCHANGED <<redis, held, seeded, aged, used>>
    BY <1>5 DEF InsertAccount
  <2>2. /\ reqs' = [reqs EXCEPT ![r] = q] /\ q \in RequestType
        /\ q.op = "login" /\ q.at = "token" /\ q.name = reqs[r].name /\ q.key = reqs[r].key
        /\ q.id = reqs[r].id /\ q.uid = reqs[r].uid
    BY <2>1, GoIs DEF At, Stages
  <2>3. a \in AccountType
    BY <1>r, <1>n, <2>1 DEF AccountType, At, HasNumbers
  <2> HIDE DEF a, q
  <2>4. accounts' \in Seq(AccountType)
    BY <1>k, <2>1, <2>3
  <2>5. RequestOk(q)
    BY <1>r, <1>n, <2>1, <2>2 DEF RequestOk, HasNumbers, At
  <2> QED BY <1>d, <1>k, <2>1, <2>2, <2>4, <2>5, RequestStep
<1> QED BY <1>1, <1>2, <1>3, <1>4, <1>5

\* The steps of a token and a combo token, a failure, and what happens to the accounts.
LEMMA TokenType ==
  ASSUME TypeOK, NEW r \in Requests,
         \/ WriteToken(r) \/ WriteTokenTime(r) \/ WriteCombo(r) \/ WriteComboTime(r) \/ DbError(r)
         \/ \E h \in held : V2Login(r, h)
  PROVE  TypeOK'
<1>r. reqs[r] \in RequestType /\ HasNumbers(reqs[r]) /\ reqs[r].key \in Keys
  BY DEF TypeOK, RequestType
<1>n. reqs[r].op # "none" => reqs[r].name \in Usernames
  BY DEF TypeOK
<1>d. redis \in [Keys -> Nat \cup {Nobody}]
  BY DEF TypeOK
<1>k. accounts \in Seq(AccountType) /\ held \subseteq AnswerType /\ used \in Nat
  BY DEF TypeOK
<1>g. ASSUME NEW at \in {"time", "done", "failed"}, Go(r, at), reqs[r].at \in Stages \ {"idle"},
             at = "time" => reqs[r].at = "token",
             redis' = redis, accounts' \in Seq(AccountType), held' \subseteq AnswerType,
             seeded' = seeded, aged' = aged, used' \in Nat
      PROVE  TypeOK'
  <2> DEFINE q == [reqs[r] EXCEPT !.at = at]
  <2>1. /\ reqs' = [reqs EXCEPT ![r] = q] /\ q \in RequestType
        /\ q.op = reqs[r].op /\ q.at = at /\ q.name = reqs[r].name /\ q.key = reqs[r].key
        /\ q.id = reqs[r].id /\ q.uid = reqs[r].uid
    BY <1>g, GoIs DEF Stages
  <2> HIDE DEF q
  <2>2. RequestOk(q) /\ q.at # "incr"
    BY <1>r, <1>n, <1>g, <2>1 DEF RequestOk, HasNumbers
  <2> QED BY <1>d, <1>g, <2>1, <2>2, RequestStep
<1>1. CASE WriteToken(r)
  BY <1>1, <1>g, <1>k, UpdatedIs DEF WriteToken, At, Written, ValueOf, Stages
<1>2. CASE WriteTokenTime(r)
  <2> DEFINE h == [account |-> reqs[r].id, token |-> r, name |-> reqs[r].name, found |-> reqs[r].found]
  <2>1. /\ Go(r, "done") /\ At(r, "login", "time") /\ held' = held \cup {h}
        /\ accounts' = Updated("AccountID", reqs[r].id, "TokenFresh", TRUE)
        /\ UNCHANGED <<redis, seeded, aged, used>>
    BY <1>2 DEF WriteTokenTime
  <2>2. h \in AnswerType
    BY <1>r, <1>n, <2>1 DEF AnswerType, At, HasNumbers, RequestType
  <2>3. accounts' \in Seq(AccountType)
    BY <2>1, UpdatedIs DEF Written, ValueOf
  <2> HIDE DEF h
  <2> QED BY <1>g, <1>k, <2>1, <2>2, <2>3 DEF At, Stages
<1>3. CASE WriteCombo(r)
  BY <1>3, <1>g, <1>k, UpdatedIs DEF WriteCombo, At, Written, ValueOf, Stages
<1>4. CASE WriteComboTime(r)
  BY <1>4, <1>g, <1>k, UpdatedIs DEF WriteComboTime, ComboMade, At, Written, ValueOf, Stages
<1>5. CASE DbError(r)
  <2>1. reqs[r].at \in Stages \ {"idle"} /\ used + 1 \in Nat
    BY <1>5, <1>r, <1>k DEF DbError, RequestType
  <2> QED BY <1>5, <1>g, <1>k, <2>1 DEF DbError
<1>6. ASSUME NEW h \in held, V2Login(r, h) PROVE TypeOK'
  <2> DEFINE a == QueryAccountByField("AccountID", h.account)
             refused == a = Nobody \/ a.Token # h.token
             q == [reqs[r] EXCEPT !.op = "v2", !.id = h.account, !.name = h.name,
                     !.at = IF refused THEN "done" ELSE "token"]
  <2>1. /\ reqs' = [reqs EXCEPT ![r] = q] /\ UNCHANGED <<redis, accounts, held, seeded, aged, used>>
        /\ reqs[r].at = "idle"
    BY <1>6 DEF V2Login
  <2>2. h.account \in Nat /\ h.name \in Usernames
    BY <1>k DEF AnswerType
  <2> HIDE DEF refused
  <2>3. RequestOk(q) /\ q.at # "incr"
    BY <1>r, <2>1, <2>2 DEF RequestOk, RequestType, HasNumbers, Stages
  <2> HIDE DEF q
  <2> QED BY <1>d, <1>k, <2>1, <2>3, RequestStep
<1> QED BY <1>1, <1>2, <1>3, <1>4, <1>5, <1>6

\* Every variable keeps its type.
LEMMA NextType == ASSUME TypeOK, NobodyAssumption, [Next]_vars PROVE TypeOK'
<1>1. CASE UNCHANGED vars
  BY <1>1 DEF vars, TypeOK
<1>2. ASSUME NEW u, UserPasswordChange(u) PROVE TypeOK'
  <2>1. accounts' \in Seq(AccountType)
    BY <1>2, UpdatedIs DEF UserPasswordChange, Written, ValueOf
  <2>2. UNCHANGED <<redis, reqs, held, seeded>> /\ aged' = TRUE /\ used' = used + 1
    BY <1>2 DEF UserPasswordChange
  <2> QED BY <2>1, <2>2 DEF TypeOK
<1>3. ASSUME Day PROVE TypeOK'
  <2>1. ASSUME NEW i \in DOMAIN accounts PROVE [accounts[i] EXCEPT !.ComboFresh = FALSE] \in AccountType
    BY AccountIs DEF AccountType
  <2>2. accounts' \in Seq(AccountType)
    BY <1>3, <2>1 DEF Day, TypeOK
  <2> QED BY <1>3, <2>2 DEF Day, TypeOK
<1> QED BY <1>1, <1>2, <1>3, LoginType, TokenType DEF Next

\* The number a request has taken is one, the accounts are whole, the answers name both.
THEOREM TypeCorrect == ASSUME NobodyAssumption PROVE Spec => []TypeOK
BY InitType, NextType, PTL DEF Spec

-----------------------------------------------------------------------------
(* The inductive invariants.                                               *)

\* A login that has taken an account's number and has not inserted it, and one that has
\* taken the player's number too.
Taken(r) ==
  reqs[r].op = "login" /\ reqs[r].key = "YuanShenUid" /\ reqs[r].at \in {"exists", "incr", "insert"}
Whole(r) == At(r, "login", "insert")

\* With the counters made, no number in use is above them, nor in use twice.
IdInv ==
  seeded =>
    /\ redis \in [Keys -> Nat]
    /\ \A r \in Requests : reqs[r].at # "set"
    /\ \A i \in DOMAIN accounts : /\ accounts[i].AccountID <= redis["AccountId"]
                                  /\ accounts[i].PlayerID <= redis["YuanShenUid"]
    /\ \A r \in Requests :
         /\ Taken(r) => /\ reqs[r].id <= redis["AccountId"]
                        /\ \A i \in DOMAIN accounts : accounts[i].AccountID # reqs[r].id
         /\ Whole(r) => /\ reqs[r].uid <= redis["YuanShenUid"]
                        /\ \A i \in DOMAIN accounts : accounts[i].PlayerID # reqs[r].uid
    /\ \A r, q \in Requests : r # q =>
         /\ Taken(r) /\ Taken(q) => reqs[r].id # reqs[q].id
         /\ Whole(r) /\ Whole(q) => reqs[r].uid # reqs[q].uid
    /\ IdsUnique

\* A login that found its name has the account first inserted under it.
FirstIn(s, n, id) ==
  \E i \in DOMAIN s :
    /\ s[i].Username = n /\ s[i].AccountID = id
    /\ \A j \in 1 .. (i - 1) : s[j].Username # n
FirstNamed(n, id) == FirstIn(accounts, n, id)
NameInv ==
  /\ \A r \in Requests :
       reqs[r].op = "login" /\ reqs[r].found =>
         reqs[r].at \in {"token", "time", "done", "failed"} /\ FirstNamed(reqs[r].name, reqs[r].id)
  /\ NameKeepsAccount

\* A token in an account is of a request that asked for this account, and when that request
\* is through, so is the time it was made.
MarkedIn(q, old, account, op, token, fresh) ==
  token # Nobody =>
    /\ q[token].op = op /\ q[token].at \in {"time", "done", "failed"}
    /\ q[token].id = account
    /\ q[token].at = "done" /\ ~old => fresh
TokenMarked(q, old, a) == MarkedIn(q, old, a.AccountID, "login", a.Token, a.TokenFresh)
ComboMarked(q, old, a) == MarkedIn(q, old, a.AccountID, "v2", a.ComboToken, a.ComboFresh)
TokenInv ==
  /\ \A h \in held : At(h.token, "login", "done") /\ reqs[h.token].id = h.account
  /\ \A i \in DOMAIN accounts : TokenMarked(reqs, aged, accounts[i]) /\ ComboMarked(reqs, aged, accounts[i])

\* A step changes the record of one request.
LEMMA OneStep ==
  ASSUME TypeOK, NEW r \in Requests, NEW q, reqs' = [reqs EXCEPT ![r] = q]
  PROVE  reqs'[r] = q /\ \A p \in Requests \ {r} : reqs'[p] = reqs[p]
BY DEF TypeOK
\* A request that goes on keeps its fields, and the others everything.
LEMMA GoOn ==
  ASSUME TypeOK, NEW r \in Requests, NEW at, Go(r, at)
  PROVE  /\ \A p \in Requests \ {r} : reqs'[p] = reqs[p]
         /\ reqs'[r].op = reqs[r].op /\ reqs'[r].at = at /\ reqs'[r].name = reqs[r].name
         /\ reqs'[r].key = reqs[r].key /\ reqs'[r].id = reqs[r].id /\ reqs'[r].uid = reqs[r].uid
         /\ reqs'[r].found = reqs[r].found
<1> DEFINE q == [reqs[r] EXCEPT !.at = at]
<1>1. reqs' = [reqs EXCEPT ![r] = q] /\ q.op = reqs[r].op /\ q.at = at /\ q.name = reqs[r].name
      /\ q.key = reqs[r].key /\ q.id = reqs[r].id /\ q.uid = reqs[r].uid /\ q.found = reqs[r].found
  BY GoIs
<1> HIDE DEF q
<1> QED BY <1>1, OneStep

\* Writes to the accounts after their insertion.
LEMMA WritesKeep ==
  ASSUME TypeOK,
         \/ \E r \in Requests :
              WriteToken(r) \/ WriteTokenTime(r) \/ WriteCombo(r) \/ WriteComboTime(r)
         \/ \E u : UserPasswordChange(u)
         \/ Day
  PROVE  /\ DOMAIN accounts' = DOMAIN accounts
         /\ \A i \in DOMAIN accounts : /\ accounts'[i].AccountID = accounts[i].AccountID
                                       /\ accounts'[i].PlayerID = accounts[i].PlayerID
                                       /\ accounts'[i].Username = accounts[i].Username
<1>1. CASE Day
  <2>1. ASSUME NEW i \in DOMAIN accounts
        PROVE  LET a == [accounts[i] EXCEPT !.ComboFresh = FALSE]
               IN  a.AccountID = accounts[i].AccountID /\ a.PlayerID = accounts[i].PlayerID
                   /\ a.Username = accounts[i].Username
    BY AccountIs DEF AccountType
  <2> QED BY <1>1, <2>1 DEF Day
<1>2. CASE \E u : UserPasswordChange(u)
  BY <1>2, UpdatedIs DEF UserPasswordChange, Written, ValueOf
<1>3. CASE \E r \in Requests : WriteToken(r) \/ WriteTokenTime(r)
  BY <1>3, UpdatedIs DEF WriteToken, WriteTokenTime, Written, ValueOf
<1>4. CASE \E r \in Requests : WriteCombo(r) \/ WriteComboTime(r)
  BY <1>4, UpdatedIs DEF WriteCombo, WriteComboTime, ComboMade, Written, ValueOf
<1> QED BY <1>1, <1>2, <1>3, <1>4

-----------------------------------------------------------------------------
(* The numbers of accounts.                                                *)

\* A step that takes and stores no number.
LEMMA IdFrame ==
  ASSUME TypeOK, IdInv, seeded' = seeded, seeded => redis' = redis,
         DOMAIN accounts' = DOMAIN accounts,
         \A i \in DOMAIN accounts : /\ accounts'[i].AccountID = accounts[i].AccountID
                                    /\ accounts'[i].PlayerID = accounts[i].PlayerID,
         \A r \in Requests : /\ seeded => reqs'[r].at # "set"
                             /\ Taken(r)' => Taken(r) /\ reqs'[r].id = reqs[r].id
                             /\ Whole(r)' => Whole(r) /\ reqs'[r].uid = reqs[r].uid
  PROVE  IdInv'
BY DEF IdInv, IdsUnique

\* Such are the steps of a request that goes on without one.
LEMMA IdGo ==
  ASSUME TypeOK, IdInv, NEW r \in Requests, NEW at, Go(r, at), seeded' = seeded,
         seeded => redis' = redis /\ at # "set",
         at \in {"exists", "incr"} => reqs[r].at = "exists", at # "insert",
         DOMAIN accounts' = DOMAIN accounts,
         \A i \in DOMAIN accounts : /\ accounts'[i].AccountID = accounts[i].AccountID
                                    /\ accounts'[i].PlayerID = accounts[i].PlayerID
  PROVE  IdInv'
<1>1. ASSUME NEW p \in Requests
      PROVE  /\ seeded => reqs'[p].at # "set"
             /\ Taken(p)' => Taken(p) /\ reqs'[p].id = reqs[p].id
             /\ Whole(p)' => Whole(p) /\ reqs'[p].uid = reqs[p].uid
  <2>1. CASE p # r
    BY <2>1, GoOn DEF Taken, Whole, At, IdInv
  <2>2. CASE p = r
    BY <2>2, GoOn DEF Taken, Whole, At, IdInv
  <2> QED BY <2>1, <2>2
<1> QED BY <1>1, IdFrame

\* RedisIncr: a number above all there are.
LEMMA IdIncr == ASSUME TypeOK, IdInv, NEW r \in Requests, RedisIncr(r) PROVE IdInv'
<1> DEFINE k == reqs[r].key
           n == redis[k] + 1
           q == IF k = "AccountId"
                THEN [reqs[r] EXCEPT !.id = n, !.key = "YuanShenUid", !.at = "exists"]
                ELSE [reqs[r] EXCEPT !.uid = n, !.at = "insert"]
<1> SUFFICES ASSUME seeded PROVE IdInv'
  BY DEF RedisIncr, IdInv
<1>1. /\ At(r, "login", "incr") /\ redis' = [redis EXCEPT ![k] = n]
      /\ reqs' = [reqs EXCEPT ![r] = q] /\ k \in Keys
      /\ UNCHANGED <<accounts, held, seeded, aged, used>>
  BY DEF RedisIncr, NextNumber, TypeOK, RequestType
<1>2. redis \in [Keys -> Nat] /\ k \in Keys /\ n \in Nat
  BY <1>1 DEF IdInv
<1>3. redis' \in [Keys -> Nat] /\ redis'[k] = n /\ n = redis[k] + 1 /\ \A l \in Keys \ {k} : redis'[l] = redis[l]
  BY <1>1, <1>2
<1>4. /\ reqs[r] \in RequestType /\ HasNumbers(reqs[r])
      /\ reqs[r].op = "login" /\ reqs[r].at = "incr"
  BY <1>1 DEF TypeOK, At
<1> HIDE DEF n
<1>5. /\ q.op = "login"
      /\ k = "AccountId" => q.id = n /\ q.key = "YuanShenUid" /\ q.at = "exists"
      /\ k # "AccountId" => q.id = reqs[r].id /\ q.uid = n /\ q.key = k /\ q.at = "insert"
  BY <1>4 DEF RequestType
<1> HIDE DEF q
<1>6. reqs'[r] = q /\ \A p \in Requests \ {r} : reqs'[p] = reqs[p]
  BY <1>1, OneStep
<1>7. \A p \in Requests \ {r} : (Taken(p)' <=> Taken(p)) /\ (Whole(p)' <=> Whole(p))
  BY <1>6 DEF Taken, Whole, At
<1>8. \A i \in DOMAIN accounts : accounts[i].AccountID \in Nat /\ accounts[i].PlayerID \in Nat
  BY AccountIs
<1>9. \A p \in Requests : /\ Taken(p) => reqs[p].id \in Nat
                          /\ Whole(p) => reqs[p].uid \in Nat
  BY DEF TypeOK, HasNumbers, Taken, Whole, At
<1>i. IdsUnique /\ IdsUnique'
  BY <1>1 DEF IdInv, IdsUnique
<1>10. CASE k = "AccountId"
  <2>1. ~Whole(r)' /\ Taken(r)' /\ reqs'[r].id = n
    BY <1>5, <1>6, <1>10 DEF Whole, Taken, At
  <2>2. redis'["YuanShenUid"] = redis["YuanShenUid"] /\ redis'["AccountId"] = redis["AccountId"] + 1
    BY <1>3, <1>10 DEF Keys
  <2>3. redis["AccountId"] \in Nat /\ n = redis["AccountId"] + 1
    BY <1>2, <1>3, <1>10 DEF Keys
  <2>4. \A p \in Requests : reqs'[p].at # "set"
    BY <1>5, <1>6, <1>10 DEF IdInv
  <2>5. \A i \in DOMAIN accounts' : /\ accounts'[i].AccountID <= redis'["AccountId"]
                                    /\ accounts'[i].PlayerID <= redis'["YuanShenUid"]
                                    /\ accounts'[i].AccountID # n
    BY <1>1, <1>8, <2>2, <2>3 DEF IdInv
  <2>6. \A p \in Requests \ {r} : Taken(p)' => reqs'[p].id # n /\ reqs'[p].id <= redis'["AccountId"]
    BY <1>6, <1>7, <1>9, <2>2, <2>3 DEF IdInv
  <2> QED BY <1>1, <1>3, <1>6, <1>7, <1>i, <2>1, <2>2, <2>3, <2>4, <2>5, <2>6 DEF IdInv
<1>11. CASE k # "AccountId"
  <2>1. k = "YuanShenUid" /\ Whole(r)' /\ Taken(r)' /\ Taken(r) /\ reqs'[r].id = reqs[r].id /\ reqs'[r].uid = n
    BY <1>1, <1>4, <1>5, <1>6, <1>11 DEF Whole, Taken, At, Keys
  <2>2. redis'["AccountId"] = redis["AccountId"] /\ redis'["YuanShenUid"] = redis["YuanShenUid"] + 1
    BY <1>3, <2>1 DEF Keys
  <2>3. redis["YuanShenUid"] \in Nat /\ n = redis["YuanShenUid"] + 1
    BY <1>2, <1>3, <2>1 DEF Keys
  <2>4. \A p \in Requests : reqs'[p].at # "set"
    BY <1>5, <1>6, <1>11 DEF IdInv
  <2>5. \A i \in DOMAIN accounts' : /\ accounts'[i].AccountID <= redis'["AccountId"]
                                    /\ accounts'[i].PlayerID <= redis'["YuanShenUid"]
                                    /\ accounts'[i].PlayerID # n
    BY <1>1, <1>8, <2>2, <2>3 DEF IdInv
  <2>6. \A p \in Requests \ {r} : Whole(p)' => reqs'[p].uid # n /\ reqs'[p].uid <= redis'["YuanShenUid"]
    BY <1>6, <1>7, <1>9, <2>2, <2>3 DEF IdInv
  <2> QED BY <1>1, <1>3, <1>6, <1>7, <1>i, <2>1, <2>2, <2>3, <2>4, <2>5, <2>6 DEF IdInv
<1> QED BY <1>10, <1>11

\* InsertAccount: the numbers go from the request to the account.
LEMMA IdInsert == ASSUME TypeOK, IdInv, NEW r \in Requests, InsertAccount(r) PROVE IdInv'
<1> SUFFICES ASSUME seeded PROVE IdInv'
  BY DEF InsertAccount, IdInv
<1> DEFINE a == [AccountID |-> reqs[r].id, PlayerID |-> reqs[r].uid, Username |-> reqs[r].name,
                 Token |-> Nobody, TokenFresh |-> FALSE, ComboToken |-> Nobody, ComboFresh |-> FALSE]
           new == Len(accounts) + 1
<1>1. /\ Whole(r) /\ accounts' = Append(accounts, a) /\ Go(r, "token")
      /\ UNCHANGED <<redis, held, seeded, aged, used>>
  BY DEF InsertAccount, Whole
<1>2. Taken(r)
  BY <1>1 DEF Whole, Taken, At, TypeOK, HasNumbers
<1>3. a.AccountID = reqs[r].id /\ a.PlayerID = reqs[r].uid
  OBVIOUS
<1> HIDE DEF a
<1>4. /\ DOMAIN accounts' = DOMAIN accounts \cup {new} /\ new \notin DOMAIN accounts
      /\ accounts'[new] = a /\ \A i \in DOMAIN accounts : accounts'[i] = accounts[i]
  BY <1>1 DEF TypeOK
<1> HIDE DEF new
<1>5. /\ \A p \in Requests \ {r} : reqs'[p] = reqs[p]
      /\ reqs'[r].at = "token"
  BY <1>1, GoOn
<1>6. ~Taken(r)' /\ ~Whole(r)' /\ \A p \in Requests \ {r} : (Taken(p)' <=> Taken(p)) /\ (Whole(p)' <=> Whole(p))
  BY <1>5 DEF Taken, Whole, At
<1>7. \A i \in DOMAIN accounts' : /\ accounts'[i].AccountID <= redis'["AccountId"]
                                  /\ accounts'[i].PlayerID <= redis'["YuanShenUid"]
  BY <1>1, <1>2, <1>3, <1>4 DEF IdInv
<1>8. ASSUME NEW p \in Requests
      PROVE  /\ reqs'[p].at # "set"
             /\ Taken(p)' => /\ reqs'[p].id <= redis'["AccountId"]
                             /\ \A i \in DOMAIN accounts' : accounts'[i].AccountID # reqs'[p].id
             /\ Whole(p)' => /\ reqs'[p].uid <= redis'["YuanShenUid"]
                             /\ \A i \in DOMAIN accounts' : accounts'[i].PlayerID # reqs'[p].uid
  BY <1>1, <1>2, <1>3, <1>4, <1>5, <1>6 DEF IdInv
<1>9. IdsUnique'
  BY <1>1, <1>2, <1>3, <1>4 DEF IdInv, IdsUnique
<1> QED BY <1>1, <1>5, <1>6, <1>7, <1>8, <1>9 DEF IdInv

\* A step keeps the numbers apart.
LEMMA IdNext == ASSUME TypeOK, NobodyAssumption, IdInv, [Next]_vars PROVE IdInv'
<1>0. CASE UNCHANGED vars
  BY <1>0 DEF vars, IdInv, IdsUnique, Taken, Whole, At
<1>1. ASSUME NEW r \in Requests, NEW n \in Usernames, ApiLogin(r, n) PROVE IdInv'
  <2> DEFINE a == QueryAccountByField("Username", n)
             q == [reqs[r] EXCEPT !.op = "login", !.name = n, !.found = a # Nobody,
                     !.at = IF a = Nobody THEN "exists" ELSE "token",
                     !.id = IF a = Nobody THEN Nobody ELSE a.AccountID]
  <2>1. /\ reqs' = [reqs EXCEPT ![r] = q] /\ UNCHANGED <<redis, accounts, held, seeded, aged, used>>
        /\ reqs[r].at = "idle"
    BY <1>1 DEF ApiLogin
  <2> HIDE DEF a
  <2>2. reqs[r] \in RequestType /\ reqs[r].key = "AccountId"
    BY <2>1 DEF TypeOK, HasNumbers
  <2>3. q.key = "AccountId" /\ q.at \in {"exists", "token"}
    BY <2>2 DEF RequestType
  <2> HIDE DEF q
  <2>4. reqs'[r] = q /\ \A p \in Requests \ {r} : reqs'[p] = reqs[p]
    BY <2>1, OneStep
  <2>5. ASSUME NEW p \in Requests
        PROVE  /\ seeded => reqs'[p].at # "set"
               /\ Taken(p)' => Taken(p) /\ reqs'[p].id = reqs[p].id
               /\ Whole(p)' => Whole(p) /\ reqs'[p].uid = reqs[p].uid
    BY <2>3, <2>4 DEF Taken, Whole, At, IdInv
  <2> QED BY <2>1, <2>5, IdFrame
<1>2. ASSUME NEW r \in Requests, RedisExists(r) PROVE IdInv'
  <2> DEFINE at == IF redis[reqs[r].key] = Nobody THEN "set" ELSE "incr"
  <2>1. Go(r, at) /\ At(r, "login", "exists") /\ UNCHANGED <<redis, accounts, held, seeded, aged, used>>
    BY <1>2 DEF RedisExists
  <2>2. seeded => at # "set"
    BY DEF IdInv, NobodyAssumption, TypeOK, RequestType
  <2>3. at \in {"set", "incr"}
    OBVIOUS
  <2> HIDE DEF at
  <2> QED BY <2>1, <2>2, <2>3, IdGo DEF At
<1>3. ASSUME NEW r \in Requests, RedisSet(r) PROVE IdInv'
  BY <1>3 DEF RedisSet, At, IdInv
<1>4. ASSUME NEW r \in Requests,
             WriteToken(r) \/ WriteTokenTime(r) \/ WriteCombo(r) \/ WriteComboTime(r)
      PROVE  IdInv'
  BY <1>4, IdGo, WritesKeep DEF WriteToken, WriteTokenTime, WriteCombo, WriteComboTime
<1>5. ASSUME NEW r \in Requests, DbError(r) PROVE IdInv'
  BY <1>5, IdGo DEF DbError
<1>6. ASSUME NEW r \in Requests, NEW h \in held, V2Login(r, h) PROVE IdInv'
  <2> DEFINE a == QueryAccountByField("AccountID", h.account)
             refused == a = Nobody \/ a.Token # h.token
             q == [reqs[r] EXCEPT !.op = "v2", !.id = h.account, !.name = h.name,
                     !.at = IF refused THEN "done" ELSE "token"]
  <2>1. reqs' = [reqs EXCEPT ![r] = q] /\ UNCHANGED <<redis, accounts, held, seeded, aged, used>>
    BY <1>6 DEF V2Login
  <2> HIDE DEF refused
  <2>2. q.op = "v2" /\ q.at \in {"done", "token"}
    <3>1. reqs[r] \in RequestType
      BY DEF TypeOK
    <3> QED BY <3>1 DEF RequestType
  <2> HIDE DEF q
  <2>4. reqs'[r] = q /\ \A p \in Requests \ {r} : reqs'[p] = reqs[p]
    BY <2>1, OneStep
  <2>5. ASSUME NEW p \in Requests
        PROVE  /\ seeded => reqs'[p].at # "set"
               /\ Taken(p)' => Taken(p) /\ reqs'[p].id = reqs[p].id
               /\ Whole(p)' => Whole(p) /\ reqs'[p].uid = reqs[p].uid
    BY <2>2, <2>4 DEF Taken, Whole, At, IdInv
  <2> QED BY <2>1, <2>5, IdFrame
<1>7. ASSUME Day \/ \E u : UserPasswordChange(u) PROVE IdInv'
  <2>1. UNCHANGED <<redis, reqs, seeded>>
    BY <1>7 DEF Day, UserPasswordChange
  <2>2. \A p \in Requests : (Taken(p)' <=> Taken(p)) /\ (Whole(p)' <=> Whole(p))
    BY <2>1 DEF Taken, Whole, At
  <2>3. seeded => \A p \in Requests : reqs[p].at # "set"
    BY DEF IdInv
  <2>4. /\ DOMAIN accounts' = DOMAIN accounts
        /\ \A i \in DOMAIN accounts : /\ accounts'[i].AccountID = accounts[i].AccountID
                                      /\ accounts'[i].PlayerID = accounts[i].PlayerID
    BY <1>7, WritesKeep
  <2> QED BY <2>1, <2>2, <2>3, <2>4, IdFrame
<1> QED BY <1>0, <1>1, <1>2, <1>3, <1>4, <1>5, <1>6, <1>7, IdIncr, IdInsert DEF Next

\* No number is taken at the start.
LEMMA InitIds == NobodyAssumption /\ Init => IdInv
<1> SUFFICES ASSUME NobodyAssumption, Init PROVE IdInv
  OBVIOUS
<1>1. \A r \in Requests : ~Taken(r) /\ ~Whole(r) /\ reqs[r].at = "idle"
  BY DEF Init, Idle, Taken, Whole, At
<1>2. seeded => redis \in [Keys -> Nat]
  BY DEF Init, IdBegin
<1>3. DOMAIN accounts = {}
  BY DEF Init
<1> QED BY <1>1, <1>2, <1>3 DEF IdInv, IdsUnique

\* However many requests register at once, under however many names, and wherever they fail:
\* redisInc of apiLogin never gives two accounts one number, nor two players one uid, once
\* the counters are in redis.
THEOREM IdsCorrect == ASSUME NobodyAssumption PROVE Spec => []IdsUnique
<1>1. TypeOK /\ IdInv /\ [Next]_vars => IdInv'
  BY IdNext
<1>2. IdInv /\ TypeOK => (seeded => IdsUnique)
  BY DEF IdInv
<1>3. (seeded => IdsUnique) => IdsUnique
  BY DEF IdsUnique
<1> QED BY <1>1, <1>2, <1>3, InitIds, TypeCorrect, PTL DEF Spec

-----------------------------------------------------------------------------
(* Names.                                                                  *)

\* What is first under its name stays it.
LEMMA FirstStays ==
  ASSUME TypeOK, NEW n, NEW id, FirstNamed(n, id),
         DOMAIN accounts \subseteq DOMAIN accounts',
         \A i \in DOMAIN accounts : /\ accounts'[i].AccountID = accounts[i].AccountID
                                    /\ accounts'[i].Username = accounts[i].Username
  PROVE  FirstIn(accounts', n, id)
<1>1. PICK i \in DOMAIN accounts :
        /\ accounts[i].Username = n /\ accounts[i].AccountID = id
        /\ \A j \in 1 .. (i - 1) : accounts[j].Username # n
  BY DEF FirstNamed, FirstIn
<1>2. \A j \in 1 .. (i - 1) : j \in DOMAIN accounts
  BY DEF TypeOK
<1> QED BY <1>1, <1>2 DEF FirstIn

\* A step that changes no name, number or answer.
LEMMA NameFrame ==
  ASSUME TypeOK, NameInv,
         DOMAIN accounts \subseteq DOMAIN accounts',
         \A i \in DOMAIN accounts : /\ accounts'[i].AccountID = accounts[i].AccountID
                                    /\ accounts'[i].Username = accounts[i].Username,
         \A h \in held' \ held : h.found => FirstNamed(h.name, h.account),
         \A r \in Requests :
           reqs'[r].op = "login" /\ reqs'[r].found =>
             /\ reqs'[r].at \in {"token", "time", "done", "failed"}
             /\ FirstNamed(reqs'[r].name, reqs'[r].id)
  PROVE  NameInv'
<1>1. \A r \in Requests : reqs'[r].op = "login" /\ reqs'[r].found =>
        /\ reqs'[r].at \in {"token", "time", "done", "failed"}
        /\ FirstIn(accounts', reqs'[r].name, reqs'[r].id)
  BY FirstStays
<1>2. \A h \in held' : h.found => FirstNamed(h.name, h.account)
  BY DEF NameInv, NameKeepsAccount, FirstNamed, FirstIn
<1>3. \A h \in held' : h.found => FirstIn(accounts', h.name, h.account)
  BY <1>2, FirstStays
<1> QED BY <1>1, <1>3 DEF NameInv, NameKeepsAccount, FirstNamed, FirstIn

\* A request that goes on under its name.
LEMMA NameGo ==
  ASSUME TypeOK, NameInv, NEW r \in Requests, NEW at, Go(r, at),
         at \in {"token", "time", "done", "failed"} \/ reqs[r].at \in {"exists", "set", "incr"},
         DOMAIN accounts \subseteq DOMAIN accounts',
         \A i \in DOMAIN accounts : /\ accounts'[i].AccountID = accounts[i].AccountID
                                    /\ accounts'[i].Username = accounts[i].Username,
         \A h \in held' \ held : h.found => FirstNamed(h.name, h.account)
  PROVE  NameInv'
<1>1. ASSUME NEW p \in Requests, reqs'[p].op = "login", reqs'[p].found
      PROVE  /\ reqs'[p].at \in {"token", "time", "done", "failed"}
             /\ FirstNamed(reqs'[p].name, reqs'[p].id)
  <2>1. CASE p # r
    BY <1>1, <2>1, GoOn DEF NameInv
  <2>2. CASE p = r
    <3>1. reqs[r].op = "login" /\ reqs[r].found /\ reqs'[r].at = at
          /\ reqs'[r].name = reqs[r].name /\ reqs'[r].id = reqs[r].id
      BY <1>1, <2>2, GoOn
    <3>2. reqs[r].at \in {"token", "time", "done", "failed"} /\ FirstNamed(reqs[r].name, reqs[r].id)
      BY <3>1 DEF NameInv
    <3> QED BY <2>2, <3>1, <3>2
  <2> QED BY <2>1, <2>2
<1> QED BY <1>1, NameFrame

\* A step keeps the names' accounts.
LEMMA NameNext == ASSUME TypeOK, NobodyAssumption, NameInv, [Next]_vars PROVE NameInv'
<1>0. CASE UNCHANGED vars
  BY <1>0, NameFrame DEF vars, NameInv
<1>1. ASSUME NEW r \in Requests, NEW n \in Usernames, ApiLogin(r, n) PROVE NameInv'
  <2> DEFINE a == QueryAccountByField("Username", n)
             q == [reqs[r] EXCEPT !.op = "login", !.name = n, !.found = a # Nobody,
                     !.at = IF a = Nobody THEN "exists" ELSE "token",
                     !.id = IF a = Nobody THEN Nobody ELSE a.AccountID]
  <2>1. reqs' = [reqs EXCEPT ![r] = q] /\ UNCHANGED <<redis, accounts, held, seeded, aged, used>>
    BY <1>1 DEF ApiLogin
  <2>2. a # Nobody => FirstNamed(n, a.AccountID)
    BY QueryIs DEF FirstNamed, FirstIn
  <2> HIDE DEF a
  <2>3. /\ q.op = "login" /\ q.name = n /\ q.found = (a # Nobody)
        /\ a # Nobody => q.at = "token" /\ q.id = a.AccountID
    <3>1. reqs[r] \in RequestType
      BY DEF TypeOK
    <3> QED BY <3>1 DEF RequestType
  <2> HIDE DEF q
  <2>4. reqs'[r] = q /\ \A p \in Requests \ {r} : reqs'[p] = reqs[p]
    BY <2>1, OneStep
  <2>5. ASSUME NEW p \in Requests, reqs'[p].op = "login", reqs'[p].found
        PROVE  /\ reqs'[p].at \in {"token", "time", "done", "failed"}
               /\ FirstNamed(reqs'[p].name, reqs'[p].id)
    BY <2>2, <2>3, <2>4, <2>5 DEF NameInv
  <2> QED BY <2>1, <2>5, NameFrame
<1>2. ASSUME NEW r \in Requests, RedisExists(r) \/ RedisSet(r) \/ DbError(r) PROVE NameInv'
  BY <1>2, NameGo DEF RedisExists, RedisSet, DbError, At
<1>3. ASSUME NEW r \in Requests, RedisIncr(r) PROVE NameInv'
  <2> DEFINE k == reqs[r].key
             n == NextNumber(k)
             q == IF k = "AccountId"
                  THEN [reqs[r] EXCEPT !.id = n, !.key = "YuanShenUid", !.at = "exists"]
                  ELSE [reqs[r] EXCEPT !.uid = n, !.at = "insert"]
  <2>1. /\ reqs' = [reqs EXCEPT ![r] = q] /\ At(r, "login", "incr")
        /\ UNCHANGED <<accounts, held, seeded, aged, used>>
    BY <1>3 DEF RedisIncr
  <2>2. ~reqs[r].found
    BY <2>1 DEF NameInv, At
  <2> HIDE DEF n
  <2>3. q.found = reqs[r].found
    <3>1. reqs[r] \in RequestType
      BY DEF TypeOK
    <3> QED BY <3>1 DEF RequestType
  <2> HIDE DEF q
  <2>4. reqs'[r] = q /\ \A p \in Requests \ {r} : reqs'[p] = reqs[p]
    BY <2>1, OneStep
  <2>5. ASSUME NEW p \in Requests, reqs'[p].op = "login", reqs'[p].found
        PROVE  /\ reqs'[p].at \in {"token", "time", "done", "failed"}
               /\ FirstNamed(reqs'[p].name, reqs'[p].id)
    BY <2>2, <2>3, <2>4, <2>5 DEF NameInv
  <2> QED BY <2>1, <2>5, NameFrame
<1>4. ASSUME NEW r \in Requests, InsertAccount(r) PROVE NameInv'
  <2>1. Go(r, "token") /\ held' = held
    BY <1>4 DEF InsertAccount
  <2>2. PICK a : accounts' = Append(accounts, a)
    BY <1>4 DEF InsertAccount
  <2>3. /\ DOMAIN accounts \subseteq DOMAIN accounts'
        /\ \A i \in DOMAIN accounts : accounts'[i] = accounts[i]
    BY <2>2 DEF TypeOK
  <2> QED BY <2>1, <2>3, NameGo
<1>5. ASSUME NEW r \in Requests, WriteToken(r) \/ WriteCombo(r) \/ WriteComboTime(r) PROVE NameInv'
  BY <1>5, NameGo, WritesKeep DEF WriteToken, WriteCombo, WriteComboTime
<1>6. ASSUME NEW r \in Requests, WriteTokenTime(r) PROVE NameInv'
  <2> DEFINE h == [account |-> reqs[r].id, token |-> r, name |-> reqs[r].name, found |-> reqs[r].found]
  <2>1. Go(r, "done") /\ At(r, "login", "time") /\ held' = held \cup {h}
    BY <1>6 DEF WriteTokenTime
  <2>2. h.found => FirstNamed(h.name, h.account)
    BY <2>1 DEF NameInv, At
  <2> HIDE DEF h
  <2> QED BY <1>6, <2>1, <2>2, NameGo, WritesKeep
<1>7. ASSUME NEW r \in Requests, NEW h \in held, V2Login(r, h) PROVE NameInv'
  <2> DEFINE a == QueryAccountByField("AccountID", h.account)
             refused == a = Nobody \/ a.Token # h.token
             q == [reqs[r] EXCEPT !.op = "v2", !.id = h.account, !.name = h.name,
                     !.at = IF refused THEN "done" ELSE "token"]
  <2>1. reqs' = [reqs EXCEPT ![r] = q] /\ UNCHANGED <<redis, accounts, held, seeded, aged, used>>
    BY <1>7 DEF V2Login
  <2> HIDE DEF refused
  <2>2. q.op = "v2"
    <3>1. reqs[r] \in RequestType
      BY DEF TypeOK
    <3> QED BY <3>1 DEF RequestType
  <2> HIDE DEF q
  <2>4. reqs'[r] = q /\ \A p \in Requests \ {r} : reqs'[p] = reqs[p]
    BY <2>1, OneStep
  <2>5. ASSUME NEW p \in Requests, reqs'[p].op = "login", reqs'[p].found
        PROVE  /\ reqs'[p].at \in {"token", "time", "done", "failed"}
               /\ FirstNamed(reqs'[p].name, reqs'[p].id)
    BY <2>2, <2>4, <2>5 DEF NameInv
  <2> QED BY <2>1, <2>5, NameFrame
<1>8. ASSUME Day \/ \E u : UserPasswordChange(u) PROVE NameInv'
  <2>1. UNCHANGED <<reqs, held>>
    BY <1>8 DEF Day, UserPasswordChange
  <2> QED BY <1>8, <2>1, NameFrame, WritesKeep DEF NameInv
<1> QED BY <1>0, <1>1, <1>2, <1>3, <1>4, <1>5, <1>6, <1>7, <1>8 DEF Next

\* A name keeps its account: every login that found its name registered is answered with the
\* first account inserted under it, although two requests may have registered it at once.
THEOREM NamesCorrect == ASSUME NobodyAssumption PROVE Spec => []NameKeepsAccount
<1>1. Init => NameInv
  BY DEF Init, Idle, NameInv, NameKeepsAccount
<1>2. TypeOK /\ NameInv /\ [Next]_vars => NameInv'
  BY NameNext
<1>3. NameInv => NameKeepsAccount
  BY DEF NameInv
<1> QED BY <1>1, <1>2, <1>3, TypeCorrect, PTL DEF Spec

-----------------------------------------------------------------------------
(* Tokens.                                                                 *)

\* A token stays marked while the request it is of does nothing, and neither the account's
\* number nor, unless time goes by, its freshness is taken from it.
LEMMA MarkStays ==
  ASSUME NEW account, NEW op, NEW token, NEW fresh, NEW fresh2,
         MarkedIn(reqs, aged, account, op, token, fresh),
         aged => aged', token # Nobody => reqs'[token] = reqs[token],
         fresh /\ ~aged' => fresh2
  PROVE  MarkedIn(reqs', aged', account, op, token, fresh2)
BY DEF MarkedIn

\* The tokens of an account are requests, or there is none, and not one that writes none yet.
LEMMA TokenOf ==
  ASSUME TypeOK, NobodyAssumption, TokenInv, NEW i \in DOMAIN accounts
  PROVE  LET a == accounts[i]
         IN  /\ TokenMarked(reqs, aged, a) /\ ComboMarked(reqs, aged, a)
             /\ a.Token # Nobody => /\ a.Token \in Requests /\ reqs[a.Token].op = "login"
                                    /\ reqs[a.Token].at \in {"time", "done", "failed"}
                                    /\ reqs[a.Token].id = a.AccountID
             /\ a.ComboToken # Nobody => /\ a.ComboToken \in Requests /\ reqs[a.ComboToken].op = "v2"
                                         /\ reqs[a.ComboToken].at \in {"time", "done", "failed"}
                                         /\ reqs[a.ComboToken].id = a.AccountID
BY AccountIs DEF TokenInv, TokenMarked, ComboMarked, MarkedIn

\* A request that is answered does nothing any more.
LEMMA HeldStays ==
  ASSUME TypeOK, TokenInv, NEW r \in Requests, reqs[r].at # "done",
         \A p \in Requests \ {r} : reqs'[p] = reqs[p], NEW h \in held
  PROVE  reqs'[h.token] = reqs[h.token] /\ reqs[h.token].op = "login" /\ reqs[h.token].at = "done"
         /\ reqs[h.token].id = h.account
<1>1. h.token \in Requests
  BY DEF TypeOK, AnswerType
<1> QED BY <1>1 DEF TokenInv, At

\* A step of a request that has written no token, and that leaves the accounts there are.
LEMMA TokenBefore ==
  ASSUME TypeOK, NobodyAssumption, TokenInv, NEW r \in Requests,
         reqs[r].at \notin {"time", "done", "failed"},
         \A p \in Requests \ {r} : reqs'[p] = reqs[p],
         aged' = aged, held' = held,
         \A i \in DOMAIN accounts' :
           \/ i \in DOMAIN accounts /\ accounts'[i] = accounts[i]
           \/ accounts'[i].Token = Nobody /\ accounts'[i].ComboToken = Nobody
  PROVE  TokenInv'
<1>1. \A h \in held' : /\ reqs'[h.token].op = "login" /\ reqs'[h.token].at = "done"
                       /\ reqs'[h.token].id = h.account
  BY HeldStays
<1>2. ASSUME NEW i \in DOMAIN accounts'
      PROVE  TokenMarked(reqs', aged', accounts'[i]) /\ ComboMarked(reqs', aged', accounts'[i])
  <2>1. CASE accounts'[i].Token = Nobody /\ accounts'[i].ComboToken = Nobody
    BY <2>1 DEF TokenMarked, ComboMarked, MarkedIn
  <2>2. CASE i \in DOMAIN accounts /\ accounts'[i] = accounts[i]
    BY <2>2, TokenOf, MarkStays DEF TokenMarked, ComboMarked
  <2> QED BY <2>1, <2>2
<1> QED BY <1>1, <1>2 DEF TokenInv, At

\* A write of when the token was made.
LEMMA TokenFreshIs ==
  ASSUME TypeOK, NEW v, accounts' = Updated("AccountID", v, "TokenFresh", TRUE)
  PROVE  /\ DOMAIN accounts' = DOMAIN accounts
         /\ \A i \in DOMAIN accounts :
              /\ accounts'[i].AccountID = accounts[i].AccountID
              /\ accounts'[i].Token = accounts[i].Token
              /\ accounts'[i].ComboToken = accounts[i].ComboToken
              /\ accounts[i].ComboFresh => accounts'[i].ComboFresh
              /\ accounts[i].AccountID = v => accounts'[i].TokenFresh
              /\ accounts[i].TokenFresh => accounts'[i].TokenFresh
<1>1. ASSUME NEW i \in DOMAIN accounts
      PROVE  /\ accounts'[i].AccountID = accounts[i].AccountID
             /\ accounts'[i].Token = accounts[i].Token
             /\ accounts'[i].ComboToken = accounts[i].ComboToken
             /\ accounts[i].ComboFresh => accounts'[i].ComboFresh
             /\ accounts[i].AccountID = v => accounts'[i].TokenFresh
             /\ accounts[i].TokenFresh => accounts'[i].TokenFresh
  <2> DEFINE a == [accounts[i] EXCEPT !.TokenFresh = TRUE]
  <2>1. /\ a.AccountID = accounts[i].AccountID /\ a.Token = accounts[i].Token
        /\ a.ComboToken = accounts[i].ComboToken /\ a.ComboFresh = accounts[i].ComboFresh /\ a.TokenFresh = TRUE
    BY AccountIs DEF AccountType
  <2>2. accounts'[i] = IF accounts[i].AccountID = v THEN a ELSE accounts[i]
    BY DEF Updated
  <2> HIDE DEF a
  <2> QED BY <2>1, <2>2
<1>2. DOMAIN accounts' = DOMAIN accounts
  BY DEF Updated
<1> QED BY <1>1, <1>2

\* A write of when the combo token was made.
LEMMA ComboFreshIs ==
  ASSUME TypeOK, NEW v, accounts' = Updated("AccountID", v, "ComboFresh", TRUE)
  PROVE  /\ DOMAIN accounts' = DOMAIN accounts
         /\ \A i \in DOMAIN accounts :
              /\ accounts'[i].AccountID = accounts[i].AccountID
              /\ accounts'[i].Token = accounts[i].Token
              /\ accounts'[i].ComboToken = accounts[i].ComboToken
              /\ accounts[i].TokenFresh => accounts'[i].TokenFresh
              /\ accounts[i].AccountID = v => accounts'[i].ComboFresh
              /\ accounts[i].ComboFresh => accounts'[i].ComboFresh
<1>1. ASSUME NEW i \in DOMAIN accounts
      PROVE  /\ accounts'[i].AccountID = accounts[i].AccountID
             /\ accounts'[i].Token = accounts[i].Token
             /\ accounts'[i].ComboToken = accounts[i].ComboToken
             /\ accounts[i].TokenFresh => accounts'[i].TokenFresh
             /\ accounts[i].AccountID = v => accounts'[i].ComboFresh
             /\ accounts[i].ComboFresh => accounts'[i].ComboFresh
  <2> DEFINE a == [accounts[i] EXCEPT !.ComboFresh = TRUE]
  <2>1. /\ a.AccountID = accounts[i].AccountID /\ a.Token = accounts[i].Token
        /\ a.ComboToken = accounts[i].ComboToken /\ a.TokenFresh = accounts[i].TokenFresh /\ a.ComboFresh = TRUE
    BY AccountIs DEF AccountType
  <2>2. accounts'[i] = IF accounts[i].AccountID = v THEN a ELSE accounts[i]
    BY DEF Updated
  <2> HIDE DEF a
  <2> QED BY <2>1, <2>2
<1>2. DOMAIN accounts' = DOMAIN accounts
  BY DEF Updated
<1> QED BY <1>1, <1>2

\* A write, field by field.
LEMMA FieldsOf ==
  ASSUME TypeOK, NEW v, NEW change \in Written, NEW to \in ValueOf(change),
         accounts' = Updated("AccountID", v, change, to)
  PROVE  /\ DOMAIN accounts' = DOMAIN accounts
         /\ \A i \in DOMAIN accounts :
              /\ accounts'[i].AccountID = accounts[i].AccountID
              /\ change = "Token" /\ accounts[i].AccountID = v => accounts'[i].Token = to
              /\ change # "Token" \/ accounts[i].AccountID # v =>
                   accounts'[i].Token = accounts[i].Token
              /\ change = "TokenFresh" /\ accounts[i].AccountID = v => accounts'[i].TokenFresh = to
              /\ change # "TokenFresh" \/ accounts[i].AccountID # v =>
                   accounts'[i].TokenFresh = accounts[i].TokenFresh
              /\ change = "ComboToken" /\ accounts[i].AccountID = v => accounts'[i].ComboToken = to
              /\ change # "ComboToken" \/ accounts[i].AccountID # v =>
                   accounts'[i].ComboToken = accounts[i].ComboToken
              /\ change = "ComboFresh" /\ accounts[i].AccountID = v => accounts'[i].ComboFresh = to
              /\ change # "ComboFresh" \/ accounts[i].AccountID # v =>
                   accounts'[i].ComboFresh = accounts[i].ComboFresh
<1>1. \A c \in {"Token", "TokenFresh", "ComboToken", "ComboFresh"} : c \in Written
  BY DEF Written
<1>2. \A i \in DOMAIN accounts : \A c \in Written :
        accounts'[i][c] = IF c = change /\ accounts[i].AccountID = v THEN to ELSE accounts[i][c]
  BY UpdatedIs
<1>3. DOMAIN accounts' = DOMAIN accounts
      /\ \A i \in DOMAIN accounts : accounts'[i].AccountID = accounts[i].AccountID
  BY UpdatedIs
<1> QED BY <1>1, <1>2, <1>3

\* The writes of a token and of when it was made, and a failure.
LEMMA TokenWrites ==
  ASSUME TypeOK, NobodyAssumption, TokenInv, NEW r \in Requests,
         WriteToken(r) \/ WriteTokenTime(r) \/ WriteCombo(r) \/ WriteComboTime(r) \/ DbError(r)
  PROVE  TokenInv'
<1>1. CASE DbError(r)
  <2>1. /\ UNCHANGED <<accounts, held, aged>> /\ Go(r, "failed") /\ reqs[r].at # "done"
        /\ \A p \in Requests \ {r} : reqs'[p] = reqs[p]
        /\ reqs'[r].op = reqs[r].op /\ reqs'[r].at = "failed" /\ reqs'[r].id = reqs[r].id
    BY <1>1, GoOn DEF DbError
  <2>2. \A h \in held' : /\ reqs'[h.token].op = "login" /\ reqs'[h.token].at = "done"
                         /\ reqs'[h.token].id = h.account
    BY <2>1, HeldStays
  <2>3. ASSUME NEW i \in DOMAIN accounts'
        PROVE  TokenMarked(reqs', aged', accounts'[i]) /\ ComboMarked(reqs', aged', accounts'[i])
    BY <2>1, TokenOf DEF TokenMarked, ComboMarked, MarkedIn
  <2> QED BY <2>2, <2>3 DEF TokenInv, At
<1>2. CASE WriteToken(r)
  <2>1. /\ Go(r, "time") /\ At(r, "login", "token") /\ held' = held /\ aged' = aged
        /\ accounts' = Updated("AccountID", reqs[r].id, "Token", r)
    BY <1>2 DEF WriteToken
  <2>2. /\ reqs[r].at = "token" /\ reqs[r].op = "login"
        /\ \A p \in Requests \ {r} : reqs'[p] = reqs[p]
        /\ reqs'[r].op = "login" /\ reqs'[r].at = "time" /\ reqs'[r].id = reqs[r].id
    BY <2>1, GoOn DEF At
  <2>3. /\ DOMAIN accounts' = DOMAIN accounts
        /\ \A i \in DOMAIN accounts :
             /\ accounts'[i].AccountID = accounts[i].AccountID
             /\ accounts'[i].Token = IF accounts[i].AccountID = reqs[r].id THEN r ELSE accounts[i].Token
             /\ accounts'[i].TokenFresh = accounts[i].TokenFresh
             /\ accounts'[i].ComboToken = accounts[i].ComboToken
             /\ accounts'[i].ComboFresh = accounts[i].ComboFresh
    <3>1. "Token" \in Written /\ r \in ValueOf("Token")
      BY DEF Written, ValueOf
    <3> QED BY <2>1, <3>1, FieldsOf
  <2>4. \A h \in held' : /\ reqs'[h.token].op = "login" /\ reqs'[h.token].at = "done"
                         /\ reqs'[h.token].id = h.account
    BY <2>1, <2>2, HeldStays
  <2>5. ASSUME NEW i \in DOMAIN accounts'
        PROVE  TokenMarked(reqs', aged', accounts'[i])
    <3>1. CASE accounts[i].AccountID = reqs[r].id
      BY <2>2, <2>3, <3>1 DEF TokenMarked, MarkedIn
    <3>2. CASE accounts[i].AccountID # reqs[r].id
      <4>1. TokenMarked(reqs, aged, accounts[i]) /\ accounts[i].Token # r
            /\ (accounts[i].Token # Nobody => reqs'[accounts[i].Token] = reqs[accounts[i].Token])
        BY <2>2, <2>3, <3>2, TokenOf DEF NobodyAssumption
      <4> QED BY <2>1, <2>3, <3>2, <4>1, MarkStays DEF TokenMarked
    <3> QED BY <3>1, <3>2
  <2>6. ASSUME NEW i \in DOMAIN accounts'
        PROVE  ComboMarked(reqs', aged', accounts'[i])
    <3>1. ComboMarked(reqs, aged, accounts[i]) /\ accounts[i].ComboToken # r
          /\ (accounts[i].ComboToken # Nobody => reqs'[accounts[i].ComboToken] = reqs[accounts[i].ComboToken])
      BY <2>2, <2>3, TokenOf DEF NobodyAssumption
    <3> QED BY <2>1, <2>3, <3>1, MarkStays DEF ComboMarked
  <2> QED BY <2>4, <2>5, <2>6 DEF TokenInv, At
<1>3. CASE WriteTokenTime(r)
  <2> DEFINE h == [account |-> reqs[r].id, token |-> r, name |-> reqs[r].name, found |-> reqs[r].found]
  <2>1. /\ Go(r, "done") /\ At(r, "login", "time") /\ held' = held \cup {h} /\ aged' = aged
        /\ accounts' = Updated("AccountID", reqs[r].id, "TokenFresh", TRUE)
    BY <1>3 DEF WriteTokenTime
  <2>h. h.account = reqs[r].id /\ h.token = r
    OBVIOUS
  <2> HIDE DEF h
  <2>2. /\ reqs[r].at = "time" /\ reqs[r].op = "login"
        /\ \A p \in Requests \ {r} : reqs'[p] = reqs[p]
        /\ reqs'[r].op = "login" /\ reqs'[r].at = "done" /\ reqs'[r].id = reqs[r].id
    BY <2>1, GoOn DEF At
  <2>3. /\ DOMAIN accounts' = DOMAIN accounts
        /\ \A i \in DOMAIN accounts :
             /\ accounts'[i].AccountID = accounts[i].AccountID
             /\ accounts'[i].Token = accounts[i].Token
             /\ accounts[i].AccountID = reqs[r].id => accounts'[i].TokenFresh
             /\ accounts[i].TokenFresh => accounts'[i].TokenFresh
             /\ accounts'[i].ComboToken = accounts[i].ComboToken
             /\ accounts[i].ComboFresh => accounts'[i].ComboFresh
    BY <2>1, TokenFreshIs
  <2>4. ASSUME NEW g \in held'
        PROVE  reqs'[g.token].op = "login" /\ reqs'[g.token].at = "done" /\ reqs'[g.token].id = g.account
    <3>1. CASE g = h
      BY <2>h, <2>2, <3>1
    <3>2. CASE g \in held
      BY <2>2, <3>2, HeldStays
    <3> QED BY <2>1, <3>1, <3>2
  <2>5. ASSUME NEW i \in DOMAIN accounts'
        PROVE  TokenMarked(reqs', aged', accounts'[i])
    <3>1. CASE accounts[i].AccountID = reqs[r].id
      <4>1. accounts[i].Token # Nobody =>
              /\ reqs[accounts[i].Token].op = reqs[r].op /\ accounts[i].Token \in Requests
              /\ reqs[accounts[i].Token].at \in {"time", "done", "failed"}
              /\ reqs[accounts[i].Token].id = accounts[i].AccountID
        BY <2>2, <2>3, TokenOf
      <4>2. CASE accounts[i].Token = r
        BY <2>2, <2>3, <3>1, <4>2 DEF TokenMarked, MarkedIn
      <4>3. CASE accounts[i].Token # r
        BY <2>2, <2>3, <3>1, <4>1, <4>3 DEF TokenMarked, MarkedIn
      <4> QED BY <4>2, <4>3
    <3>2. CASE accounts[i].AccountID # reqs[r].id
      <4>1. TokenMarked(reqs, aged, accounts[i]) /\ accounts[i].Token # r
            /\ (accounts[i].Token # Nobody => reqs'[accounts[i].Token] = reqs[accounts[i].Token])
        BY <2>2, <2>3, <3>2, TokenOf DEF NobodyAssumption
      <4> QED BY <2>1, <2>3, <3>2, <4>1, MarkStays DEF TokenMarked
    <3> QED BY <3>1, <3>2
  <2>6. ASSUME NEW i \in DOMAIN accounts'
        PROVE  ComboMarked(reqs', aged', accounts'[i])
    <3>1. ComboMarked(reqs, aged, accounts[i]) /\ accounts[i].ComboToken # r
          /\ (accounts[i].ComboToken # Nobody => reqs'[accounts[i].ComboToken] = reqs[accounts[i].ComboToken])
      BY <2>2, <2>3, TokenOf DEF NobodyAssumption
    <3> QED BY <2>1, <2>3, <3>1, MarkStays DEF ComboMarked
  <2> QED BY <2>4, <2>5, <2>6 DEF TokenInv, At
<1>4. CASE WriteCombo(r)
  <2>1. /\ Go(r, "time") /\ At(r, "v2", "token") /\ held' = held /\ aged' = aged
        /\ accounts' = Updated("AccountID", reqs[r].id, "ComboToken", r)
    BY <1>4 DEF WriteCombo
  <2>2. /\ reqs[r].at = "token" /\ reqs[r].op = "v2"
        /\ \A p \in Requests \ {r} : reqs'[p] = reqs[p]
        /\ reqs'[r].op = "v2" /\ reqs'[r].at = "time" /\ reqs'[r].id = reqs[r].id
    BY <2>1, GoOn DEF At
  <2>3. /\ DOMAIN accounts' = DOMAIN accounts
        /\ \A i \in DOMAIN accounts :
             /\ accounts'[i].AccountID = accounts[i].AccountID
             /\ accounts'[i].Token = accounts[i].Token
             /\ accounts'[i].TokenFresh = accounts[i].TokenFresh
             /\ accounts'[i].ComboToken = IF accounts[i].AccountID = reqs[r].id THEN r
                                          ELSE accounts[i].ComboToken
             /\ accounts'[i].ComboFresh = accounts[i].ComboFresh
    <3>1. "ComboToken" \in Written /\ r \in ValueOf("ComboToken")
      BY DEF Written, ValueOf
    <3> QED BY <2>1, <3>1, FieldsOf
  <2>4. \A h \in held' : /\ reqs'[h.token].op = "login" /\ reqs'[h.token].at = "done"
                         /\ reqs'[h.token].id = h.account
    BY <2>1, <2>2, HeldStays
  <2>5. ASSUME NEW i \in DOMAIN accounts'
        PROVE  ComboMarked(reqs', aged', accounts'[i])
    <3>1. CASE accounts[i].AccountID = reqs[r].id
      BY <2>2, <2>3, <3>1 DEF ComboMarked, MarkedIn
    <3>2. CASE accounts[i].AccountID # reqs[r].id
      <4>1. ComboMarked(reqs, aged, accounts[i]) /\ accounts[i].ComboToken # r
            /\ (accounts[i].ComboToken # Nobody => reqs'[accounts[i].ComboToken] = reqs[accounts[i].ComboToken])
        BY <2>2, <2>3, <3>2, TokenOf DEF NobodyAssumption
      <4> QED BY <2>1, <2>3, <3>2, <4>1, MarkStays DEF ComboMarked
    <3> QED BY <3>1, <3>2
  <2>6. ASSUME NEW i \in DOMAIN accounts'
        PROVE  TokenMarked(reqs', aged', accounts'[i])
    <3>1. TokenMarked(reqs, aged, accounts[i]) /\ accounts[i].Token # r
          /\ (accounts[i].Token # Nobody => reqs'[accounts[i].Token] = reqs[accounts[i].Token])
      BY <2>2, <2>3, TokenOf DEF NobodyAssumption
    <3> QED BY <2>1, <2>3, <3>1, MarkStays DEF TokenMarked
  <2> QED BY <2>4, <2>5, <2>6 DEF TokenInv, At
<1>5. CASE WriteComboTime(r)
  <2>1. /\ Go(r, "done") /\ At(r, "v2", "time") /\ held' = held /\ aged' = aged
        /\ accounts' = Updated("AccountID", reqs[r].id, "ComboFresh", TRUE)
    BY <1>5 DEF WriteComboTime, ComboMade
  <2>2. /\ reqs[r].at = "time" /\ reqs[r].op = "v2"
        /\ \A p \in Requests \ {r} : reqs'[p] = reqs[p]
        /\ reqs'[r].op = "v2" /\ reqs'[r].at = "done" /\ reqs'[r].id = reqs[r].id
    BY <2>1, GoOn DEF At
  <2>3. /\ DOMAIN accounts' = DOMAIN accounts
        /\ \A i \in DOMAIN accounts :
             /\ accounts'[i].AccountID = accounts[i].AccountID
             /\ accounts'[i].Token = accounts[i].Token
             /\ accounts[i].TokenFresh => accounts'[i].TokenFresh
             /\ accounts'[i].ComboToken = accounts[i].ComboToken
             /\ accounts[i].AccountID = reqs[r].id => accounts'[i].ComboFresh
             /\ accounts[i].ComboFresh => accounts'[i].ComboFresh
    BY <2>1, ComboFreshIs
  <2>4. \A h \in held' : /\ reqs'[h.token].op = "login" /\ reqs'[h.token].at = "done"
                         /\ reqs'[h.token].id = h.account
    BY <2>1, <2>2, HeldStays
  <2>5. ASSUME NEW i \in DOMAIN accounts'
        PROVE  ComboMarked(reqs', aged', accounts'[i])
    <3>1. CASE accounts[i].AccountID = reqs[r].id
      <4>1. accounts[i].ComboToken # Nobody =>
              /\ reqs[accounts[i].ComboToken].op = reqs[r].op /\ accounts[i].ComboToken \in Requests
              /\ reqs[accounts[i].ComboToken].at \in {"time", "done", "failed"}
              /\ reqs[accounts[i].ComboToken].id = accounts[i].AccountID
        BY <2>2, <2>3, TokenOf
      <4>2. CASE accounts[i].ComboToken = r
        BY <2>2, <2>3, <3>1, <4>2 DEF ComboMarked, MarkedIn
      <4>3. CASE accounts[i].ComboToken # r
        BY <2>2, <2>3, <3>1, <4>1, <4>3 DEF ComboMarked, MarkedIn
      <4> QED BY <4>2, <4>3
    <3>2. CASE accounts[i].AccountID # reqs[r].id
      <4>1. ComboMarked(reqs, aged, accounts[i]) /\ accounts[i].ComboToken # r
            /\ (accounts[i].ComboToken # Nobody => reqs'[accounts[i].ComboToken] = reqs[accounts[i].ComboToken])
        BY <2>2, <2>3, <3>2, TokenOf DEF NobodyAssumption
      <4> QED BY <2>1, <2>3, <3>2, <4>1, MarkStays DEF ComboMarked
    <3> QED BY <3>1, <3>2
  <2>6. ASSUME NEW i \in DOMAIN accounts'
        PROVE  TokenMarked(reqs', aged', accounts'[i])
    <3>1. TokenMarked(reqs, aged, accounts[i]) /\ accounts[i].Token # r
          /\ (accounts[i].Token # Nobody => reqs'[accounts[i].Token] = reqs[accounts[i].Token])
      BY <2>2, <2>3, TokenOf DEF NobodyAssumption
    <3> QED BY <2>1, <2>3, <3>1, MarkStays DEF TokenMarked
  <2> QED BY <2>4, <2>5, <2>6 DEF TokenInv, At
<1> QED BY <1>1, <1>2, <1>3, <1>4, <1>5

\* A step keeps the tokens marked.
LEMMA TokenNext == ASSUME TypeOK, NobodyAssumption, TokenInv, [Next]_vars PROVE TokenInv'
<1>0. CASE UNCHANGED vars
  BY <1>0 DEF vars, TokenInv, At
<1>1. ASSUME NEW r \in Requests,
             \/ \E n \in Usernames : ApiLogin(r, n)
             \/ \E h \in held : V2Login(r, h)
             \/ RedisExists(r) \/ RedisSet(r) \/ RedisIncr(r)
      PROVE  TokenInv'
  <2>1. PICK q : reqs' = [reqs EXCEPT ![r] = q]
    <3>1. CASE RedisExists(r) \/ RedisSet(r)
      BY <3>1, Zenon DEF RedisExists, RedisSet, Go
    <3>2. CASE RedisIncr(r)
      BY <3>2, Zenon DEF RedisIncr
    <3>3. CASE \E n \in Usernames : ApiLogin(r, n)
      BY <3>3, Zenon DEF ApiLogin
    <3>4. CASE \E h \in held : V2Login(r, h)
      BY <3>4, Zenon DEF V2Login
    <3> QED BY <1>1, <3>1, <3>2, <3>3, <3>4
  <2>2. /\ reqs[r].at \notin {"time", "done", "failed"}
        /\ aged' = aged /\ held' = held /\ accounts' = accounts
    BY <1>1 DEF ApiLogin, V2Login, RedisExists, RedisSet, RedisIncr, At
  <2>3. \A p \in Requests \ {r} : reqs'[p] = reqs[p]
    BY <2>1, OneStep
  <2> QED BY <2>2, <2>3, TokenBefore
<1>2. ASSUME NEW r \in Requests, InsertAccount(r) PROVE TokenInv'
  <2>1. Go(r, "token") /\ held' = held /\ aged' = aged /\ reqs[r].at = "insert"
    BY <1>2 DEF InsertAccount, At
  <2>2. PICK a : accounts' = Append(accounts, a) /\ a.Token = Nobody /\ a.ComboToken = Nobody
    BY <1>2 DEF InsertAccount
  <2>3. \A i \in DOMAIN accounts' :
           \/ i \in DOMAIN accounts /\ accounts'[i] = accounts[i]
           \/ accounts'[i] = a
    BY <2>2 DEF TypeOK
  <2>4. \A p \in Requests \ {r} : reqs'[p] = reqs[p]
    BY <2>1, GoOn
  <2> QED BY <2>1, <2>2, <2>3, <2>4, TokenBefore
<1>3. ASSUME NEW r \in Requests,
             WriteToken(r) \/ WriteTokenTime(r) \/ WriteCombo(r) \/ WriteComboTime(r) \/ DbError(r)
      PROVE  TokenInv'
  BY <1>3, TokenWrites
<1>4. ASSUME Day \/ \E u : UserPasswordChange(u) PROVE TokenInv'
  <2>1. UNCHANGED <<reqs, held>> /\ aged' = TRUE
    BY <1>4 DEF Day, UserPasswordChange
  <2>2. DOMAIN accounts' = DOMAIN accounts
        /\ \A i \in DOMAIN accounts : accounts'[i].AccountID = accounts[i].AccountID
    BY <1>4, WritesKeep
  <2>3. ASSUME NEW i \in DOMAIN accounts
        PROVE  accounts'[i].Token = accounts[i].Token /\ accounts'[i].ComboToken = accounts[i].ComboToken
    <3>1. CASE Day
      <4>1. LET a == [accounts[i] EXCEPT !.ComboFresh = FALSE]
            IN  a.Token = accounts[i].Token /\ a.ComboToken = accounts[i].ComboToken
        BY AccountIs DEF AccountType
      <4> QED BY <3>1, <4>1 DEF Day
    <3>2. CASE \E u : UserPasswordChange(u)
      <4>1. PICK u : accounts' = Updated("PlayerID", u, "TokenFresh", FALSE)
        BY <3>2, Zenon DEF UserPasswordChange
      <4> DEFINE a == [accounts[i] EXCEPT !.TokenFresh = FALSE]
      <4>2. a.Token = accounts[i].Token /\ a.ComboToken = accounts[i].ComboToken
        BY AccountIs DEF AccountType
      <4>3. accounts'[i] = IF accounts[i].PlayerID = u THEN a ELSE accounts[i]
        BY <4>1 DEF Updated
      <4> HIDE DEF a
      <4> QED BY <4>2, <4>3
    <3> QED BY <1>4, <3>1, <3>2
  <2>4. ASSUME NEW i \in DOMAIN accounts'
        PROVE  TokenMarked(reqs', aged', accounts'[i]) /\ ComboMarked(reqs', aged', accounts'[i])
    BY <2>1, <2>2, <2>3, TokenOf DEF TokenMarked, ComboMarked, MarkedIn
  <2> QED BY <2>1, <2>4 DEF TokenInv, At
<1> QED BY <1>0, <1>1, <1>2, <1>3, <1>4 DEF Next

\* With one account under a number, Find returns the one that has the token.
LEMMA TokensOf ==
  ASSUME TypeOK, NobodyAssumption, IdsUnique, TokenInv PROVE TokensGood
<1> SUFFICES ASSUME seeded, ~aged PROVE TokensGood
  BY DEF TokensGood
<1>1. ASSUME NEW i \in DOMAIN accounts
      PROVE  QueryAccountByField("AccountID", accounts[i].AccountID) = accounts[i]
             /\ accounts[i] # Nobody
  <2> DEFINE a == QueryAccountByField("AccountID", accounts[i].AccountID)
  <2>1. a # Nobody /\ \E j \in DOMAIN accounts : accounts[j] = a /\ accounts[j].AccountID = accounts[i].AccountID
    BY QueryIs
  <2> HIDE DEF a
  <2>2. \A j \in DOMAIN accounts : accounts[j].AccountID = accounts[i].AccountID => j = i
    BY DEF IdsUnique
  <2>3. a = accounts[i] /\ accounts[i] # Nobody
    BY <2>1, <2>2
  <2> QED BY <2>3 DEF a
<1>2. ASSUME NEW h \in held, NEW i \in DOMAIN accounts, accounts[i].Token = h.token
      PROVE  ApiVerify(h.account, h.token)
  <2>1. h.token \in Requests /\ h.token # Nobody
    BY DEF TypeOK, AnswerType, NobodyAssumption
  <2>2. reqs[h.token].at = "done" /\ reqs[h.token].id = h.account
    BY DEF TokenInv, At
  <2>3. accounts[i].AccountID = h.account /\ accounts[i].TokenFresh
    BY <1>2, <2>1, <2>2, TokenOf DEF TokenMarked, MarkedIn
  <2> QED BY <1>1, <1>2, <2>3 DEF ApiVerify
<1>3. ASSUME NEW r \in Requests, At(r, "v2", "done"), NEW i \in DOMAIN accounts, accounts[i].ComboToken = r
      PROVE  GateTokenVerify(reqs[r].id, r)
  <2>1. r # Nobody /\ reqs[r].at = "done"
    BY <1>3 DEF NobodyAssumption, At
  <2>2. accounts[i].AccountID = reqs[r].id /\ accounts[i].ComboFresh
    BY <1>3, <2>1, TokenOf DEF ComboMarked, MarkedIn
  <2> QED BY <1>1, <1>3, <2>2 DEF GateTokenVerify
<1> QED BY <1>2, <1>3 DEF TokensGood

\* What a client was given stays good: apiVerify takes its token, and gateTokenVerify its combo
\* token, until a later one replaces it, a day goes by or a password is changed, whatever
\* requests run meanwhile and wherever they fail.
THEOREM TokensCorrect == ASSUME NobodyAssumption PROVE Spec => []TokensGood
<1>1. Init => TokenInv
  BY DEF Init, TokenInv
<1>2. TypeOK /\ TokenInv /\ [Next]_vars => TokenInv'
  BY TokenNext
<1>3. TypeOK /\ IdsUnique /\ TokenInv => TokensGood
  BY TokensOf
<1> QED BY <1>1, <1>2, <1>3, TypeCorrect, IdsCorrect, PTL DEF Spec
=============================================================================
