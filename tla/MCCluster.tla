------------------------------ MODULE MCCluster ------------------------------
(***************************************************************************)
(* What lies between the processes of the cluster, on small instances: the *)
(* register of servers, the message queue, the transport of a gate,        *)
(* friends and chat between two game servers, accounts.  A behaviour runs  *)
(* one part, chosen at the start, on variables that the parts share.       *)
(***************************************************************************)
EXTENDS Discovery, Integers, TLC

CONSTANTS s1, s2, g1, c1, o1, p1, p2, r1, r2, r3, n1, Nowhere

CONSTANTS SnMod, FirstSns, Window, MaxFrg, MaxPayload, MaxSent, MaxNet   \* of Kcp

VARIABLES
  part,                                     \* the part that is explored
  v1, v2, v3, v4, v5, v6, v7, v8, v9, v10,  \* its variables, in the order it lists them
  v11, v12, v13, v14,                       \* (Discovery's keep their names)
  written, dropped, sndQueue, sndBuf, sndUna, sndNxt, rmtWnd, cwnd, rcvBuf, rcvQueue, rcvNxt,
  askTell, read, net                        \* Kcp's

\* The variables that a part of seven, ten, eleven variables has no use for.
After11 == <<v12, v13, v14>>
After10 == <<v11, After11>>
After7 == <<v8, v9, v10, After10>>
Registers == <<v1, v2, v3, v4, v5, v6, v7, After7>>
Unused11 == v12 = 0 /\ v13 = 0 /\ v14 = 0
Unused10 == v11 = 0 /\ Unused11
Unused7 == v8 = 0 /\ v9 = 0 /\ v10 = 0 /\ Unused10
Unused0 ==
  /\ v1 = 0 /\ v2 = 0 /\ v3 = 0 /\ v4 = 0 /\ v5 = 0 /\ v6 = 0 /\ v7 = 0 /\ Unused7
StreamVars ==
  <<written, dropped, sndQueue, sndBuf, sndUna, sndNxt, rmtWnd, cwnd, rcvBuf, rcvQueue, rcvNxt,
    askTell, read, net>>
NoStream ==
  /\ written = 0 /\ dropped = 0 /\ sndQueue = 0 /\ sndBuf = 0 /\ sndUna = 0 /\ sndNxt = 0
  /\ rmtWnd = 0 /\ cwnd = 0 /\ rcvBuf = 0 /\ rcvQueue = 0 /\ rcvNxt = 0 /\ askTell = 0 /\ read = 0
  /\ net = 0
ClusterVars == <<part, vars, Registers, StreamVars>>

\* Servers are interchangeable.
Symmetry == Permutations({s1, s2})
-----------------------------------------------------------------------------
\* Two game servers, a gate and another server that start and stop; a node that is restarted.
GateVersions == g1 :> {"3.2"}
ASSUME DiscoveryAssumption

\* A game server and a gate, two messages each way, two connections of which one breaks.
Queue == INSTANCE MessageQueueProofs WITH
  MaxMsgs <- 2, MaxConns <- 2, MaxBreaks <- 1, DeadCap <- 2,
  queued <- v1, handled <- v2, events <- v3, registered <- v4, deadEvents <- v5,
  addrKnown <- v6, conns <- v7, bus <- v8, got <- v9, breaks <- v10, coalesced <- v11
ASSUME Queue!QueueAssumption

\* Two messages of up to three segments, numbers that wrap at sixteen, two packets at a time.
Stream == INSTANCE Kcp WITH MaxMsgs <- MaxSent
ASSUME Stream!KcpAssumption

\* One client, two conversations, three sockets.
Listen == INSTANCE KcpListenerProofs WITH
  Clients <- {c1}, Backlog <- 1, MaxConvs <- 2, MaxSocks <- 3, MaxPackets <- 2,
  client <- v1, convs <- v2, socks <- v3, sessions <- v4, accepts <- v5, registered <- v6,
  connNum <- v7, openState <- v8, packets <- v9, raced <- v10
ASSUME Listen!ListenerAssumption

\* Two players and two game servers: many logins and a friendship, a few and two applications
\* at once, or a few and messages.
Budget(l, k, d, t, r) == [logins |-> l, asks |-> k, deals |-> d, said |-> t, reads |-> r]
SocialBudgets ==
  {Budget(3, 1, 2, 0, 0), Budget(2, 2, 2, 0, 0),
   Budget(3, 0, 0, 2, 0), Budget(2, 0, 0, 3, 0), Budget(2, 0, 0, 1, 1)}
Friends == INSTANCE SocialProofs WITH
  Players <- {p1, p2}, Servers <- {s1, s2}, Nowhere <- Nowhere, MaxMsgListLen <- 1, MaxQuery <- 1,
  Budgets <- SocialBudgets,
  at <- v1, stage <- v2, friends <- v3, applies <- v4, knows <- v5, mail <- v6, said <- v7,
  list <- v8, isRead <- v9, writes <- v10, chatMsg <- v11, lost <- v12, missed <- v13, left <- v14
ASSUME Friends!SocialAssumption

\* Three requests under one name; one failure, change of password or day that goes by.
Sdk == INSTANCE AccountsProofs WITH
  Requests <- {r1, r2, r3}, Usernames <- {n1}, Nobody <- Nowhere, MaxEvents <- 1,
  redis <- v1, accounts <- v2, reqs <- v3, held <- v4, seeded <- v5, aged <- v6, used <- v7
ASSUME Sdk!NobodyAssumption
-----------------------------------------------------------------------------
ClusterInit ==
  /\ Init
  /\ \/ part = "nodes" /\ Unused0 /\ NoStream
     \/ part = "queue" /\ Queue!Init /\ Unused11 /\ NoStream
     \/ part = "stream" /\ Stream!Init /\ Unused0
     \/ part = "listen" /\ Listen!Init /\ Unused10 /\ NoStream
     \/ part = "friends" /\ Friends!Init /\ NoStream
     \/ part = "sdk" /\ Sdk!Init /\ Unused7 /\ NoStream

ClusterNext ==
  \/ part = "nodes" /\ Next /\ UNCHANGED <<part, Registers, StreamVars>>
  \/ part = "queue" /\ Queue!Next /\ UNCHANGED <<part, vars, After11, StreamVars>>
  \/ part = "stream" /\ Stream!Next /\ UNCHANGED <<part, vars, Registers>>
  \/ part = "listen" /\ Listen!Next /\ UNCHANGED <<part, vars, After10, StreamVars>>
  \/ part = "friends" /\ Friends!Next /\ UNCHANGED <<part, vars, StreamVars>>
  \/ part = "sdk" /\ Sdk!Next /\ UNCHANGED <<part, vars, After7, StreamVars>>
ClusterSpec == ClusterInit /\ [][ClusterNext]_ClusterVars
-----------------------------------------------------------------------------
\* MessageQueue: a message never arrives twice, and is lost only with a broken connection or
\* a greeting that was read together with a message; the goroutine that connects and the one
\* that sends agree on who is connected.
OneWay == part = "queue" => Queue!TypeOK /\ Queue!OneWay /\ Queue!AddrMapAgrees
\* Kcp: what the application reads is what was written, and the sender gives a segment up
\* only when the receiver has it.
Fifo == part = "stream" => Stream!Fifo /\ Stream!NothingForgotten /\ Stream!NeverFull
\* KcpListener: the table holds exactly the live sessions, and the load a gate reports is the
\* number of its open connections.
TableAgrees == part = "listen" => Listen!TypeOK /\ Listen!TableAgrees /\ Listen!ConnNumAgrees
\* Social: two players are friends of each other or of none.
FriendsMutual == part = "friends" => Friends!PeopleOK /\ Friends!FriendsMutual
\* Social: a chat message is in the lists of both, unless newer or late ones pushed it out.
ChatComplete == part = "friends" => Friends!TypeOK /\ Friends!ChatComplete
\* Accounts: two accounts never have an id in common, and a name keeps its account.
IdsUnique == part = "sdk" => Sdk!TypeOK /\ Sdk!IdsUnique /\ Sdk!NameKeepsAccount
\* Accounts: a token that no later one replaced is good until a day goes by.
TokensGood == part = "sdk" => Sdk!TokensGood
=============================================================================
