-------------------------- MODULE MessageQueueProofs --------------------------
(* Proofs about MessageQueue, for any number of messages and connections.   *)
EXTENDS MessageQueue, FiniteSetTheorems, TLAPS

-----------------------------------------------------------------------------
(* Sequences and what they hold.                                           *)

\* Nothing is in a sequence twice.
Distinct(s) == \A i, j \in 1 .. Len(s) : i # j => s[i] # s[j]

\* What is appended is in the sequence, next to what was.
LEMMA AppendItems ==
  ASSUME NEW T, NEW s \in Seq(T), NEW x \in T
  PROVE  /\ Items(Append(s, x)) = Items(s) \cup {x} /\ Append(s, x) # << >>
         /\ Append(s, x) \in Seq(T) /\ Len(Append(s, x)) = Len(s) + 1
         /\ Append(s, x)[Len(s) + 1] = x
         /\ \A i \in 1 .. Len(s) : Append(s, x)[i] = s[i]
         /\ Distinct(s) /\ x \notin Items(s) => Distinct(Append(s, x))
<1>1. /\ Append(s, x) \in Seq(T) /\ Len(s) \in Nat /\ Len(Append(s, x)) = Len(s) + 1
      /\ Append(s, x)[Len(s) + 1] = x /\ DOMAIN s = 1 .. Len(s)
      /\ DOMAIN Append(s, x) = 1 .. Len(s) + 1
      /\ \A i \in 1 .. Len(s) : Append(s, x)[i] = s[i]
  OBVIOUS
<1> DEFINE t == Append(s, x)
<1> HIDE DEF t
<1>2. \A i \in 1 .. Len(s) + 1 : i = Len(s) + 1 \/ i \in 1 .. Len(s)
  BY <1>1
<1>3. Items(t) = Items(s) \cup {x}
  <2>1. Len(s) + 1 \in 1 .. Len(s) + 1 /\ \A i \in 1 .. Len(s) : i \in 1 .. Len(s) + 1
    BY <1>1
  <2> QED BY <1>1, <1>2, <2>1 DEF Items, t
<1>4. Distinct(s) /\ x \notin Items(s) => Distinct(t)
  BY <1>1, <1>2 DEF Distinct, Items, t
<1>5. t # << >>
  BY <1>1 DEF t
<1> QED BY <1>1, <1>3, <1>4, <1>5 DEF t

\* What is left when the head is taken.
LEMMA TailItems ==
  ASSUME NEW T, NEW s \in Seq(T), s # << >>
  PROVE  /\ Tail(s) \in Seq(T) /\ Head(s) \in T /\ Head(s) \in Items(s) /\ Head(s) = s[1]
         /\ Len(Tail(s)) = Len(s) - 1 /\ Len(s) \in Nat \ {0}
         /\ \A i \in 1 .. Len(Tail(s)) : Tail(s)[i] = s[i + 1]
         /\ Items(s) = Items(Tail(s)) \cup {Head(s)}
         /\ Distinct(s) => Distinct(Tail(s)) /\ Head(s) \notin Items(Tail(s))
<1>1. /\ Tail(s) \in Seq(T) /\ Head(s) \in T /\ Head(s) = s[1] /\ Len(s) \in Nat \ {0}
      /\ Len(Tail(s)) = Len(s) - 1 /\ DOMAIN s = 1 .. Len(s) /\ DOMAIN Tail(s) = 1 .. Len(s) - 1
      /\ \A i \in 1 .. Len(s) - 1 : Tail(s)[i] = s[i + 1]
  OBVIOUS
<1> DEFINE t == Tail(s)
           h == Head(s)
<1> HIDE DEF t, h
<1>2. \A i \in 1 .. Len(s) : i = 1 \/ i - 1 \in 1 .. Len(s) - 1
  BY <1>1
<1>3. \A i \in 1 .. Len(s) - 1 : i + 1 \in 1 .. Len(s) /\ i + 1 # 1 /\ (i + 1) - 1 = i
  BY <1>1
<1>4. 1 \in 1 .. Len(s)
  BY <1>1
<1>5. Items(s) = Items(t) \cup {h} /\ h \in Items(s)
  <2>1. \A i \in 1 .. Len(s) : i = 1 \/ s[i] = t[i - 1]
    <3>1. \A i \in 1 .. Len(s) : i = (i - 1) + 1
      BY <1>1
    <3> QED BY <1>1, <1>2, <3>1 DEF t
  <2>2. DOMAIN t = 1 .. Len(s) - 1 /\ s[1] = h
    BY <1>1 DEF t, h
  <2>3. \A i \in DOMAIN t : t[i] = s[i + 1]
    BY <1>1, <2>2 DEF t
  <2>4. ASSUME NEW x \in Items(s) PROVE x \in Items(t) \cup {h}
    BY <1>1, <1>2, <2>1, <2>2 DEF Items
  <2>5. h \in Items(s)
    BY <1>1, <1>4, <2>2 DEF Items
  <2>6. ASSUME NEW x \in Items(t) PROVE x \in Items(s)
    BY <1>1, <1>3, <2>2, <2>3 DEF Items
  <2> QED BY <2>4, <2>5, <2>6
<1>6. Distinct(s) => Distinct(t) /\ h \notin Items(t)
  <2>1. \A i, j \in 1 .. Len(s) - 1 : i # j => i + 1 # j + 1
    BY <1>1
  <2> QED BY <1>1, <1>3, <1>4, <2>1 DEF Items, Distinct, t, h
<1> QED BY <1>1, <1>5, <1>6 DEF t, h

\* An empty sequence holds nothing.
LEMMA NoItems == Items(<< >>) = {} /\ Distinct(<< >>)
BY DEF Items, Distinct
-----------------------------------------------------------------------------
(* Types.                                                                  *)

\* A connection there is.
LEMMA ConnIs ==
  ASSUME TypeOK, NEW c \in ConnIds
  PROVE  /\ conns[c] \in ConnType
         /\ conns[c].open \in [Ends -> BOOLEAN] /\ conns[c].reader \in [Ends -> BOOLEAN]
         /\ conns[c].greeted \in BOOLEAN /\ conns[c].broken \in BOOLEAN
         /\ conns[c].pipe \in [Ends -> Seq(Msgs \cup {Hello})]
         /\ DOMAIN conns = ConnIds /\ Len(conns) \in Nat
<1>1. conns[c] \in ConnType /\ DOMAIN conns = ConnIds /\ Len(conns) \in Nat
  BY DEF TypeOK, ConnIds
<1> QED BY <1>1 DEF ConnType

\* The other end is an end.
LEMMA OtherEnd ==
  ASSUME NEW e \in Ends
  PROVE  Other(e) \in Ends /\ Other(e) # e /\ Other(Other(e)) = e /\ Ends = {e, Other(e)}
BY DEF Ends, Other

\* One connection is written: what each of its fields becomes.
Becomes(c, open, reader, pipe) ==
  /\ conns' \in Seq(ConnType) /\ ConnIds' = ConnIds /\ Len(conns') = Len(conns)
  /\ conns'[c].open = open /\ conns'[c].reader = reader /\ conns'[c].pipe = pipe
  /\ \A d \in ConnIds \ {c} : conns'[d] = conns[d]

\* It is, if what is written is a connection.
LEMMA ConnWrite ==
  ASSUME TypeOK, NEW c \in ConnIds, NEW r \in ConnType, conns' = [conns EXCEPT ![c] = r]
  PROVE  Becomes(c, r.open, r.reader, r.pipe) /\ conns'[c] = r
<1>1. conns \in Seq(ConnType) /\ DOMAIN conns = ConnIds /\ ConnIds = 1 .. Len(conns) /\ Len(conns) \in Nat
  BY DEF TypeOK, ConnIds
<1>2. conns' \in Seq(ConnType) /\ Len(conns') = Len(conns)
  BY <1>1
<1> QED BY <1>1, <1>2 DEF Becomes, ConnIds

\* A message goes into a connection's pipe.
LEMMA PipeGrows ==
  ASSUME TypeOK, NEW c \in ConnIds, NEW e \in Ends, NEW s \in Seq(Msgs \cup {Hello}),
         conns' = [conns EXCEPT ![c].pipe[e] = s]
  PROVE  /\ Becomes(c, conns[c].open, conns[c].reader, [conns[c].pipe EXCEPT ![e] = s])
         /\ conns'[c].greeted <=> conns[c].greeted
         /\ conns'[c].broken <=> conns[c].broken
<1> DEFINE r == [conns[c] EXCEPT !.pipe = [@ EXCEPT ![e] = s]]
<1>1. /\ r \in ConnType /\ r.open = conns[c].open /\ r.reader = conns[c].reader
      /\ r.pipe = [conns[c].pipe EXCEPT ![e] = s]
      /\ r.greeted <=> conns[c].greeted
      /\ r.broken <=> conns[c].broken
  BY ConnIs DEF ConnType
<1>2. conns' = [conns EXCEPT ![c] = r]
  OBVIOUS
<1> HIDE DEF r
<1>3. Becomes(c, r.open, r.reader, r.pipe) /\ conns'[c] = r
  BY <1>1, <1>2, ConnWrite
<1>4. /\ conns'[c].greeted <=> conns[c].greeted
      /\ conns'[c].broken <=> conns[c].broken
  BY <1>1, <1>3
<1> QED BY <1>1, <1>3, <1>4

\* An end is closed.
LEMMA EndCloses ==
  ASSUME TypeOK, NEW c \in ConnIds, NEW e \in Ends,
         conns' = [conns EXCEPT ![c].open[e] = FALSE]
  PROVE  /\ Becomes(c, [conns[c].open EXCEPT ![e] = FALSE], conns[c].reader, conns[c].pipe)
         /\ conns'[c].greeted <=> conns[c].greeted
         /\ conns'[c].broken <=> conns[c].broken
<1> DEFINE o == [conns[c].open EXCEPT ![e] = FALSE]
           r == [conns[c] EXCEPT !.open = [@ EXCEPT ![e] = FALSE]]
<1>1. /\ r \in ConnType /\ r.open = o
      /\ r.reader = conns[c].reader /\ r.pipe = conns[c].pipe
      /\ r.greeted <=> conns[c].greeted
      /\ r.broken <=> conns[c].broken
  BY ConnIs DEF ConnType
<1>2. conns' = [conns EXCEPT ![c] = r]
  OBVIOUS
<1> HIDE DEF r, o
<1>3. Becomes(c, r.open, r.reader, r.pipe) /\ conns'[c] = r
  BY <1>1, <1>2, ConnWrite
<1>4. /\ conns'[c].greeted <=> conns[c].greeted
      /\ conns'[c].broken <=> conns[c].broken
  BY <1>1, <1>3
<1>5. Becomes(c, o, conns[c].reader, conns[c].pipe)
  BY <1>1, <1>3
<1> QED BY <1>4, <1>5 DEF o

\* A reader ends, and closes its end.
LEMMA ReaderEnds ==
  ASSUME TypeOK, NEW c \in ConnIds, NEW e \in Ends,
         conns' = [conns EXCEPT ![c].open[e] = FALSE, ![c].reader[e] = FALSE]
  PROVE  /\ Becomes(c, [conns[c].open EXCEPT ![e] = FALSE],
                       [conns[c].reader EXCEPT ![e] = FALSE], conns[c].pipe)
         /\ conns'[c].greeted <=> conns[c].greeted
         /\ conns'[c].broken <=> conns[c].broken
<1> DEFINE o == [conns[c].open EXCEPT ![e] = FALSE]
           k == [conns[c].reader EXCEPT ![e] = FALSE]
           q == [conns[c] EXCEPT !.open = [@ EXCEPT ![e] = FALSE]]
           r == [q EXCEPT !.reader = [@ EXCEPT ![e] = FALSE]]
<1>1. /\ q \in ConnType /\ q.open = o
      /\ q.reader = conns[c].reader /\ q.pipe = conns[c].pipe
      /\ q.greeted <=> conns[c].greeted
      /\ q.broken <=> conns[c].broken
  BY ConnIs DEF ConnType
<1>2. /\ r \in ConnType /\ r.open = q.open /\ r.reader = [q.reader EXCEPT ![e] = FALSE]
      /\ r.pipe = q.pipe
      /\ r.greeted <=> q.greeted
      /\ r.broken <=> q.broken
  <2> HIDE DEF q
  <2> QED BY <1>1 DEF ConnType
<1>3. conns' = [conns EXCEPT ![c] = r]
  <2>1. c \in DOMAIN conns
    BY ConnIs
  <2> QED BY <2>1
<1>4. r.reader = k
  BY <1>1, <1>2
<1> HIDE DEF q, r, o, k
<1>5. Becomes(c, r.open, r.reader, r.pipe) /\ conns'[c] = r
  BY <1>2, <1>3, ConnWrite
<1>6. /\ conns'[c].greeted <=> conns[c].greeted
      /\ conns'[c].broken <=> conns[c].broken
  BY <1>1, <1>2, <1>5
<1>7. Becomes(c, o, k, conns[c].pipe)
  BY <1>1, <1>2, <1>4, <1>5
<1> QED BY <1>6, <1>7 DEF o, k

\* The gate reads a greeting, and what it leaves of the pipe.
LEMMA Greets ==
  ASSUME TypeOK, NEW c \in ConnIds, GateTcpMqHandshake(c) \/ HandshakeRefused(c)
  PROVE  \E reader \in [Ends -> BOOLEAN], s \in Seq(Msgs \cup {Hello}) :
           /\ Becomes(c, conns[c].open, reader, [conns[c].pipe EXCEPT !["gs"] = s])
           /\ reader["gs"] <=> conns[c].reader["gs"]
           /\ conns'[c].greeted
           /\ conns'[c].broken <=> conns[c].broken
           /\ \/ GateTcpMqHandshake(c) /\ s = Tail(conns[c].pipe["gs"])
              \/ HandshakeRefused(c) /\ s = << >>
<1>0. /\ "gs" \in Ends /\ "gate" \in Ends /\ c \in DOMAIN conns /\ conns[c].pipe["gs"] # << >>
      /\ conns[c].pipe["gs"] \in Seq(Msgs \cup {Hello})
  <2>1. "gs" \in Ends /\ "gate" \in Ends
    BY DEF Ends
  <2>2. conns[c].pipe["gs"] # << >>
    BY DEF GateTcpMqHandshake, HandshakeRefused, Awaiting
  <2> QED BY <2>1, <2>2, ConnIs
<1> DEFINE s == Tail(conns[c].pipe["gs"])
           g == [conns[c].reader EXCEPT !["gate"] = TRUE]
           p == [conns[c].pipe EXCEPT !["gs"] = s]
           n == [conns[c].pipe EXCEPT !["gs"] = << >>]
           q == [conns[c] EXCEPT !.greeted = TRUE]
<1>1. /\ q \in ConnType /\ q.open = conns[c].open /\ q.reader = conns[c].reader
      /\ q.pipe = conns[c].pipe /\ q.greeted
      /\ q.broken <=> conns[c].broken
  BY ConnIs DEF ConnType
<1>2. ASSUME GateTcpMqHandshake(c)
      PROVE  /\ Becomes(c, conns[c].open, g, p)
             /\ conns'[c].greeted
             /\ conns'[c].broken <=> conns[c].broken
             /\ s \in Seq(Msgs \cup {Hello})
  <2> DEFINE h == [q EXCEPT !.reader = [@ EXCEPT !["gate"] = TRUE]]
             k == [h EXCEPT !.posting = TRUE]
             r == [k EXCEPT !.pipe = [@ EXCEPT !["gs"] = s]]
  <2>0. /\ h \in ConnType /\ h.open = q.open /\ h.reader = [q.reader EXCEPT !["gate"] = TRUE]
        /\ h.pipe = q.pipe
        /\ h.greeted <=> q.greeted
        /\ h.broken <=> q.broken
    <3> HIDE DEF q
    <3> QED BY <1>0, <1>1 DEF ConnType
  <2>1. /\ k \in ConnType /\ k.open = q.open /\ k.reader = [q.reader EXCEPT !["gate"] = TRUE]
        /\ k.pipe = q.pipe
        /\ k.greeted <=> q.greeted
        /\ k.broken <=> q.broken
    <3> HIDE DEF h, q
    <3> QED BY <2>0 DEF ConnType
  <2>2. s \in Seq(Msgs \cup {Hello})
    BY <1>0
  <2>3. /\ r \in ConnType /\ r.open = k.open /\ r.reader = k.reader
        /\ r.pipe = [k.pipe EXCEPT !["gs"] = s]
        /\ r.greeted <=> k.greeted
        /\ r.broken <=> k.broken
    <3> HIDE DEF k, s
    <3> QED BY <1>0, <2>1, <2>2 DEF ConnType
  <2>4. conns' = [conns EXCEPT ![c] = r]
    BY <1>2, <1>0 DEF GateTcpMqHandshake
  <2>5. r.reader = g /\ r.pipe = p
    BY <1>1, <2>1, <2>3
  <2> HIDE DEF q, h, k, r, s, g, p
  <2>6. Becomes(c, r.open, r.reader, r.pipe) /\ conns'[c] = r
    BY <2>3, <2>4, ConnWrite
  <2>7. conns'[c].greeted /\ (conns'[c].broken <=> conns[c].broken)
    BY <1>1, <2>1, <2>3, <2>6
  <2>8. Becomes(c, conns[c].open, g, p)
    BY <1>1, <2>1, <2>3, <2>5, <2>6
  <2> QED BY <2>2, <2>7, <2>8
<1>3. ASSUME HandshakeRefused(c)
      PROVE  /\ Becomes(c, conns[c].open, conns[c].reader, n)
             /\ conns'[c].greeted
             /\ conns'[c].broken <=> conns[c].broken
  <2> DEFINE r == [q EXCEPT !.pipe = [@ EXCEPT !["gs"] = << >>]]
  <2>1. /\ r \in ConnType /\ r.open = q.open /\ r.reader = q.reader
        /\ r.pipe = [q.pipe EXCEPT !["gs"] = << >>]
        /\ r.greeted <=> q.greeted
        /\ r.broken <=> q.broken
    <3> HIDE DEF q
    <3>1. << >> \in Seq(Msgs \cup {Hello})
      OBVIOUS
    <3> QED BY <1>0, <1>1, <3>1 DEF ConnType
  <2>2. conns' = [conns EXCEPT ![c] = r]
    BY <1>3, <1>0 DEF HandshakeRefused
  <2>3. r.pipe = n
    BY <1>1, <2>1
  <2> HIDE DEF q, r, n
  <2>4. Becomes(c, r.open, r.reader, r.pipe) /\ conns'[c] = r
    BY <2>1, <2>2, ConnWrite
  <2>5. conns'[c].greeted /\ (conns'[c].broken <=> conns[c].broken)
    BY <1>1, <2>1, <2>4
  <2>6. Becomes(c, conns[c].open, conns[c].reader, n)
    BY <1>1, <2>1, <2>3, <2>4
  <2> QED BY <2>5, <2>6
<1>4. g \in [Ends -> BOOLEAN] /\ (g["gs"] <=> conns[c].reader["gs"])
  BY <1>0, ConnIs
<1>5. /\ conns[c].reader \in [Ends -> BOOLEAN]
      /\ << >> \in Seq(Msgs \cup {Hello})
      /\ s \in Seq(Msgs \cup {Hello})
  BY <1>0, ConnIs
<1> HIDE DEF s, g
<1> QED BY <1>2, <1>3, <1>4, <1>5 DEF p, n, s

\* The handshake posts its event: nothing else of the connection changes.
LEMMA Posts ==
  ASSUME TypeOK, NEW c \in ConnIds, PostConnect(c)
  PROVE  /\ Becomes(c, conns[c].open, conns[c].reader, conns[c].pipe)
         /\ conns'[c].greeted <=> conns[c].greeted
         /\ conns'[c].broken <=> conns[c].broken
<1> DEFINE r == [conns[c] EXCEPT !.posting = FALSE]
<1>1. /\ r \in ConnType /\ r.open = conns[c].open /\ r.reader = conns[c].reader
      /\ r.pipe = conns[c].pipe
      /\ r.greeted <=> conns[c].greeted
      /\ r.broken <=> conns[c].broken
  BY ConnIs DEF ConnType
<1>2. conns' = [conns EXCEPT ![c] = r]
  BY ConnIs DEF PostConnect
<1> HIDE DEF r
<1>3. Becomes(c, r.open, r.reader, r.pipe) /\ conns'[c] = r
  BY <1>1, <1>2, ConnWrite
<1> QED BY <1>1, <1>3

\* What is left of the pipes of a connection that breaks.
Left(c, gone) == [e \in Ends |-> IF e \in gone THEN << >> ELSE conns[c].pipe[e]]

\* A connection breaks, and what was in it is lost, or some of it, or nothing.
LEMMA Breaks ==
  ASSUME TypeOK, NEW c \in ConnIds, Break(c)
  PROVE  \E gone \in SUBSET Ends :
           /\ Becomes(c, conns[c].open, conns[c].reader, Left(c, gone))
           /\ conns'[c].greeted <=> conns[c].greeted
           /\ conns'[c].broken
<1>1. PICK gone \in SUBSET Ends :
        conns' = [conns EXCEPT ![c] = [[conns[c] EXCEPT !.broken = TRUE] EXCEPT !.pipe = Left(c, gone)]]
  BY ConnIs DEF Break, Left
<1> DEFINE p == Left(c, gone)
           q == [conns[c] EXCEPT !.broken = TRUE]
           r == [q EXCEPT !.pipe = p]
<1>2. /\ q \in ConnType /\ q.open = conns[c].open /\ q.reader = conns[c].reader /\ q.broken
      /\ q.greeted <=> conns[c].greeted
  BY ConnIs DEF ConnType
<1>3. p \in [Ends -> Seq(Msgs \cup {Hello})]
  <2>1. << >> \in Seq(Msgs \cup {Hello}) /\ conns[c].pipe \in [Ends -> Seq(Msgs \cup {Hello})]
    BY ConnIs
  <2> QED BY <2>1, Zenon DEF Left
<1>4. /\ r \in ConnType /\ r.open = q.open /\ r.reader = q.reader /\ r.pipe = p
      /\ r.greeted <=> q.greeted
      /\ r.broken <=> q.broken
  <2> HIDE DEF q, p
  <2> QED BY <1>2, <1>3 DEF ConnType
<1>5. conns' = [conns EXCEPT ![c] = r]
  BY <1>1
<1> HIDE DEF p, q, r
<1>6. Becomes(c, r.open, r.reader, r.pipe) /\ conns'[c] = r
  BY <1>4, <1>5, ConnWrite
<1>7. conns'[c].broken /\ (conns'[c].greeted <=> conns[c].greeted)
  BY <1>2, <1>4, <1>6
<1>8. Becomes(c, conns[c].open, conns[c].reader, p)
  BY <1>2, <1>4, <1>6
<1> QED BY <1>7, <1>8 DEF p

\* A connection is dialled.
LEMMA ConnAdded ==
  ASSUME TypeOK, GateTcpMqConn
  PROVE  /\ conns' \in Seq(ConnType) /\ Len(conns') = Len(conns) + 1
         /\ Len(conns) + 1 \notin ConnIds /\ ConnIds' = ConnIds \cup {Len(conns) + 1}
         /\ conns'[Len(conns) + 1] = NewConn /\ \A c \in ConnIds : conns'[c] = conns[c]
         /\ NewConn.reader["gs"] /\ NewConn.open["gs"] /\ NewConn.open["gate"] /\ ~NewConn.reader["gate"]
         /\ NewConn.pipe["gs"] = <<Hello>> /\ NewConn.pipe["gate"] = << >>
         /\ ~NewConn.greeted /\ ~NewConn.broken
<1>1. NewConn \in ConnType
  <2>1. [e \in Ends |-> IF e = "gs" THEN <<Hello>> ELSE <<>>] \in [Ends -> Seq(Msgs \cup {Hello})]
    <3>1. <<Hello>> \in Seq(Msgs \cup {Hello}) /\ << >> \in Seq(Msgs \cup {Hello})
      OBVIOUS
    <3> QED BY <3>1
  <2>2. [e \in Ends |-> TRUE] \in [Ends -> BOOLEAN] /\ [e \in Ends |-> e = "gs"] \in [Ends -> BOOLEAN]
    BY Zenon
  <2> QED BY <2>1, <2>2 DEF NewConn, ConnType
<1>2. conns \in Seq(ConnType) /\ Len(conns) \in Nat /\ conns' = Append(conns, NewConn)
  BY DEF TypeOK, GateTcpMqConn
<1>3. /\ NewConn.reader["gs"] /\ NewConn.open["gs"] /\ NewConn.open["gate"] /\ ~NewConn.reader["gate"]
      /\ NewConn.pipe["gs"] = <<Hello>> /\ NewConn.pipe["gate"] = << >>
      /\ ~NewConn.greeted /\ ~NewConn.broken
  BY DEF NewConn, Ends
<1> HIDE DEF NewConn
<1>4. conns' \in Seq(ConnType) /\ Len(conns') = Len(conns) + 1
  BY <1>1, <1>2
<1>5. conns'[Len(conns) + 1] = NewConn /\ \A c \in 1 .. Len(conns) : conns'[c] = conns[c]
  BY <1>2
<1> QED BY <1>2, <1>3, <1>4, <1>5 DEF ConnIds

\* An end reports the end of a connection.
LEMMA Reported ==
  ASSUME TypeOK, NEW e \in Ends, NEW c \in ConnIds, Disconnect(e, c)
  PROVE  /\ events' \in [Ends -> Seq(EventType)]
         /\ events' = [events EXCEPT ![e] = Append(events[e], Event("disconnect", c))]
         /\ events[e] \in Seq(EventType) /\ Event("disconnect", c) \in EventType
<1>1. Event("disconnect", c) \in EventType
  BY DEF Event, EventType
<1>2. events \in [Ends -> Seq(EventType)] /\ events[e] \in Seq(EventType)
  BY DEF TypeOK
<1>3. Append(events[e], Event("disconnect", c)) \in Seq(EventType)
  BY <1>1, <1>2
<1> QED BY <1>1, <1>2, <1>3 DEF Disconnect

\* The sending goroutine takes the next message.
LEMMA Taken ==
  ASSUME QueueAssumption, TypeOK, NEW e \in Ends, Take(e)
  PROVE  /\ handled' \in [Ends -> 0 .. MaxMsgs] /\ handled'[e] \in Msgs
         /\ handled'[e] = handled[e] + 1 /\ handled'[Other(e)] = handled[Other(e)]
         /\ handled[e] \in Nat /\ handled[Other(e)] \in Nat
         /\ UNCHANGED <<queued, registered, deadEvents, addrKnown, got, breaks, coalesced>>
<1>1. handled[e] \in 0 .. MaxMsgs /\ queued[e] \in 0 .. MaxMsgs /\ handled[e] < queued[e]
      /\ handled[Other(e)] \in 0 .. MaxMsgs
  BY OtherEnd DEF TypeOK, Take
<1>2. handled' = [handled EXCEPT ![e] = handled[e] + 1]
      /\ UNCHANGED <<queued, registered, deadEvents, addrKnown, got, breaks, coalesced>>
  BY DEF Take
<1>3. handled[e] + 1 \in 1 .. MaxMsgs /\ handled[e] + 1 \in 0 .. MaxMsgs
  BY <1>1 DEF QueueAssumption
<1> QED BY <1>1, <1>2, <1>3, OtherEnd DEF TypeOK, Msgs

\* It publishes a message.
LEMMA Published ==
  ASSUME TypeOK, NEW e \in Ends, NEW m \in Msgs, Publish(e, m)
  PROVE  /\ bus' \in [Ends -> Seq(Msgs)] /\ bus'[e] = Append(bus[e], m)
         /\ bus'[Other(e)] = bus[Other(e)] /\ bus[e] \in Seq(Msgs)
<1>1. bus \in [Ends -> Seq(Msgs)] /\ bus[e] \in Seq(Msgs) /\ Append(bus[e], m) \in Seq(Msgs)
  BY DEF TypeOK
<1> QED BY <1>1, OtherEnd DEF Publish

\* What FallbackNatsMqSend does.
LEMMA FallbackIs ==
  ASSUME QueueAssumption, TypeOK, NEW e \in Ends, FallbackNatsMqSend(e)
  PROVE  TypeOK'
<1>1. handled' \in [Ends -> 0 .. MaxMsgs] /\ bus' \in [Ends -> Seq(Msgs)]
  BY Taken, Published DEF FallbackNatsMqSend
<1>2. UNCHANGED <<events, conns, queued, registered, deadEvents, addrKnown, got, breaks, coalesced>>
  BY DEF FallbackNatsMqSend, Take
<1> QED BY <1>1, <1>2 DEF TypeOK, ConnIds, EventType

\* What GateTcpMqSend does.
LEMMA TcpSendIs ==
  ASSUME QueueAssumption, TypeOK, NEW e \in Ends, GateTcpMqSend(e)
  PROVE  /\ TypeOK'
         /\ \E c \in ConnIds, s \in Seq(Msgs \cup {Hello}) :
              /\ c = registered[e] /\ conns[c].open[e]
              /\ Becomes(c, conns[c].open, conns[c].reader, [conns[c].pipe EXCEPT ![e] = s])
              /\ conns'[c].greeted <=> conns[c].greeted
              /\ conns'[c].broken <=> conns[c].broken
              /\ conns[c].broken => s = conns[c].pipe[e]
              /\ ~conns[c].broken => s = Append(conns[c].pipe[e], handled'[e])
<1> DEFINE c == registered[e]
           s == IF conns[c].broken THEN conns[c].pipe[e] ELSE Append(conns[c].pipe[e], handled'[e])
<1>1. handled' \in [Ends -> 0 .. MaxMsgs] /\ handled'[e] \in Msgs
  BY Taken DEF GateTcpMqSend
<1>2. UNCHANGED <<events, bus, queued, registered, deadEvents, addrKnown, got, breaks, coalesced>>
  BY DEF GateTcpMqSend, Take
<1>3. c \in ConnIds /\ conns[c].open[e]
  BY DEF GateTcpMqSend, TypeOK
<1>4. s \in Seq(Msgs \cup {Hello})
  <2>1. conns[c].pipe[e] \in Seq(Msgs \cup {Hello})
    BY <1>3, ConnIs
  <2> QED BY <1>1, <2>1
<1>5. conns' = [conns EXCEPT ![c].pipe[e] = s]
  BY DEF GateTcpMqSend
<1> HIDE DEF c, s
<1>6. /\ Becomes(c, conns[c].open, conns[c].reader, [conns[c].pipe EXCEPT ![e] = s])
      /\ conns'[c].greeted <=> conns[c].greeted
      /\ conns'[c].broken <=> conns[c].broken
  BY <1>3, <1>4, <1>5, PipeGrows
<1>7. conns' \in Seq(ConnType) /\ ConnIds' = ConnIds
  BY <1>6 DEF Becomes
<1>8. TypeOK'
  BY <1>1, <1>2, <1>7 DEF TypeOK, EventType
<1>9. /\ conns[c].broken => s = conns[c].pipe[e]
      /\ ~conns[c].broken => s = Append(conns[c].pipe[e], handled'[e])
  BY DEF s
<1>10. c = registered[e]
  BY DEF c
<1> QED BY <1>3, <1>4, <1>6, <1>8, <1>9, <1>10

\* What a failed write does.
LEMMA FailIs ==
  ASSUME QueueAssumption, TypeOK, NEW e \in Ends, WriteFails(e)
  PROVE  /\ TypeOK'
         /\ \E c \in ConnIds :
              /\ c = registered[e] /\ Disconnect(e, c)
              /\ ~conns[c].open[e] \/ conns[c].broken \/ ~conns[c].open[Other(e)]
              /\ Becomes(c, [conns[c].open EXCEPT ![e] = FALSE], conns[c].reader, conns[c].pipe)
              /\ conns'[c].greeted <=> conns[c].greeted
              /\ conns'[c].broken <=> conns[c].broken
<1> DEFINE c == registered[e]
<1>1. handled' \in [Ends -> 0 .. MaxMsgs] /\ handled'[e] \in Msgs
  BY Taken DEF WriteFails
<1>2. UNCHANGED <<queued, registered, deadEvents, addrKnown, got, breaks, coalesced>>
  BY DEF WriteFails, Take
<1>3. /\ c \in ConnIds /\ Disconnect(e, c)
      /\ ~conns[c].open[e] \/ conns[c].broken \/ ~conns[c].open[Other(e)]
      /\ conns' = [conns EXCEPT ![c].open[e] = FALSE]
  BY DEF WriteFails, TypeOK
<1>4. bus' \in [Ends -> Seq(Msgs)]
  BY <1>1, Published DEF WriteFails
<1> HIDE DEF c
<1>5. events' \in [Ends -> Seq(EventType)]
  BY <1>3, Reported
<1>6. /\ Becomes(c, [conns[c].open EXCEPT ![e] = FALSE], conns[c].reader, conns[c].pipe)
      /\ conns'[c].greeted <=> conns[c].greeted
      /\ conns'[c].broken <=> conns[c].broken
  BY <1>3, EndCloses
<1>7. conns' \in Seq(ConnType) /\ ConnIds' = ConnIds
  BY <1>6 DEF Becomes
<1>8. TypeOK'
  BY <1>1, <1>2, <1>4, <1>5, <1>7 DEF TypeOK, EventType
<1>9. c = registered[e]
  BY DEF c
<1> QED BY <1>3, <1>6, <1>8, <1>9

\* What a sending goroutine does with an event.
LEMMA HandleType ==
  ASSUME TypeOK, NEW e \in Ends, HandleConnect(e) \/ HandleDisconnect(e)
  PROVE  /\ TypeOK' /\ conns' = conns /\ events[e] \in Seq(EventType) /\ events[e] # << >>
         /\ events' = [events EXCEPT ![e] = Tail(events[e])]
         /\ HandleConnect(e) => /\ registered' = [registered EXCEPT ![e] = Head(events[e]).conn]
                                /\ Head(events[e]).type = "connect"
                                /\ Head(events[e]).conn \in ConnIds
                                /\ UNCHANGED deadEvents
         /\ HandleDisconnect(e) => /\ registered' = [registered EXCEPT ![e] = None]
                                   /\ deadEvents' = [deadEvents EXCEPT ![e] = @ + 1]
         /\ UNCHANGED <<queued, handled, addrKnown, bus, got, breaks, coalesced>>
<1>1. events[e] \in Seq(EventType) /\ events[e] # << >>
      /\ events' = [events EXCEPT ![e] = Tail(events[e])] /\ conns' = conns
  BY DEF HandleConnect, HandleDisconnect, TypeOK
<1>2. Head(events[e]) \in EventType /\ Tail(events[e]) \in Seq(EventType)
  BY <1>1
<1>3. Head(events[e]).conn \in ConnIds
  BY <1>2 DEF EventType
<1>4. /\ HandleConnect(e) => /\ registered' = [registered EXCEPT ![e] = Head(events[e]).conn]
                             /\ Head(events[e]).type = "connect"
                             /\ UNCHANGED deadEvents
      /\ HandleDisconnect(e) => /\ registered' = [registered EXCEPT ![e] = None]
                                /\ deadEvents' = [deadEvents EXCEPT ![e] = @ + 1]
      /\ UNCHANGED <<queued, handled, addrKnown, bus, got, breaks, coalesced>>
  BY DEF HandleConnect, HandleDisconnect
<1>5. registered' \in [Ends -> ConnIds \cup {None}] /\ deadEvents' \in [Ends -> Nat]
  <2>1. registered \in [Ends -> ConnIds \cup {None}] /\ deadEvents \in [Ends -> Nat]
    BY DEF TypeOK
  <2>2. CASE HandleConnect(e)
    BY <1>3, <1>4, <2>1, <2>2
  <2>3. CASE HandleDisconnect(e)
    BY <1>4, <2>1, <2>3
  <2> QED BY <2>2, <2>3
<1>6. events' \in [Ends -> Seq(EventType)]
  BY <1>1, <1>2 DEF TypeOK
<1>7. TypeOK'
  BY <1>1, <1>4, <1>5, <1>6 DEF TypeOK, ConnIds, EventType
<1> QED BY <1>1, <1>3, <1>4, <1>7

\* A message arrives.
LEMMA Received ==
  ASSUME TypeOK, NEW e \in Ends, NEW m \in Msgs \cup {Hello}, Receive(e, m)
  PROVE  /\ got' \in [Ends -> [Msgs -> Nat]] /\ got'[Other(e)] = got[Other(e)]
         /\ \A n \in Msgs : got'[e][n] = IF n = m THEN got[e][n] + 1 ELSE got[e][n]
<1> DEFINE g == [got[e] EXCEPT ![m] = @ + 1]
<1>1. got \in [Ends -> [Msgs -> Nat]] /\ got[e] \in [Msgs -> Nat]
  BY DEF TypeOK
<1>2. g \in [Msgs -> Nat] /\ \A n \in Msgs : g[n] = IF n = m THEN got[e][n] + 1 ELSE got[e][n]
  <2> DEFINE f == got[e]
  <2>1. \A n \in Msgs : g[n] = IF n = m THEN f[n] + 1 ELSE f[n]
    BY <1>1
  <2>2. g = [n \in Msgs |-> IF n = m THEN f[n] + 1 ELSE f[n]]
    BY <1>1
  <2>3. \A n \in Msgs : (IF n = m THEN f[n] + 1 ELSE f[n]) \in Nat
    BY <1>1
  <2> HIDE DEF g
  <2>4. g \in [Msgs -> Nat]
    BY <2>2, <2>3
  <2> QED BY <2>1, <2>4
<1>3. got' = [got EXCEPT ![e] = g]
  BY DEF Receive
<1> HIDE DEF g
<1> QED BY <1>1, <1>2, <1>3, OtherEnd

\* A reader of a connection takes the next message out of it.
LEMMA RecvIs ==
  ASSUME TypeOK, NEW e \in Ends, NEW c \in ConnIds, GateTcpMqRecv(Other(e), c)
  PROVE  /\ TypeOK'
         /\ conns[c].pipe[e] \in Seq(Msgs \cup {Hello}) /\ conns[c].pipe[e] # << >>
         /\ Receive(e, Head(conns[c].pipe[e])) /\ Head(conns[c].pipe[e]) \in Msgs \cup {Hello}
         /\ conns[c].reader[Other(e)]
         /\ Becomes(c, conns[c].open, conns[c].reader,
                       [conns[c].pipe EXCEPT ![e] = Tail(conns[c].pipe[e])])
         /\ conns'[c].greeted <=> conns[c].greeted
         /\ conns'[c].broken <=> conns[c].broken
         /\ UNCHANGED <<queued, handled, events, registered, deadEvents, addrKnown, bus,
                        breaks, coalesced>>
<1> DEFINE p == conns[c].pipe[e]
           t == Tail(p)
<1>1. /\ p # << >> /\ Receive(e, Head(p)) /\ conns[c].reader[Other(e)]
      /\ conns' = [conns EXCEPT ![c].pipe[e] = t]
      /\ UNCHANGED <<queued, handled, events, registered, deadEvents, addrKnown, bus,
                     breaks, coalesced>>
  BY OtherEnd DEF GateTcpMqRecv
<1>2. p \in Seq(Msgs \cup {Hello})
  BY ConnIs
<1>3. t \in Seq(Msgs \cup {Hello}) /\ Head(p) \in Msgs \cup {Hello}
  BY <1>1, <1>2
<1>4. got' \in [Ends -> [Msgs -> Nat]]
  BY <1>1, <1>3, Received
<1>5. /\ Becomes(c, conns[c].open, conns[c].reader, [conns[c].pipe EXCEPT ![e] = t])
      /\ conns'[c].greeted <=> conns[c].greeted
      /\ conns'[c].broken <=> conns[c].broken
  <2> HIDE DEF t
  <2> QED BY <1>1, <1>3, PipeGrows
<1>6. conns' \in Seq(ConnType) /\ ConnIds' = ConnIds
  BY <1>5 DEF Becomes
<1>7. TypeOK'
  BY <1>1, <1>4, <1>6 DEF TypeOK, EventType
<1> QED BY <1>1, <1>2, <1>3, <1>5, <1>7

\* A reader meets the end of its connection.
LEMMA RecvFailsIs ==
  ASSUME TypeOK, NEW e \in Ends, NEW c \in ConnIds, RecvFails(e, c)
  PROVE  /\ TypeOK' /\ Disconnect(e, c)
         /\ ~conns[c].open[e] \/ conns[c].broken \/ ~conns[c].open[Other(e)]
         /\ Becomes(c, [conns[c].open EXCEPT ![e] = FALSE],
                       [conns[c].reader EXCEPT ![e] = FALSE], conns[c].pipe)
         /\ conns'[c].greeted <=> conns[c].greeted
         /\ conns'[c].broken <=> conns[c].broken
         /\ UNCHANGED <<queued, handled, registered, deadEvents, addrKnown, bus, got,
                        breaks, coalesced>>
<1>1. /\ Disconnect(e, c)
      /\ ~conns[c].open[e] \/ conns[c].broken \/ ~conns[c].open[Other(e)]
      /\ conns' = [conns EXCEPT ![c].open[e] = FALSE, ![c].reader[e] = FALSE]
      /\ UNCHANGED <<queued, handled, registered, deadEvents, addrKnown, bus, got,
                     breaks, coalesced>>
  BY DEF RecvFails
<1>2. /\ Becomes(c, [conns[c].open EXCEPT ![e] = FALSE],
                    [conns[c].reader EXCEPT ![e] = FALSE], conns[c].pipe)
      /\ conns'[c].greeted <=> conns[c].greeted
      /\ conns'[c].broken <=> conns[c].broken
  BY <1>1, ReaderEnds
<1>3. conns' \in Seq(ConnType) /\ ConnIds' = ConnIds
  BY <1>2 DEF Becomes
<1>4. events' \in [Ends -> Seq(EventType)]
  BY <1>1, Reported
<1>5. TypeOK'
  BY <1>1, <1>3, <1>4 DEF TypeOK, EventType
<1> QED BY <1>1, <1>2, <1>5

\* A message arrives by NATS.
LEMMA NatsIs ==
  ASSUME TypeOK, NEW e \in Ends, NatsMsgRecv(e)
  PROVE  /\ TypeOK' /\ bus[e] \in Seq(Msgs) /\ bus[e] # << >>
         /\ bus'[e] = Tail(bus[e]) /\ bus'[Other(e)] = bus[Other(e)]
         /\ Receive(e, Head(bus[e])) /\ Head(bus[e]) \in Msgs
         /\ UNCHANGED <<queued, handled, events, registered, deadEvents, addrKnown, conns,
                        breaks, coalesced>>
<1>1. /\ bus[e] # << >> /\ bus' = [bus EXCEPT ![e] = Tail(bus[e])]
      /\ Receive(e, Head(bus[e]))
      /\ UNCHANGED <<queued, handled, events, registered, deadEvents, addrKnown, conns,
                     breaks, coalesced>>
  BY DEF NatsMsgRecv
<1>2. bus \in [Ends -> Seq(Msgs)] /\ bus[e] \in Seq(Msgs)
  BY DEF TypeOK
<1>3. Tail(bus[e]) \in Seq(Msgs) /\ Head(bus[e]) \in Msgs
  BY <1>1, <1>2
<1>4. bus' \in [Ends -> Seq(Msgs)] /\ bus'[e] = Tail(bus[e]) /\ bus'[Other(e)] = bus[Other(e)]
  BY <1>1, <1>2, <1>3, OtherEnd
<1>5. got' \in [Ends -> [Msgs -> Nat]]
  BY <1>1, <1>3, Received
<1>6. TypeOK'
  BY <1>1, <1>4, <1>5 DEF TypeOK, ConnIds, EventType
<1> QED BY <1>1, <1>2, <1>3, <1>4, <1>6

\* Greetings, breaks and dials keep the types.
LEMMA OthersType ==
  ASSUME QueueAssumption, TypeOK,
         \/ \E c \in ConnIds : \/ GateTcpMqHandshake(c) \/ PostConnect(c) \/ HandshakeRefused(c)
                                \/ Break(c)
         \/ GateTcpMqConn \/ ForgetAddr \/ \E e \in Ends : SendTo(e)
  PROVE  TypeOK'
<1>1. ASSUME NEW c \in ConnIds, GateTcpMqHandshake(c) \/ HandshakeRefused(c) PROVE TypeOK'
  <2>1. conns' \in Seq(ConnType) /\ ConnIds' = ConnIds
    BY <1>1, Greets DEF Becomes
  <2>2. UNCHANGED <<queued, handled, events, registered, deadEvents, addrKnown, bus, got, breaks>>
        /\ coalesced' \in BOOLEAN
    BY <1>1 DEF GateTcpMqHandshake, HandshakeRefused, TypeOK
  <2> QED BY <2>1, <2>2 DEF TypeOK, EventType
<1>6. ASSUME NEW c \in ConnIds, PostConnect(c) PROVE TypeOK'
  <2>1. conns' \in Seq(ConnType) /\ ConnIds' = ConnIds
    BY <1>6, Posts DEF Becomes
  <2>2. events' \in [Ends -> Seq(EventType)]
    <3>1. events["gate"] \in Seq(EventType) /\ Event("connect", c) \in EventType
      BY DEF TypeOK, Ends, Event, EventType
    <3>2. Append(events["gate"], Event("connect", c)) \in Seq(EventType)
      BY <3>1
    <3> QED BY <1>6, <3>2 DEF PostConnect, TypeOK
  <2>3. UNCHANGED <<queued, handled, registered, deadEvents, addrKnown, bus, got, breaks, coalesced>>
    BY <1>6 DEF PostConnect
  <2> QED BY <2>1, <2>2, <2>3 DEF TypeOK, EventType
<1>2. ASSUME NEW c \in ConnIds, Break(c) PROVE TypeOK'
  <2>1. conns' \in Seq(ConnType) /\ ConnIds' = ConnIds
    BY <1>2, Breaks DEF Becomes
  <2>2. UNCHANGED <<queued, handled, events, registered, deadEvents, addrKnown, bus, got, coalesced>>
        /\ breaks' \in Nat
    BY <1>2 DEF Break, TypeOK
  <2> QED BY <2>1, <2>2 DEF TypeOK, EventType
<1>3. CASE GateTcpMqConn
  <2>1. conns' \in Seq(ConnType) /\ ConnIds \subseteq ConnIds' /\ Len(conns) + 1 \in ConnIds'
    BY <1>3, ConnAdded
  <2>2. EventType \subseteq EventType' /\ Event("connect", Len(conns) + 1) \in EventType'
    BY <2>1 DEF Event, EventType
  <2>3. events' \in [Ends -> Seq(EventType')]
    <3>1. \A e \in Ends : events[e] \in Seq(EventType')
      <4>1. ASSUME NEW e \in Ends PROVE events[e] \in Seq(EventType')
        <5>1. events[e] \in Seq(EventType) /\ Len(events[e]) \in Nat
          BY DEF TypeOK
        <5>2. events[e] = [n \in 1 .. Len(events[e]) |-> events[e][n]]
          BY <5>1
        <5>3. \A n \in 1 .. Len(events[e]) : events[e][n] \in EventType'
          BY <5>1, <2>2
        <5> QED BY <5>1, <5>2, <5>3
      <4> QED BY <4>1
    <3>2. Append(events["gs"], Event("connect", Len(conns) + 1)) \in Seq(EventType')
      BY <2>2, <3>1 DEF Ends
    <3> QED BY <1>3, <3>1, <3>2 DEF GateTcpMqConn, TypeOK
  <2>4. UNCHANGED <<queued, handled, registered, deadEvents, bus, got, breaks, coalesced>>
        /\ addrKnown' \in BOOLEAN
    BY <1>3 DEF GateTcpMqConn
  <2>5. registered' \in [Ends -> ConnIds' \cup {None}]
    BY <2>1, <2>4 DEF TypeOK
  <2> QED BY <2>1, <2>3, <2>4, <2>5 DEF TypeOK
<1>4. CASE ForgetAddr
  <2>1. /\ deadEvents' = [deadEvents EXCEPT !["gs"] = @ - 1] /\ deadEvents["gs"] > 0
        /\ UNCHANGED <<queued, handled, events, registered, conns, bus, got, breaks, coalesced>>
    BY <1>4 DEF ForgetAddr
  <2>2. deadEvents' \in [Ends -> Nat]
    <3>1. deadEvents \in [Ends -> Nat] /\ "gs" \in Ends
      BY DEF TypeOK, Ends
    <3>2. deadEvents["gs"] - 1 \in Nat
      BY <2>1, <3>1
    <3> QED BY <2>1, <3>1, <3>2
  <2>3. addrKnown' \in BOOLEAN
    BY <1>4, Zenon DEF ForgetAddr
  <2> QED BY <2>1, <2>2, <2>3 DEF TypeOK, ConnIds, EventType
<1>5. ASSUME NEW e \in Ends, SendTo(e) PROVE TypeOK'
  <2>1. /\ queued' = [queued EXCEPT ![e] = @ + 1] /\ queued[e] < MaxMsgs
        /\ UNCHANGED <<handled, events, registered, deadEvents, addrKnown, conns, bus, got,
                       breaks, coalesced>>
    BY <1>5 DEF SendTo
  <2>2. queued' \in [Ends -> 0 .. MaxMsgs]
    BY <2>1 DEF TypeOK, QueueAssumption
  <2> QED BY <2>1, <2>2 DEF TypeOK, ConnIds, EventType
<1> QED BY <1>1, <1>2, <1>3, <1>4, <1>5, <1>6

\* Every step keeps the types.
LEMMA NextType == ASSUME QueueAssumption, TypeOK, [Next]_vars PROVE TypeOK'
<1>1. ASSUME NEW e \in Ends, NEW c \in ConnIds, GateTcpMqRecv(e, c) PROVE TypeOK'
  <2>1. GateTcpMqRecv(Other(Other(e)), c) /\ Other(e) \in Ends
    BY <1>1, OtherEnd
  <2> QED BY <2>1, RecvIs
<1>2. CASE UNCHANGED vars
  BY <1>2 DEF vars, TypeOK, ConnIds, EventType
<1> QED BY <1>1, <1>2, FallbackIs, TcpSendIs, FailIs, HandleType, NatsIs, RecvFailsIs, OthersType
        DEF Next

\* Nothing has happened at the start.
LEMMA InitType == ASSUME QueueAssumption, Init PROVE TypeOK
<1>1. conns = << >> /\ << >> \in Seq(ConnType) /\ << >> \in Seq(EventType) /\ << >> \in Seq(Msgs)
  BY DEF Init
<1>2. 0 \in 0 .. MaxMsgs
  BY DEF QueueAssumption
<1>3. addrKnown \in BOOLEAN /\ coalesced \in BOOLEAN
  BY Zenon DEF Init
<1> QED BY <1>1, <1>2, <1>3 DEF Init, TypeOK

\* Every variable has its type: whatever an end has registered or is told of is a connection
\* that was dialled.
THEOREM TypeCorrect == ASSUME QueueAssumption PROVE Spec => []TypeOK
BY InitType, NextType, PTL DEF Spec
-----------------------------------------------------------------------------
(* Where a message is.                                                     *)

InPipe(e, c, m) == m \in Items(conns[c].pipe[e])
InBus(e, m) == m \in Items(bus[e])

\* In one pipe, on NATS or with the other end, and in one place there: and only what the
\* sending goroutine has taken is anywhere.
OnePlace(e) ==
  /\ \A c \in ConnIds : Distinct(conns[c].pipe[e])
  /\ Distinct(bus[e])
  /\ \A m \in Msgs :
       /\ \A c, d \in ConnIds : InPipe(e, c, m) /\ InPipe(e, d, m) => c = d
       /\ \A c \in ConnIds : InPipe(e, c, m) => ~InBus(e, m) /\ got[e][m] = 0
       /\ InBus(e, m) => got[e][m] = 0
       /\ got[e][m] <= 1
       /\ m > handled[e] => /\ \A c \in ConnIds : ~InPipe(e, c, m)
                            /\ ~InBus(e, m) /\ got[e][m] = 0

\* While nothing has broken and no greeting was read with a message, what it has taken is
\* somewhere.
Whole == breaks = 0 /\ ~coalesced
NoneLost(e) ==
  Whole => \A m \in 1 .. handled[e] :
             (\E c \in ConnIds : InPipe(e, c, m)) \/ InBus(e, m) \/ got[e][m] = 1

\* A connection that has not been greeted has the greeting at the head of its pipe unless it
\* broke, and nobody reads it; it breaks only as something broke.
GreetInv ==
  \A c \in ConnIds :
    /\ conns[c].broken => breaks # 0
    /\ ~conns[c].greeted => /\ ~conns[c].reader["gate"]
                            /\ ~conns[c].broken => conns[c].pipe["gs"] # << >>
                            /\ conns[c].pipe["gs"] # << >> => Head(conns[c].pipe["gs"]) = Hello

\* What a step can be to an end: nothing new of its messages, one sent, one arrived.
Stays(e) ==
  /\ handled'[e] = handled[e] /\ bus'[e] = bus[e] /\ got'[e] = got[e]
  /\ ConnIds \subseteq ConnIds' /\ (Whole' => Whole)
  /\ \A c \in ConnIds' :
       /\ Distinct(conns'[c].pipe[e])
       /\ \A m \in Msgs : InPipe(e, c, m)' => c \in ConnIds /\ InPipe(e, c, m)
  /\ Whole' => \A c \in ConnIds : \A m \in Msgs : InPipe(e, c, m) => InPipe(e, c, m)'

Sends(e) ==
  /\ handled'[e] = handled[e] + 1 /\ handled'[e] \in Msgs /\ got'[e] = got[e]
  /\ ConnIds' = ConnIds /\ (Whole' => Whole)
  /\ \/ /\ bus[e] \in Seq(Msgs) /\ bus'[e] = Append(bus[e], handled'[e])
        /\ \A c \in ConnIds : conns'[c].pipe[e] = conns[c].pipe[e]
     \/ /\ bus'[e] = bus[e]
        /\ \E c \in ConnIds :
             /\ \A d \in ConnIds \ {c} : conns'[d].pipe[e] = conns[d].pipe[e]
             /\ \/ /\ conns[c].pipe[e] \in Seq(Msgs \cup {Hello})
                   /\ conns'[c].pipe[e] = Append(conns[c].pipe[e], handled'[e])
                \/ conns'[c].pipe[e] = conns[c].pipe[e] /\ ~Whole'

Arrives(e) ==
  /\ handled'[e] = handled[e] /\ ConnIds' = ConnIds /\ (Whole' => Whole)
  /\ \E m \in Msgs :
       /\ \A n \in Msgs : got'[e][n] = IF n = m THEN got[e][n] + 1 ELSE got[e][n]
       /\ \/ /\ bus[e] \in Seq(Msgs) /\ bus[e] # << >> /\ m = Head(bus[e])
             /\ bus'[e] = Tail(bus[e])
             /\ \A c \in ConnIds : conns'[c].pipe[e] = conns[c].pipe[e]
          \/ /\ bus'[e] = bus[e]
             /\ \E c \in ConnIds :
                  /\ conns[c].pipe[e] \in Seq(Msgs \cup {Hello}) /\ conns[c].pipe[e] # << >>
                  /\ m = Head(conns[c].pipe[e])
                  /\ conns'[c].pipe[e] = Tail(conns[c].pipe[e])
                  /\ \A d \in ConnIds \ {c} : conns'[d].pipe[e] = conns[d].pipe[e]

\* What an end has taken are messages.
LEMMA HandledMsgs ==
  ASSUME QueueAssumption, TypeOK, NEW e \in Ends
  PROVE  handled[e] \in Nat /\ \A m \in 1 .. handled[e] : m \in Msgs
<1>1. handled[e] \in 0 .. MaxMsgs
  BY DEF TypeOK
<1> QED BY <1>1 DEF QueueAssumption, Msgs

\* The first keeps every message in its place.
LEMMA StaysKeeps ==
  ASSUME QueueAssumption, TypeOK, NEW e \in Ends, OnePlace(e), NoneLost(e), Stays(e)
  PROVE  OnePlace(e)' /\ NoneLost(e)'
<1>1. OnePlace(e)'
  BY DEF OnePlace, Stays, InPipe, InBus
<1>2. NoneLost(e)'
  <2>1. ASSUME Whole', NEW m \in 1 .. handled'[e]
        PROVE  (\E c \in ConnIds' : InPipe(e, c, m)') \/ InBus(e, m)' \/ got'[e][m] = 1
    <3>1. m \in Msgs /\ m \in 1 .. handled[e] /\ Whole
      BY <2>1, HandledMsgs DEF Stays
    <3> QED BY <2>1, <3>1 DEF NoneLost, Stays, InBus
  <2> QED BY <2>1 DEF NoneLost, InPipe, InBus
<1> QED BY <1>1, <1>2

\* The second puts a new message in one place.
LEMMA SendsKeeps ==
  ASSUME QueueAssumption, TypeOK, NEW e \in Ends, OnePlace(e), NoneLost(e), Sends(e)
  PROVE  OnePlace(e)' /\ NoneLost(e)'
<1> DEFINE m == handled'[e]
<1>1. /\ m = handled[e] + 1 /\ handled[e] \in Nat /\ m \in Msgs /\ m # Hello
      /\ \A n \in 1 .. handled[e] : n \in Msgs
      /\ \A n \in Msgs : n \in Nat /\ (n > m => n > handled[e])
      /\ \A n \in 1 .. m : n = m \/ n \in 1 .. handled[e]
      /\ ConnIds' = ConnIds /\ got'[e] = got[e] /\ (Whole' => Whole)
  <2>1. m = handled[e] + 1 /\ handled[e] \in Nat /\ m \in Msgs
    BY HandledMsgs DEF Sends
  <2>2. m # Hello /\ \A n \in Msgs : n \in Nat /\ (n > m => n > handled[e])
    BY <2>1 DEF Msgs, Hello, QueueAssumption
  <2>3. \A n \in 1 .. m : n = m \/ n \in 1 .. handled[e]
    BY <2>1
  <2> QED BY <2>1, <2>2, <2>3, HandledMsgs DEF Sends
<1>2. /\ \A c \in ConnIds : ~InPipe(e, c, m)
      /\ ~InBus(e, m) /\ got[e][m] = 0
  <2>1. m > handled[e]
    BY <1>1
  <2> QED BY <1>1, <2>1 DEF OnePlace
<1> HIDE DEF m
<1>3. ASSUME bus[e] \in Seq(Msgs), bus'[e] = Append(bus[e], m),
             \A c \in ConnIds : conns'[c].pipe[e] = conns[c].pipe[e]
      PROVE  OnePlace(e)' /\ NoneLost(e)'
  <2>1. /\ \A n : InBus(e, n)' <=> InBus(e, n) \/ n = m
        /\ Distinct(bus[e]) => Distinct(bus'[e])
    BY <1>1, <1>2, <1>3, AppendItems DEF InBus
  <2>2. \A c \in ConnIds : \A n : InPipe(e, c, n)' <=> InPipe(e, c, n)
    BY <1>3 DEF InPipe
  <2>3. OnePlace(e)'
    <3>1. \A c \in ConnIds' : Distinct(conns'[c].pipe[e])
      BY <1>1, <1>3 DEF OnePlace
    <3>2. Distinct(bus'[e])
      BY <2>1 DEF OnePlace
    <3>3. ASSUME NEW n \in Msgs
          PROVE  /\ \A c, d \in ConnIds' : InPipe(e, c, n)' /\ InPipe(e, d, n)' => c = d
                 /\ \A c \in ConnIds' : InPipe(e, c, n)' => ~InBus(e, n)' /\ got'[e][n] = 0
                 /\ InBus(e, n)' => got'[e][n] = 0
                 /\ got'[e][n] <= 1
                 /\ n > m => /\ \A c \in ConnIds' : ~InPipe(e, c, n)'
                             /\ ~InBus(e, n)' /\ got'[e][n] = 0
      <4>1. n > m => n # m
        BY <1>1
      <4> QED BY <1>1, <1>2, <2>1, <2>2, <4>1 DEF OnePlace
    <3> QED BY <3>1, <3>2, <3>3 DEF OnePlace, m, InPipe, InBus
  <2>4. NoneLost(e)'
    <3>1. ASSUME Whole', NEW n \in 1 .. m
          PROVE  (\E c \in ConnIds' : InPipe(e, c, n)') \/ InBus(e, n)' \/ got'[e][n] = 1
      BY <1>1, <2>1, <2>2, <3>1 DEF NoneLost
    <3> QED BY <3>1 DEF NoneLost, m, InPipe, InBus
  <2> QED BY <2>3, <2>4
<1>4. ASSUME NEW c \in ConnIds, bus'[e] = bus[e],
             \A d \in ConnIds \ {c} : conns'[d].pipe[e] = conns[d].pipe[e],
             \/ /\ conns[c].pipe[e] \in Seq(Msgs \cup {Hello})
                /\ conns'[c].pipe[e] = Append(conns[c].pipe[e], m)
             \/ conns'[c].pipe[e] = conns[c].pipe[e] /\ ~Whole'
      PROVE  OnePlace(e)' /\ NoneLost(e)'
  <2>1. \A n : InBus(e, n)' <=> InBus(e, n)
    BY <1>4 DEF InBus
  <2>2. \A d \in ConnIds \ {c} : \A n : InPipe(e, d, n)' <=> InPipe(e, d, n)
    BY <1>4 DEF InPipe
  <2>3. /\ \A n : InPipe(e, c, n)' => InPipe(e, c, n) \/ n = m
        /\ Whole' => \A n : InPipe(e, c, n)' <=> InPipe(e, c, n) \/ n = m
        /\ Distinct(conns[c].pipe[e]) => Distinct(conns'[c].pipe[e])
    <3>1. CASE conns'[c].pipe[e] = conns[c].pipe[e] /\ ~Whole'
      BY <3>1 DEF InPipe
    <3>2. CASE /\ conns[c].pipe[e] \in Seq(Msgs \cup {Hello})
               /\ conns'[c].pipe[e] = Append(conns[c].pipe[e], m)
      <4>1. m \in Msgs \cup {Hello} /\ m \notin Items(conns[c].pipe[e])
        BY <1>1, <1>2 DEF InPipe
      <4> QED BY <3>2, <4>1, AppendItems DEF InPipe
    <3> QED BY <1>4, <3>1, <3>2
  <2>4. OnePlace(e)'
    <3>1. \A d \in ConnIds' : Distinct(conns'[d].pipe[e])
      BY <1>1, <1>4, <2>3 DEF OnePlace
    <3>2. Distinct(bus'[e])
      BY <1>4 DEF OnePlace
    <3>3. ASSUME NEW n \in Msgs
          PROVE  /\ \A k, d \in ConnIds' : InPipe(e, k, n)' /\ InPipe(e, d, n)' => k = d
                 /\ \A d \in ConnIds' : InPipe(e, d, n)' => ~InBus(e, n)' /\ got'[e][n] = 0
                 /\ InBus(e, n)' => got'[e][n] = 0
                 /\ got'[e][n] <= 1
                 /\ n > m => /\ \A d \in ConnIds' : ~InPipe(e, d, n)'
                             /\ ~InBus(e, n)' /\ got'[e][n] = 0
      <4>1. n > m => n # m
        BY <1>1
      <4>2. CASE n = m
        BY <1>1, <1>2, <2>1, <2>2, <4>1, <4>2
      <4>3. CASE n # m
        <5>1. \A d \in ConnIds : InPipe(e, d, n)' => InPipe(e, d, n)
          BY <2>2, <2>3, <4>3
        <5> QED BY <1>1, <2>1, <5>1 DEF OnePlace
      <4> QED BY <4>2, <4>3
    <3> QED BY <3>1, <3>2, <3>3 DEF OnePlace, m, InPipe, InBus
  <2>5. NoneLost(e)'
    <3>1. ASSUME Whole', NEW n \in 1 .. m
          PROVE  (\E d \in ConnIds' : InPipe(e, d, n)') \/ InBus(e, n)' \/ got'[e][n] = 1
      <4>1. CASE n = m
        BY <1>1, <2>3, <3>1, <4>1
      <4>2. CASE n \in 1 .. handled[e]
        BY <1>1, <2>1, <2>2, <2>3, <3>1, <4>2 DEF NoneLost
      <4> QED BY <1>1, <4>1, <4>2
    <3> QED BY <3>1 DEF NoneLost, m, InPipe, InBus
  <2> QED BY <2>4, <2>5
<1>5. \/ /\ bus[e] \in Seq(Msgs) /\ bus'[e] = Append(bus[e], m)
         /\ \A c \in ConnIds : conns'[c].pipe[e] = conns[c].pipe[e]
      \/ /\ bus'[e] = bus[e]
         /\ \E c \in ConnIds :
              /\ \A d \in ConnIds \ {c} : conns'[d].pipe[e] = conns[d].pipe[e]
              /\ \/ /\ conns[c].pipe[e] \in Seq(Msgs \cup {Hello})
                    /\ conns'[c].pipe[e] = Append(conns[c].pipe[e], m)
                 \/ conns'[c].pipe[e] = conns[c].pipe[e] /\ ~Whole'
  BY DEF Sends, m
<1> QED BY <1>3, <1>4, <1>5

\* The third takes a message from its place to the other end.
LEMMA ArrivesKeeps ==
  ASSUME QueueAssumption, TypeOK, NEW e \in Ends, OnePlace(e), NoneLost(e), Arrives(e)
  PROVE  OnePlace(e)' /\ NoneLost(e)'
<1>1. PICK m \in Msgs :
        /\ \A n \in Msgs : got'[e][n] = IF n = m THEN got[e][n] + 1 ELSE got[e][n]
        /\ \/ /\ bus[e] \in Seq(Msgs) /\ bus[e] # << >> /\ m = Head(bus[e])
              /\ bus'[e] = Tail(bus[e])
              /\ \A c \in ConnIds : conns'[c].pipe[e] = conns[c].pipe[e]
           \/ /\ bus'[e] = bus[e]
              /\ \E c \in ConnIds :
                   /\ conns[c].pipe[e] \in Seq(Msgs \cup {Hello}) /\ conns[c].pipe[e] # << >>
                   /\ m = Head(conns[c].pipe[e])
                   /\ conns'[c].pipe[e] = Tail(conns[c].pipe[e])
                   /\ \A d \in ConnIds \ {c} : conns'[d].pipe[e] = conns[d].pipe[e]
  BY DEF Arrives
<1>2. /\ handled'[e] = handled[e] /\ ConnIds' = ConnIds /\ (Whole' => Whole)
      /\ \A n \in 1 .. handled[e] : n \in Msgs
  BY HandledMsgs DEF Arrives
<1>3. \A n \in Msgs : n # m => got'[e][n] = got[e][n]
  BY <1>1
<1>4. ASSUME got[e][m] = 0, ~InBus(e, m)', \A c \in ConnIds : ~InPipe(e, c, m)',
             ~(m > handled[e]),
             \A n \in Msgs : n # m =>
               /\ InBus(e, n)' <=> InBus(e, n)
               /\ \A c \in ConnIds : InPipe(e, c, n)' <=> InPipe(e, c, n),
             Distinct(bus'[e]), \A c \in ConnIds : Distinct(conns'[c].pipe[e])
      PROVE  OnePlace(e)' /\ NoneLost(e)'
  <2>1. got'[e][m] = 1
    BY <1>1, <1>4
  <2>2. OnePlace(e)'
    <3>1. ASSUME NEW n \in Msgs
          PROVE  /\ \A c, d \in ConnIds' : InPipe(e, c, n)' /\ InPipe(e, d, n)' => c = d
                 /\ \A c \in ConnIds' : InPipe(e, c, n)' => ~InBus(e, n)' /\ got'[e][n] = 0
                 /\ InBus(e, n)' => got'[e][n] = 0
                 /\ got'[e][n] <= 1
                 /\ n > handled'[e] => /\ \A c \in ConnIds' : ~InPipe(e, c, n)'
                                       /\ ~InBus(e, n)' /\ got'[e][n] = 0
      <4>1. CASE n = m
        BY <1>2, <1>4, <2>1, <4>1
      <4>2. CASE n # m
        BY <1>2, <1>3, <1>4, <4>2 DEF OnePlace
      <4> QED BY <4>1, <4>2
    <3> QED BY <1>2, <1>4, <3>1 DEF OnePlace, InPipe, InBus
  <2>3. NoneLost(e)'
    <3>1. ASSUME Whole', NEW n \in 1 .. handled'[e]
          PROVE  (\E c \in ConnIds' : InPipe(e, c, n)') \/ InBus(e, n)' \/ got'[e][n] = 1
      <4>1. CASE n = m
        BY <2>1, <4>1
      <4>2. CASE n # m
        BY <1>2, <1>3, <1>4, <3>1, <4>2 DEF NoneLost
      <4> QED BY <4>1, <4>2
    <3> QED BY <3>1 DEF NoneLost, InPipe, InBus
  <2> QED BY <2>2, <2>3
<1>5. CASE /\ bus[e] \in Seq(Msgs) /\ bus[e] # << >> /\ m = Head(bus[e])
           /\ bus'[e] = Tail(bus[e])
           /\ \A c \in ConnIds : conns'[c].pipe[e] = conns[c].pipe[e]
  <2>1. /\ Items(bus[e]) = Items(bus'[e]) \cup {m} /\ m \in Items(bus[e])
        /\ Distinct(bus'[e]) /\ m \notin Items(bus'[e])
    BY <1>5, TailItems DEF OnePlace
  <2>2. InBus(e, m) /\ ~InBus(e, m)' /\ \A n \in Msgs : n # m => (InBus(e, n)' <=> InBus(e, n))
    BY <2>1 DEF InBus
  <2>3. \A c \in ConnIds : \A n : InPipe(e, c, n)' <=> InPipe(e, c, n)
    BY <1>5 DEF InPipe
  <2>4. got[e][m] = 0 /\ ~(m > handled[e]) /\ \A c \in ConnIds : ~InPipe(e, c, m)'
    BY <2>2, <2>3 DEF OnePlace
  <2>5. \A c \in ConnIds : Distinct(conns'[c].pipe[e])
    BY <1>5 DEF OnePlace
  <2> QED BY <1>4, <2>1, <2>2, <2>3, <2>4, <2>5
<1>6. ASSUME NEW c \in ConnIds, bus'[e] = bus[e],
             conns[c].pipe[e] \in Seq(Msgs \cup {Hello}), conns[c].pipe[e] # << >>,
             m = Head(conns[c].pipe[e]), conns'[c].pipe[e] = Tail(conns[c].pipe[e]),
             \A d \in ConnIds \ {c} : conns'[d].pipe[e] = conns[d].pipe[e]
      PROVE  OnePlace(e)' /\ NoneLost(e)'
  <2> DEFINE s == conns[c].pipe[e]
  <2>1. /\ Items(s) = Items(Tail(s)) \cup {m} /\ m \in Items(s)
        /\ Distinct(Tail(s)) /\ m \notin Items(Tail(s))
    <3>1. Distinct(s)
      BY DEF OnePlace
    <3> HIDE DEF s
    <3> QED BY <1>6, <3>1, TailItems DEF s
  <2>2. /\ InPipe(e, c, m) /\ ~InPipe(e, c, m)'
        /\ \A n \in Msgs : n # m => (InPipe(e, c, n)' <=> InPipe(e, c, n))
    BY <1>6, <2>1 DEF InPipe
  <2>3. \A d \in ConnIds \ {c} : \A n : InPipe(e, d, n)' <=> InPipe(e, d, n)
    BY <1>6 DEF InPipe
  <2>4. \A n : InBus(e, n)' <=> InBus(e, n)
    BY <1>6 DEF InBus
  <2>5. got[e][m] = 0 /\ ~(m > handled[e]) /\ ~InBus(e, m)
    BY <2>2 DEF OnePlace
  <2>6. \A d \in ConnIds : ~InPipe(e, d, m)'
    <3>1. \A d \in ConnIds \ {c} : ~InPipe(e, d, m)
      BY <2>2 DEF OnePlace
    <3> QED BY <2>2, <2>3, <3>1
  <2>7. Distinct(bus'[e]) /\ \A d \in ConnIds : Distinct(conns'[d].pipe[e])
    BY <1>6, <2>1 DEF OnePlace
  <2>8. \A n \in Msgs : n # m =>
          /\ InBus(e, n)' <=> InBus(e, n)
          /\ \A d \in ConnIds : InPipe(e, d, n)' <=> InPipe(e, d, n)
    BY <2>2, <2>3, <2>4
  <2> QED BY <1>4, <2>4, <2>5, <2>6, <2>7, <2>8
<1> QED BY <1>1, <1>5, <1>6

\* An end none of whose messages moves.
LEMMA StaysSame ==
  ASSUME NEW e \in Ends, OnePlace(e), Whole' => Whole, ConnIds' = ConnIds,
         handled'[e] = handled[e], bus'[e] = bus[e], got'[e] = got[e],
         \A c \in ConnIds : conns'[c].pipe[e] = conns[c].pipe[e]
  PROVE  Stays(e)
BY DEF OnePlace, Stays, InPipe

\* An end whose pipe in one connection is cut, by the greeting if nothing has gone wrong.
LEMMA StaysCut ==
  ASSUME NEW e \in Ends, OnePlace(e), Whole' => Whole, ConnIds' = ConnIds, NEW c \in ConnIds,
         handled'[e] = handled[e], bus'[e] = bus[e], got'[e] = got[e],
         \A d \in ConnIds \ {c} : conns'[d].pipe[e] = conns[d].pipe[e],
         Distinct(conns'[c].pipe[e]), Items(conns'[c].pipe[e]) \subseteq Items(conns[c].pipe[e]),
         Whole' => Items(conns[c].pipe[e]) \subseteq Items(conns'[c].pipe[e]) \cup {Hello}
  PROVE  Stays(e)
<1>1. Hello \notin Msgs
  BY DEF Hello, Msgs
<1>2. \A d \in ConnIds : Distinct(conns'[d].pipe[e])
  BY DEF OnePlace
<1>3. \A d \in ConnIds, m \in Msgs : m \in Items(conns'[d].pipe[e]) => m \in Items(conns[d].pipe[e])
  OBVIOUS
<1>4. Whole' => \A d \in ConnIds, m \in Msgs :
                  m \in Items(conns[d].pipe[e]) => m \in Items(conns'[d].pipe[e])
  BY <1>1
<1> QED BY <1>2, <1>3, <1>4 DEF Stays, InPipe

\* What the steps come to for both ends.
Moved == \A e \in Ends : Stays(e) \/ Sends(e) \/ Arrives(e)

\* The steps that touch neither connections nor messages.
LEMMA QuietMoves ==
  ASSUME TypeOK, \A e \in Ends : OnePlace(e), GreetInv,
         UNCHANGED <<conns, handled, bus, got, breaks, coalesced>>
  PROVE  Moved /\ GreetInv'
<1>1. ConnIds' = ConnIds /\ (Whole' => Whole)
  BY DEF ConnIds, Whole
<1>2. ASSUME NEW e \in Ends PROVE Stays(e)
  BY <1>1, StaysSame
<1> QED BY <1>1, <1>2 DEF Moved, GreetInv

\* A connection is written without its pipes.
LEMMA PipesStay ==
  ASSUME TypeOK, NEW c \in ConnIds, NEW o, NEW r, NEW p, Becomes(c, o, r, p), NEW e \in Ends,
         p[e] = conns[c].pipe[e]
  PROVE  \A d \in ConnIds : conns'[d].pipe[e] = conns[d].pipe[e]
BY DEF Becomes

\* One that is not greeted stays as it was.
LEMMA GreetStays ==
  ASSUME GreetInv, ConnIds' = ConnIds, breaks' = breaks, NEW c \in ConnIds,
         \A d \in ConnIds \ {c} : conns'[d] = conns[d],
         conns'[c].greeted <=> conns[c].greeted,
         conns'[c].broken <=> conns[c].broken,
         conns'[c].reader["gate"] => conns[c].reader["gate"],
         ~conns[c].greeted =>
           \/ conns'[c].pipe["gs"] = conns[c].pipe["gs"]
           \/ /\ ~conns[c].broken /\ conns'[c].pipe["gs"] # << >>
              /\ Head(conns'[c].pipe["gs"]) = Head(conns[c].pipe["gs"])
  PROVE  GreetInv'
<1>1. \A d \in ConnIds \ {c} : conns'[d] = conns[d]
  OBVIOUS
<1>2. ASSUME NEW d \in ConnIds' PROVE
        /\ conns'[d].broken => breaks' # 0
        /\ ~conns'[d].greeted => /\ ~conns'[d].reader["gate"]
                                 /\ ~conns'[d].broken => conns'[d].pipe["gs"] # << >>
                                 /\ conns'[d].pipe["gs"] # << >> => Head(conns'[d].pipe["gs"]) = Hello
  <2>1. CASE d # c
    BY <2>1 DEF GreetInv
  <2>2. CASE d = c
    BY <2>2 DEF GreetInv
  <2> QED BY <2>1, <2>2
<1> QED BY <1>2 DEF GreetInv

\* The sending goroutine's steps.
LEMMA SendMoves ==
  ASSUME QueueAssumption, TypeOK, \A e \in Ends : OnePlace(e), GreetInv, NEW f \in Ends,
         FallbackNatsMqSend(f) \/ GateTcpMqSend(f) \/ WriteFails(f)
  PROVE  Moved /\ GreetInv'
<1> DEFINE g == Other(f)
<1>1. g \in Ends /\ Ends = {f, g} /\ f # g
  BY OtherEnd
<1>2. /\ handled'[f] \in Msgs /\ handled'[f] = handled[f] + 1 /\ handled'[g] = handled[g]
      /\ got' = got /\ breaks' = breaks /\ coalesced' = coalesced
  BY Taken DEF FallbackNatsMqSend, GateTcpMqSend, WriteFails
<1>3. Whole' => Whole
  BY <1>2 DEF Whole
<1> HIDE DEF g
<1>4. CASE FallbackNatsMqSend(f)
  <2>1. conns' = conns /\ ConnIds' = ConnIds
    BY <1>4 DEF FallbackNatsMqSend, ConnIds
  <2>2. bus'[f] = Append(bus[f], handled'[f]) /\ bus'[g] = bus[g] /\ bus[f] \in Seq(Msgs)
    BY <1>4, <1>2, Published DEF FallbackNatsMqSend, g
  <2>3. Sends(f)
    BY <1>2, <1>3, <2>1, <2>2 DEF Sends
  <2>4. Stays(g)
    BY <1>1, <1>2, <1>3, <2>1, <2>2, StaysSame
  <2>5. GreetInv'
    BY <1>2, <2>1 DEF GreetInv
  <2> QED BY <1>1, <2>3, <2>4, <2>5 DEF Moved
<1>5. CASE GateTcpMqSend(f)
  <2>1. bus' = bus
    BY <1>5 DEF GateTcpMqSend
  <2>2. PICK c \in ConnIds, s \in Seq(Msgs \cup {Hello}) :
          /\ Becomes(c, conns[c].open, conns[c].reader, [conns[c].pipe EXCEPT ![f] = s])
          /\ conns'[c].greeted <=> conns[c].greeted
          /\ conns'[c].broken <=> conns[c].broken
          /\ conns[c].broken => s = conns[c].pipe[f]
          /\ ~conns[c].broken => s = Append(conns[c].pipe[f], handled'[f])
    BY <1>5, TcpSendIs
  <2>3. /\ ConnIds' = ConnIds /\ \A d \in ConnIds \ {c} : conns'[d] = conns[d]
        /\ conns'[c].pipe[f] = s /\ conns'[c].pipe[g] = conns[c].pipe[g]
        /\ conns'[c].reader = conns[c].reader
        /\ conns[c].pipe[f] \in Seq(Msgs \cup {Hello})
    <3>1. conns[c].pipe \in [Ends -> Seq(Msgs \cup {Hello})]
      BY ConnIs
    <3> QED BY <1>1, <2>2, <3>1 DEF Becomes
  <2>4. conns[c].broken => ~Whole'
    BY <1>2 DEF GreetInv, Whole
  <2>5. Sends(f)
    <3>1. \/ conns'[c].pipe[f] = Append(conns[c].pipe[f], handled'[f])
          \/ conns'[c].pipe[f] = conns[c].pipe[f] /\ ~Whole'
      BY <2>2, <2>3, <2>4
    <3>2. \A d \in ConnIds \ {c} : conns'[d].pipe[f] = conns[d].pipe[f]
      BY <2>3
    <3> QED BY <1>2, <1>3, <2>1, <2>3, <3>1, <3>2 DEF Sends
  <2>6. Stays(g)
    <3>1. \A d \in ConnIds : conns'[d].pipe[g] = conns[d].pipe[g]
      BY <2>3
    <3> QED BY <1>1, <1>2, <1>3, <2>1, <2>3, <3>1, StaysSame
  <2>7. GreetInv'
    <3>1. ASSUME ~conns[c].greeted
          PROVE  \/ conns'[c].pipe["gs"] = conns[c].pipe["gs"]
                 \/ /\ ~conns[c].broken /\ conns'[c].pipe["gs"] # << >>
                    /\ Head(conns'[c].pipe["gs"]) = Head(conns[c].pipe["gs"])
      <4>1. CASE f = "gs" /\ ~conns[c].broken
        <5>1. conns[c].pipe[f] # << >> /\ s = Append(conns[c].pipe[f], handled'[f])
          BY <2>2, <3>1, <4>1 DEF GreetInv
        <5>2. handled'[f] \in Msgs \cup {Hello}
          BY <1>2
        <5>3. s # << >> /\ Head(s) = Head(conns[c].pipe[f])
          BY <2>3, <5>1, <5>2
        <5> QED BY <2>3, <4>1, <5>3
      <4>2. CASE f = "gs" /\ conns[c].broken
        BY <2>2, <2>3, <4>2
      <4>3. CASE g = "gs"
        BY <2>3, <4>3
      <4> QED BY <1>1, <4>1, <4>2, <4>3 DEF Ends
    <3> QED BY <1>2, <2>2, <2>3, <3>1, GreetStays
  <2> QED BY <1>1, <2>5, <2>6, <2>7 DEF Moved
<1>6. CASE WriteFails(f)
  <2>1. bus'[f] = Append(bus[f], handled'[f]) /\ bus'[g] = bus[g] /\ bus[f] \in Seq(Msgs)
    BY <1>6, <1>2, Published DEF WriteFails, g
  <2>2. PICK c \in ConnIds :
          /\ Becomes(c, [conns[c].open EXCEPT ![f] = FALSE], conns[c].reader, conns[c].pipe)
          /\ conns'[c].greeted <=> conns[c].greeted
          /\ conns'[c].broken <=> conns[c].broken
    BY <1>6, FailIs
  <2>3. /\ ConnIds' = ConnIds /\ \A d \in ConnIds \ {c} : conns'[d] = conns[d]
        /\ conns'[c].pipe = conns[c].pipe /\ conns'[c].reader = conns[c].reader
    BY <2>2 DEF Becomes
  <2>4. \A d \in ConnIds : conns'[d].pipe = conns[d].pipe
    BY <2>3
  <2>5. Sends(f)
    BY <1>2, <1>3, <2>1, <2>3, <2>4 DEF Sends
  <2>6. Stays(g)
    BY <1>1, <1>2, <1>3, <2>1, <2>3, <2>4, StaysSame
  <2>7. GreetInv'
    BY <1>2, <2>2, <2>3, GreetStays
  <2> QED BY <1>1, <2>5, <2>6, <2>7 DEF Moved
<1> QED BY <1>4, <1>5, <1>6

\* A message arrives over a connection: a greeting that a reader meets counts as none.
LEMMA RecvMoves ==
  ASSUME QueueAssumption, TypeOK, \A e \in Ends : OnePlace(e), GreetInv,
         NEW f \in Ends, NEW c \in ConnIds, GateTcpMqRecv(Other(f), c)
  PROVE  Moved /\ GreetInv'
<1> DEFINE g == Other(f)
           p == conns[c].pipe[f]
<1>1. g \in Ends /\ Ends = {f, g} /\ f # g
  BY OtherEnd
<1>2. /\ p \in Seq(Msgs \cup {Hello}) /\ p # << >> /\ Head(p) \in Msgs \cup {Hello}
      /\ Receive(f, Head(p)) /\ conns[c].reader[g]
      /\ Becomes(c, conns[c].open, conns[c].reader, [conns[c].pipe EXCEPT ![f] = Tail(p)])
      /\ conns'[c].greeted <=> conns[c].greeted
      /\ conns'[c].broken <=> conns[c].broken
      /\ UNCHANGED <<handled, bus, breaks, coalesced>>
  BY RecvIs
<1>3. /\ ConnIds' = ConnIds /\ \A d \in ConnIds \ {c} : conns'[d] = conns[d]
      /\ conns'[c].pipe[f] = Tail(p) /\ conns'[c].pipe[g] = conns[c].pipe[g]
      /\ conns'[c].reader = conns[c].reader
  <2>1. conns[c].pipe \in [Ends -> Seq(Msgs \cup {Hello})]
    BY ConnIs
  <2> HIDE DEF p
  <2> QED BY <1>1, <1>2, <2>1 DEF Becomes
<1>4. /\ got' \in [Ends -> [Msgs -> Nat]] /\ got'[g] = got[g]
      /\ \A n \in Msgs : got'[f][n] = IF n = Head(p) THEN got[f][n] + 1 ELSE got[f][n]
  <2> HIDE DEF p
  <2> QED BY <1>2, Received
<1>5. Whole' => Whole
  BY <1>2 DEF Whole
<1> HIDE DEF g
<1>6. Stays(g)
  <2>1. \A d \in ConnIds : conns'[d].pipe[g] = conns[d].pipe[g]
    BY <1>3
  <2> QED BY <1>1, <1>2, <1>3, <1>4, <1>5, <2>1, StaysSame
<1>7. Stays(f) \/ Arrives(f)
  <2>1. CASE Head(p) = Hello
    <3>1. got'[f] = got[f]
      <4>1. \A n \in Msgs : n # Hello
        BY DEF Msgs, Hello
      <4>2. \A n \in Msgs : got'[f][n] = got[f][n]
        BY <1>4, <2>1, <4>1
      <4>3. got'[f] \in [Msgs -> Nat] /\ got[f] \in [Msgs -> Nat]
        BY <1>4 DEF TypeOK
      <4> QED BY <4>2, <4>3
    <3>2. Distinct(p) => Distinct(Tail(p))
      <4> HIDE DEF p
      <4> QED BY <1>2, TailItems
    <3>3. Items(p) = Items(Tail(p)) \cup {Hello}
      <4> HIDE DEF p
      <4> QED BY <1>2, <2>1, TailItems
    <3>4. Distinct(p)
      BY DEF OnePlace
    <3> QED BY <1>2, <1>3, <1>5, <3>1, <3>2, <3>3, <3>4, StaysCut
  <2>2. CASE Head(p) \in Msgs
    <3>1. \A d \in ConnIds \ {c} : conns'[d].pipe[f] = conns[d].pipe[f]
      BY <1>3
    <3>2. handled'[f] = handled[f] /\ bus'[f] = bus[f]
      BY <1>2
    <3> QED BY <1>2, <1>3, <1>4, <1>5, <2>2, <3>1, <3>2 DEF Arrives
  <2> QED BY <1>2, <2>1, <2>2
<1>8. GreetInv'
  <2>1. ~conns[c].greeted => conns'[c].pipe["gs"] = conns[c].pipe["gs"]
    <3>1. CASE g = "gate"
      BY <1>2, <3>1 DEF GreetInv
    <3>2. CASE g = "gs"
      BY <1>3, <3>2
    <3> QED BY <1>1, <3>1, <3>2 DEF Ends
  <2> QED BY <1>2, <1>3, <2>1, GreetStays
<1> QED BY <1>1, <1>6, <1>7, <1>8 DEF Moved

\* A message arrives by NATS.
LEMMA NatsMoves ==
  ASSUME QueueAssumption, TypeOK, \A e \in Ends : OnePlace(e), GreetInv,
         NEW f \in Ends, NatsMsgRecv(f)
  PROVE  Moved /\ GreetInv'
<1> DEFINE g == Other(f)
<1>1. g \in Ends /\ Ends = {f, g} /\ f # g
  BY OtherEnd
<1>2. /\ bus[f] \in Seq(Msgs) /\ bus[f] # << >> /\ bus'[f] = Tail(bus[f]) /\ bus'[g] = bus[g]
      /\ Receive(f, Head(bus[f])) /\ Head(bus[f]) \in Msgs
      /\ UNCHANGED <<handled, conns, breaks, coalesced>>
  BY NatsIs
<1>3. /\ got'[g] = got[g]
      /\ \A n \in Msgs : got'[f][n] = IF n = Head(bus[f]) THEN got[f][n] + 1 ELSE got[f][n]
  BY <1>2, Received
<1>4. ConnIds' = ConnIds /\ (Whole' => Whole)
  BY <1>2 DEF ConnIds, Whole
<1> HIDE DEF g
<1>5. Stays(g)
  BY <1>1, <1>2, <1>3, <1>4, StaysSame
<1>6. Arrives(f)
  BY <1>2, <1>3, <1>4 DEF Arrives
<1>7. GreetInv'
  BY <1>2, <1>4 DEF GreetInv
<1> QED BY <1>1, <1>5, <1>6, <1>7 DEF Moved

\* A reader meets the end of its connection.
LEMMA RecvFailsMoves ==
  ASSUME QueueAssumption, TypeOK, \A e \in Ends : OnePlace(e), GreetInv,
         NEW f \in Ends, NEW c \in ConnIds, RecvFails(f, c)
  PROVE  Moved /\ GreetInv'
<1>1. /\ Becomes(c, [conns[c].open EXCEPT ![f] = FALSE],
                    [conns[c].reader EXCEPT ![f] = FALSE], conns[c].pipe)
      /\ conns'[c].greeted <=> conns[c].greeted
      /\ conns'[c].broken <=> conns[c].broken
      /\ UNCHANGED <<handled, bus, got, breaks, coalesced>>
  BY RecvFailsIs
<1>2. /\ ConnIds' = ConnIds /\ \A d \in ConnIds \ {c} : conns'[d] = conns[d]
      /\ conns'[c].pipe = conns[c].pipe
      /\ conns'[c].reader = [conns[c].reader EXCEPT ![f] = FALSE]
  BY <1>1 DEF Becomes
<1>3. conns'[c].reader["gate"] => conns[c].reader["gate"]
  <2>1. conns[c].reader \in [Ends -> BOOLEAN] /\ "gate" \in Ends
    BY ConnIs DEF Ends
  <2> QED BY <1>2, <2>1
<1>4. Whole' => Whole
  BY <1>1 DEF Whole
<1>5. \A d \in ConnIds : conns'[d].pipe = conns[d].pipe
  BY <1>2
<1>6. ASSUME NEW e \in Ends PROVE Stays(e)
  BY <1>1, <1>2, <1>4, <1>5, StaysSame
<1>7. GreetInv'
  BY <1>1, <1>2, <1>3, GreetStays
<1> QED BY <1>6, <1>7 DEF Moved

\* The gate reads a greeting, alone or with messages that are lost with it.
LEMMA GreetMoves ==
  ASSUME QueueAssumption, TypeOK, \A e \in Ends : OnePlace(e), GreetInv,
         NEW c \in ConnIds, GateTcpMqHandshake(c) \/ HandshakeRefused(c)
  PROVE  Moved /\ GreetInv'
<1> DEFINE p == conns[c].pipe["gs"]
<1>1. "gs" \in Ends /\ "gate" \in Ends /\ "gs" # "gate" /\ Ends = {"gs", "gate"}
  BY DEF Ends
<1>2. /\ ~conns[c].greeted /\ p # << >> /\ p \in Seq(Msgs \cup {Hello})
      /\ UNCHANGED <<handled, bus, got, breaks>>
  BY <1>1, ConnIs DEF GateTcpMqHandshake, HandshakeRefused, Awaiting
<1>3. Head(p) = Hello /\ (conns[c].broken => breaks # 0)
  BY <1>2 DEF GreetInv
<1> HIDE DEF p
<1>4. PICK reader \in [Ends -> BOOLEAN], s \in Seq(Msgs \cup {Hello}) :
        /\ Becomes(c, conns[c].open, reader, [conns[c].pipe EXCEPT !["gs"] = s])
        /\ conns'[c].greeted
        /\ conns'[c].broken <=> conns[c].broken
        /\ \/ GateTcpMqHandshake(c) /\ s = Tail(p)
           \/ HandshakeRefused(c) /\ s = << >>
  BY Greets DEF p
<1>5. /\ ConnIds' = ConnIds /\ \A d \in ConnIds \ {c} : conns'[d] = conns[d]
      /\ conns'[c].pipe["gs"] = s /\ conns'[c].pipe["gate"] = conns[c].pipe["gate"]
  <2>1. conns[c].pipe \in [Ends -> Seq(Msgs \cup {Hello})]
    BY ConnIs
  <2> QED BY <1>1, <1>4, <2>1 DEF Becomes
<1>6. GateTcpMqHandshake(c) => coalesced' = coalesced
  BY DEF GateTcpMqHandshake
<1>7. HandshakeRefused(c) => coalesced'
  BY DEF HandshakeRefused
<1>8. Whole' => Whole /\ s = Tail(p)
  BY <1>2, <1>4, <1>6, <1>7 DEF Whole
<1>9. Stays("gs")
  <2>1. Distinct(p)
    BY <1>1 DEF OnePlace, p
  <2>2. /\ Items(p) = Items(Tail(p)) \cup {Hello} /\ Distinct(Tail(p))
    BY <1>2, <1>3, <2>1, TailItems
  <2>3. Distinct(s) /\ Items(s) \subseteq Items(p) /\ (Whole' => Items(p) \subseteq Items(s) \cup {Hello})
    BY <1>4, <1>8, <2>2, NoItems
  <2>4. OnePlace("gs") /\ handled'["gs"] = handled["gs"] /\ bus'["gs"] = bus["gs"] /\ got'["gs"] = got["gs"]
    BY <1>1, <1>2
  <2>5. \A d \in ConnIds \ {c} : conns'[d].pipe["gs"] = conns[d].pipe["gs"]
    BY <1>5
  <2> QED BY <1>1, <1>5, <1>8, <2>3, <2>4, <2>5, StaysCut DEF p
<1>10. Stays("gate")
  <2>1. \A d \in ConnIds : conns'[d].pipe["gate"] = conns[d].pipe["gate"]
    BY <1>5
  <2> QED BY <1>1, <1>2, <1>5, <1>8, <2>1, StaysSame
<1>11. GreetInv'
  <2>1. ASSUME NEW d \in ConnIds' PROVE
        /\ conns'[d].broken => breaks' # 0
        /\ ~conns'[d].greeted => /\ ~conns'[d].reader["gate"]
                                 /\ ~conns'[d].broken => conns'[d].pipe["gs"] # << >>
                                 /\ conns'[d].pipe["gs"] # << >> => Head(conns'[d].pipe["gs"]) = Hello
    <3>1. CASE d = c
      BY <1>2, <1>3, <1>4, <3>1
    <3>2. CASE d # c
      <4>1. d \in ConnIds \ {c}
        BY <1>5, <3>2
      <4>2. conns'[d] = conns[d]
        BY <1>5, <4>1
      <4> QED BY <1>2, <4>1, <4>2 DEF GreetInv
    <3> QED BY <3>1, <3>2
  <2> QED BY <2>1 DEF GreetInv
<1> QED BY <1>1, <1>9, <1>10, <1>11 DEF Moved

\* The handshake's event is posted.
LEMMA PostMoves ==
  ASSUME QueueAssumption, TypeOK, \A e \in Ends : OnePlace(e), GreetInv, NEW c \in ConnIds,
         PostConnect(c)
  PROVE  Moved /\ GreetInv'
<1>1. /\ Becomes(c, conns[c].open, conns[c].reader, conns[c].pipe)
      /\ conns'[c].greeted <=> conns[c].greeted
      /\ conns'[c].broken <=> conns[c].broken
  BY Posts
<1>2. UNCHANGED <<handled, bus, got, breaks, coalesced>>
  BY DEF PostConnect
<1>3. /\ ConnIds' = ConnIds /\ \A d \in ConnIds \ {c} : conns'[d] = conns[d]
      /\ conns'[c].pipe = conns[c].pipe /\ conns'[c].reader = conns[c].reader
  BY <1>1 DEF Becomes
<1>4. Whole' => Whole
  BY <1>2 DEF Whole
<1>5. ASSUME NEW e \in Ends PROVE Stays(e)
  <2>1. \A d \in ConnIds : conns'[d].pipe[e] = conns[d].pipe[e]
    BY <1>3
  <2> QED BY <1>2, <1>3, <1>4, <2>1, StaysSame
<1>6. GreetInv'
  BY <1>1, <1>2, <1>3, GreetStays
<1> QED BY <1>5, <1>6 DEF Moved

\* A connection breaks.
LEMMA BreakMoves ==
  ASSUME QueueAssumption, TypeOK, \A e \in Ends : OnePlace(e), GreetInv, NEW c \in ConnIds, Break(c)
  PROVE  Moved /\ GreetInv'
<1>1. PICK gone \in SUBSET Ends :
        /\ Becomes(c, conns[c].open, conns[c].reader, Left(c, gone))
        /\ conns'[c].greeted <=> conns[c].greeted
        /\ conns'[c].broken
  BY Breaks
<1>2. /\ UNCHANGED <<handled, bus, got, coalesced>> /\ breaks' # 0
  BY DEF Break, TypeOK
<1>3. /\ ConnIds' = ConnIds /\ \A d \in ConnIds \ {c} : conns'[d] = conns[d]
      /\ conns'[c].reader = conns[c].reader
      /\ \A e \in Ends : conns'[c].pipe[e] = << >> \/ conns'[c].pipe[e] = conns[c].pipe[e]
  BY <1>1 DEF Becomes, Left
<1>4. ~Whole'
  BY <1>2 DEF Whole
<1>5. ASSUME NEW e \in Ends PROVE Stays(e)
  <2>1. Distinct(conns'[c].pipe[e]) /\ Items(conns'[c].pipe[e]) \subseteq Items(conns[c].pipe[e])
    BY <1>3, NoItems DEF OnePlace
  <2>2. \A d \in ConnIds \ {c} : conns'[d].pipe[e] = conns[d].pipe[e]
    BY <1>3
  <2> QED BY <1>2, <1>3, <1>4, <2>1, <2>2, StaysCut
<1>6. GreetInv'
  <2>1. "gs" \in Ends
    BY DEF Ends
  <2>2. ASSUME NEW d \in ConnIds' PROVE
        /\ conns'[d].broken => breaks' # 0
        /\ ~conns'[d].greeted => /\ ~conns'[d].reader["gate"]
                                 /\ ~conns'[d].broken => conns'[d].pipe["gs"] # << >>
                                 /\ conns'[d].pipe["gs"] # << >> => Head(conns'[d].pipe["gs"]) = Hello
    <3>1. CASE d = c
      BY <1>1, <1>2, <1>3, <2>1, <3>1 DEF GreetInv
    <3>2. CASE d # c
      <4>1. conns'[d] = conns[d] /\ d \in ConnIds
        BY <1>3, <3>2
      <4> QED BY <1>2, <4>1 DEF GreetInv
    <3> QED BY <3>1, <3>2
  <2> QED BY <2>2 DEF GreetInv
<1> QED BY <1>5, <1>6 DEF Moved

\* A connection is dialled, with the greeting in it.
LEMMA ConnMoves ==
  ASSUME QueueAssumption, TypeOK, \A e \in Ends : OnePlace(e), GreetInv, GateTcpMqConn
  PROVE  Moved /\ GreetInv'
<1> DEFINE n == Len(conns) + 1
<1>1. /\ n \notin ConnIds /\ ConnIds' = ConnIds \cup {n} /\ conns'[n] = NewConn
      /\ \A c \in ConnIds : conns'[c] = conns[c]
      /\ ~NewConn.reader["gate"] /\ ~NewConn.greeted /\ ~NewConn.broken
      /\ NewConn.pipe["gs"] = <<Hello>> /\ NewConn.pipe["gate"] = << >>
  BY ConnAdded
<1>2. UNCHANGED <<handled, bus, got, breaks, coalesced>>
  BY DEF GateTcpMqConn
<1> HIDE DEF n
<1>3. Whole' => Whole
  BY <1>2 DEF Whole
<1>4. ASSUME NEW e \in Ends PROVE Stays(e)
  <2>1. Distinct(NewConn.pipe[e]) /\ Items(NewConn.pipe[e]) \subseteq {Hello}
    <3>1. Distinct(<<Hello>>) /\ Items(<<Hello>>) \subseteq {Hello}
      BY DEF Distinct, Items
    <3>2. e = "gs" \/ e = "gate"
      BY DEF Ends
    <3> QED BY <1>1, <3>1, <3>2, NoItems
  <2>2. \A m \in Msgs : m # Hello
    BY DEF Msgs, Hello
  <2>3. \A c \in ConnIds' : /\ Distinct(conns'[c].pipe[e])
                            /\ \A m \in Msgs : m \in Items(conns'[c].pipe[e]) =>
                                 c \in ConnIds /\ m \in Items(conns[c].pipe[e])
    <3>1. ASSUME NEW c \in ConnIds PROVE Distinct(conns'[c].pipe[e]) /\ conns'[c].pipe[e] = conns[c].pipe[e]
      BY <1>1, <3>1 DEF OnePlace
    <3> QED BY <1>1, <2>1, <2>2, <3>1
  <2>4. \A c \in ConnIds : \A m \in Msgs : m \in Items(conns[c].pipe[e]) => m \in Items(conns'[c].pipe[e])
    BY <1>1
  <2> QED BY <1>1, <1>2, <1>3, <2>3, <2>4 DEF Stays, InPipe
<1>5. GreetInv'
  <2>1. <<Hello>> # << >> /\ Head(<<Hello>>) = Hello
    OBVIOUS
  <2> QED BY <1>1, <1>2, <2>1 DEF GreetInv
<1> QED BY <1>4, <1>5 DEF Moved

\* Every message has its place, and no greeting is taken for one.
PlaceInv == GreetInv /\ \A e \in Ends : OnePlace(e) /\ NoneLost(e)

\* Every step leaves it one.
LEMMA NextPlace == ASSUME QueueAssumption, TypeOK, PlaceInv, [Next]_vars PROVE PlaceInv'
<1>1. (\A e \in Ends : OnePlace(e)) /\ GreetInv
  BY DEF PlaceInv
<1>2. Moved /\ GreetInv'
  <2>1. CASE UNCHANGED <<conns, handled, bus, got, breaks, coalesced>>
    BY <1>1, <2>1, QuietMoves
  <2>2. ASSUME NEW f \in Ends, NEW c \in ConnIds, GateTcpMqRecv(f, c) PROVE Moved /\ GreetInv'
    <3>1. Other(f) \in Ends /\ GateTcpMqRecv(Other(Other(f)), c)
      BY <2>2, OtherEnd
    <3> QED BY <1>1, <3>1, RecvMoves
  <2>3. ASSUME NEW f \in Ends, SendTo(f) \/ HandleConnect(f) \/ HandleDisconnect(f)
        PROVE  Moved /\ GreetInv'
    BY <2>1, <2>3 DEF SendTo, HandleConnect, HandleDisconnect
  <2>4. CASE ForgetAddr
    BY <2>1, <2>4 DEF ForgetAddr
  <2>5. CASE UNCHANGED vars
    BY <2>1, <2>5 DEF vars
  <2> QED BY <1>1, <2>2, <2>3, <2>4, <2>5, SendMoves, NatsMoves, RecvFailsMoves, GreetMoves, PostMoves,
             BreakMoves, ConnMoves DEF Next
<1>3. ASSUME NEW e \in Ends PROVE OnePlace(e)' /\ NoneLost(e)'
  <2>1. OnePlace(e) /\ NoneLost(e)
    BY DEF PlaceInv
  <2>2. Stays(e) \/ Sends(e) \/ Arrives(e)
    BY <1>2 DEF Moved
  <2> QED BY <2>1, <2>2, StaysKeeps, SendsKeeps, ArrivesKeeps
<1> QED BY <1>2, <1>3 DEF PlaceInv

\* At the start there are no messages.
LEMMA InitPlace == ASSUME Init PROVE PlaceInv
<1>1. conns = << >> /\ ConnIds = {} /\ \A e \in Ends : bus[e] = << >> /\ handled[e] = 0
  BY DEF Init, ConnIds
<1>2. GreetInv
  BY <1>1 DEF GreetInv
<1>3. ASSUME NEW e \in Ends PROVE OnePlace(e) /\ NoneLost(e)
  <2>1. \A m \in Msgs : got[e][m] = 0 /\ ~InBus(e, m)
    BY <1>1, NoItems DEF Init, InBus
  <2>2. \A m \in 1 .. handled[e] : FALSE
    BY <1>1
  <2> QED BY <1>1, <2>1, <2>2, NoItems DEF OnePlace, NoneLost
<1> QED BY <1>2, <1>3 DEF PlaceInv

\* A set whose elements are all the same has one or none.
LEMMA OneOrNone ==
  ASSUME NEW S, \A x, y \in S : x = y
  PROVE  \/ S = {} /\ Cardinality(S) = 0
         \/ S # {} /\ Cardinality(S) = 1
<1>1. CASE S = {}
  <2>1. Cardinality({}) = 0
    BY FS_EmptySet
  <2> QED BY <1>1, <2>1
<1>2. ASSUME NEW x \in S PROVE S # {} /\ Cardinality(S) = 1
  <2>1. S = {x}
    BY <1>2
  <2> QED BY <2>1, FS_Singleton
<1> QED BY <1>1, <1>2

\* A message in its place has one way to arrive, or has arrived.
LEMMA PlaceWays ==
  ASSUME QueueAssumption, TypeOK, PlaceInv PROVE OneWay
<1> SUFFICES ASSUME NEW e \in Ends, NEW m \in 1 .. handled[e]
             PROVE  Ways(e, m) <= 1 /\ (Whole => Ways(e, m) = 1)
  BY DEF OneWay, Whole
<1> DEFINE C == {c \in ConnIds : m \in Items(conns[c].pipe[e])}
           B == {i \in DOMAIN bus[e] : bus[e][i] = m}
<1>1. m \in Msgs /\ OnePlace(e) /\ NoneLost(e)
  BY HandledMsgs DEF PlaceInv
<1>2. got[e][m] \in Nat /\ got[e][m] <= 1
  BY <1>1 DEF OnePlace, TypeOK
<1>3. \/ C = {} /\ Cardinality(C) = 0
      \/ C # {} /\ Cardinality(C) = 1
  <2>1. \A c, d \in C : c = d
    BY <1>1 DEF OnePlace, InPipe
  <2> HIDE DEF C
  <2> QED BY <2>1, OneOrNone
<1>4. \/ B = {} /\ Cardinality(B) = 0
      \/ B # {} /\ Cardinality(B) = 1
  <2>1. DOMAIN bus[e] = 1 .. Len(bus[e])
    BY DEF TypeOK
  <2>2. \A i, j \in B : i = j
    BY <1>1, <2>1 DEF OnePlace, Distinct
  <2> HIDE DEF B
  <2> QED BY <2>2, OneOrNone
<1>5. (C # {} <=> \E c \in ConnIds : InPipe(e, c, m)) /\ (B # {} <=> InBus(e, m))
  BY DEF InPipe, InBus, Items
<1>6. /\ C # {} => B = {} /\ got[e][m] = 0
      /\ B # {} => got[e][m] = 0
  BY <1>1, <1>5 DEF OnePlace
<1>7. Whole => C # {} \/ B # {} \/ got[e][m] = 1
  BY <1>1, <1>5 DEF NoneLost
<1>8. Ways(e, m) = Cardinality(C) + Cardinality(B) + got[e][m]
  BY DEF Ways
<1> HIDE DEF B, C
<1> QED BY <1>2, <1>3, <1>4, <1>6, <1>7, <1>8

\* A message is never in two places, and so never arrives twice, although a failed write of
\* sendHandler sends it again by NATS; and it is lost only with a connection that breaks or a
\* greeting read together with it: for any number of messages and connections.
THEOREM OneWayCorrect == ASSUME QueueAssumption PROVE Spec => []OneWay
<1>1. Init => PlaceInv
  BY InitPlace
<1>2. TypeOK /\ PlaceInv /\ [Next]_vars => PlaceInv'
  BY NextPlace
<1>3. TypeOK /\ PlaceInv => OneWay
  BY PlaceWays
<1> QED BY <1>1, <1>2, <1>3, TypeCorrect, PTL DEF Spec
-----------------------------------------------------------------------------
(* The connecting and the sending goroutine.                               *)

Live(c) == conns[c].reader["gs"] \/ conns[c].open["gs"]
\* A disconnection is to be handled, after position i.
EndAfter(i) == \E j \in 1 .. Len(events["gs"]) : j > i /\ events["gs"][j].type = "disconnect"

\* A connection that is registered, or is about to be, is alive or its end has been reported;
\* and an address is forgotten for every end that has been handled.
AddrInv ==
  /\ addrKnown /\ deadEvents["gs"] = 0 /\ events["gs"] = << >> => registered["gs"] # None
  /\ registered["gs"] # None => Live(registered["gs"]) \/ EndAfter(0)
  /\ \A i \in 1 .. Len(events["gs"]) :
       events["gs"][i].type = "connect" =>
         conns[events["gs"][i].conn].reader["gs"] \/ EndAfter(i)

\* Nothing the client end knows changes.
LEMMA AddrSame ==
  ASSUME TypeOK, AddrInv, events'["gs"] = events["gs"], registered'["gs"] = registered["gs"],
         addrKnown' => addrKnown /\ deadEvents'["gs"] = deadEvents["gs"],
         \A c \in ConnIds : /\ conns[c].reader["gs"] => conns'[c].reader["gs"]
                            /\ conns[c].open["gs"] => conns'[c].open["gs"]
  PROVE  AddrInv'
<1>1. /\ registered["gs"] # None => registered["gs"] \in ConnIds
      /\ \A i \in 1 .. Len(events["gs"]) : events["gs"][i].conn \in ConnIds
  <2>1. events["gs"] \in Seq(EventType) /\ registered["gs"] \in ConnIds \cup {None}
    BY DEF TypeOK, Ends
  <2>2. \A i \in 1 .. Len(events["gs"]) : events["gs"][i] \in EventType
    BY <2>1
  <2> QED BY <2>1, <2>2 DEF EventType
<1>2. \A i : EndAfter(i)' <=> EndAfter(i)
  BY DEF EndAfter
<1>3. addrKnown' /\ deadEvents'["gs"] = 0 /\ events'["gs"] = << >> => registered'["gs"] # None
  BY DEF AddrInv
<1>4. registered'["gs"] # None => Live(registered["gs"])' \/ EndAfter(0)'
  BY <1>1, <1>2 DEF AddrInv, Live
<1>5. \A i \in 1 .. Len(events'["gs"]) :
        events'["gs"][i].type = "connect" =>
          conns'[events'["gs"][i].conn].reader["gs"] \/ EndAfter(i)'
  BY <1>1, <1>2 DEF AddrInv
<1> QED BY <1>3, <1>4, <1>5 DEF AddrInv, Live, EndAfter

\* The client end reports a disconnection: what is registered will be removed.
LEMMA AddrEnds ==
  ASSUME TypeOK, AddrInv, NEW c \in ConnIds, Disconnect("gs", c), ConnIds' = ConnIds
  PROVE  AddrInv'
<1> DEFINE E == events["gs"]
           v == Event("disconnect", c)
<1>1. /\ events'["gs"] = Append(E, v) /\ E \in Seq(EventType) /\ v \in EventType
      /\ v.type = "disconnect"
  <2>1. "gs" \in Ends
    BY DEF Ends
  <2> QED BY <2>1, Reported DEF TypeOK, Event
<1> HIDE DEF E, v
<1>2. /\ Len(E) \in Nat /\ Len(events'["gs"]) = Len(E) + 1 /\ events'["gs"][Len(E) + 1] = v
      /\ events'["gs"] # << >>
  BY <1>1, AppendItems
<1>3. \A i \in 0 .. Len(E) : EndAfter(i)'
  <2>1. Len(E) + 1 \in 1 .. Len(events'["gs"]) /\ \A i \in 0 .. Len(E) : Len(E) + 1 > i
    BY <1>2
  <2> QED BY <1>1, <1>2, <2>1 DEF EndAfter
<1>4. EndAfter(0)'
  BY <1>2, <1>3
<1>5. ASSUME NEW i \in 1 .. Len(events'["gs"]), events'["gs"][i].type = "connect"
      PROVE  EndAfter(i)'
  <2>1. i # Len(E) + 1
    BY <1>1, <1>2, <1>5
  <2>2. i \in 0 .. Len(E)
    BY <1>2, <2>1
  <2> QED BY <1>3, <2>2
<1> QED BY <1>2, <1>4, <1>5 DEF AddrInv, EndAfter, Live

\* It handles an event.
LEMMA AddrHandles ==
  ASSUME TypeOK, AddrInv, HandleConnect("gs") \/ HandleDisconnect("gs")
  PROVE  AddrInv'
<1> DEFINE E == events["gs"]
<1>1. /\ "gs" \in Ends /\ E \in Seq(EventType) /\ E # << >> /\ events'["gs"] = Tail(E)
      /\ conns' = conns /\ addrKnown' = addrKnown
  <2>1. "gs" \in Ends
    BY DEF Ends
  <2> QED BY <2>1, HandleType DEF TypeOK
<1>2. /\ HandleConnect("gs") => /\ registered'["gs"] = Head(E).conn /\ Head(E).conn \in ConnIds
                                /\ Head(E).type = "connect" /\ deadEvents' = deadEvents
      /\ HandleDisconnect("gs") => /\ registered'["gs"] = None
                                   /\ deadEvents'["gs"] = deadEvents["gs"] + 1
  BY <1>1, HandleType DEF TypeOK
<1> HIDE DEF E
<1>3. /\ Head(E) = E[1] /\ Len(E) \in Nat \ {0} /\ Len(Tail(E)) = Len(E) - 1
      /\ \A i \in 1 .. Len(Tail(E)) : Tail(E)[i] = E[i + 1]
  BY <1>1, TailItems
<1>4. \A i \in 1 .. Len(E) : EndAfter(i) => EndAfter(i - 1)'
  <2>1. ASSUME NEW i \in 1 .. Len(E), NEW j \in 1 .. Len(E), j > i, E[j].type = "disconnect"
        PROVE  EndAfter(i - 1)'
    <3>1. j - 1 \in 1 .. Len(Tail(E)) /\ j - 1 > i - 1 /\ (j - 1) + 1 = j
      BY <1>3, <2>1
    <3>2. Tail(E)[j - 1].type = "disconnect"
      BY <1>3, <2>1, <3>1
    <3> QED BY <1>1, <3>1, <3>2 DEF EndAfter
  <2> QED BY <2>1 DEF EndAfter, E
<1>5. ASSUME NEW i \in 1 .. Len(Tail(E)), Tail(E)[i].type = "connect"
      PROVE  conns[Tail(E)[i].conn].reader["gs"] \/ EndAfter(i)'
  <2>1. i + 1 \in 1 .. Len(E) /\ E[i + 1] = Tail(E)[i] /\ (i + 1) - 1 = i
    BY <1>3
  <2>2. conns[E[i + 1].conn].reader["gs"] \/ EndAfter(i + 1)
    BY <1>5, <2>1 DEF AddrInv, E
  <2>3. EndAfter(i + 1) => EndAfter((i + 1) - 1)'
    BY <1>4, <2>1
  <2> QED BY <2>1, <2>2, <2>3
<1>6. CASE HandleConnect("gs")
  <2>1. 1 \in 1 .. Len(E) /\ 1 - 1 = 0
    BY <1>3
  <2>2. conns[E[1].conn].reader["gs"] \/ EndAfter(1)
    BY <1>2, <1>3, <1>6, <2>1 DEF AddrInv, E
  <2>3. EndAfter(1) => EndAfter(0)'
    BY <1>4, <2>1
  <2>4. Live(registered["gs"])' \/ EndAfter(0)'
    BY <1>1, <1>2, <1>3, <1>6, <2>2, <2>3 DEF Live
  <2>5. registered'["gs"] # None
    BY <1>2, <1>6 DEF ConnIds, None
  <2> QED BY <1>1, <1>5, <2>4, <2>5 DEF AddrInv, EndAfter, Live
<1>7. CASE HandleDisconnect("gs")
  <2>1. deadEvents["gs"] \in Nat
    BY <1>1 DEF TypeOK
  <2>2. registered'["gs"] = None /\ deadEvents'["gs"] # 0
    BY <1>2, <1>7, <2>1
  <2> QED BY <1>1, <1>5, <2>2 DEF AddrInv, EndAfter, Live
<1> QED BY <1>6, <1>7

\* A connection is dialled and will be registered, unless its end is reported first.
LEMMA AddrDials == ASSUME TypeOK, AddrInv, GateTcpMqConn PROVE AddrInv'
<1> DEFINE E == events["gs"]
           n == Len(conns) + 1
           v == Event("connect", n)
<1>1. /\ "gs" \in Ends /\ E \in Seq(EventType) /\ n \notin ConnIds /\ n \in ConnIds'
      /\ \A c \in ConnIds : conns'[c] = conns[c]
      /\ conns'[n].reader["gs"]
  <2>1. "gs" \in Ends
    BY DEF Ends
  <2> QED BY <2>1, ConnAdded DEF TypeOK
<1>2. events'["gs"] = Append(E, v) /\ registered' = registered /\ deadEvents' = deadEvents
  BY <1>1 DEF GateTcpMqConn, TypeOK
<1>3. v.conn = n
  BY DEF Event
<1> HIDE DEF E, n, v
<1>4. /\ Len(E) \in Nat /\ Len(events'["gs"]) = Len(E) + 1 /\ events'["gs"][Len(E) + 1] = v
      /\ events'["gs"] # << >> /\ \A i \in 1 .. Len(E) : events'["gs"][i] = E[i]
  <2>1. E \in Seq(EventType \cup {v}) /\ v \in EventType \cup {v}
    BY <1>1
  <2> QED BY <1>2, <2>1, AppendItems
<1>5. \A i : EndAfter(i) => EndAfter(i)'
  BY <1>4 DEF EndAfter, E
<1>6. ASSUME registered'["gs"] # None PROVE Live(registered["gs"])' \/ EndAfter(0)'
  <2>1. registered["gs"] \in ConnIds
    BY <1>1, <1>2, <1>6 DEF TypeOK
  <2> QED BY <1>1, <1>2, <1>5, <1>6, <2>1 DEF AddrInv, Live
<1>7. ASSUME NEW i \in 1 .. Len(events'["gs"]), events'["gs"][i].type = "connect"
      PROVE  conns'[events'["gs"][i].conn].reader["gs"] \/ EndAfter(i)'
  <2>1. CASE i = Len(E) + 1
    BY <1>1, <1>3, <1>4, <2>1
  <2>2. CASE i \in 1 .. Len(E)
    <3>0. E[i] \in EventType
      BY <1>1, <2>2
    <3>1. E[i].conn \in ConnIds
      BY <3>0 DEF EventType
    <3>2. conns[E[i].conn].reader["gs"] \/ EndAfter(i)
      BY <1>4, <1>7, <2>2 DEF AddrInv, E
    <3> QED BY <1>1, <1>4, <1>5, <2>2, <3>1, <3>2
  <2> QED BY <1>4, <2>1, <2>2
<1> QED BY <1>4, <1>6, <1>7 DEF AddrInv, EndAfter, Live

\* Every step leaves the two goroutines in agreement.
LEMMA NextAddr == ASSUME QueueAssumption, TypeOK, AddrInv, [Next]_vars PROVE AddrInv'
<1>0. "gs" \in Ends /\ "gate" \in Ends /\ Other("gate") = "gs" /\ Other("gs") = "gate"
  BY DEF Ends, Other
<1>1. CASE UNCHANGED <<conns, events, registered, deadEvents, addrKnown>>
  BY <1>1, AddrSame
<1>2. ASSUME NEW c \in ConnIds, NEW o, NEW r, NEW p, Becomes(c, o, r, p),
             conns[c].reader["gs"] => r["gs"], conns[c].open["gs"] => o["gs"],
             events'["gs"] = events["gs"], UNCHANGED <<registered, deadEvents, addrKnown>>
      PROVE  AddrInv'
  BY <1>2, AddrSame DEF Becomes
<1>3. ASSUME NEW e \in Ends, GateTcpMqSend(e) PROVE AddrInv'
  <2>1. UNCHANGED <<events, registered, deadEvents, addrKnown>>
    BY <1>3 DEF GateTcpMqSend, Take
  <2>2. PICK c \in ConnIds, s \in Seq(Msgs \cup {Hello}) :
          Becomes(c, conns[c].open, conns[c].reader, [conns[c].pipe EXCEPT ![e] = s])
    BY <1>3, TcpSendIs
  <2> QED BY <1>2, <2>1, <2>2
<1>4. ASSUME NEW e \in Ends, WriteFails(e) PROVE AddrInv'
  <2>1. UNCHANGED <<registered, deadEvents, addrKnown>>
    BY <1>4 DEF WriteFails, Take
  <2>2. PICK c \in ConnIds :
          /\ Disconnect(e, c)
          /\ Becomes(c, [conns[c].open EXCEPT ![e] = FALSE], conns[c].reader, conns[c].pipe)
    BY <1>4, FailIs
  <2>3. CASE e = "gs"
    BY <2>2, <2>3, AddrEnds DEF Becomes
  <2>4. CASE e = "gate"
    <3>1. events'["gs"] = events["gs"]
      BY <1>0, <2>2, <2>4 DEF Disconnect, TypeOK
    <3>2. conns[c].open["gs"] => [conns[c].open EXCEPT ![e] = FALSE]["gs"]
      BY <1>0, <2>4, ConnIs
    <3> QED BY <1>2, <2>1, <2>2, <3>1, <3>2
  <2> QED BY <2>3, <2>4 DEF Ends
<1>5. ASSUME NEW e \in Ends, NEW c \in ConnIds, RecvFails(e, c) PROVE AddrInv'
  <2>1. /\ UNCHANGED <<registered, deadEvents, addrKnown>> /\ Disconnect(e, c)
        /\ Becomes(c, [conns[c].open EXCEPT ![e] = FALSE],
                      [conns[c].reader EXCEPT ![e] = FALSE], conns[c].pipe)
    BY <1>5, RecvFailsIs
  <2>2. CASE e = "gs"
    BY <2>1, <2>2, AddrEnds DEF Becomes
  <2>3. CASE e = "gate"
    <3>1. events'["gs"] = events["gs"]
      BY <1>0, <2>1, <2>3 DEF Disconnect, TypeOK
    <3>2. /\ conns[c].open["gs"] => [conns[c].open EXCEPT ![e] = FALSE]["gs"]
          /\ conns[c].reader["gs"] => [conns[c].reader EXCEPT ![e] = FALSE]["gs"]
      BY <1>0, <2>3, ConnIs
    <3> QED BY <1>2, <2>1, <3>1, <3>2
  <2> QED BY <2>2, <2>3 DEF Ends
<1>6. ASSUME NEW e \in Ends, NEW c \in ConnIds, GateTcpMqRecv(e, c) PROVE AddrInv'
  <2>1. Other(e) \in Ends /\ GateTcpMqRecv(Other(Other(e)), c)
    BY <1>6, OtherEnd
  <2> QED BY <1>2, <2>1, RecvIs
<1>7. ASSUME NEW c \in ConnIds, GateTcpMqHandshake(c) \/ HandshakeRefused(c) PROVE AddrInv'
  <2>1. UNCHANGED <<registered, deadEvents, addrKnown>> /\ events'["gs"] = events["gs"]
    BY <1>0, <1>7 DEF GateTcpMqHandshake, HandshakeRefused, TypeOK
  <2> QED BY <1>2, <1>7, <2>1, Greets
<1>13. ASSUME NEW c \in ConnIds, PostConnect(c) PROVE AddrInv'
  <2>1. UNCHANGED <<registered, deadEvents, addrKnown>> /\ events'["gs"] = events["gs"]
    BY <1>0, <1>13 DEF PostConnect, TypeOK
  <2> QED BY <1>2, <1>13, <2>1, Posts
<1>8. ASSUME NEW c \in ConnIds, Break(c) PROVE AddrInv'
  <2>1. UNCHANGED <<events, registered, deadEvents, addrKnown>>
    BY <1>8 DEF Break
  <2> QED BY <1>2, <1>8, <2>1, Breaks
<1>9. ASSUME NEW e \in Ends, HandleConnect(e) \/ HandleDisconnect(e) PROVE AddrInv'
  <2>1. CASE e = "gs"
    BY <1>9, <2>1, AddrHandles
  <2>2. CASE e = "gate"
    <3>1. conns' = conns /\ addrKnown' = addrKnown
      BY <1>9, HandleType
    <3>2. events'["gs"] = events["gs"] /\ registered'["gs"] = registered["gs"] /\ deadEvents'["gs"] = deadEvents["gs"]
      BY <1>0, <1>9, <2>2 DEF HandleConnect, HandleDisconnect, TypeOK
    <3> QED BY <3>1, <3>2, AddrSame
  <2> QED BY <2>1, <2>2 DEF Ends
<1>10. CASE ForgetAddr
  <2>1. UNCHANGED <<conns, events, registered>> /\ ~addrKnown'
    BY <1>10 DEF ForgetAddr
  <2> QED BY <2>1, AddrSame
<1>11. ASSUME NEW e \in Ends, SendTo(e) \/ FallbackNatsMqSend(e) \/ NatsMsgRecv(e) PROVE AddrInv'
  BY <1>1, <1>11 DEF SendTo, FallbackNatsMqSend, Take, NatsMsgRecv
<1>12. CASE UNCHANGED vars
  BY <1>1, <1>12 DEF vars
<1> QED BY <1>3, <1>4, <1>5, <1>6, <1>7, <1>8, <1>9, <1>10, <1>11, <1>12, <1>13, AddrDials
        DEF Next

\* The server never goes on using NATS because it takes a dead connection for a live one: when
\* it knows the gate's address and nothing is to be handled, a connection is registered that
\* is open, or whose reader will report its end.
THEOREM AddrCorrect == ASSUME QueueAssumption PROVE Spec => []AddrMapAgrees
<1>1. Init => AddrInv
  <2>1. ASSUME Init PROVE AddrInv
    <3>1. events["gs"] = << >> /\ registered["gs"] = None /\ ~addrKnown
      BY <2>1 DEF Init, Ends
    <3>2. Len(events["gs"]) = 0
      BY <3>1
    <3> QED BY <3>1, <3>2 DEF AddrInv
  <2> QED BY <2>1
<1>2. TypeOK /\ AddrInv /\ [Next]_vars => AddrInv'
  BY NextAddr
<1>3. AddrInv => AddrMapAgrees
  <2>1. ASSUME events["gs"] = << >> PROVE ~EndAfter(0)
    <3>1. Len(events["gs"]) = 0
      BY <2>1
    <3> QED BY <3>1 DEF EndAfter
  <2> QED BY <2>1 DEF AddrInv, AddrMapAgrees, Live
<1> QED BY <1>1, <1>2, <1>3, TypeCorrect, PTL DEF Spec
=============================================================================
