---------------------------- MODULE EventLoopProofs ----------------------------
(***************************************************************************)
(* Theorems about the event loop, for any number of clients, descriptors   *)
(* and pipelined requests and any sizes of reads and socket buffers.       *)
(***************************************************************************)
EXTENDS EventLoop, SequenceTheorems, NaturalsInduction, WellFoundedInduction, TLAPS

-----------------------------------------------------------------------------
(* The inductive invariant *)

\* A sequence of parts that goes on after part number n.
GoesOn(parts, n) == \A i \in 1 .. Len(parts) : parts[i] = n + i

\* Between two turns of the loop a connection either reads, with nothing to
\* write, or writes, and it has at most the header of a request.
Shape(conn) ==
    /\ ~conn.want_close
    /\ conn.want_read <=> ~conn.want_write
    /\ conn.want_read <=> conn.outgoing = <<>>
    /\ Len(conn.incoming) <= 1
ConnectionInv == \A f \in Fds : fd2conn[f] # NoConn => Shape(fd2conn[f])

\* A client has one connection at most, and waits for it or is served.
OwnerInv ==
    /\ \A f, g \in Fds : \A c \in Clients : Serves(f, c) /\ Serves(g, c) => f = g
    /\ \A i, j \in 1 .. Len(backlog) : backlog[i] = backlog[j] => i = j
    /\ \A i \in 1 .. Len(backlog) : net[backlog[i]].state \notin {"none", "closed"} /\ ~Served(backlog[i])
    /\ \A c \in Clients : Served(c) => net[c].state \notin {"none", "closed"}

\* What poll has found still holds when the loop comes to the descriptor.
ReadyInv ==
    \A f \in DOMAIN ready :
        /\ fd2conn[f] # NoConn
        /\ "in" \in ready[f] => fd2conn[f].want_read
        /\ "out" \in ready[f] => fd2conn[f].want_write
        /\ "err" \in ready[f] => net[fd2conn[f].client].state = "reset"

RoundInv ==
    /\ pc \in {"poll", "shutdown", "stopped"} => DOMAIN ready = {}
    /\ pc = "clients" => DOMAIN ready # {}
    /\ pc \in {"shutdown", "stopped"} => ~running

\* The parts in a socket go on after those that were read, up to the last one
\* sent or to an oversize header.
Follows(up, n, last) ==
    /\ n + Len(up) <= last
    /\ \/ GoesOn(up, n) /\ n + Len(up) = last
       \/ /\ up # <<>> /\ up[Len(up)] = Oversize
          /\ \A i \in 1 .. Len(up) - 1 : up[i] = n + i
          /\ (n + Len(up)) % 2 = 1

\* The requests of a client of which `done' parts are executed: what its
\* connection has read of the next ones, and what is still in its socket.
Asks(conn, up, done, last) ==
    GoesOn(conn.incoming, done) /\ Follows(up, done + Len(conn.incoming), last)

\* The responses it gets are the first of those executed, and the connection
\* owes it the others.
Gets(down, got, done) ==
    GoesOn(down, got) /\ Len(down) <= SocketSize /\ got + Len(down) <= done
Owes(conn, down, got, done) ==
    GoesOn(conn.outgoing, got + Len(down)) /\ got + Len(down) + Len(conn.outgoing) = done

\* A client that has not been served yet.
Fresh(c) ==
    /\ executed[c] = 0 /\ received[c] = <<>> /\ net[c].down = <<>>
    /\ Follows(net[c].up, 0, sent[c])

RequestsInv ==
    /\ \A f \in Fds : fd2conn[f] # NoConn =>
           LET c == fd2conn[f].client
           IN  Asks(fd2conn[f], net[c].up, 2 * executed[c], sent[c])
    /\ \A i \in 1 .. Len(backlog) : Fresh(backlog[i])
    /\ \A c \in Clients : net[c].state = "none" => Fresh(c) /\ sent[c] = 0

Lasting == {"connected", "half_closed"}

ResponsesInv ==
    /\ \A c \in Clients :
           /\ GoesOn(received[c], 0) /\ Gets(net[c].down, Len(received[c]), 2 * executed[c])
           /\ 2 * executed[c] <= sent[c] /\ sent[c] <= 2 * Requests[c]
    /\ \A f \in Fds : fd2conn[f] # NoConn =>
           LET c == fd2conn[f].client
           IN  net[c].state \in Lasting
                 => Owes(fd2conn[f], net[c].down, Len(received[c]), 2 * executed[c])

Parts == ConnectionInv /\ OwnerInv /\ ReadyInv /\ RoundInv /\ RequestsInv /\ ResponsesInv

-----------------------------------------------------------------------------
(* Sequences and numbers *)

LEMMA CutSeq ==
    ASSUME NEW S, NEW s \in Seq(S), NEW n \in 0 .. Len(s)
    PROVE  /\ SubSeq(s, 1, n) \in Seq(S) /\ Len(SubSeq(s, 1, n)) = n
           /\ \A i \in 1 .. n : SubSeq(s, 1, n)[i] = s[i]
           /\ SubSeq(s, n + 1, Len(s)) \in Seq(S) /\ Len(SubSeq(s, n + 1, Len(s))) = Len(s) - n
           /\ \A i \in 1 .. Len(s) - n : SubSeq(s, n + 1, Len(s))[i] = s[n + i]
<1>1. \A i \in 1 .. Len(s) : s[i] \in S
  OBVIOUS
<1>2. SubSeq(s, 1, n) \in Seq(S) /\ Len(SubSeq(s, 1, n)) = n /\ \A i \in 1 .. n : SubSeq(s, 1, n)[i] = s[i]
  BY <1>1, SubSeqProperties
<1>3. /\ SubSeq(s, n + 1, Len(s)) \in Seq(S) /\ Len(SubSeq(s, n + 1, Len(s))) = Len(s) - n
      /\ \A i \in 1 .. Len(s) - n : SubSeq(s, n + 1, Len(s))[i] = s[n + i]
  BY <1>1, SubSeqProperties
<1> QED
  BY <1>2, <1>3

LEMMA JoinSeq ==
    ASSUME NEW S, NEW s \in Seq(S), NEW t \in Seq(S)
    PROVE  /\ s \o t \in Seq(S) /\ Len(s \o t) = Len(s) + Len(t)
           /\ \A i \in 1 .. Len(s) : (s \o t)[i] = s[i]
           /\ \A i \in 1 .. Len(t) : (s \o t)[Len(s) + i] = t[i]
OBVIOUS

\* A set of descriptors has a lowest one.
LEMMA LowestFd ==
    ASSUME NEW S \in SUBSET Nat, S # {}
    PROVE  Min(S) \in S
<1> DEFINE Less == OpToRel(<, Nat)
<1>1. PICK m \in S : \A k \in S : <<k, m>> \notin Less
  BY NatLessThanWellFounded, WFMin
<1>2. ASSUME NEW k \in S, k < m PROVE FALSE
  <2>1. <<k, m>> \in Less
    BY <1>2 DEF OpToRel
  <2> QED
    BY <1>1, <2>1
<1>3. \A k \in S : m <= k
  BY <1>2
<1> QED
  BY <1>3 DEF Min

LEMMA EvenTwice ==
    ASSUME NEW n \in Nat
    PROVE  (2 * n) % 2 = 0
OBVIOUS

LEMMA WholeRequests ==
    ASSUME NEW e \in Nat, NEW n \in Nat, NEW a \in Nat, NEW f \in Nat, NEW r \in Nat, a + f = 2 * n + r
    PROVE  /\ 2 * (e + n) <= 2 * e + a + f
           /\ r <= 1 /\ (2 * e + a + f) % 2 = 1 => r = 1
<1>1. 2 * e + a + f = 2 * (e + n) + r
  OBVIOUS
<1>2. r = 0 => (2 * e + a + f) % 2 = 0
  <2>1. e + n \in Nat /\ (2 * (e + n)) % 2 = 0
    BY EvenTwice
  <2>2. r = 0 => 2 * e + a + f = 2 * (e + n)
    BY <1>1
  <2> QED
    BY <2>1, <2>2
<1> QED
  BY <1>1, <1>2

LEMMA HalfOf ==
    ASSUME NEW n \in Nat
    PROVE  n \div 2 \in Nat /\ n - 2 * (n \div 2) \in {0, 1}
OBVIOUS

-----------------------------------------------------------------------------
(* Streams of parts *)

\* A sequence in two pieces, what is cut or joined.
Split(s, front, back) ==
    /\ s \in Seq(Part) /\ front \in Seq(Part) /\ back \in Seq(Part)
    /\ Len(s) = Len(front) + Len(back)
    /\ \A i \in 1 .. Len(front) : s[i] = front[i]
    /\ \A i \in 1 .. Len(back) : s[Len(front) + i] = back[i]

LEMMA CutSplit ==
    ASSUME NEW s \in Seq(Part), NEW n \in 0 .. Len(s)
    PROVE  /\ Split(s, SubSeq(s, 1, n), SubSeq(s, n + 1, Len(s)))
           /\ Len(SubSeq(s, 1, n)) = n /\ Len(SubSeq(s, n + 1, Len(s))) = Len(s) - n
<1> DEFINE front == SubSeq(s, 1, n)
           back == SubSeq(s, n + 1, Len(s))
<1>1. /\ front \in Seq(Part) /\ Len(front) = n
      /\ \A i \in 1 .. n : front[i] = s[i]
      /\ back \in Seq(Part) /\ Len(back) = Len(s) - n
      /\ \A i \in 1 .. Len(s) - n : back[i] = s[n + i]
  BY CutSeq
<1> HIDE DEF front, back
<1>2. Split(s, front, back)
  BY <1>1 DEF Split
<1> QED
  BY <1>1, <1>2 DEF front, back

LEMMA JoinSplit ==
    ASSUME NEW s \in Seq(Part), NEW t \in Seq(Part)
    PROVE  Split(s \o t, s, t)
BY JoinSeq DEF Split

\* The numbers of a sequence's parts are those of its pieces.
LEMMA SplitGoesOn ==
    ASSUME NEW s, NEW front, NEW back, Split(s, front, back), NEW b \in Nat
    PROVE  GoesOn(s, b) <=> GoesOn(front, b) /\ GoesOn(back, b + Len(front))
<1>a. front \in Seq(Part) /\ back \in Seq(Part)
  BY DEF Split
<1>b. Len(front) \in Nat /\ Len(back) \in Nat
  BY <1>a
<1>1. /\ Len(front) \in Nat /\ Len(back) \in Nat /\ Len(s) = Len(front) + Len(back)
      /\ \A i \in 1 .. Len(front) : s[i] = front[i]
      /\ \A i \in 1 .. Len(back) : s[Len(front) + i] = back[i]
  BY <1>b DEF Split
<1>2. ASSUME GoesOn(s, b) PROVE GoesOn(front, b)
  BY <1>1, <1>2 DEF GoesOn
<1>3. ASSUME GoesOn(s, b) PROVE GoesOn(back, b + Len(front))
  <2>1. ASSUME NEW i \in 1 .. Len(back) PROVE back[i] = b + Len(front) + i
    <3>1. s[Len(front) + i] = b + (Len(front) + i)
      BY <1>1, <1>3 DEF GoesOn
    <3> QED
      BY <1>1, <3>1
  <2> QED
    BY <2>1 DEF GoesOn
<1>4. ASSUME GoesOn(front, b), GoesOn(back, b + Len(front)) PROVE GoesOn(s, b)
  <2>1. ASSUME NEW i \in 1 .. Len(s) PROVE s[i] = b + i
    <3>1. CASE i <= Len(front)
      BY <1>1, <1>4, <3>1 DEF GoesOn
    <3>2. CASE i > Len(front)
      <4>1. i - Len(front) \in 1 .. Len(back) /\ i = Len(front) + (i - Len(front))
        BY <1>1, <3>2
      <4>2. s[i] = back[i - Len(front)] /\ back[i - Len(front)] = b + Len(front) + (i - Len(front))
        BY <1>1, <1>4, <4>1 DEF GoesOn
      <4> QED
        BY <1>1, <4>1, <4>2
    <3> QED
      BY <1>1, <3>1, <3>2
  <2> QED
    BY <2>1 DEF GoesOn
<1> QED
  BY <1>2, <1>3, <1>4

\* Sending another part.
LEMMA FollowsSend ==
    ASSUME NEW up \in Seq(Part), NEW n \in Nat, NEW last \in Nat, Follows(up, n, last),
           ~Contains(up, Oversize)
    PROVE  /\ Follows(Append(up, last + 1), n, last + 1)
           /\ \A m \in Nat : last < m /\ last % 2 = 0 => Follows(Append(up, Oversize), n, m)
<1>1. GoesOn(up, n) /\ n + Len(up) = last
  BY DEF Follows, Contains
<1>2. \A e \in Part : /\ Len(Append(up, e)) = Len(up) + 1 /\ Append(up, e) # <<>>
                      /\ Append(up, e)[Len(up) + 1] = e
                      /\ \A i \in 1 .. Len(up) : Append(up, e)[i] = up[i]
  OBVIOUS
<1>3. last + 1 \in Part /\ Oversize \in Part
  BY DEF Part, Oversize
<1>4. Follows(Append(up, last + 1), n, last + 1)
  <2>1. \A i \in 1 .. Len(up) + 1 : Append(up, last + 1)[i] = n + i
    BY <1>1, <1>2, <1>3 DEF GoesOn
  <2> QED
    BY <1>1, <1>2, <1>3, <2>1 DEF Follows, GoesOn
<1>5. ASSUME NEW m \in Nat, last < m, last % 2 = 0 PROVE Follows(Append(up, Oversize), n, m)
  <2> DEFINE t == Append(up, Oversize)
  <2>1. Len(t) = Len(up) + 1 /\ t # <<>> /\ t[Len(t)] = Oversize
    BY <1>2, <1>3
  <2>2. \A i \in 1 .. Len(t) - 1 : t[i] = n + i
    BY <1>1, <1>2, <1>3 DEF GoesOn
  <2>3. n + Len(t) <= m /\ (n + Len(t)) % 2 = 1
    BY <1>1, <1>5, <2>1
  <2> QED
    BY <2>1, <2>2, <2>3 DEF Follows
<1> QED
  BY <1>4, <1>5

\* Reading parts, the oversize header not among them.
LEMMA FollowsCut ==
    ASSUME NEW up, NEW front, NEW left, Split(up, front, left), front # <<>>,
           NEW n \in Nat, NEW last \in Nat, Follows(up, n, last),
           left # <<>> \/ GoesOn(up, n)
    PROVE  GoesOn(front, n) /\ Follows(left, n + Len(front), last)
<1>1. /\ Len(front) \in Nat /\ Len(left) \in Nat /\ Len(up) = Len(front) + Len(left)
      /\ left # <<>> => Len(left) > 0
      /\ \A i \in 1 .. Len(front) : up[i] = front[i]
      /\ \A i \in 1 .. Len(left) : up[Len(front) + i] = left[i]
      /\ up \in Seq(Part) /\ up # <<>>
  BY DEF Split
<1>2. n + Len(front) + Len(left) = n + Len(up) /\ n + Len(up) <= last
  BY <1>1 DEF Follows
<1>3. CASE GoesOn(up, n)
  <2>1. GoesOn(front, n) /\ GoesOn(left, n + Len(front))
    BY <1>3, SplitGoesOn
  <2>2. n + Len(up) = last
    <3>1. up[Len(up)] = n + Len(up) /\ n + Len(up) # 0
      BY <1>1, <1>3 DEF GoesOn
    <3> QED
      BY <3>1 DEF Follows, Oversize
  <2> QED
    BY <1>2, <2>1, <2>2 DEF Follows
<1>4. CASE ~GoesOn(up, n)
  <2>1. /\ up[Len(up)] = Oversize /\ (n + Len(up)) % 2 = 1 /\ Len(left) > 0
        /\ \A i \in 1 .. Len(up) - 1 : up[i] = n + i
    BY <1>1, <1>4 DEF Follows
  <2>2. GoesOn(front, n)
    BY <1>1, <2>1 DEF GoesOn
  <2>3. left # <<>> /\ left[Len(left)] = Oversize
    BY <1>1, <2>1
  <2>4. ASSUME NEW i \in 1 .. Len(left) - 1 PROVE left[i] = n + Len(front) + i
    <3>1. Len(front) + i \in 1 .. Len(up) - 1 /\ i \in 1 .. Len(left)
      BY <1>1
    <3>2. left[i] = up[Len(front) + i] /\ up[Len(front) + i] = n + (Len(front) + i)
      BY <1>1, <2>1, <3>1
    <3> QED
      BY <1>1, <3>2
  <2>5. (n + Len(front) + Len(left)) % 2 = 1
    BY <1>2, <2>1
  <2> QED
    BY <1>2, <2>2, <2>3, <2>4, <2>5 DEF Follows
<1> QED
  BY <1>3, <1>4

\* What a read leaves of the stream: whole requests for execution, and a rest
\* that is the header of a request or an oversize header.
LEMMA ReadParts ==
    ASSUME NEW inc \in Seq(Part), NEW up \in Seq(Part), NEW front \in Seq(Part),
           NEW left \in Seq(Part), NEW q \in Seq(Part), NEW out \in Seq(Part), NEW rest \in Seq(Part),
           Split(up, front, left), Split(q, inc, front), Split(q, out, rest),
           NEW e \in Nat, NEW n \in Nat, NEW last \in Nat,
           front # <<>>, Len(out) = 2 * n, Len(rest) \in {0, 1},
           GoesOn(inc, 2 * e), Follows(up, 2 * e + Len(inc), last)
    PROVE  /\ GoesOn(out, 2 * e) /\ 2 * (e + n) <= last
           /\ rest = <<Oversize>> => Contains(up, Oversize)
           /\ rest # <<Oversize>> =>
                 GoesOn(rest, 2 * (e + n)) /\ Follows(left, 2 * (e + n) + Len(rest), last)
<1>0. Len(inc) \in Nat /\ Len(front) \in Nat /\ Len(left) \in Nat /\ Len(rest) \in Nat
  OBVIOUS
<1>1. PICK a \in Nat, f \in Nat, k \in Nat, r \in Nat :
         Len(inc) = a /\ Len(front) = f /\ Len(left) = k /\ Len(rest) = r
  BY <1>0
<1>n. e \in Nat /\ n \in Nat /\ last \in Nat /\ a \in Nat /\ f \in Nat /\ k \in Nat /\ r \in Nat
  OBVIOUS
<1>2. Len(up) = f + k /\ Len(q) = a + f /\ a + f = 2 * n + r
  BY <1>1 DEF Split
<1>3. f > 0 /\ r <= 1 /\ (left # <<>> <=> k > 0)
  BY <1>1
<1>4. 2 * (e + n) <= last
  <2>1. 2 * e + a + (f + k) <= last
    BY <1>1, <1>2 DEF Follows
  <2>2. 2 * (e + n) <= 2 * e + a + f
    BY <1>2, WholeRequests
  <2> QED
    BY ONLY <1>n, <2>1, <2>2
<1>5. CASE left # <<>> \/ GoesOn(up, 2 * e + a)
  <2>1. 2 * e + a \in Nat /\ 2 * e \in Nat
    OBVIOUS
  <2>2. GoesOn(front, 2 * e + a) /\ Follows(left, 2 * e + a + f, last)
    <3>1. PICK b \in Nat : b = 2 * e + a
      BY <2>1
    <3>2. Follows(up, b, last) /\ (left # <<>> \/ GoesOn(up, b))
      BY <1>1, <1>5, <3>1
    <3>3. GoesOn(front, b) /\ Follows(left, b + Len(front), last)
      BY <3>2, FollowsCut
    <3> QED
      BY <1>1, <3>1, <3>3
  <2>3. GoesOn(q, 2 * e)
    BY <1>1, <2>1, <2>2, SplitGoesOn
  <2>4. GoesOn(out, 2 * e) /\ GoesOn(rest, 2 * e + 2 * n)
    BY <2>1, <2>3, SplitGoesOn
  <2>5. 2 * e + 2 * n = 2 * (e + n) /\ 2 * (e + n) + r = 2 * e + a + f
    BY <1>2
  <2>6. GoesOn(rest, 2 * (e + n)) /\ Follows(left, 2 * (e + n) + Len(rest), last)
    BY <1>1, <2>2, <2>4, <2>5
  <2>7. ASSUME rest = <<Oversize>> PROVE FALSE
    <3>1. Len(rest) = 1 /\ rest[1] = 0
      BY <2>7 DEF Oversize
    <3>2. rest[1] = 2 * (e + n) + 1
      BY <2>6, <3>1 DEF GoesOn
    <3> QED
      BY <3>1, <3>2
  <2> QED
    BY <1>4, <2>4, <2>6, <2>7
<1>6. CASE left = <<>> /\ ~GoesOn(up, 2 * e + a)
  <2>1. Len(up) = f
    BY <1>2, <1>3, <1>6
  <2>2. /\ up[f] = Oversize /\ (2 * e + a + f) % 2 = 1
        /\ \A i \in 1 .. f - 1 : up[i] = 2 * e + a + i
    BY <1>1, <1>6, <2>1 DEF Follows
  <2>3. r = 1
    <3>1. a + f = 2 * n + r /\ r <= 1 /\ (2 * e + a + f) % 2 = 1
      BY <1>2, <1>3, <2>2
    <3> QED
      BY ONLY <1>n, <3>1, WholeRequests
  <2>4. \A i \in 1 .. f : q[a + i] = up[i]
    BY <1>1 DEF Split
  <2>5. rest = <<Oversize>>
    <3>1. \A i \in 1 .. r : q[2 * n + i] = rest[i]
      BY <1>1 DEF Split
    <3>2. rest[1] = q[2 * n + 1] /\ 2 * n + 1 = a + f
      BY <1>2, <2>3, <3>1
    <3>3. q[a + f] = Oversize
      <4>1. f \in 1 .. f
        BY <1>3
      <4>2. q[a + f] = up[f]
        BY <2>4, <4>1
      <4> QED
        BY <2>2, <4>2
    <3>4. Len(rest) = 1 /\ rest[1] = Oversize
      BY <1>1, <2>3, <3>2, <3>3
    <3> QED
      BY <3>4
  <2>6. ASSUME NEW i \in 1 .. 2 * n PROVE q[i] = 2 * e + i
    <3>1. CASE i <= a
      <4>1. i \in 1 .. a
        BY <3>1
      <4>2. q[i] = inc[i] /\ inc[i] = 2 * e + i
        BY <1>1, <4>1 DEF Split, GoesOn
      <4> QED
        BY <4>2
    <3>2. CASE i > a
      <4>1. i - a \in 1 .. f - 1 /\ i = a + (i - a)
        BY <1>2, <2>3, <3>2
      <4>2. q[i] = up[i - a]
        BY <2>4, <4>1
      <4>3. up[i - a] = 2 * e + a + (i - a)
        BY <2>2, <4>1
      <4> QED
        BY <4>1, <4>2, <4>3
    <3> QED
      BY <3>1, <3>2
  <2>7. GoesOn(out, 2 * e)
    <3>1. \A i \in 1 .. 2 * n : out[i] = q[i]
      BY DEF Split
    <3> QED
      BY <2>6, <3>1 DEF GoesOn
  <2>8. Contains(up, Oversize)
    <3>1. f \in 1 .. Len(up)
      BY <1>3, <2>1
    <3> QED
      BY <2>2, <3>1 DEF Contains
  <2> QED
    BY <1>4, <2>5, <2>7, <2>8
<1> QED
  BY <1>5, <1>6

-----------------------------------------------------------------------------
(* The handlers of a connection *)

\* A read hands the whole requests to execution and keeps the rest.
LEMMA ReadEffect ==
    ASSUME NEW conn \in Connection, NEW s \in Socket, s.up # <<>>,
           conn.want_read, ~conn.want_write, ~conn.want_close, conn.outgoing = <<>>
    PROVE  LET q == conn.incoming \o SubSeq(s.up, 1, ReadLen(s))
               n == Len(q) \div 2
               r == handle_read(conn, s)
           IN  /\ ReadLen(s) \in 1 .. Len(s.up) /\ q \in Seq(Part) /\ n \in 0 .. Len(q) /\ 2 * n \in 0 .. Len(q)
               /\ r \in Connection /\ r.client = conn.client
               /\ r.outgoing = SubSeq(q, 1, 2 * n) /\ r.incoming = SubSeq(q, 2 * n + 1, Len(q))
               /\ r.want_read <=> n = 0
               /\ r.want_write <=> n # 0
               /\ r.want_close <=> r.incoming = <<Oversize>>
<1> DEFINE m == ReadLen(s)
           q == conn.incoming \o SubSeq(s.up, 1, m)
           n == Len(q) \div 2
           filled == read(conn, s)
<1>1. m \in 1 .. Len(s.up)
  BY EventLoopAssumption DEF ReadLen, Socket
<1>2. conn.incoming \in Seq(Part) /\ SubSeq(s.up, 1, m) \in Seq(Part)
  BY <1>1, CutSeq DEF Connection, Socket
<1>3. q \in Seq(Part)
  BY <1>2
<1>4. filled = [conn EXCEPT !.incoming = q]
  BY DEF read
<1>5. n \in 0 .. Len(q) /\ 2 * n \in 0 .. Len(q)
  BY <1>3
<1> HIDE DEF m, q, n
<1>6. try_requests(filled) = n
  BY <1>4 DEF try_requests, n, Connection
<1> DEFINE answered == enqueue_responses(filled, n)
<1>7. SubSeq(q, 1, 2 * n) \in Seq(Part) /\ SubSeq(q, 2 * n + 1, Len(q)) \in Seq(Part)
  BY <1>3, <1>5, CutSeq
<1>8. CASE n = 0
  <2>1. answered = filled
    BY <1>8 DEF enqueue_responses
  <2>2. SubSeq(q, 1, 2 * n) = <<>> /\ SubSeq(q, 2 * n + 1, Len(q)) = q
    BY <1>3, <1>8
  <2>3. handle_read(conn, s) = [filled EXCEPT !.want_close = filled.incoming = <<Oversize>>]
    BY <1>6, <2>1 DEF handle_read
  <2> QED
    BY <1>1, <1>3, <1>4, <1>5, <1>8, <2>2, <2>3 DEF Connection, m, q, n
<1>9. CASE n # 0
  <2> DEFINE out == SubSeq(q, 1, 2 * n)
             inc == SubSeq(q, 2 * n + 1, Len(q))
             close == inc = <<Oversize>>
  <2>1. filled.outgoing \o SubSeq(filled.incoming, 1, 2 * n) = out
    BY <1>4, <1>7 DEF Connection
  <2>2. answered = [filled EXCEPT !.outgoing = out, !.incoming = inc, !.want_read = FALSE, !.want_write = TRUE]
    BY <1>4, <1>9, <2>1 DEF enqueue_responses, Connection
  <2>3. answered.incoming = inc
    BY <1>4, <2>2 DEF Connection
  <2>4. handle_read(conn, s) = [answered EXCEPT !.want_close = close]
    BY <1>6, <2>3 DEF handle_read
  <2>5. close \in BOOLEAN /\ out \in Seq(Part) /\ inc \in Seq(Part)
    BY <1>7
  <2> HIDE DEF out, inc, close, answered, filled
  <2>6. filled \in Connection /\ filled.client = conn.client
    BY <1>3, <1>4 DEF Connection
  <2>7. answered \in Connection /\ answered.client = conn.client /\ answered.outgoing = out
        /\ answered.incoming = inc /\ ~answered.want_read /\ answered.want_write
    BY <2>2, <2>5, <2>6 DEF Connection
  <2>8. LET r == handle_read(conn, s)
        IN  r \in Connection /\ r.client = conn.client /\ r.outgoing = out
            /\ r.incoming = inc /\ ~r.want_read /\ r.want_write /\ r.want_close = close
    BY <2>4, <2>5, <2>7 DEF Connection
  <2> QED
    BY <1>1, <1>3, <1>5, <1>9, <2>8 DEF m, q, n, out, inc, close
<1> QED
  BY <1>8, <1>9

\* A write takes what it has written out of outgoing, and reads again after the
\* last part.
LEMMA WriteEffect ==
    ASSUME NEW conn \in Connection, NEW s \in Socket, Len(s.down) <= SocketSize, conn.want_write, ~conn.want_read
    PROVE  LET m == WriteLen(conn, s)
               r == handle_write(conn, s)
           IN  /\ m \in 0 .. Len(conn.outgoing)
               /\ r \in Connection /\ r.client = conn.client /\ r.incoming = conn.incoming
               /\ r.want_read <=> ~r.want_write
               /\ s.state = "reset" => r = [conn EXCEPT !.want_close = TRUE]
               /\ s.state # "reset" =>
                     /\ r.outgoing = SubSeq(conn.outgoing, m + 1, Len(conn.outgoing))
                     /\ r.want_read <=> r.outgoing = <<>>
                     /\ r.want_close = conn.want_close
<1> DEFINE m == WriteLen(conn, s)
           rest == SubSeq(conn.outgoing, m + 1, Len(conn.outgoing))
<1>1. m \in 0 .. Len(conn.outgoing)
  BY EventLoopAssumption DEF WriteLen, Connection, Socket
<1>2. rest \in Seq(Part)
  BY <1>1, CutSeq DEF Connection
<1>3. CASE s.state = "reset"
  BY <1>1, <1>3 DEF handle_write, Connection
<1>4. CASE s.state # "reset"
  BY <1>1, <1>2, <1>4 DEF handle_write, Connection
<1> QED
  BY <1>3, <1>4

LEMMA NoParts == <<>> \in Seq(Part)
OBVIOUS

SocketStates == {"none", "connected", "half_closed", "gone", "reset", "closed"}

\* Changing one field of a socket leaves the others.
LEMMA SocketFields ==
    ASSUME NEW s \in Socket, NEW parts \in Seq(Part), NEW state \in SocketStates
    PROVE  /\ [s EXCEPT !.up = parts] \in Socket /\ [s EXCEPT !.up = parts].up = parts
           /\ [s EXCEPT !.up = parts].down = s.down /\ [s EXCEPT !.up = parts].state = s.state
           /\ [s EXCEPT !.down = parts] \in Socket /\ [s EXCEPT !.down = parts].down = parts
           /\ [s EXCEPT !.down = parts].up = s.up /\ [s EXCEPT !.down = parts].state = s.state
           /\ [s EXCEPT !.state = state] \in Socket /\ [s EXCEPT !.state = state].state = state
           /\ [s EXCEPT !.state = state].up = s.up /\ [s EXCEPT !.state = state].down = s.down
BY DEF Socket, SocketStates

LEMMA EndFields ==
    ASSUME NEW s \in Socket, NEW state \in SocketStates
    PROVE  LET r == [s EXCEPT !.state = state, !.down = <<>>]
           IN  r \in Socket /\ r.state = state /\ r.up = s.up /\ r.down = <<>>
<1> DEFINE s1 == [s EXCEPT !.state = state]
           s2 == [s1 EXCEPT !.down = <<>>]
<1>1. [s EXCEPT !.state = state, !.down = <<>>] = s2
  OBVIOUS
<1>2. s1 \in Socket /\ s1.state = state /\ s1.up = s.up
  BY NoParts, SocketFields
<1> HIDE DEF s1
<1>3. s1.state \in SocketStates
  BY <1>2
<1>4. s2 \in Socket /\ s2.state = s1.state /\ s2.up = s1.up /\ s2.down = <<>>
  BY <1>2, <1>3, NoParts, SocketFields
<1> QED
  BY <1>1, <1>2, <1>4

LEMMA ClosedFields ==
    ASSUME NEW s \in Socket
    PROVE  /\ ClosedSocket(s) \in Socket /\ ClosedSocket(s).up = <<>> /\ ClosedSocket(s).down = s.down
           /\ ClosedSocket(s).state = IF s.state \in {"gone", "reset"} THEN s.state ELSE "closed"
<1>1. CASE s.state \in {"gone", "reset"}
  <2> DEFINE r == [s EXCEPT !.up = <<>>]
  <2>1. ClosedSocket(s) = r
    BY <1>1 DEF ClosedSocket
  <2>2. s.state \in SocketStates
    BY DEF Socket, SocketStates
  <2>3. r \in Socket /\ r.up = <<>> /\ r.down = s.down /\ r.state = s.state
    BY <2>2, NoParts, SocketFields
  <2> QED
    BY <1>1, <2>1, <2>3
<1>2. CASE s.state \notin {"gone", "reset"}
  <2> DEFINE r == [state |-> "closed", up |-> <<>>, down |-> s.down]
  <2>1. ClosedSocket(s) = r
    BY <1>2 DEF ClosedSocket, Socket
  <2>2. r \in Socket
    BY NoParts DEF Socket
  <2> QED
    BY <1>2, <2>1, <2>2
<1> QED
  BY <1>1, <1>2

LEMMA WrittenFields ==
    ASSUME NEW conn \in Connection, NEW s \in Socket, Len(s.down) <= SocketSize
    PROVE  /\ WriteLen(conn, s) \in 0 .. Len(conn.outgoing)
           /\ Written(conn, s) \in Socket /\ Written(conn, s).up = s.up
           /\ Written(conn, s).state = IF s.state = "gone" THEN "reset" ELSE s.state
           /\ Written(conn, s).down = IF s.state \in {"gone", "reset"} THEN s.down
                                      ELSE s.down \o SubSeq(conn.outgoing, 1, WriteLen(conn, s))
<1>1. WriteLen(conn, s) \in 0 .. Len(conn.outgoing)
  BY EventLoopAssumption DEF WriteLen, Connection, Socket
<1>2. s.down \o SubSeq(conn.outgoing, 1, WriteLen(conn, s)) \in Seq(Part)
  BY <1>1, CutSeq, JoinSeq DEF Connection, Socket
<1>3. "reset" \in SocketStates /\ s.state \in SocketStates /\ s.up \in Seq(Part)
  BY DEF SocketStates, Socket
<1>4. CASE s.state = "gone"
  <2> DEFINE r == [s EXCEPT !.state = "reset"]
  <2>1. r \in Socket /\ r.up = s.up /\ r.down = s.down /\ r.state = "reset"
    BY <1>3, SocketFields
  <2>2. Written(conn, s) = r
    BY <1>4 DEF Written
  <2> QED
    BY <1>1, <1>4, <2>1, <2>2
<1>5. CASE s.state = "reset"
  BY <1>1, <1>5 DEF Written
<1>6. CASE s.state \notin {"gone", "reset"}
  <2> DEFINE parts == s.down \o SubSeq(conn.outgoing, 1, WriteLen(conn, s))
             r == [s EXCEPT !.down = parts]
  <2>1. Written(conn, s) = r
    BY <1>6 DEF Written
  <2>2. r \in Socket /\ r.up = s.up /\ r.down = parts /\ r.state = s.state
    <3> HIDE DEF parts
    <3>1. parts \in Seq(Part)
      BY <1>2 DEF parts
    <3> QED
      BY <1>3, <3>1, SocketFields
  <2> QED
    BY <1>1, <1>6, <2>1, <2>2
<1> QED
  BY <1>4, <1>5, <1>6

\* What a read does to the streams of a connection and its client.
LEMMA ReadKeeps ==
    ASSUME NEW conn \in Connection, NEW s \in Socket, s.up # <<>>, Shape(conn), conn.want_read,
           NEW e \in Nat, NEW last \in Nat, Asks(conn, s.up, 2 * e, last)
    PROVE  LET r == handle_read(conn, s)
               left == SubSeq(s.up, ReadLen(s) + 1, Len(s.up))
           IN  /\ r \in Connection /\ r.client = conn.client /\ left \in Seq(Part)
               /\ \E n \in Nat :
                     /\ Len(r.outgoing) = 2 * n /\ Len(r.outgoing) \div 2 = n
                     /\ GoesOn(r.outgoing, 2 * e) /\ 2 * (e + n) <= last
                     /\ ~r.want_close => Shape(r) /\ Asks(r, left, 2 * (e + n), last)
               /\ r.want_close => Contains(s.up, Oversize)
<1> DEFINE r == handle_read(conn, s)
           inc == conn.incoming
           up == s.up
           m == ReadLen(s)
           front == SubSeq(up, 1, m)
           left == SubSeq(up, m + 1, Len(up))
           q == inc \o front
           n == Len(q) \div 2
<1>1. ~conn.want_write /\ ~conn.want_close /\ conn.outgoing = <<>> /\ Len(inc) <= 1
  BY DEF Shape, Connection
<1>2. /\ m \in 1 .. Len(up) /\ q \in Seq(Part) /\ n \in 0 .. Len(q) /\ 2 * n \in 0 .. Len(q)
      /\ r \in Connection /\ r.client = conn.client
      /\ r.outgoing = SubSeq(q, 1, 2 * n) /\ r.incoming = SubSeq(q, 2 * n + 1, Len(q))
      /\ r.want_read <=> n = 0
      /\ r.want_write <=> n # 0
      /\ r.want_close <=> r.incoming = <<Oversize>>
  BY <1>1, ReadEffect
<1>3. up \in Seq(Part) /\ inc \in Seq(Part)
  BY DEF Connection, Socket
<1> HIDE DEF r, m, up, inc
<1>4. Split(up, front, left) /\ Len(front) = m /\ front \in Seq(Part) /\ left \in Seq(Part)
  <2>1. m \in 0 .. Len(up)
    BY <1>2
  <2> QED
    BY <1>3, <2>1, CutSplit DEF Split
<1> HIDE DEF front, left
<1>5. Split(q, inc, front)
  BY <1>3, <1>4, JoinSplit
<1>6. Len(q) \in Nat /\ Len(q) - 2 * n \in {0, 1}
  <2> HIDE DEF q
  <2>1. Len(q) \in Nat
    BY <1>2
  <2> QED
    BY <2>1, HalfOf
<1> HIDE DEF q, n
<1>7. /\ Split(q, r.outgoing, r.incoming) /\ Len(r.outgoing) = 2 * n /\ Len(r.incoming) \in {0, 1}
      /\ r.outgoing \in Seq(Part) /\ r.incoming \in Seq(Part)
  <2> DEFINE k == 2 * n
             out == SubSeq(q, 1, k)
             rest == SubSeq(q, k + 1, Len(q))
  <2>1. k \in 0 .. Len(q) /\ q \in Seq(Part) /\ r.outgoing = out /\ r.incoming = rest
    BY <1>2
  <2> HIDE DEF k
  <2>2. Split(q, out, rest) /\ Len(out) = k /\ Len(rest) = Len(q) - k
    BY <2>1, CutSplit
  <2>3. out \in Seq(Part) /\ rest \in Seq(Part)
    BY <2>2 DEF Split
  <2> HIDE DEF out, rest
  <2> QED
    BY <1>6, <2>1, <2>2, <2>3 DEF k
<1>8. n \in Nat /\ front # <<>>
  BY <1>2, <1>4, <1>6
<1>9. GoesOn(inc, 2 * e) /\ Follows(up, 2 * e + Len(inc), last)
  BY DEF Asks, inc, up
<1>10. /\ GoesOn(r.outgoing, 2 * e) /\ 2 * (e + n) <= last
       /\ r.incoming = <<Oversize>> => Contains(up, Oversize)
       /\ r.incoming # <<Oversize>> =>
             GoesOn(r.incoming, 2 * (e + n)) /\ Follows(left, 2 * (e + n) + Len(r.incoming), last)
  <2> DEFINE out == r.outgoing
             rest == r.incoming
  <2>1. Split(q, out, rest) /\ Len(out) = 2 * n /\ out \in Seq(Part) /\ rest \in Seq(Part)
    BY <1>7
  <2>2. Len(rest) \in {0, 1}
    BY <1>7
  <2> HIDE DEF out, rest
  <2>3. /\ GoesOn(out, 2 * e) /\ 2 * (e + n) <= last
        /\ rest = <<Oversize>> => Contains(up, Oversize)
        /\ rest # <<Oversize>> => GoesOn(rest, 2 * (e + n)) /\ Follows(left, 2 * (e + n) + Len(rest), last)
    BY <1>2, <1>3, <1>4, <1>5, <1>8, <1>9, <2>1, <2>2, ReadParts
  <2> QED
    BY <2>3 DEF out, rest
<1>11. ~r.want_close => Shape(r)
  <2>1. r.want_read \in BOOLEAN /\ r.want_write \in BOOLEAN /\ Len(r.incoming) <= 1
    BY <1>2, <1>7 DEF Connection
  <2>2. n = 0 <=> r.outgoing = <<>>
    BY <1>7, <1>8
  <2> QED
    BY <1>2, <2>1, <2>2 DEF Shape
<1>12. Len(r.outgoing) \div 2 = n
  BY <1>7, <1>8
<1>13. ~r.want_close => Asks(r, left, 2 * (e + n), last)
  BY <1>2, <1>10 DEF Asks
<1> QED
  BY <1>2, <1>4, <1>7, <1>8, <1>10, <1>11, <1>12, <1>13 DEF r, left, m, up

\* What a write does to the responses: some of those the connection owes are on
\* their way.
LEMMA WriteKeeps ==
    ASSUME NEW conn \in Connection, NEW s \in Socket, s.state \in Lasting,
           NEW got \in Nat, NEW done \in Nat, Gets(s.down, got, done), Owes(conn, s.down, got, done)
    PROVE  LET rest == SubSeq(conn.outgoing, WriteLen(conn, s) + 1, Len(conn.outgoing))
               down == Written(conn, s).down
           IN  Gets(down, got, done) /\ GoesOn(rest, got + Len(down)) /\ got + Len(down) + Len(rest) = done
<1> DEFINE out == conn.outgoing
           m == WriteLen(conn, s)
           front == SubSeq(out, 1, m)
           rest == SubSeq(out, m + 1, Len(out))
           old == s.down
           down == old \o front
<1>1. out \in Seq(Part) /\ old \in Seq(Part) /\ Len(old) <= SocketSize
  BY DEF Connection, Socket, Gets
<1>2. m \in 0 .. Len(out) /\ Written(conn, s).down = down
  BY <1>1, WrittenFields DEF Lasting
<1>3. m <= SocketSize - Len(old)
  BY EventLoopAssumption DEF WriteLen, Lasting, Connection, Socket
<1> HIDE DEF m, out, old
<1>4. Split(out, front, rest) /\ Len(front) = m /\ front \in Seq(Part) /\ rest \in Seq(Part)
  BY <1>1, <1>2, CutSplit DEF Split
<1> HIDE DEF front, rest
<1>5. Split(down, old, front)
  BY <1>1, <1>4, JoinSplit
<1> HIDE DEF down
<1>6. GoesOn(old, got) /\ got + Len(old) <= done /\ GoesOn(out, got + Len(old)) /\ got + Len(old) + Len(out) = done
  BY DEF Gets, Owes, out, old
<1>7. PICK a \in Nat, b \in Nat, k \in Nat :
         /\ a = Len(old) /\ b = Len(rest) /\ k = m /\ Len(down) = a + k /\ Len(out) = k + b
         /\ Len(front) = k
  <2>1. Len(old) \in Nat /\ Len(rest) \in Nat /\ m \in Nat
    BY <1>1, <1>2, <1>4
  <2>2. Len(down) = Len(old) + m /\ Len(out) = m + Len(rest)
    BY <1>4, <1>5 DEF Split
  <2> QED
    BY <1>4, <2>1, <2>2
<1>8. GoesOn(front, got + a) /\ GoesOn(rest, got + a + k)
  <2>1. PICK p \in Nat : p = got + a
    OBVIOUS
  <2>2. GoesOn(out, p)
    BY <1>6, <1>7, <2>1
  <2>3. GoesOn(front, p) /\ GoesOn(rest, p + Len(front))
    BY <1>4, <2>2, SplitGoesOn
  <2> QED
    BY ONLY <1>7, <2>1, <2>3
<1>9. GoesOn(down, got)
  BY <1>5, <1>6, <1>7, <1>8, SplitGoesOn
<1>10. got + a + (k + b) = done /\ a + k <= SocketSize
  BY <1>3, <1>6, <1>7, EventLoopAssumption
<1>11. Gets(down, got, done)
  <2>1. got + (a + k) <= done
    BY <1>10
  <2> QED
    BY <1>7, <1>9, <1>10, <2>1 DEF Gets
<1>12. GoesOn(rest, got + Len(down)) /\ got + Len(down) + Len(rest) = done
  <2>1. got + (a + k) = got + a + k /\ got + (a + k) + b = done
    BY <1>10
  <2> QED
    BY <1>7, <1>8, <2>1
<1> QED
  BY <1>2, <1>11, <1>12 DEF rest, m, out

-----------------------------------------------------------------------------
(* One turn of the loop for one descriptor *)

\* TypeOK without the bound on executed, which is a consequence of ResponsesInv.
Typed ==
    /\ pc \in {"poll", "accept", "clients", "shutdown", "stopped"}
    /\ running \in BOOLEAN /\ accepting \in BOOLEAN
    /\ fd2conn \in [Fds -> Connection \cup {NoConn}]
    /\ DOMAIN ready \subseteq Fds /\ ready \in [DOMAIN ready -> SUBSET {"in", "out", "err"}]
    /\ backlog \in Seq(Clients)
    /\ net \in [Clients -> Socket]
    /\ sent \in [Clients -> Part] /\ received \in [Clients -> Seq(Part)]
    /\ executed \in [Clients -> Nat]

\* What a turn leaves of the connection, of its socket and of the count.
Leaves(fd, conn, s, closing, n) ==
    LET c == fd2conn[fd].client
    IN  /\ fd2conn' = [fd2conn EXCEPT ![fd] = IF closing THEN NoConn ELSE conn]
        /\ net' = [net EXCEPT ![c] = IF closing THEN ClosedSocket(s) ELSE s]
        /\ executed' = [executed EXCEPT ![c] = @ + n]
        /\ ready' = Restrict(ready, DOMAIN ready \ {fd})

\* The turn reads something, finds the end of the stream, writes or does none of
\* these.
ReadTurn(fd) ==
    LET conn == fd2conn[fd]
        s == net[conn.client]
        conn1 == handle_read(conn, s)
    IN  /\ "in" \in ready[fd] /\ s.up # <<>>
        /\ Leaves(fd, conn1, [s EXCEPT !.up = SubSeq(@, ReadLen(s) + 1, Len(@))],
                  "err" \in ready[fd] \/ conn1.want_close, Len(conn1.outgoing) \div 2)
EndTurn(fd) ==
    LET conn == fd2conn[fd]
        s == net[conn.client]
    IN  /\ "in" \in ready[fd] /\ s.up = <<>>
        /\ Leaves(fd, conn, s, "err" \in ready[fd] \/ Readable(s), 0)
WriteTurn(fd) ==
    LET conn == fd2conn[fd]
        s == net[conn.client]
        conn1 == handle_write(conn, s)
    IN  /\ "out" \in ready[fd]
        /\ Leaves(fd, conn1, Written(conn, s), "err" \in ready[fd] \/ conn1.want_close, 0)
NoTurn(fd) ==
    LET conn == fd2conn[fd]
    IN  Leaves(fd, conn, net[conn.client], "err" \in ready[fd], 0)

LEMMA Turns ==
    ASSUME Typed, ConnectionInv, ReadyInv, RoundInv, HandleClient
    PROVE  \E fd \in DOMAIN ready :
              ReadTurn(fd) \/ EndTurn(fd) \/ WriteTurn(fd) \/ NoTurn(fd)
<1> DEFINE fd == Min(DOMAIN ready)
           events == ready[fd]
           conn == fd2conn[fd]
           c == conn.client
           s == net[c]
           conn1 == IF "in" \in events THEN handle_read(conn, s) ELSE conn
           s1 == IF "in" \in events THEN [s EXCEPT !.up = SubSeq(@, ReadLen(s) + 1, Len(@))] ELSE s
           writing == ~conn1.want_close /\ "out" \in events
           conn2 == IF writing THEN handle_write(conn1, s1) ELSE conn1
           s2 == IF writing THEN Written(conn1, s1) ELSE s1
           closing == "err" \in events \/ conn2.want_close
<1>1. /\ executed' = [executed EXCEPT ![c] = @ + (Len(conn1.outgoing) - Len(conn.outgoing)) \div 2]
      /\ fd2conn' = [fd2conn EXCEPT ![fd] = IF closing THEN NoConn ELSE conn2]
      /\ net' = [net EXCEPT ![c] = IF closing THEN ClosedSocket(s2) ELSE s2]
      /\ ready' = Restrict(ready, DOMAIN ready \ {fd})
  BY DEF HandleClient
<1>2. fd \in DOMAIN ready /\ fd \in Fds
  BY LowestFd, EventLoopAssumption DEF Typed, RoundInv, HandleClient
<1>3. /\ conn \in Connection /\ conn # NoConn /\ c \in Clients /\ s \in Socket
      /\ "in" \in events => conn.want_read
      /\ "out" \in events => conn.want_write
      /\ ~conn.want_close /\ (conn.want_read <=> ~conn.want_write)
      /\ (conn.want_read <=> conn.outgoing = <<>>)
  BY <1>2 DEF Typed, ReadyInv, ConnectionInv, Shape, Connection
<1>4. ASSUME "in" \in events, s.up # <<>> PROVE ReadTurn(fd)
  <2>1. conn1 = handle_read(conn, s) /\ conn1.outgoing \in Seq(Part) /\ Len(conn.outgoing) = 0
    BY <1>3, <1>4, ReadEffect DEF Connection
  <2>2. conn2 = conn1 /\ s2 = s1 /\ s1 = [s EXCEPT !.up = SubSeq(@, ReadLen(s) + 1, Len(@))]
    BY <1>3, <1>4
  <2> HIDE DEF conn1, conn2, s1, s2
  <2>3. (Len(conn1.outgoing) - Len(conn.outgoing)) \div 2 = Len(conn1.outgoing) \div 2
    BY <2>1
  <2> QED
    BY <1>1, <1>4, <2>1, <2>2, <2>3 DEF ReadTurn, Leaves
<1>5. ASSUME "in" \in events, s.up = <<>> PROVE EndTurn(fd)
  <2>1. conn1 = [conn EXCEPT !.want_close = Readable(s)]
    BY <1>5 DEF handle_read, read
  <2>2. Len(conn1.outgoing) = Len(conn.outgoing) /\ conn1.want_close = Readable(s) /\ Len(conn.outgoing) \in Nat
    BY <1>3, <2>1 DEF Connection
  <2>3. s1 = s
    <3>1. SubSeq(s.up, ReadLen(s) + 1, Len(s.up)) = s.up
      BY <1>5, EventLoopAssumption DEF ReadLen
    <3> QED
      BY <1>3, <1>5, <3>1 DEF Socket
  <2>4. conn2 = conn1 /\ s2 = s1
    BY <1>3, <1>5
  <2>5. ~closing => conn2 = conn
    <3>1. ~closing => ~Readable(s)
      BY <2>2, <2>4
    <3>2. ~Readable(s) => [conn EXCEPT !.want_close = Readable(s)] = conn
      BY <1>3 DEF Connection, Readable, Socket
    <3> QED
      BY <2>1, <2>4, <3>1, <3>2
  <2>6. closing <=> "err" \in events \/ Readable(s)
    BY <2>2, <2>4
  <2> HIDE DEF conn1, conn2, s1, s2, closing
  <2>7. (Len(conn1.outgoing) - Len(conn.outgoing)) \div 2 = 0
    BY <2>2
  <2> QED
    BY <1>1, <1>5, <2>3, <2>4, <2>5, <2>6, <2>7 DEF EndTurn, Leaves
<1>6. ASSUME "in" \notin events
      PROVE  WriteTurn(fd) \/ NoTurn(fd)
  <2>1. conn1 = conn /\ s1 = s
    BY <1>6
  <2>2. writing <=> "out" \in events
    BY <1>3, <1>6
  <2>3. "out" \in events => conn2 = handle_write(conn, s) /\ s2 = Written(conn, s)
    BY <2>1, <2>2
  <2>4. "out" \notin events => conn2 = conn /\ s2 = s /\ ~conn2.want_close
    BY <1>3, <2>1, <2>2
  <2>5. (Len(conn1.outgoing) - Len(conn.outgoing)) \div 2 = 0
    <3>1. Len(conn.outgoing) \in Nat
      BY <1>3 DEF Connection
    <3>2. (Len(conn.outgoing) - Len(conn.outgoing)) \div 2 = 0
      BY <3>1
    <3> HIDE DEF conn1, conn
    <3> QED
      BY <2>1, <3>2
  <2>6. closing <=> "err" \in events \/ conn2.want_close
    OBVIOUS
  <2> HIDE DEF conn1, conn2, s1, s2, closing
  <2> QED
    BY <1>1, <2>3, <2>4, <2>5, <2>6 DEF WriteTurn, NoTurn, Leaves
<1> QED
  BY <1>2, <1>4, <1>5, <1>6

\* What the loop knows of a descriptor with events.
LEMMA TurnBase ==
    ASSUME Typed, Parts, NEW fd \in DOMAIN ready
    PROVE  LET old == fd2conn[fd]
               c == old.client
               s == net[c]
           IN  /\ fd \in Fds /\ old \in Connection /\ old # NoConn /\ c \in Clients /\ s \in Socket
               /\ Shape(old)
               /\ "in" \in ready[fd] => old.want_read
               /\ "out" \in ready[fd] => old.want_write
               /\ "err" \in ready[fd] => s.state = "reset"
               /\ s.state \notin {"none", "closed"}
               /\ executed[c] \in Nat /\ sent[c] \in Nat /\ Len(received[c]) \in Nat /\ Len(s.down) \in Nat
               /\ 2 * executed[c] <= sent[c]
               /\ Asks(old, s.up, 2 * executed[c], sent[c])
               /\ Gets(s.down, Len(received[c]), 2 * executed[c])
               /\ s.state \in Lasting => Owes(old, s.down, Len(received[c]), 2 * executed[c])
<1> DEFINE old == fd2conn[fd]
           c == old.client
           s == net[c]
<1>1. fd \in Fds /\ old \in Connection /\ old # NoConn /\ c \in Clients /\ s \in Socket
  BY DEF Typed, Parts, ReadyInv, Connection
<1>2. /\ Shape(old)
      /\ "in" \in ready[fd] => old.want_read
      /\ "out" \in ready[fd] => old.want_write
      /\ "err" \in ready[fd] => s.state = "reset"
  BY <1>1 DEF Parts, ReadyInv, ConnectionInv
<1>3. s.state \notin {"none", "closed"}
  <2>1. Served(c)
    BY <1>1 DEF Served, Serves
  <2> QED
    BY <1>1, <2>1 DEF Parts, OwnerInv
<1>4. executed[c] \in Nat /\ sent[c] \in Nat /\ Len(received[c]) \in Nat /\ Len(s.down) \in Nat
  <2>1. received[c] \in Seq(Part) /\ s.down \in Seq(Part)
    BY <1>1 DEF Typed, Socket
  <2> QED
    BY <1>1, <2>1 DEF Typed, Part
<1>5. 2 * executed[c] <= sent[c] /\ Gets(s.down, Len(received[c]), 2 * executed[c])
  BY <1>1 DEF Parts, ResponsesInv
<1>6. Asks(old, s.up, 2 * executed[c], sent[c])
  BY <1>1 DEF Parts, RequestsInv
<1>7. s.state \in Lasting => Owes(old, s.down, Len(received[c]), 2 * executed[c])
  BY <1>1 DEF Parts, ResponsesInv
<1> QED
  BY <1>1, <1>2, <1>3, <1>4, <1>5, <1>6, <1>7

\* The outcome of a turn for a connection, its socket and its client's streams,
\* of which n requests were executed.
Outcome(fd, conn, s, closing, n) ==
    LET c == fd2conn[fd].client
        got == Len(received[c])
        done == 2 * (executed[c] + n)
    IN  /\ Leaves(fd, conn, s, closing, n)
        /\ conn.client = c
        /\ \/ s.state = net[c].state
           \/ net[c].state = "gone" /\ s.state = "reset"
        /\ done <= sent[c] /\ Gets(s.down, got, done)
        /\ ~closing => /\ Shape(conn) /\ Asks(conn, s.up, done, sent[c])
                       /\ s.state \in Lasting => Owes(conn, s.down, got, done)
        /\ closing /\ s.state \notin {"gone", "reset"} =>
              \/ Contains(net[c].up, Oversize)
              \/ net[c].state = "half_closed" /\ got + Len(net[c].down) = 2 * (sent[c] \div 2)

Outcomes(fd) ==
    \E conn \in Connection, s \in Socket, closing \in BOOLEAN, n \in Nat : Outcome(fd, conn, s, closing, n)

LEMMA ReadOutcome ==
    ASSUME Typed, Parts, NEW fd \in DOMAIN ready, ReadTurn(fd)
    PROVE  Outcomes(fd)
<1> DEFINE old == fd2conn[fd]
           c == old.client
           s0 == net[c]
           got == Len(received[c])
           e == executed[c]
           conn == handle_read(old, s0)
           left == SubSeq(s0.up, ReadLen(s0) + 1, Len(s0.up))
           s == [s0 EXCEPT !.up = left]
           closing == "err" \in ready[fd] \/ conn.want_close
<1>1. Leaves(fd, conn, s, closing, Len(conn.outgoing) \div 2) /\ s0.up # <<>> /\ "in" \in ready[fd]
  BY DEF ReadTurn
<1>2. /\ old \in Connection /\ s0 \in Socket /\ Shape(old) /\ old.want_read
      /\ "err" \in ready[fd] => s0.state = "reset"
      /\ e \in Nat /\ sent[c] \in Nat /\ got \in Nat /\ Len(s0.down) \in Nat
      /\ Asks(old, s0.up, 2 * e, sent[c]) /\ Gets(s0.down, got, 2 * e)
      /\ s0.state \in Lasting => Owes(old, s0.down, got, 2 * e)
  BY <1>1, TurnBase
<1>3. /\ conn \in Connection /\ conn.client = c /\ left \in Seq(Part)
      /\ \E n \in Nat :
            /\ Len(conn.outgoing) = 2 * n /\ Len(conn.outgoing) \div 2 = n
            /\ GoesOn(conn.outgoing, 2 * e) /\ 2 * (e + n) <= sent[c]
            /\ ~conn.want_close => Shape(conn) /\ Asks(conn, left, 2 * (e + n), sent[c])
      /\ conn.want_close => Contains(s0.up, Oversize)
  <2> HIDE DEF old, s0, e
  <2> QED
    BY <1>1, <1>2, ReadKeeps
<1> HIDE DEF conn, left
<1>4. PICK n \in Nat :
         /\ Len(conn.outgoing) = 2 * n /\ Len(conn.outgoing) \div 2 = n
         /\ GoesOn(conn.outgoing, 2 * e) /\ 2 * (e + n) <= sent[c]
         /\ ~conn.want_close => Shape(conn) /\ Asks(conn, left, 2 * (e + n), sent[c])
  BY <1>3
<1>5. s \in Socket /\ s.up = left /\ s.down = s0.down /\ s.state = s0.state
  <2>1. s0.state \in SocketStates
    BY <1>2 DEF Socket, SocketStates
  <2> QED
    BY <1>2, <1>3, <2>1, SocketFields
<1> HIDE DEF s
<1>6. Gets(s.down, got, 2 * (e + n))
  <2>1. PICK d \in Nat : d = Len(s0.down)
    BY <1>2
  <2>2. GoesOn(s0.down, got) /\ Len(s0.down) <= SocketSize /\ got + d <= 2 * e
    BY <1>2, <2>1 DEF Gets
  <2>3. got + d <= 2 * (e + n)
    BY ONLY <1>2, <2>2, n \in Nat, d \in Nat
  <2> QED
    BY <1>5, <2>1, <2>2, <2>3 DEF Gets
<1>7. s.state \in Lasting => Owes(conn, s.down, got, 2 * (e + n))
  <2>1. old.outgoing = <<>>
    BY <1>2 DEF Shape
  <2>2. s.state \in Lasting => got + Len(s0.down) = 2 * e
    <3>1. s.state \in Lasting => got + Len(s0.down) + Len(old.outgoing) = 2 * e
      BY <1>2, <1>5 DEF Owes
    <3>2. Len(old.outgoing) = 0
      BY <2>1
    <3>3. PICK d \in Nat : d = Len(s0.down)
      BY <1>2
    <3> HIDE DEF old, s0, got, e
    <3> QED
      BY <1>2, <3>1, <3>2, <3>3
  <2>3. 2 * e + 2 * n = 2 * (e + n)
    BY <1>2
  <2> QED
    BY <1>4, <1>5, <2>2, <2>3 DEF Owes
<1>8. closing /\ s.state \notin {"gone", "reset"} => Contains(s0.up, Oversize)
  BY <1>2, <1>3, <1>5
<1>9. ~closing => Shape(conn) /\ Asks(conn, s.up, 2 * (e + n), sent[c])
  BY <1>4, <1>5
<1>10. closing \in BOOLEAN
  BY <1>3 DEF Connection
<1>11. Leaves(fd, conn, s, closing, n)
  BY <1>1, <1>4 DEF s
<1> HIDE DEF closing
<1>12. Outcome(fd, conn, s, closing, n)
  BY <1>3, <1>4, <1>5, <1>6, <1>7, <1>8, <1>9, <1>11 DEF Outcome
<1> QED
  BY <1>3, <1>5, <1>10, <1>12 DEF Outcomes

\* A turn that leaves the connection and its socket as they are, or closes.
LEMMA SameOutcome ==
    ASSUME Typed, Parts, NEW fd \in DOMAIN ready, NEW closing \in BOOLEAN,
           Leaves(fd, fd2conn[fd], net[fd2conn[fd].client], closing, 0),
           closing /\ net[fd2conn[fd].client].state \notin {"gone", "reset"} =>
              LET c == fd2conn[fd].client
              IN  /\ net[c].state = "half_closed"
                  /\ Len(received[c]) + Len(net[c].down) = 2 * (sent[c] \div 2)
    PROVE  Outcomes(fd)
<1> DEFINE old == fd2conn[fd]
           c == old.client
           s == net[c]
           got == Len(received[c])
           done == 2 * (executed[c] + 0)
<1>1. /\ old \in Connection /\ s \in Socket /\ Shape(old) /\ executed[c] \in Nat
      /\ 2 * executed[c] <= sent[c]
      /\ Asks(old, s.up, 2 * executed[c], sent[c]) /\ Gets(s.down, got, 2 * executed[c])
      /\ s.state \in Lasting => Owes(old, s.down, got, 2 * executed[c])
  BY TurnBase
<1>2. done = 2 * executed[c]
  BY <1>1
<1>3. Outcome(fd, old, s, closing, 0)
  <2> HIDE DEF done
  <2> QED
    BY <1>1, <1>2 DEF Outcome, done
<1> QED
  BY <1>1, <1>3 DEF Outcomes

LEMMA EndOutcome ==
    ASSUME Typed, Parts, NEW fd \in DOMAIN ready, EndTurn(fd)
    PROVE  Outcomes(fd)
<1> DEFINE old == fd2conn[fd]
           c == old.client
           s == net[c]
           got == Len(received[c])
           e == executed[c]
           closing == "err" \in ready[fd] \/ Readable(s)
<1>1. Leaves(fd, old, s, closing, 0) /\ s.up = <<>> /\ "in" \in ready[fd] /\ closing \in BOOLEAN
  BY DEF EndTurn, Readable
<1>2. /\ old \in Connection /\ s \in Socket /\ Shape(old) /\ old.want_read
      /\ "err" \in ready[fd] => s.state = "reset"
      /\ e \in Nat /\ sent[c] \in Nat /\ got \in Nat /\ Len(s.down) \in Nat
      /\ Asks(old, s.up, 2 * e, sent[c])
      /\ s.state \in Lasting => Owes(old, s.down, got, 2 * e)
  BY <1>1, TurnBase
<1>3. ASSUME closing, s.state \notin {"gone", "reset"}
      PROVE  s.state = "half_closed" /\ got + Len(s.down) = 2 * (sent[c] \div 2)
  <2>1. s.state = "half_closed"
    BY <1>1, <1>2, <1>3 DEF Readable
  <2>2. Len(old.outgoing) = 0 /\ old.incoming \in Seq(Part) /\ Len(old.incoming) <= 1
    BY <1>2 DEF Shape, Connection
  <2>3. got + Len(s.down) + Len(old.outgoing) = 2 * e
    BY <1>2, <2>1 DEF Owes, Lasting
  <2>4. Follows(<<>>, 2 * e + Len(old.incoming), sent[c])
    BY <1>1, <1>2 DEF Asks
  <2>5. PICK d \in Nat, a \in Nat : d = Len(s.down) /\ a = Len(old.incoming)
    BY <1>2, <2>2
  <2> HIDE DEF old, s, got, e
  <2>6. 2 * e + a + 0 = sent[c] /\ a <= 1
    BY <2>2, <2>4, <2>5 DEF Follows
  <2>7. PICK last \in Nat : last = sent[c]
    BY <1>2
  <2>8. got + d + 0 = 2 * e
    BY <2>2, <2>3, <2>5
  <2>9. 2 * e + a = last /\ got + d = 2 * e
    BY ONLY <1>2, <2>6, <2>7, <2>8, d \in Nat, a \in Nat
  <2>10. e = last \div 2
    BY ONLY <1>2, <2>6, <2>9, a \in Nat, last \in Nat
  <2> QED
    BY <2>1, <2>5, <2>7, <2>9, <2>10
<1> HIDE DEF closing
<1> QED
  BY <1>1, <1>3, SameOutcome

LEMMA NoOutcome ==
    ASSUME Typed, Parts, NEW fd \in DOMAIN ready, NoTurn(fd)
    PROVE  Outcomes(fd)
<1> DEFINE closing == "err" \in ready[fd]
<1>1. Leaves(fd, fd2conn[fd], net[fd2conn[fd].client], closing, 0) /\ closing \in BOOLEAN
  BY DEF NoTurn
<1>2. closing => net[fd2conn[fd].client].state = "reset"
  BY TurnBase
<1> HIDE DEF closing
<1> QED
  BY <1>1, <1>2, SameOutcome

LEMMA WriteOutcome ==
    ASSUME Typed, Parts, NEW fd \in DOMAIN ready, WriteTurn(fd)
    PROVE  Outcomes(fd)
<1> DEFINE old == fd2conn[fd]
           c == old.client
           s0 == net[c]
           got == Len(received[c])
           e == executed[c]
           done == 2 * (e + 0)
           conn == handle_write(old, s0)
           s == Written(old, s0)
           closing == "err" \in ready[fd] \/ conn.want_close
<1>1. Leaves(fd, conn, s, closing, 0) /\ "out" \in ready[fd]
  BY DEF WriteTurn
<1>2. /\ old \in Connection /\ s0 \in Socket /\ Shape(old) /\ old.want_write
      /\ "err" \in ready[fd] => s0.state = "reset"
      /\ e \in Nat /\ sent[c] \in Nat /\ got \in Nat
      /\ s0.state \notin {"none", "closed"}
      /\ 2 * e <= sent[c]
      /\ Asks(old, s0.up, 2 * e, sent[c]) /\ Gets(s0.down, got, 2 * e)
      /\ s0.state \in Lasting => Owes(old, s0.down, got, 2 * e)
  BY <1>1, TurnBase
<1>3. done = 2 * e /\ done \in Nat
  <2> HIDE DEF e
  <2> QED
    BY <1>2
<1>4. ~old.want_read /\ ~old.want_close /\ Len(old.incoming) <= 1 /\ Len(s0.down) <= SocketSize
  BY <1>2 DEF Shape, Gets
<1>5. /\ conn \in Connection /\ conn.client = c /\ conn.incoming = old.incoming
      /\ conn.want_read <=> ~conn.want_write
      /\ s0.state = "reset" => conn = [old EXCEPT !.want_close = TRUE]
      /\ s0.state # "reset" =>
            /\ conn.outgoing = SubSeq(old.outgoing, WriteLen(old, s0) + 1, Len(old.outgoing))
            /\ conn.want_read <=> conn.outgoing = <<>>
            /\ conn.want_close = old.want_close
  <2> HIDE DEF old, s0
  <2> QED
    BY <1>2, <1>4, WriteEffect
<1>6. /\ s \in Socket /\ s.up = s0.up
      /\ s.state = IF s0.state = "gone" THEN "reset" ELSE s0.state
      /\ s0.state \in {"gone", "reset"} => s.down = s0.down
  BY <1>2, <1>4, WrittenFields
<1>7. s0.state = "reset" => conn.want_close
  BY <1>2, <1>5 DEF Connection
<1>8. s0.state \in {"connected", "half_closed", "gone", "reset"}
  BY <1>2 DEF Socket
<1>9. s0.state \in Lasting => Gets(s.down, got, done) /\ Owes(conn, s.down, got, done)
  <2>1. ASSUME s0.state \in Lasting
        PROVE  /\ Gets(s.down, got, done)
               /\ GoesOn(SubSeq(old.outgoing, WriteLen(old, s0) + 1, Len(old.outgoing)), got + Len(s.down))
               /\ got + Len(s.down) + Len(SubSeq(old.outgoing, WriteLen(old, s0) + 1, Len(old.outgoing))) = done
    <3> HIDE DEF old, s0, e, done, got
    <3> QED
      BY <1>2, <1>3, <2>1, WriteKeeps
  <2>2. s0.state \in Lasting => s0.state # "reset"
    BY DEF Lasting
  <2> HIDE DEF conn, s, done
  <2> QED
    BY <1>5, <2>1, <2>2 DEF Owes
<1> HIDE DEF conn, s, closing, done
<1>10. Gets(s.down, got, done)
  BY <1>2, <1>3, <1>6, <1>8, <1>9 DEF Lasting
<1>11. s.state \in Lasting => s0.state \in Lasting
  BY <1>6, <1>8 DEF Lasting
<1>12. ~closing => Shape(conn) /\ Asks(conn, s.up, done, sent[c]) /\ s0.state # "reset"
  <2>1. ~closing => ~conn.want_close /\ s0.state # "reset"
    BY <1>7 DEF closing
  <2>2. Asks(conn, s.up, done, sent[c])
    BY <1>2, <1>3, <1>5, <1>6 DEF Asks
  <2> QED
    BY <1>4, <1>5, <2>1, <2>2 DEF Shape
<1>13. closing => s.state = "reset"
  <2>1. closing => s0.state = "reset"
    BY <1>2, <1>4, <1>5 DEF closing
  <2> QED
    BY <1>6, <2>1
<1>14. closing \in BOOLEAN
  BY <1>5 DEF closing, Connection
<1>15. Outcome(fd, conn, s, closing, 0)
  <2>1. Leaves(fd, conn, s, closing, 0) /\ conn.client = fd2conn[fd].client
    BY <1>1, <1>5 DEF conn, s, closing
  <2>2. s.state = s0.state \/ (s0.state = "gone" /\ s.state = "reset")
    BY <1>6
  <2>3. done <= sent[c]
    BY <1>2, <1>3
  <2> QED
    BY <1>9, <1>10, <1>11, <1>12, <1>13, <2>1, <2>2, <2>3 DEF Outcome, done
<1> QED
  BY <1>5, <1>6, <1>14, <1>15 DEF Outcomes

LEMMA TurnOutcome ==
    ASSUME Typed, Parts, HandleClient
    PROVE  \E fd \in DOMAIN ready : Outcomes(fd)
BY Turns, ReadOutcome, EndOutcome, WriteOutcome, NoOutcome DEF Parts

-----------------------------------------------------------------------------
(* The clients *)

\* What a client does to its socket and its stream.
Connects(c, s) ==
    /\ net[c].state = "none" /\ running
    /\ s.state = "connected" /\ s.up = net[c].up /\ s.down = net[c].down
    /\ backlog' = Append(backlog, c) /\ UNCHANGED <<sent, received>>
Sends(c, s) ==
    /\ net[c].state = "connected" /\ ~Contains(net[c].up, Oversize)
    /\ s.state = net[c].state /\ s.down = net[c].down
    /\ sent[c] < 2 * Requests[c]
    /\ \/ s.up = Append(net[c].up, sent[c] + 1) /\ sent' = [sent EXCEPT ![c] = @ + 1]
       \/ /\ sent[c] % 2 = 0
          /\ s.up = Append(net[c].up, Oversize) /\ sent' = [sent EXCEPT ![c] = 2 * Requests[c]]
    /\ UNCHANGED <<backlog, received>>
Receives(c, s) ==
    /\ net[c].state \notin {"none", "gone", "reset"} /\ net[c].down # <<>>
    /\ s.state = net[c].state /\ s.up = net[c].up /\ s.down = Tail(net[c].down)
    /\ received' = [received EXCEPT ![c] = Append(@, Head(net[c].down))]
    /\ UNCHANGED <<backlog, sent>>
Ends(c, s) ==
    /\ net[c].state \in Lasting /\ s.up = net[c].up
    /\ \/ s.state = "half_closed" /\ s.down = net[c].down
       \/ s.state = "gone" /\ s.down = <<>> /\ net[c].down = <<>>
       \/ s.state = "reset" /\ s.down = <<>>
    /\ UNCHANGED <<backlog, sent, received>>

LEMMA ClientEffect ==
    ASSUME Typed, NEW c \in Clients, ClientStep(c)
    PROVE  /\ UNCHANGED <<pc, running, fd2conn, accepting, ready, executed>>
           /\ \E s \in Socket :
                 /\ net' = [net EXCEPT ![c] = s]
                 /\ Connects(c, s) \/ Sends(c, s) \/ Receives(c, s) \/ Ends(c, s)
<1> DEFINE s0 == net[c]
<1>t. /\ net \in [Clients -> Socket] /\ s0 \in Socket /\ s0.up \in Seq(Part) /\ s0.down \in Seq(Part)
      /\ s0.state \in SocketStates /\ sent[c] \in Nat /\ Requests[c] \in Nat
  BY EventLoopAssumption DEF Typed, Socket, SocketStates, Part
<1>s. {"connected", "half_closed", "gone", "reset"} \subseteq SocketStates
  BY DEF SocketStates
<1>u. ClientStep(c) => UNCHANGED <<pc, running, fd2conn, accepting, ready, executed>>
  BY DEF ClientStep, Connect, SendPart, SendOversize, Send, Receive, HalfClose, Close, loopVars
<1>1. CASE Connect(c)
  <2> DEFINE s == [s0 EXCEPT !.state = "connected"]
  <2>1. net' = [net EXCEPT ![c] = s] /\ s \in Socket
    BY <1>1, <1>t, <1>s, SocketFields DEF Connect
  <2>2. Connects(c, s)
    BY <1>1, <1>t, <1>s, SocketFields DEF Connect, Connects, clientVars
  <2> QED
    BY <1>u, <2>1, <2>2
<1>2. ASSUME NEW part \in Part, Send(c, part), sent[c] < 2 * Requests[c],
             \/ part = sent[c] + 1 /\ sent' = [sent EXCEPT ![c] = @ + 1]
             \/ part = Oversize /\ sent[c] % 2 = 0 /\ sent' = [sent EXCEPT ![c] = 2 * Requests[c]]
      PROVE  \E s \in Socket : net' = [net EXCEPT ![c] = s] /\ Sends(c, s)
  <2> DEFINE s == [s0 EXCEPT !.up = Append(@, part)]
  <2>1. net' = [net EXCEPT ![c] = s]
    BY <1>2, <1>t DEF Send
  <2>2. Append(s0.up, part) \in Seq(Part)
    BY <1>t
  <2>3. s \in Socket /\ s.up = Append(s0.up, part) /\ s.down = s0.down /\ s.state = s0.state
    BY <1>t, <2>2, SocketFields
  <2>4. Sends(c, s)
    BY <1>2, <2>3 DEF Send, Sends
  <2> QED
    BY <2>1, <2>3, <2>4
<1>3. CASE SendPart(c)
  <2>1. sent[c] + 1 \in Part
    BY <1>t DEF Part
  <2> QED
    BY <1>3, <1>u, <1>2, <2>1 DEF SendPart
<1>4. CASE SendOversize(c)
  <2>1. Oversize \in Part
    BY DEF Part, Oversize
  <2> QED
    BY <1>4, <1>u, <1>2, <2>1 DEF SendOversize
<1>5. CASE Receive(c)
  <2> DEFINE s == [s0 EXCEPT !.down = Tail(@)]
  <2>1. net' = [net EXCEPT ![c] = s]
    BY <1>5, <1>t DEF Receive
  <2>2. Tail(s0.down) \in Seq(Part)
    BY <1>5, <1>t DEF Receive
  <2>3. s \in Socket /\ s.up = s0.up /\ s.down = Tail(s0.down) /\ s.state = s0.state
    BY <1>t, <2>2, SocketFields
  <2>4. Receives(c, s)
    BY <1>5, <2>3 DEF Receive, Receives
  <2> QED
    BY <1>u, <2>1, <2>3, <2>4
<1>6. CASE HalfClose(c)
  <2> DEFINE s == [s0 EXCEPT !.state = "half_closed"]
  <2>1. net' = [net EXCEPT ![c] = s] /\ s \in Socket
    BY <1>6, <1>t, <1>s, SocketFields DEF HalfClose
  <2>2. Ends(c, s)
    BY <1>6, <1>t, <1>s, SocketFields DEF HalfClose, Ends, Lasting, clientVars
  <2> QED
    BY <1>u, <2>1, <2>2
<1>7. CASE Close(c)
  <2> DEFINE state == IF s0.down = <<>> THEN "gone" ELSE "reset"
             s == [s0 EXCEPT !.state = state, !.down = <<>>]
  <2>1. net' = [net EXCEPT ![c] = s]
    BY <1>7, <1>t DEF Close
  <2>2. state \in SocketStates
    BY <1>s
  <2>3. s \in Socket /\ s.state = state /\ s.up = s0.up /\ s.down = <<>>
    <3> HIDE DEF state
    <3> QED
      BY <1>t, <2>2, EndFields
  <2>4. Ends(c, s)
    BY <1>7, <2>3 DEF Close, Ends, Lasting, clientVars
  <2> QED
    BY <1>u, <2>1, <2>3, <2>4
<1> QED
  BY <1>1, <1>3, <1>4, <1>5, <1>6, <1>7 DEF ClientStep

LEMMA TypeClient ==
    ASSUME Typed, NEW c \in Clients, ClientStep(c)
    PROVE  Typed'
<1>1. PICK s \in Socket :
         /\ net' = [net EXCEPT ![c] = s]
         /\ Connects(c, s) \/ Sends(c, s) \/ Receives(c, s) \/ Ends(c, s)
  BY ClientEffect
<1>2. net' \in [Clients -> Socket]
  BY <1>1 DEF Typed
<1>3. backlog' \in Seq(Clients)
  <2>1. backlog \in Seq(Clients) /\ Append(backlog, c) \in Seq(Clients)
    BY DEF Typed
  <2> QED
    BY <1>1, <2>1 DEF Connects, Sends, Receives, Ends
<1>4. sent' \in [Clients -> Part]
  <2>1. sent \in [Clients -> Nat] /\ sent[c] + 1 \in Nat /\ 2 * Requests[c] \in Nat
    BY EventLoopAssumption DEF Typed, Part
  <2>2. sent' = sent \/ sent' = [sent EXCEPT ![c] = sent[c] + 1] \/ sent' = [sent EXCEPT ![c] = 2 * Requests[c]]
    BY <1>1 DEF Connects, Sends, Receives, Ends
  <2> QED
    BY <2>1, <2>2 DEF Part
<1>5. received' \in [Clients -> Seq(Part)]
  <2>1. CASE Receives(c, s)
    <3>1. net[c].down \in Seq(Part) /\ net[c].down # <<>> /\ received[c] \in Seq(Part)
      BY <2>1 DEF Typed, Socket, Receives
    <3>2. Append(received[c], Head(net[c].down)) \in Seq(Part)
      BY <3>1
    <3> QED
      BY <2>1, <3>2 DEF Typed, Receives
  <2> QED
    BY <1>1, <2>1 DEF Typed, Connects, Sends, Ends
<1> QED
  BY <1>2, <1>3, <1>4, <1>5, ClientEffect DEF Typed

LEMMA TypeNext ==
    ASSUME Typed, Parts, [Next]_vars
    PROVE  Typed'
<1> USE DEF Typed
<1>1. CASE Poll
  <2>1. \A conn : revents(conn) \in SUBSET {"in", "out", "err"}
    BY DEF revents
  <2>2. DOMAIN ready' = ReadyFds /\ ready' \in [ReadyFds -> SUBSET {"in", "out", "err"}] /\ ReadyFds \subseteq Fds
    BY <1>1, <2>1 DEF Poll, ReadyFds
  <2> QED
    BY <1>1, <2>2 DEF Poll, clientVars
<1>2. CASE handle_accept
  <2>1. CASE accepting /\ backlog # <<>> /\ FreeFds # {}
    <3> DEFINE conn == [client |-> Head(backlog), want_read |-> TRUE, want_write |-> FALSE,
                        want_close |-> FALSE, incoming |-> <<>>, outgoing |-> <<>>]
    <3>1. Head(backlog) \in Clients /\ Tail(backlog) \in Seq(Clients)
      BY <2>1
    <3>2. conn \in Connection
      BY <3>1, NoParts DEF Connection
    <3>3. fd2conn' = [fd2conn EXCEPT ![Min(FreeFds)] = conn] /\ backlog' = Tail(backlog)
      BY <1>2, <2>1 DEF handle_accept
    <3>4. fd2conn' \in [Fds -> Connection \cup {NoConn}]
      BY <3>2, <3>3
    <3> QED
      BY <1>2, <3>1, <3>3, <3>4 DEF handle_accept, NextRound, clientVars
  <2>2. CASE ~(accepting /\ backlog # <<>> /\ FreeFds # {})
    BY <1>2, <2>2 DEF handle_accept, NextRound, clientVars
  <2> QED
    BY <2>1, <2>2
<1>3. CASE HandleClient
  <2>1. PICK fd \in DOMAIN ready, conn \in Connection, s \in Socket, closing \in BOOLEAN, n \in Nat :
           Leaves(fd, conn, s, closing, n) /\ conn.client = fd2conn[fd].client
    <3>1. Typed /\ Parts
      OBVIOUS
    <3>2. PICK fd \in DOMAIN ready : Outcomes(fd)
      <4> HIDE DEF Typed
      <4> QED
        BY <1>3, <3>1, TurnOutcome
    <3> HIDE DEF Typed
    <3> QED
      BY <3>2 DEF Outcomes, Outcome
  <2> DEFINE c == conn.client
  <2>0. c \in Clients
    BY DEF Connection
  <2>2. fd2conn' \in [Fds -> Connection \cup {NoConn}] /\ executed' \in [Clients -> Nat]
    <3>1. executed' = [executed EXCEPT ![c] = @ + n] /\ executed[c] + n \in Nat
      BY <2>0, <2>1 DEF Leaves
    <3>2. fd2conn' = [fd2conn EXCEPT ![fd] = IF closing THEN NoConn ELSE conn]
      BY <2>1 DEF Leaves
    <3> QED
      BY <3>1, <3>2
  <2>3. net' \in [Clients -> Socket]
    BY <2>1, ClosedFields DEF Leaves
  <2>4. DOMAIN ready' \subseteq Fds /\ ready' \in [DOMAIN ready' -> SUBSET {"in", "out", "err"}]
    BY <2>1 DEF Leaves, Restrict
  <2>5. pc' \in {"poll", "clients", "shutdown"} /\ UNCHANGED <<running, accepting, backlog, sent, received>>
    BY <1>3 DEF HandleClient, NextRound, clientVars
  <2> QED
    BY <2>2, <2>3, <2>4, <2>5
<1>4. CASE Shutdown
  BY <1>4, ClosedFields DEF Shutdown, clientVars
<1>5. CASE stop
  <2>1. net' \in [Clients -> Socket] /\ backlog' \in Seq(Clients)
    BY <1>5, ClosedFields DEF stop
  <2> QED
    BY <1>5, <2>1 DEF stop, clientVars
<1>6. CASE UNCHANGED vars
  BY <1>6 DEF vars
<1> QED
  BY <1>1, <1>2, <1>3, <1>4, <1>5, <1>6, TypeClient DEF Next, LoopStep, Over

-----------------------------------------------------------------------------
(* What the steps of the loop change *)

\* The connection of a client that has just been accepted.
Accepted(c) == [client |-> c, want_read |-> TRUE, want_write |-> FALSE,
                want_close |-> FALSE, incoming |-> <<>>, outgoing |-> <<>>]

LEMMA AcceptEffect ==
    ASSUME Typed, handle_accept
    PROVE  /\ UNCHANGED <<running, ready, net, sent, received, executed>>
           /\ pc = "accept"
           /\ \/ UNCHANGED <<fd2conn, backlog>>
              \/ /\ backlog # <<>>
                 /\ \E fd \in Fds : /\ fd2conn[fd] = NoConn
                                    /\ fd2conn' = [fd2conn EXCEPT ![fd] = Accepted(backlog[1])]
                 /\ Len(backlog') = Len(backlog) - 1 /\ backlog[1] \in Clients
                 /\ \A i \in 1 .. Len(backlog') : i + 1 \in 1 .. Len(backlog) /\ backlog'[i] = backlog[i + 1]
<1>1. UNCHANGED <<running, ready, net, sent, received, executed>> /\ pc = "accept"
  BY DEF handle_accept, clientVars
<1>2. CASE accepting /\ backlog # <<>> /\ FreeFds # {}
  <2> DEFINE fd == Min(FreeFds)
  <2>1. fd \in Fds /\ fd2conn[fd] = NoConn
    <3>1. FreeFds \subseteq Nat /\ FreeFds \subseteq Fds /\ FreeFds # {}
      BY <1>2, EventLoopAssumption DEF FreeFds
    <3>2. fd \in FreeFds
      BY <3>1, LowestFd
    <3> QED
      BY <3>2 DEF FreeFds
  <2>2. backlog' = Tail(backlog) /\ Head(backlog) = backlog[1] /\ backlog \in Seq(Clients)
    BY <1>2 DEF handle_accept, Typed
  <2>3. fd2conn' = [fd2conn EXCEPT ![fd] = Accepted(backlog[1])]
    BY <1>2, <2>2 DEF handle_accept, Accepted
  <2> HIDE DEF fd
  <2>4. /\ Len(backlog') = Len(backlog) - 1 /\ backlog[1] \in Clients
        /\ \A i \in 1 .. Len(backlog') : i + 1 \in 1 .. Len(backlog) /\ backlog'[i] = backlog[i + 1]
    BY <1>2, <2>2
  <2> QED
    BY <1>1, <1>2, <2>1, <2>3, <2>4
<1>3. CASE ~(accepting /\ backlog # <<>> /\ FreeFds # {})
  BY <1>1, <1>3 DEF handle_accept
<1> QED
  BY <1>2, <1>3

\* Nobody else has the connection of a turn or waits with its client.
LEMMA TurnEffect ==
    ASSUME Typed, Parts, HandleClient
    PROVE  /\ UNCHANGED <<running, backlog, sent, received>>
           /\ pc = "clients" /\ pc' = IF DOMAIN ready' = {} THEN (IF running THEN "poll" ELSE "shutdown") ELSE pc
           /\ \E fd \in DOMAIN ready, conn \in Connection, s \in Socket, closing \in BOOLEAN, n \in Nat :
                 /\ Outcome(fd, conn, s, closing, n)
                 /\ fd \in Fds /\ fd2conn[fd] # NoConn /\ conn.client = fd2conn[fd].client
                 /\ conn.client \in Clients /\ conn # NoConn
                 /\ Serves(fd, conn.client) /\ Served(conn.client)
                 /\ \A g \in Fds : g # fd => ~Serves(g, conn.client)
                 /\ \A i \in 1 .. Len(backlog) : backlog[i] # conn.client
                 /\ net[conn.client].state \notin {"none", "closed"}
<1>1. PICK fd \in DOMAIN ready : Outcomes(fd)
  BY TurnOutcome
<1>2. PICK conn \in Connection, s \in Socket, closing \in BOOLEAN, n \in Nat : Outcome(fd, conn, s, closing, n)
  BY <1>1 DEF Outcomes
<1>3. /\ fd \in Fds /\ fd2conn[fd] # NoConn /\ fd2conn[fd].client \in Clients
      /\ net[fd2conn[fd].client].state \notin {"none", "closed"}
  BY TurnBase
<1>4. conn.client = fd2conn[fd].client
  BY <1>2 DEF Outcome
<1>5. Serves(fd, conn.client) /\ Served(conn.client)
  BY <1>3, <1>4 DEF Serves, Served
<1>6. \A g \in Fds : g # fd => ~Serves(g, conn.client)
  BY <1>3, <1>4, <1>5 DEF Parts, OwnerInv
<1>7. \A i \in 1 .. Len(backlog) : backlog[i] # conn.client
  BY <1>5 DEF Parts, OwnerInv
<1>8. conn # NoConn
  BY NoConnAssumption
<1>9. /\ UNCHANGED <<running, backlog, sent, received>> /\ pc = "clients"
      /\ pc' = IF DOMAIN ready' = {} THEN (IF running THEN "poll" ELSE "shutdown") ELSE pc
  BY DEF HandleClient, NextRound, clientVars
<1> QED
  BY <1>2, <1>3, <1>4, <1>5, <1>6, <1>7, <1>8, <1>9

-----------------------------------------------------------------------------
(* Every step preserves the parts of the invariant *)

LEMMA ConnectionNext ==
    ASSUME Typed, Parts, [Next]_vars
    PROVE  ConnectionInv'
<1> USE DEF ConnectionInv
<1>0. ConnectionInv
  BY DEF Parts
<1>1. CASE Poll
  BY <1>0, <1>1 DEF Poll
<1>2. CASE handle_accept
  <2>1. CASE UNCHANGED fd2conn
    BY <1>0, <2>1
  <2>2. ASSUME NEW fd \in Fds, fd2conn' = [fd2conn EXCEPT ![fd] = Accepted(backlog[1])]
        PROVE  ConnectionInv'
    <3>1. Shape(Accepted(backlog[1]))
      <4>1. Len(<<>>) <= 1
        OBVIOUS
      <4> QED
        BY <4>1 DEF Shape, Accepted
    <3>2. \A g \in Fds : fd2conn'[g] = IF g = fd THEN Accepted(backlog[1]) ELSE fd2conn[g]
      BY <2>2 DEF Typed
    <3> QED
      BY <1>0, <3>1, <3>2
  <2> QED
    BY <1>2, <2>1, <2>2, AcceptEffect
<1>3. CASE HandleClient
  <2>1. PICK fd \in DOMAIN ready, conn \in Connection, s \in Socket, closing \in BOOLEAN, n \in Nat :
           Outcome(fd, conn, s, closing, n)
    BY <1>3, TurnEffect
  <2>2. \A g \in Fds : fd2conn'[g] = IF g = fd THEN (IF closing THEN NoConn ELSE conn) ELSE fd2conn[g]
    BY <2>1 DEF Outcome, Leaves, Typed
  <2>3. ~closing => Shape(conn)
    BY <2>1 DEF Outcome
  <2> QED
    BY <1>0, <2>2, <2>3
<1>4. CASE Shutdown
  BY <1>4 DEF Shutdown
<1>5. CASE stop
  BY <1>0, <1>5 DEF stop
<1>6. CASE UNCHANGED vars
  BY <1>0, <1>6 DEF vars
<1>7. ASSUME NEW c \in Clients, ClientStep(c) PROVE ConnectionInv'
  BY <1>0, <1>7, ClientEffect
<1> QED
  BY <1>1, <1>2, <1>3, <1>4, <1>5, <1>6, <1>7 DEF Next, LoopStep, Over

LEMMA OwnerNext ==
    ASSUME Typed, Parts, [Next]_vars
    PROVE  OwnerInv'
<1> USE DEF OwnerInv, Served, Serves
<1>0. OwnerInv
  BY DEF Parts
<1>t. fd2conn \in [Fds -> Connection \cup {NoConn}] /\ net \in [Clients -> Socket] /\ backlog \in Seq(Clients)
  BY DEF Typed
<1>1. CASE Poll
  BY <1>0, <1>1 DEF Poll
<1>2. CASE handle_accept
  <2>1. UNCHANGED net
    BY <1>2, AcceptEffect
  <2>2. CASE UNCHANGED <<fd2conn, backlog>>
    BY <1>0, <2>1, <2>2
  <2>3. ASSUME NEW fd \in Fds, fd2conn[fd] = NoConn, backlog # <<>>, backlog[1] \in Clients,
               fd2conn' = [fd2conn EXCEPT ![fd] = Accepted(backlog[1])],
               \A i \in 1 .. Len(backlog') : i + 1 \in 1 .. Len(backlog) /\ backlog'[i] = backlog[i + 1]
        PROVE  OwnerInv'
    <3> DEFINE a == backlog[1]
    <3>1. 1 \in 1 .. Len(backlog)
      BY <1>t, <2>3
    <3>2. ~Served(a) /\ net[a].state \notin {"none", "closed"}
      BY <1>0, <3>1
    <3>3. \A g \in Fds, c \in Clients : Serves(g, c)' <=> Serves(g, c) \/ (g = fd /\ c = a)
      <4>1. \A g \in Fds : fd2conn'[g] = IF g = fd THEN Accepted(a) ELSE fd2conn[g]
        BY <1>t, <2>3
      <4>2. Accepted(a) # NoConn /\ Accepted(a).client = a
        <5>1. Accepted(a) \in Connection
          BY <2>3, NoParts DEF Accepted, Connection
        <5> QED
          BY <5>1, NoConnAssumption DEF Accepted
      <4> QED
        BY <2>3, <4>1, <4>2
    <3>4. \A i \in 1 .. Len(backlog') : backlog'[i] \in Clients /\ backlog'[i] # a
      <4>1. ASSUME NEW i \in 1 .. Len(backlog') PROVE backlog'[i] \in Clients /\ backlog'[i] # a
        <5>1. i + 1 \in 1 .. Len(backlog) /\ backlog'[i] = backlog[i + 1] /\ i + 1 # 1
          BY <2>3, <4>1
        <5> QED
          BY <1>0, <1>t, <3>1, <5>1
      <4> QED
        BY <4>1
    <3> HIDE DEF a
    <3>5. \A f, g \in Fds : \A c \in Clients : Serves(f, c)' /\ Serves(g, c)' => f = g
      BY <1>0, <3>2, <3>3
    <3>6. \A i, j \in 1 .. Len(backlog') : backlog'[i] = backlog'[j] => i = j
      <4>1. ASSUME NEW i \in 1 .. Len(backlog'), NEW j \in 1 .. Len(backlog'), backlog'[i] = backlog'[j]
            PROVE  i = j
        <5>1. /\ i + 1 \in 1 .. Len(backlog) /\ backlog'[i] = backlog[i + 1]
              /\ j + 1 \in 1 .. Len(backlog) /\ backlog'[j] = backlog[j + 1]
          BY <2>3
        <5>2. i + 1 = j + 1
          BY <1>0, <4>1, <5>1
        <5> QED
          BY <5>2
      <4> QED
        BY <4>1
    <3>7. \A i \in 1 .. Len(backlog') : net'[backlog'[i]].state \notin {"none", "closed"}
              /\ \A f \in Fds : ~(fd2conn'[f] # NoConn /\ fd2conn'[f].client = backlog'[i])
      <4>1. ASSUME NEW i \in 1 .. Len(backlog')
            PROVE  net[backlog'[i]].state \notin {"none", "closed"} /\ ~Served(backlog'[i])
        <5>1. i + 1 \in 1 .. Len(backlog) /\ backlog'[i] = backlog[i + 1]
          BY <2>3
        <5> QED
          BY <1>0, <5>1
      <4> QED
        BY <2>1, <3>3, <3>4, <4>1
    <3>8. \A c \in Clients : Served(c)' => net'[c].state \notin {"none", "closed"}
      BY <1>0, <2>1, <3>2, <3>3
    <3> QED
      BY <3>5, <3>6, <3>7, <3>8
  <2> QED
    BY <1>2, <2>2, <2>3, AcceptEffect
<1>3. CASE HandleClient
  <2>1. PICK fd \in DOMAIN ready, conn \in Connection, s \in Socket, closing \in BOOLEAN, n \in Nat :
           /\ Outcome(fd, conn, s, closing, n)
           /\ fd \in Fds /\ fd2conn[fd] # NoConn /\ conn.client = fd2conn[fd].client
           /\ conn.client \in Clients /\ conn # NoConn
           /\ \A g \in Fds : g # fd => ~Serves(g, conn.client)
           /\ \A i \in 1 .. Len(backlog) : backlog[i] # conn.client
           /\ net[conn.client].state \notin {"none", "closed"}
    BY <1>3, TurnEffect
  <2> DEFINE c == conn.client
  <2>2. UNCHANGED backlog
    BY <1>3, TurnEffect
  <2>3. \A g \in Fds : fd2conn'[g] = IF g = fd THEN (IF closing THEN NoConn ELSE conn) ELSE fd2conn[g]
    BY <1>t, <2>1 DEF Outcome, Leaves
  <2>4. \A d \in Clients : net'[d] = IF d = c THEN (IF closing THEN ClosedSocket(s) ELSE s) ELSE net[d]
    BY <1>t, <2>1 DEF Outcome, Leaves
  <2>5. \A g \in Fds, d \in Clients : Serves(g, d)' => Serves(g, d)
    BY <2>1, <2>3
  <2>6. closing => ~Served(c)'
    BY <2>1, <2>3
  <2>7. s.state \notin {"none", "closed"}
    BY <2>1 DEF Outcome
  <2>8. \A d \in Clients : Served(d)' => net'[d].state \notin {"none", "closed"}
    <3>1. \A d \in Clients : Served(d)' => net[d].state \notin {"none", "closed"}
      BY <1>0, <2>5
    <3> QED
      BY <2>4, <2>6, <2>7, <3>1
  <2>9. \A i \in 1 .. Len(backlog) : backlog[i] \in Clients /\ net'[backlog[i]] = net[backlog[i]]
    BY <1>t, <2>1, <2>4
  <2> HIDE DEF c
  <2>10. \A f, g \in Fds : \A d \in Clients : Serves(f, d)' /\ Serves(g, d)' => f = g
    BY <1>0, <2>5
  <2>11. \A i \in 1 .. Len(backlog) : net'[backlog[i]].state \notin {"none", "closed"} /\ ~Served(backlog[i])'
    BY <1>0, <2>2, <2>5, <2>9
  <2> QED
    BY <1>0, <2>2, <2>8, <2>10, <2>11
<1>4. CASE Shutdown
  <2>1. \A f \in Fds : fd2conn'[f] = NoConn
    BY <1>4 DEF Shutdown
  <2>2. \A i \in 1 .. Len(backlog) : backlog[i] \in Clients /\ ~Served(backlog[i])
    BY <1>0, <1>t
  <2>3. \A c \in Clients : ~Served(c) => net'[c] = net[c]
    BY <1>4 DEF Shutdown
  <2>4. UNCHANGED backlog
    BY <1>4 DEF Shutdown
  <2> QED
    BY <1>0, <2>1, <2>2, <2>3, <2>4
<1>5. CASE stop
  <2>1. \A c \in Clients : Served(c) => net'[c] = net[c]
    BY <1>0, <1>5 DEF stop, Contains
  <2>2. UNCHANGED fd2conn /\ backlog' = <<>> /\ Len(<<>>) = 0
    BY <1>5 DEF stop
  <2> QED
    BY <1>0, <2>1, <2>2
<1>6. CASE UNCHANGED vars
  BY <1>0, <1>6 DEF vars
<1>7. ASSUME NEW c \in Clients, ClientStep(c) PROVE OwnerInv'
  <2>1. PICK s \in Socket :
           /\ net' = [net EXCEPT ![c] = s]
           /\ Connects(c, s) \/ Sends(c, s) \/ Receives(c, s) \/ Ends(c, s)
    BY <1>7, ClientEffect
  <2>2. UNCHANGED fd2conn
    BY <1>7, ClientEffect
  <2>3. \A d \in Clients : net'[d] = IF d = c THEN s ELSE net[d]
    BY <1>t, <2>1
  <2>4. CASE Connects(c, s)
    <3>1. net[c].state = "none" /\ s.state = "connected" /\ backlog' = Append(backlog, c)
      BY <2>4 DEF Connects
    <3>2. /\ Len(backlog') = Len(backlog) + 1 /\ backlog'[Len(backlog) + 1] = c /\ Len(backlog) \in Nat
          /\ \A i \in 1 .. Len(backlog) : backlog'[i] = backlog[i] /\ backlog[i] \in Clients
      BY <1>t, <3>1
    <3>3. ~Served(c) /\ \A i \in 1 .. Len(backlog) : backlog[i] # c
      BY <1>0, <3>1
    <3>4. \A i \in 1 .. Len(backlog') : i \in 1 .. Len(backlog) \/ i = Len(backlog) + 1
      BY <3>2
    <3>5. \A i, j \in 1 .. Len(backlog') : backlog'[i] = backlog'[j] => i = j
      BY <1>0, <3>2, <3>3, <3>4
    <3>6. \A i \in 1 .. Len(backlog') : net'[backlog'[i]].state \notin {"none", "closed"}
              /\ \A f \in Fds : ~(fd2conn'[f] # NoConn /\ fd2conn'[f].client = backlog'[i])
      BY <1>0, <2>2, <2>3, <3>1, <3>2, <3>3, <3>4
    <3> QED
      BY <1>0, <2>2, <2>3, <3>1, <3>5, <3>6
  <2>5. CASE Sends(c, s) \/ Receives(c, s) \/ Ends(c, s)
    <3>1. UNCHANGED backlog /\ (s.state \in {"none", "closed"} => net[c].state = s.state)
      BY <2>5 DEF Sends, Receives, Ends
    <3>2. \A i \in 1 .. Len(backlog) : backlog[i] \in Clients
      BY <1>t
    <3> QED
      BY <1>0, <2>2, <2>3, <3>1, <3>2
  <2> QED
    BY <2>1, <2>4, <2>5
<1> QED
  BY <1>1, <1>2, <1>3, <1>4, <1>5, <1>6, <1>7 DEF Next, LoopStep, Over

LEMMA ReadyNext ==
    ASSUME Typed, Parts, [Next]_vars
    PROVE  ReadyInv'
<1> USE DEF ReadyInv
<1>0. ReadyInv
  BY DEF Parts
<1>t. /\ fd2conn \in [Fds -> Connection \cup {NoConn}] /\ net \in [Clients -> Socket]
      /\ DOMAIN ready \subseteq Fds
  BY DEF Typed
<1>1. CASE Poll
  <2>1. DOMAIN ready' = ReadyFds /\ \A f \in ReadyFds : ready'[f] = revents(fd2conn[f])
    BY <1>1 DEF Poll
  <2>2. \A f \in ReadyFds : fd2conn[f] # NoConn
    BY DEF ReadyFds
  <2>3. \A conn : /\ "in" \in revents(conn) => conn.want_read
                  /\ "out" \in revents(conn) => conn.want_write
                  /\ "err" \in revents(conn) => net[conn.client].state = "reset"
    BY DEF revents
  <2>4. UNCHANGED <<fd2conn, net>>
    BY <1>1 DEF Poll
  <2> QED
    BY <2>1, <2>2, <2>3, <2>4
<1>2. CASE handle_accept
  <2>1. UNCHANGED <<net, ready>>
    BY <1>2, AcceptEffect
  <2>2. \A f \in DOMAIN ready : fd2conn'[f] = fd2conn[f]
    <3>1. CASE UNCHANGED fd2conn
      BY <3>1
    <3>2. ASSUME NEW fd \in Fds, fd2conn[fd] = NoConn, fd2conn' = [fd2conn EXCEPT ![fd] = Accepted(backlog[1])]
          PROVE  \A f \in DOMAIN ready : fd2conn'[f] = fd2conn[f]
      BY <1>0, <1>t, <3>2
    <3> QED
      BY <1>2, <3>1, <3>2, AcceptEffect
  <2> QED
    BY <1>0, <2>1, <2>2
<1>3. CASE HandleClient
  <2>1. PICK fd \in DOMAIN ready, conn \in Connection, s \in Socket, closing \in BOOLEAN, n \in Nat :
           /\ Outcome(fd, conn, s, closing, n)
           /\ fd \in Fds /\ conn.client = fd2conn[fd].client /\ conn.client \in Clients
           /\ \A g \in Fds : g # fd => ~Serves(g, conn.client)
    BY <1>3, TurnEffect
  <2>2. DOMAIN ready' = DOMAIN ready \ {fd} /\ \A f \in DOMAIN ready' : ready'[f] = ready[f]
    BY <2>1 DEF Outcome, Leaves, Restrict
  <2>3. \A f \in DOMAIN ready' : fd2conn'[f] = fd2conn[f]
    BY <1>t, <2>1, <2>2 DEF Outcome, Leaves
  <2>4. \A f \in DOMAIN ready' : net'[fd2conn[f].client] = net[fd2conn[f].client]
    <3>1. ASSUME NEW f \in DOMAIN ready' PROVE net'[fd2conn[f].client] = net[fd2conn[f].client]
      <4>1. f \in Fds /\ f # fd /\ fd2conn[f] # NoConn
        BY <1>0, <1>t, <2>2
      <4>2. fd2conn[f].client # conn.client
        BY <2>1, <4>1 DEF Serves
      <4>3. fd2conn[f].client \in Clients
        BY <1>t, <4>1 DEF Connection
      <4> QED
        BY <1>t, <2>1, <4>2, <4>3 DEF Outcome, Leaves
    <3> QED
      BY <3>1
  <2> QED
    BY <1>0, <2>2, <2>3, <2>4
<1>4. CASE Shutdown
  <2>1. DOMAIN ready = {} /\ UNCHANGED ready
    BY <1>4 DEF Shutdown, Parts, RoundInv
  <2> QED
    BY <2>1
<1>5. CASE stop
  <2>1. UNCHANGED <<fd2conn, ready>>
    BY <1>5 DEF stop
  <2>2. \A c \in Clients : net[c].state = "reset" => net'[c].state = "reset"
    BY <1>5, <1>t, ClosedFields DEF stop
  <2>3. \A f \in DOMAIN ready : fd2conn[f].client \in Clients
    BY <1>0, <1>t DEF Connection
  <2> QED
    BY <1>0, <2>1, <2>2, <2>3
<1>6. CASE UNCHANGED vars
  BY <1>0, <1>6 DEF vars
<1>7. ASSUME NEW c \in Clients, ClientStep(c) PROVE ReadyInv'
  <2>1. PICK s \in Socket :
           /\ net' = [net EXCEPT ![c] = s]
           /\ Connects(c, s) \/ Sends(c, s) \/ Receives(c, s) \/ Ends(c, s)
    BY <1>7, ClientEffect
  <2>2. UNCHANGED <<fd2conn, ready>>
    BY <1>7, ClientEffect
  <2>3. net[c].state = "reset" => s.state = "reset"
    BY <2>1 DEF Connects, Sends, Receives, Ends, Lasting
  <2>4. \A d \in Clients : net[d].state = "reset" => net'[d].state = "reset"
    BY <1>t, <2>1, <2>3
  <2>5. \A f \in DOMAIN ready : fd2conn[f].client \in Clients
    BY <1>0, <1>t DEF Connection
  <2> QED
    BY <1>0, <2>2, <2>4, <2>5
<1> QED
  BY <1>1, <1>2, <1>3, <1>4, <1>5, <1>6, <1>7 DEF Next, LoopStep, Over

LEMMA RoundNext ==
    ASSUME Typed, Parts, [Next]_vars
    PROVE  RoundInv'
<1> USE DEF RoundInv
<1>0. RoundInv
  BY DEF Parts
<1>1. CASE Poll
  BY <1>1 DEF Poll
<1>2. CASE handle_accept
  <2>1. /\ running' = running /\ ready' = ready /\ running \in BOOLEAN
        /\ IF DOMAIN ready = {} THEN NextRound ELSE pc' = "clients"
    BY <1>2 DEF handle_accept, Typed
  <2> QED
    BY <2>1 DEF NextRound
<1>3. CASE HandleClient
  <2>1. /\ running' = running /\ running \in BOOLEAN /\ pc = "clients"
        /\ pc' = IF DOMAIN ready' = {} THEN (IF running THEN "poll" ELSE "shutdown") ELSE pc
    BY <1>3, TurnEffect DEF Typed
  <2> QED
    BY <2>1
<1>4. CASE Shutdown
  BY <1>0, <1>4 DEF Shutdown
<1>5. CASE stop
  BY <1>0, <1>5 DEF stop
<1>6. CASE UNCHANGED vars
  BY <1>0, <1>6 DEF vars
<1>7. ASSUME NEW c \in Clients, ClientStep(c) PROVE RoundInv'
  BY <1>0, <1>7, ClientEffect
<1> QED
  BY <1>1, <1>2, <1>3, <1>4, <1>5, <1>6, <1>7 DEF Next, LoopStep, Over

LEMMA RequestsNext ==
    ASSUME Typed, Parts, [Next]_vars
    PROVE  RequestsInv'
<1> USE DEF RequestsInv
<1>0. RequestsInv
  BY DEF Parts
<1>t. /\ fd2conn \in [Fds -> Connection \cup {NoConn}] /\ net \in [Clients -> Socket]
      /\ backlog \in Seq(Clients) /\ executed \in [Clients -> Nat] /\ sent \in [Clients -> Nat]
  BY DEF Typed, Part
<1>s. /\ \A f \in Fds : fd2conn[f] # NoConn => fd2conn[f] \in Connection /\ fd2conn[f].client \in Clients
      /\ \A i \in 1 .. Len(backlog) : backlog[i] \in Clients
  BY <1>t DEF Connection
<1>1. CASE Poll
  BY <1>0, <1>1 DEF Poll, clientVars, Fresh
<1>2. CASE handle_accept
  <2>1. UNCHANGED <<net, sent, received, executed>>
    BY <1>2, AcceptEffect
  <2>2. CASE UNCHANGED <<fd2conn, backlog>>
    BY <1>0, <2>1, <2>2 DEF Fresh
  <2>3. ASSUME NEW fd \in Fds, backlog # <<>>, backlog[1] \in Clients,
               fd2conn' = [fd2conn EXCEPT ![fd] = Accepted(backlog[1])],
               \A i \in 1 .. Len(backlog') : i + 1 \in 1 .. Len(backlog) /\ backlog'[i] = backlog[i + 1]
        PROVE  RequestsInv'
    <3> DEFINE a == backlog[1]
    <3>1. Fresh(a)
      <4>1. 1 \in 1 .. Len(backlog)
        BY <1>t, <2>3
      <4> QED
        BY <1>0, <4>1
    <3>2. Asks(Accepted(a), net[a].up, 2 * executed[a], sent[a]) /\ Accepted(a).client = a
      <4>1. executed[a] = 0 /\ Follows(net[a].up, 0, sent[a])
        BY <3>1 DEF Fresh
      <4>2. Accepted(a).incoming = <<>> /\ Len(<<>>) = 0 /\ 2 * 0 = 0 /\ 0 + 0 = 0
        BY DEF Accepted
      <4>3. GoesOn(<<>>, 0)
        BY DEF GoesOn
      <4> QED
        BY <4>1, <4>2, <4>3 DEF Asks, Accepted
    <3>3. \A g \in Fds : fd2conn'[g] = IF g = fd THEN Accepted(a) ELSE fd2conn[g]
      BY <1>t, <2>3
    <3> HIDE DEF a
    <3>4. \A f \in Fds : fd2conn'[f] # NoConn =>
             Asks(fd2conn'[f], net[fd2conn'[f].client].up, 2 * executed[fd2conn'[f].client], sent[fd2conn'[f].client])
      BY <1>0, <3>2, <3>3
    <3>5. \A i \in 1 .. Len(backlog') : Fresh(backlog'[i])
      BY <1>0, <2>3
    <3> QED
      BY <1>0, <2>1, <3>4, <3>5 DEF Fresh
  <2> QED
    BY <1>2, <2>2, <2>3, AcceptEffect
<1>3. CASE HandleClient
  <2>1. PICK fd \in DOMAIN ready, conn \in Connection, s \in Socket, closing \in BOOLEAN, n \in Nat :
           /\ Outcome(fd, conn, s, closing, n)
           /\ fd \in Fds /\ conn.client = fd2conn[fd].client
           /\ conn.client \in Clients /\ conn # NoConn
           /\ \A g \in Fds : g # fd => ~Serves(g, conn.client)
           /\ \A i \in 1 .. Len(backlog) : backlog[i] # conn.client
           /\ net[conn.client].state \notin {"none", "closed"}
    BY <1>3, TurnEffect
  <2> DEFINE c == conn.client
  <2>2. UNCHANGED <<backlog, sent, received>>
    BY <1>3, TurnEffect
  <2>3. \A g \in Fds : fd2conn'[g] = IF g = fd THEN (IF closing THEN NoConn ELSE conn) ELSE fd2conn[g]
    BY <1>t, <2>1 DEF Outcome, Leaves
  <2>4. /\ \A d \in Clients : d # c => net'[d] = net[d] /\ executed'[d] = executed[d]
        /\ net'[c] = (IF closing THEN ClosedSocket(s) ELSE s) /\ executed'[c] = executed[c] + n
    BY <1>t, <2>1 DEF Outcome, Leaves
  <2>5. ~closing => Asks(conn, net'[c].up, 2 * executed'[c], sent[c])
    BY <2>1, <2>4 DEF Outcome
  <2>6. \A g \in Fds : g # fd /\ fd2conn[g] # NoConn => fd2conn[g].client # c
    BY <2>1 DEF Serves
  <2>7. net'[c].state # "none"
    BY <2>1, <2>4, ClosedFields DEF Outcome
  <2>8. c \in Clients /\ \A i \in 1 .. Len(backlog) : backlog[i] # c
    BY <2>1
  <2> HIDE DEF c
  <2>9. \A f \in Fds : fd2conn'[f] # NoConn =>
           Asks(fd2conn'[f], net'[fd2conn'[f].client].up, 2 * executed'[fd2conn'[f].client], sent[fd2conn'[f].client])
    <3>1. ASSUME NEW f \in Fds, f # fd, fd2conn[f] # NoConn
          PROVE  Asks(fd2conn[f], net'[fd2conn[f].client].up, 2 * executed'[fd2conn[f].client], sent[fd2conn[f].client])
      BY <1>0, <1>s, <2>4, <2>6, <3>1
    <3> QED
      BY <2>3, <2>5, <3>1 DEF c
  <2>10. \A i \in 1 .. Len(backlog) : Fresh(backlog[i]) /\ UNCHANGED <<net[backlog[i]], executed[backlog[i]], received[backlog[i]], sent[backlog[i]]>>
    BY <1>0, <1>s, <2>2, <2>4, <2>8
  <2>11. \A d \in Clients : net'[d].state = "none" => d # c /\ Fresh(d) /\ sent[d] = 0
    BY <1>0, <2>4, <2>7
  <2> QED
    BY <2>2, <2>4, <2>9, <2>10, <2>11 DEF Fresh
<1>4. CASE Shutdown
  <2>1. \A f \in Fds : fd2conn'[f] = NoConn
    BY <1>4 DEF Shutdown
  <2>2. UNCHANGED <<backlog, sent, received, executed>>
    BY <1>4 DEF Shutdown, clientVars
  <2>3. \A c \in Clients : (net[c].state = "none" \/ ~Served(c)) => net'[c] = net[c]
    <3>1. \A c \in Clients : Served(c) => net[c].state # "none"
      BY DEF Parts, OwnerInv
    <3> QED
      BY <1>4, <3>1 DEF Shutdown, Served, Serves
  <2>4. \A c \in Clients : net'[c].state = "none" => net[c].state = "none"
    BY <1>4, <1>t, ClosedFields DEF Shutdown
  <2>5. \A i \in 1 .. Len(backlog) : net'[backlog[i]] = net[backlog[i]]
    BY <1>s, <2>3 DEF Parts, OwnerInv
  <2> QED
    BY <1>0, <2>1, <2>2, <2>3, <2>4, <2>5 DEF Fresh
<1>5. CASE stop
  <2>1. UNCHANGED <<fd2conn, sent, received, executed>> /\ backlog' = <<>> /\ Len(<<>>) = 0
    BY <1>5 DEF stop, clientVars
  <2>2. \A c \in Clients : net'[c].state = "none" => net[c].state = "none" /\ net'[c] = net[c]
    BY <1>5, <1>t, ClosedFields DEF stop
  <2>3. \A c \in Clients : Served(c) => net'[c] = net[c]
    BY <1>5 DEF stop, Contains, Parts, OwnerInv
  <2>4. \A f \in Fds : fd2conn[f] # NoConn => net'[fd2conn[f].client] = net[fd2conn[f].client]
    BY <1>s, <2>3 DEF Served, Serves
  <2> QED
    BY <1>0, <2>1, <2>2, <2>4 DEF Fresh
<1>6. CASE UNCHANGED vars
  BY <1>0, <1>6 DEF vars, Fresh
<1>7. ASSUME NEW c \in Clients, ClientStep(c) PROVE RequestsInv'
  <2>1. PICK s \in Socket :
           /\ net' = [net EXCEPT ![c] = s]
           /\ Connects(c, s) \/ Sends(c, s) \/ Receives(c, s) \/ Ends(c, s)
    BY <1>7, ClientEffect
  <2>2. UNCHANGED <<fd2conn, executed>>
    BY <1>7, ClientEffect
  <2>3. \A d \in Clients : d # c => /\ net'[d] = net[d] /\ sent'[d] = sent[d] /\ received'[d] = received[d]
    BY <1>t, <2>1 DEF Connects, Sends, Receives, Ends, Typed
  <2>4. net'[c] = s
    BY <1>t, <2>1
  <2>5. \A n \in Nat : Follows(net[c].up, n, sent[c]) => Follows(s.up, n, sent'[c])
    <3>1. ASSUME NEW n \in Nat, Follows(net[c].up, n, sent[c]), Sends(c, s) PROVE Follows(s.up, n, sent'[c])
      <4>1. net[c].up \in Seq(Part) /\ sent[c] \in Nat /\ ~Contains(net[c].up, Oversize) /\ 2 * Requests[c] \in Nat
        BY <1>t, <3>1, EventLoopAssumption DEF Socket, Sends
      <4>2. /\ Follows(Append(net[c].up, sent[c] + 1), n, sent[c] + 1)
            /\ \A m \in Nat : sent[c] < m /\ sent[c] % 2 = 0 => Follows(Append(net[c].up, Oversize), n, m)
        BY <3>1, <4>1, FollowsSend
      <4>3. sent[c] < 2 * Requests[c]
        BY <3>1 DEF Sends
      <4>4. \/ s.up = Append(net[c].up, sent[c] + 1) /\ sent'[c] = sent[c] + 1
            \/ sent[c] % 2 = 0 /\ s.up = Append(net[c].up, Oversize) /\ sent'[c] = 2 * Requests[c]
        BY <1>t, <3>1 DEF Sends
      <4> QED
        BY <4>1, <4>2, <4>3, <4>4
    <3>2. CASE Connects(c, s) \/ Receives(c, s) \/ Ends(c, s)
      BY <3>2 DEF Connects, Receives, Ends
    <3> QED
      BY <2>1, <3>1, <3>2
  <2>6. \A f \in Fds : fd2conn[f] # NoConn =>
           Asks(fd2conn[f], net'[fd2conn[f].client].up, 2 * executed[fd2conn[f].client], sent'[fd2conn[f].client])
    <3>1. ASSUME NEW f \in Fds, fd2conn[f] # NoConn, fd2conn[f].client = c
          PROVE  Asks(fd2conn[f], s.up, 2 * executed[c], sent'[c])
      <4>1. Asks(fd2conn[f], net[c].up, 2 * executed[c], sent[c])
        BY <1>0, <3>1
      <4>2. 2 * executed[c] + Len(fd2conn[f].incoming) \in Nat
        <5>1. Len(fd2conn[f].incoming) \in Nat /\ executed[c] \in Nat
          BY <1>s, <1>t, <3>1 DEF Connection
        <5> QED
          BY <5>1
      <4> QED
        BY <2>5, <4>1, <4>2 DEF Asks
    <3> QED
      BY <1>0, <1>s, <2>3, <2>4, <3>1
  <2>7. Fresh(c) => Fresh(c)'
    <3>1. SUFFICES ASSUME Fresh(c) PROVE Fresh(c)'
      OBVIOUS
    <3>2. net[c].down = <<>> /\ executed[c] = 0 /\ received[c] = <<>> /\ Follows(net[c].up, 0, sent[c])
      BY <3>1 DEF Fresh
    <3>3. s.down = <<>> /\ received'[c] = received[c]
      BY <2>1, <3>2 DEF Connects, Sends, Receives, Ends
    <3>4. Follows(s.up, 0, sent'[c])
      BY <2>5, <3>2
    <3> QED
      BY <2>2, <2>4, <3>2, <3>3, <3>4 DEF Fresh
  <2>8. \A d \in Clients : Fresh(d) => Fresh(d)'
    BY <2>2, <2>3, <2>7 DEF Fresh
  <2>9. \A i \in 1 .. Len(backlog') : backlog'[i] \in Clients /\ Fresh(backlog'[i])
    <3>1. CASE Connects(c, s)
      <4>1. net[c].state = "none" /\ backlog' = Append(backlog, c)
        BY <3>1 DEF Connects
      <4>2. Fresh(c)
        BY <1>0, <4>1
      <4>3. /\ Len(backlog') = Len(backlog) + 1 /\ backlog'[Len(backlog) + 1] = c /\ Len(backlog) \in Nat
            /\ \A i \in 1 .. Len(backlog) : backlog'[i] = backlog[i]
        BY <1>t, <4>1
      <4>4. \A i \in 1 .. Len(backlog') : i \in 1 .. Len(backlog) \/ i = Len(backlog) + 1
        BY <4>3
      <4> QED
        BY <1>0, <1>s, <4>2, <4>3, <4>4
    <3>2. CASE Sends(c, s) \/ Receives(c, s) \/ Ends(c, s)
      BY <1>0, <1>s, <3>2 DEF Sends, Receives, Ends
    <3> QED
      BY <2>1, <3>1, <3>2
  <2>10. s.state # "none"
    BY <2>1 DEF Connects, Sends, Receives, Ends
  <2>11. \A d \in Clients : net'[d].state = "none" => Fresh(d) /\ sent'[d] = 0
    BY <1>0, <2>3, <2>4, <2>10
  <2>12. \A i \in 1 .. Len(backlog') : Fresh(backlog[i])'
    BY <2>8, <2>9 DEF Fresh
  <2> QED
    BY <2>2, <2>6, <2>8, <2>11, <2>12
<1> QED
  BY <1>1, <1>2, <1>3, <1>4, <1>5, <1>6, <1>7 DEF Next, LoopStep, Over

\* Receiving a part: what has arrived and what is owed stay the same.
LEMMA GetsReceive ==
    ASSUME NEW r \in Seq(Part), NEW down \in Seq(Part), down # <<>>, NEW done \in Nat,
           GoesOn(r, 0), Gets(down, Len(r), done)
    PROVE  LET r1 == Append(r, Head(down))
               left == Tail(down)
           IN  /\ Len(r1) = Len(r) + 1 /\ GoesOn(r1, 0) /\ Gets(left, Len(r1), done)
               /\ \A conn : Owes(conn, down, Len(r), done) => Owes(conn, left, Len(r1), done)
<1> DEFINE r1 == Append(r, Head(down))
           left == Tail(down)
<1>1. PICK n \in Nat, k \in Nat : Len(r) = n /\ Len(down) = k + 1
  <2>1. Len(r) \in Nat /\ Len(down) \in Nat /\ Len(down) # 0
    OBVIOUS
  <2>2. Len(down) - 1 \in Nat /\ Len(down) = (Len(down) - 1) + 1
    BY <2>1
  <2> QED
    BY <2>1, <2>2
<1>2. /\ Len(left) = k /\ Head(down) = down[1] /\ \A i \in 1 .. k : left[i] = down[i + 1]
  BY <1>1
<1>3. /\ Len(r1) = n + 1 /\ r1[n + 1] = Head(down) /\ \A i \in 1 .. n : r1[i] = r[i]
  BY <1>1
<1>4. SocketSize \in Nat /\ k + 1 <= SocketSize /\ n + (k + 1) <= done /\ GoesOn(down, n)
  BY <1>1, EventLoopAssumption DEF Gets
<1> HIDE DEF r1, left
<1>5. GoesOn(r1, 0)
  <2>1. \A i \in 1 .. n : r1[i] = i
    BY <1>1, <1>3 DEF GoesOn
  <2>2. r1[n + 1] = n + 1
    BY <1>1, <1>2, <1>3, <1>4 DEF GoesOn
  <2>3. \A i \in 1 .. Len(r1) : i \in 1 .. n \/ i = n + 1
    BY <1>3
  <2> QED
    BY <2>1, <2>2, <2>3 DEF GoesOn
<1>6. GoesOn(left, n + 1)
  <2>1. ASSUME NEW i \in 1 .. k PROVE left[i] = n + 1 + i
    <3>1. i + 1 \in 1 .. Len(down)
      BY <1>1
    <3>2. down[i + 1] = n + (i + 1)
      BY <1>4, <3>1 DEF GoesOn
    <3> QED
      BY <1>2, <3>2
  <2> QED
    BY <1>2, <2>1 DEF GoesOn
<1>7. n + 1 + k = n + (k + 1)
  OBVIOUS
<1>8. Gets(left, n + 1, done)
  <2>1. k <= SocketSize
    BY <1>4
  <2> QED
    BY <1>2, <1>4, <1>6, <1>7, <2>1 DEF Gets
<1>9. ASSUME NEW conn, Owes(conn, down, n, done) PROVE Owes(conn, left, n + 1, done)
  BY <1>1, <1>2, <1>7, <1>9 DEF Owes
<1> QED
  BY <1>1, <1>3, <1>5, <1>8, <1>9 DEF r1, left

LEMMA ResponsesNext ==
    ASSUME Typed, Parts, [Next]_vars
    PROVE  ResponsesInv'
<1> USE DEF ResponsesInv
<1>0. ResponsesInv
  BY DEF Parts
<1>t. /\ fd2conn \in [Fds -> Connection \cup {NoConn}] /\ net \in [Clients -> Socket]
      /\ backlog \in Seq(Clients) /\ executed \in [Clients -> Nat] /\ sent \in [Clients -> Nat]
      /\ received \in [Clients -> Seq(Part)]
  BY DEF Typed, Part
<1>s. /\ \A f \in Fds : fd2conn[f] # NoConn => fd2conn[f] \in Connection /\ fd2conn[f].client \in Clients
      /\ \A i \in 1 .. Len(backlog) : backlog[i] \in Clients
  BY <1>t DEF Connection
<1>1. CASE Poll
  BY <1>0, <1>1 DEF Poll, clientVars
<1>2. CASE handle_accept
  <2>1. UNCHANGED <<net, sent, received, executed>>
    BY <1>2, AcceptEffect
  <2>2. CASE UNCHANGED <<fd2conn, backlog>>
    BY <1>0, <2>1, <2>2
  <2>3. ASSUME NEW fd \in Fds, backlog # <<>>, backlog[1] \in Clients,
               fd2conn' = [fd2conn EXCEPT ![fd] = Accepted(backlog[1])]
        PROVE  ResponsesInv'
    <3> DEFINE a == backlog[1]
    <3>1. executed[a] = 0 /\ received[a] = <<>> /\ net[a].down = <<>>
      <4>1. 1 \in 1 .. Len(backlog)
        BY <1>t, <2>3
      <4> QED
        BY <4>1 DEF Parts, RequestsInv, Fresh
    <3>2. Owes(Accepted(a), net[a].down, Len(received[a]), 2 * executed[a]) /\ Accepted(a).client = a
      <4>1. Accepted(a).outgoing = <<>> /\ Len(<<>>) = 0 /\ 2 * 0 = 0 /\ 0 + 0 = 0 /\ 0 + 0 + 0 = 0
        BY DEF Accepted
      <4>2. GoesOn(<<>>, 0)
        BY DEF GoesOn
      <4> QED
        BY <3>1, <4>1, <4>2 DEF Owes, Accepted
    <3>3. \A g \in Fds : fd2conn'[g] = IF g = fd THEN Accepted(a) ELSE fd2conn[g]
      BY <1>t, <2>3
    <3> HIDE DEF a
    <3> QED
      BY <1>0, <2>1, <3>2, <3>3
  <2> QED
    BY <1>2, <2>2, <2>3, AcceptEffect
<1>3. CASE HandleClient
  <2>1. PICK fd \in DOMAIN ready, conn \in Connection, s \in Socket, closing \in BOOLEAN, n \in Nat :
           /\ Outcome(fd, conn, s, closing, n)
           /\ fd \in Fds /\ conn.client = fd2conn[fd].client
           /\ conn.client \in Clients /\ conn # NoConn
           /\ \A g \in Fds : g # fd => ~Serves(g, conn.client)
    BY <1>3, TurnEffect
  <2> DEFINE c == conn.client
  <2>2. UNCHANGED <<sent, received>>
    BY <1>3, TurnEffect
  <2>3. \A g \in Fds : fd2conn'[g] = IF g = fd THEN (IF closing THEN NoConn ELSE conn) ELSE fd2conn[g]
    BY <1>t, <2>1 DEF Outcome, Leaves
  <2>4. /\ \A d \in Clients : d # c => net'[d] = net[d] /\ executed'[d] = executed[d]
        /\ net'[c] = (IF closing THEN ClosedSocket(s) ELSE s) /\ executed'[c] = executed[c] + n
    BY <1>t, <2>1 DEF Outcome, Leaves
  <2>5. 2 * executed'[c] <= sent[c] /\ Gets(s.down, Len(received[c]), 2 * executed'[c])
    BY <2>1, <2>4 DEF Outcome
  <2>6. net'[c].down = s.down
    BY <2>4, ClosedFields
  <2>7. ~closing /\ net'[c].state \in Lasting => Owes(conn, net'[c].down, Len(received[c]), 2 * executed'[c])
    BY <2>1, <2>4 DEF Outcome
  <2>8. \A g \in Fds : g # fd /\ fd2conn[g] # NoConn => fd2conn[g].client # c
    BY <2>1 DEF Serves
  <2>9. c \in Clients
    BY <2>1
  <2> HIDE DEF c
  <2>10. \A d \in Clients : /\ GoesOn(received[d], 0) /\ Gets(net'[d].down, Len(received[d]), 2 * executed'[d])
                            /\ 2 * executed'[d] <= sent[d] /\ sent[d] <= 2 * Requests[d]
    BY <1>0, <2>4, <2>5, <2>6
  <2>11. ASSUME NEW f \in Fds, fd2conn'[f] # NoConn, net'[fd2conn'[f].client].state \in Lasting
         PROVE  Owes(fd2conn'[f], net'[fd2conn'[f].client].down, Len(received[fd2conn'[f].client]),
                     2 * executed'[fd2conn'[f].client])
    <3>1. CASE f = fd
      BY <2>3, <2>7, <2>11, <3>1 DEF c
    <3>2. CASE f # fd
      BY <1>0, <1>s, <2>3, <2>4, <2>8, <2>11, <3>2
    <3> QED
      BY <3>1, <3>2
  <2> QED
    BY <2>2, <2>10, <2>11
<1>4. CASE Shutdown
  <2>1. \A f \in Fds : fd2conn'[f] = NoConn
    BY <1>4 DEF Shutdown
  <2>2. UNCHANGED <<sent, received, executed>>
    BY <1>4 DEF Shutdown, clientVars
  <2>3. \A c \in Clients : net'[c].down = net[c].down
    BY <1>4, <1>t, ClosedFields DEF Shutdown
  <2> QED
    BY <1>0, <2>1, <2>2, <2>3
<1>5. CASE stop
  <2>1. UNCHANGED <<fd2conn, sent, received, executed>>
    BY <1>5 DEF stop, clientVars
  <2>2. \A c \in Clients : net'[c].down = net[c].down
    BY <1>5, <1>t, ClosedFields DEF stop
  <2>3. \A c \in Clients : Served(c) => net'[c] = net[c]
    BY <1>5 DEF stop, Contains, Parts, OwnerInv
  <2>4. \A f \in Fds : fd2conn[f] # NoConn => net'[fd2conn[f].client] = net[fd2conn[f].client]
    BY <1>s, <2>3 DEF Served, Serves
  <2> QED
    BY <1>0, <2>1, <2>2, <2>4
<1>6. CASE UNCHANGED vars
  BY <1>0, <1>6 DEF vars
<1>7. ASSUME NEW c \in Clients, ClientStep(c) PROVE ResponsesInv'
  <2>1. PICK s \in Socket :
           /\ net' = [net EXCEPT ![c] = s]
           /\ Connects(c, s) \/ Sends(c, s) \/ Receives(c, s) \/ Ends(c, s)
    BY <1>7, ClientEffect
  <2>2. UNCHANGED <<fd2conn, executed>>
    BY <1>7, ClientEffect
  <2>3. \A d \in Clients : d # c => /\ net'[d] = net[d] /\ sent'[d] = sent[d] /\ received'[d] = received[d]
    BY <1>t, <2>1 DEF Connects, Sends, Receives, Ends, Typed
  <2>4. net'[c] = s
    BY <1>t, <2>1
  <2> DEFINE got == Len(received[c])
             done == 2 * executed[c]
  <2>5. /\ received[c] \in Seq(Part) /\ net[c].down \in Seq(Part) /\ got \in Nat /\ done \in Nat
        /\ sent[c] \in Nat /\ Requests[c] \in Nat /\ SocketSize \in Nat
        /\ GoesOn(received[c], 0) /\ Gets(net[c].down, got, done)
        /\ done <= sent[c] /\ sent[c] <= 2 * Requests[c]
    BY <1>0, <1>t, EventLoopAssumption DEF Socket
  <2> HIDE DEF done
  <2>6. done <= sent'[c] /\ sent'[c] <= 2 * Requests[c]
    <3>1. CASE Sends(c, s)
      <4>1. sent'[c] = sent[c] + 1 \/ sent'[c] = 2 * Requests[c]
        BY <1>t, <3>1 DEF Sends
      <4>2. sent[c] < 2 * Requests[c]
        BY <3>1 DEF Sends
      <4> QED
        BY <2>5, <4>1, <4>2
    <3>2. CASE Connects(c, s) \/ Receives(c, s) \/ Ends(c, s)
      BY <2>5, <3>2 DEF Connects, Receives, Ends
    <3> QED
      BY <2>1, <3>1, <3>2
  <2>7. /\ GoesOn(received'[c], 0) /\ Gets(s.down, Len(received'[c]), done)
        /\ \A conn : Owes(conn, net[c].down, got, done) /\ net[c].state \in Lasting /\ s.state \in Lasting
                        => Owes(conn, s.down, Len(received'[c]), done)
    <3>1. CASE Receives(c, s)
      <4>1. /\ net[c].down # <<>> /\ s.down = Tail(net[c].down)
            /\ received'[c] = Append(received[c], Head(net[c].down))
        BY <1>t, <3>1 DEF Receives
      <4> QED
        BY <2>5, <4>1, GetsReceive
    <3>2. CASE Connects(c, s) \/ Sends(c, s) \/ Ends(c, s)
      <4>1. received'[c] = received[c]
        BY <3>2 DEF Connects, Sends, Ends
      <4>2. s.down = net[c].down \/ (s.down = <<>> /\ s.state \notin Lasting)
        BY <3>2 DEF Connects, Sends, Ends, Lasting
      <4>3. Gets(<<>>, got, done)
        <5>1. PICK g \in Nat : got = g
          BY <2>5
        <5>2. g <= done
          <6>1. Len(net[c].down) \in Nat /\ g + Len(net[c].down) <= done
            BY <2>5, <5>1 DEF Gets
          <6> QED
            BY <2>5, <6>1
        <5>3. Len(<<>>) = 0 /\ g + 0 = g /\ 0 <= SocketSize
          BY <2>5
        <5> QED
          BY <5>1, <5>2, <5>3 DEF Gets, GoesOn
      <4> QED
        BY <2>5, <4>1, <4>2, <4>3
    <3> QED
      BY <2>1, <3>1, <3>2
  <2>8. \A f \in Fds : fd2conn[f] # NoConn /\ fd2conn[f].client = c /\ s.state \in Lasting
                          => Owes(fd2conn[f], s.down, Len(received'[c]), done)
    <3>1. ASSUME NEW f \in Fds, fd2conn[f] # NoConn, fd2conn[f].client = c, s.state \in Lasting
          PROVE  net[c].state \in Lasting
      <4>1. net[c].state \notin {"none", "closed"}
        BY <3>1 DEF Parts, OwnerInv, Served, Serves
      <4> QED
        BY <2>1, <3>1, <4>1 DEF Connects, Sends, Receives, Ends, Lasting
    <3> QED
      BY <1>0, <2>7, <3>1 DEF done
  <2>9. \A d \in Clients : /\ GoesOn(received'[d], 0) /\ Gets(net'[d].down, Len(received'[d]), 2 * executed[d])
                           /\ 2 * executed[d] <= sent'[d] /\ sent'[d] <= 2 * Requests[d]
    BY <1>0, <2>3, <2>4, <2>6, <2>7 DEF done
  <2>10. \A f \in Fds : fd2conn[f] # NoConn /\ net'[fd2conn[f].client].state \in Lasting
            => Owes(fd2conn[f], net'[fd2conn[f].client].down, Len(received'[fd2conn[f].client]), 2 * executed[fd2conn[f].client])
    BY <1>0, <1>s, <2>3, <2>4, <2>8 DEF done
  <2> QED
    BY <2>2, <2>9, <2>10
<1> QED
  BY <1>1, <1>2, <1>3, <1>4, <1>5, <1>6, <1>7 DEF Next, LoopStep, Over

-----------------------------------------------------------------------------
(* The theorems *)

LEMMA PartsInit ==
    ASSUME Init
    PROVE  Typed /\ Parts
<1>1. \A f \in Fds : fd2conn[f] = NoConn
  BY DEF Init
<1>2. \A c \in Clients : /\ net[c].state = "none" /\ net[c].up = <<>> /\ net[c].down = <<>>
                         /\ sent[c] = 0 /\ received[c] = <<>> /\ executed[c] = 0
  BY DEF Init
<1>3. DOMAIN ready = {} /\ backlog = <<>> /\ Len(<<>>) = 0 /\ 1 .. 0 = {} /\ pc = "poll"
  BY DEF Init
<1>4. Typed
  <2>1. net \in [Clients -> Socket]
    BY NoParts DEF Init, Socket
  <2>2. received \in [Clients -> Seq(Part)]
    BY NoParts DEF Init
  <2>3. backlog \in Seq(Clients)
    BY <1>3
  <2>4. ready \in [DOMAIN ready -> SUBSET {"in", "out", "err"}] /\ DOMAIN ready \subseteq Fds
    BY <1>3 DEF Init
  <2> QED
    BY <2>1, <2>2, <2>3, <2>4 DEF Init, Typed, Part
<1>5. ConnectionInv /\ OwnerInv /\ ReadyInv /\ RoundInv
  BY <1>1, <1>2, <1>3 DEF ConnectionInv, OwnerInv, Served, Serves, ReadyInv, RoundInv
<1>6. \A n \in Nat : GoesOn(<<>>, n)
  BY DEF GoesOn
<1>7. SocketSize \in Nat /\ \A c \in Clients : Requests[c] \in Nat
  BY EventLoopAssumption
<1>8. RequestsInv
  <2>1. Follows(<<>>, 0, 0)
    BY <1>3, <1>6 DEF Follows
  <2> QED
    BY <1>1, <1>2, <1>3, <2>1 DEF RequestsInv, Fresh
<1>9. ResponsesInv
  <2>1. 2 * 0 = 0 /\ 0 + 0 = 0 /\ 0 <= SocketSize /\ \A c \in Clients : 0 <= 2 * Requests[c]
    BY <1>7
  <2>2. Gets(<<>>, 0, 0)
    BY <1>3, <1>6, <2>1 DEF Gets
  <2> QED
    BY <1>1, <1>2, <1>3, <1>6, <2>1, <2>2 DEF ResponsesInv
<1> QED
  BY <1>4, <1>5, <1>8, <1>9 DEF Parts

\* The inductive invariant of the loop: which connection a descriptor has, what
\* the connection and its socket hold of its client's requests and responses,
\* and what poll reported and still holds (event_loop.cpp run, connection.h).
THEOREM LoopInvariant == Spec => [](Typed /\ Parts)
<1>1. Init => Typed /\ Parts
  BY PartsInit
<1>2. Typed /\ Parts /\ [Next]_vars => (Typed /\ Parts)'
  <2> SUFFICES ASSUME Typed, Parts, [Next]_vars PROVE Typed' /\ Parts'
    OBVIOUS
  <2>1. ConnectionInv' /\ OwnerInv' /\ ReadyInv' /\ RoundInv'
    BY ConnectionNext, OwnerNext, ReadyNext, RoundNext
  <2> QED
    BY <2>1, TypeNext, RequestsNext, ResponsesNext DEF Parts
<1> QED
  BY <1>1, <1>2, PTL DEF Spec

\* Everything has its type, and no more requests of a client are executed than it
\* sends: none is executed twice (event_loop.cpp:94-112).
THEOREM TypeCorrect == Spec => []TypeOK
<1>1. Typed /\ Parts => TypeOK
  <2> SUFFICES ASSUME Typed, Parts, NEW c \in Clients PROVE executed[c] <= Requests[c]
    BY DEF Typed, TypeOK
  <2>1. executed[c] \in Nat /\ sent[c] \in Nat /\ Requests[c] \in Nat
    BY EventLoopAssumption DEF Typed, Part
  <2>2. 2 * executed[c] <= sent[c] /\ sent[c] <= 2 * Requests[c]
    BY DEF Parts, ResponsesInv
  <2> QED
    BY <2>1, <2>2
<1> QED
  BY <1>1, LoopInvariant, PTL

\* Whatever happens between poll and the handling of a descriptor, the loop's and
\* handle_write's assertions hold (event_loop.cpp:92 and :121, connection.h:85).
THEOREM AssertionsHold == Spec => []AssertsHold
<1>1. Typed /\ Parts => AssertsHold
  <2> SUFFICES ASSUME Typed, Parts, NEW f \in DOMAIN ready
               PROVE  /\ fd2conn[f] # NoConn
                      /\ "in" \in ready[f] => fd2conn[f].want_read
                      /\ "out" \in ready[f] => fd2conn[f].want_write /\ fd2conn[f].outgoing # <<>>
    BY DEF AssertsHold
  <2>1. f \in Fds /\ Shape(fd2conn[f])
    BY DEF Typed, Parts, ReadyInv, ConnectionInv
  <2> QED
    BY <2>1 DEF Parts, ReadyInv, Shape
<1> QED
  BY <1>1, LoopInvariant, PTL

\* Parts that go on from the first one are the beginning of a stream.
LEMMA StreamPrefix ==
    ASSUME NEW s \in Seq(Part), NEW n \in Nat, GoesOn(s, 0), Len(s) <= n
    PROVE  IsPrefix(s, Stream(n)) /\ (Len(s) = n => s = Stream(n))
<1>1. Stream(n) \in Seq(Nat) /\ Len(Stream(n)) = n /\ \A i \in 1 .. n : Stream(n)[i] = i
  BY DEF Stream
<1>2. \A i \in 1 .. Len(s) : s[i] = Stream(n)[i]
  BY <1>1 DEF GoesOn
<1>3. SubSeq(s, 1, Len(s)) = SubSeq(Stream(n), 1, Len(s))
  BY <1>1, <1>2
<1>4. Len(s) = n => s = Stream(n)
  BY <1>1, <1>2
<1> QED
  BY <1>1, <1>3, <1>4 DEF IsPrefix

\* However requests are pipelined and however reads and writes cut them, a client
\* gets the responses to its own executed requests, each once and in order, and
\* while its connection lasts the connection has all the others (connection.h
\* handle_read, handle_write, enqueue_response).
THEOREM OwnResponsesInOrder == Spec => []ResponsesInOrder
<1>1. Typed /\ Parts => ResponsesInOrder
  <2> SUFFICES ASSUME Typed, Parts, NEW c \in Clients
               PROVE  LET arriving == received[c] \o net[c].down
                      IN  /\ IsPrefix(arriving, Stream(2 * executed[c]))
                          /\ 2 * executed[c] <= sent[c]
                          /\ Served(c) /\ net[c].state \in Lasting
                               => arriving \o ConnOf(c).outgoing = Stream(2 * executed[c])
    BY DEF ResponsesInOrder, Lasting
  <2> DEFINE r == received[c]
             down == net[c].down
             arriving == r \o down
             done == 2 * executed[c]
  <2>1. r \in Seq(Part) /\ down \in Seq(Part) /\ executed[c] \in Nat
    BY DEF Typed, Socket
  <2>2. done \in Nat
    BY <2>1
  <2>3. GoesOn(r, 0) /\ Gets(down, Len(r), done) /\ done <= sent[c]
    BY DEF Parts, ResponsesInv
  <2> HIDE DEF done
  <2>4. Split(arriving, r, down)
    BY <2>1, JoinSplit
  <2>5. arriving \in Seq(Part) /\ Len(arriving) = Len(r) + Len(down)
    BY <2>1, JoinSeq
  <2>6. GoesOn(arriving, 0) /\ Len(arriving) <= done
    <3>1. Len(r) \in Nat /\ Len(down) \in Nat
      BY <2>1
    <3> HIDE DEF r, down, arriving
    <3>2. GoesOn(down, Len(r)) /\ Len(r) + Len(down) <= done
      BY <2>3 DEF Gets
    <3>3. 0 + Len(r) = Len(r)
      BY <3>1
    <3>4. GoesOn(arriving, 0) <=> GoesOn(r, 0) /\ GoesOn(down, 0 + Len(r))
      BY <2>4, SplitGoesOn
    <3> QED
      BY <2>3, <2>5, <3>2, <3>3, <3>4
  <2> HIDE DEF arriving
  <2>7. IsPrefix(arriving, Stream(done))
    BY <2>2, <2>5, <2>6, StreamPrefix
  <2>8. ASSUME Served(c), net[c].state \in Lasting
        PROVE  arriving \o ConnOf(c).outgoing = Stream(done)
    <3>1. PICK f \in Fds : Serves(f, c)
      BY <2>8 DEF Served
    <3>2. \A g \in Fds : Serves(g, c) => g = f
      BY <3>1 DEF Parts, OwnerInv
    <3>3. (CHOOSE g \in Fds : Serves(g, c)) = f
      BY <3>1, <3>2
    <3> DEFINE conn == fd2conn[f]
    <3>4. ConnOf(c) = conn
      BY <3>3 DEF ConnOf
    <3>5. conn # NoConn /\ conn.client = c /\ conn \in Connection
      BY <3>1 DEF Serves, Typed
    <3>6. Owes(conn, down, Len(r), done)
      BY <2>8, <3>5 DEF Parts, ResponsesInv, done
    <3> HIDE DEF conn
    <3> DEFINE out == conn.outgoing
    <3>7. out \in Seq(Part)
      BY <3>5 DEF Connection
    <3>8. GoesOn(out, 0 + Len(arriving)) /\ Len(arriving) + Len(out) = done
      <4>1. 0 + Len(arriving) = Len(r) + Len(down)
        BY <2>5
      <4> QED
        BY <2>5, <3>6, <4>1 DEF Owes
    <3> HIDE DEF out
    <3>9. Split(arriving \o out, arriving, out) /\ arriving \o out \in Seq(Part)
          /\ Len(arriving \o out) = done
      BY <2>5, <3>7, <3>8, JoinSplit, JoinSeq
    <3>10. GoesOn(arriving \o out, 0)
      BY <2>6, <3>8, <3>9, SplitGoesOn
    <3>11. arriving \o out = Stream(done)
      <4> DEFINE all == arriving \o out
      <4>1. all \in Seq(Part) /\ Len(all) = done /\ GoesOn(all, 0)
        BY <3>9, <3>10
      <4> HIDE DEF all
      <4>2. all = Stream(done)
        BY <2>2, <4>1, StreamPrefix
      <4> QED
        BY <4>2 DEF all
    <3> QED
      BY <3>4, <3>11 DEF out
  <2> QED
    BY <2>3, <2>7, <2>8 DEF arriving, done
<1> QED
  BY <1>1, LoopInvariant, PTL

\* While the loop runs, the server closes a connection only after an oversize
\* header, or when its client has ended its stream and everything it asked is
\* answered: what was pipelined before the end is not cut off (event_loop.cpp:126).
THEOREM NoAnswerCutOff == Spec => AnswersBeforeClose
<1>1. ASSUME Typed, Parts, [Next]_vars, NEW c \in Clients,
             running', net[c].state # "closed", net'[c].state = "closed"
      PROVE  \/ Contains(net[c].up, Oversize)
             \/ /\ net[c].state = "half_closed"
                /\ Len(received[c] \o net[c].down) = 2 * (sent[c] \div 2)
  <2>t. net \in [Clients -> Socket] /\ received[c] \in Seq(Part) /\ net[c].down \in Seq(Part)
    BY <1>1 DEF Typed, Socket
  <2>1. CASE HandleClient
    <3>1. PICK fd \in DOMAIN ready, conn \in Connection, s \in Socket, closing \in BOOLEAN, n \in Nat :
             /\ Outcome(fd, conn, s, closing, n)
             /\ conn.client = fd2conn[fd].client
      BY <1>1, <2>1, TurnEffect
    <3>2. /\ \A d \in Clients : d # conn.client => net'[d] = net[d]
          /\ conn.client = c => net'[c] = (IF closing THEN ClosedSocket(s) ELSE s)
      BY <2>t, <3>1 DEF Outcome, Leaves
    <3>3. conn.client = c
      BY <1>1, <3>2
    <3>4. s.state = net[c].state \/ (net[c].state = "gone" /\ s.state = "reset")
      BY <3>1, <3>3 DEF Outcome
    <3>5. closing /\ s.state \notin {"gone", "reset"}
      BY <1>1, <3>2, <3>3, <3>4, ClosedFields
    <3>6. Contains(net[c].up, Oversize)
            \/ (net[c].state = "half_closed" /\ Len(received[c]) + Len(net[c].down) = 2 * (sent[c] \div 2))
      BY <3>1, <3>3, <3>5 DEF Outcome
    <3> QED
      BY <2>t, <3>6, JoinSeq
  <2>2. CASE Poll \/ handle_accept \/ UNCHANGED vars
    BY <1>1, <2>2, AcceptEffect DEF Poll, vars
  <2>3. CASE Shutdown
    BY <1>1, <2>3 DEF Shutdown, Parts, RoundInv
  <2>4. CASE stop
    BY <1>1, <2>4 DEF stop
  <2>5. ASSUME NEW d \in Clients, ClientStep(d) PROVE FALSE
    <3>1. PICK s \in Socket :
             /\ net' = [net EXCEPT ![d] = s]
             /\ Connects(d, s) \/ Sends(d, s) \/ Receives(d, s) \/ Ends(d, s)
      BY <1>1, <2>5, ClientEffect
    <3>2. s.state # "closed" \/ s.state = net[d].state
      BY <3>1 DEF Connects, Sends, Receives, Ends
    <3>3. net'[c] = IF c = d THEN s ELSE net[c]
      BY <2>t, <3>1
    <3> QED
      BY <1>1, <3>2, <3>3
  <2> QED
    BY <1>1, <2>1, <2>2, <2>3, <2>4, <2>5 DEF Next, LoopStep, Over
<1> DEFINE Cut == \A c \in Clients :
              (running' /\ net[c].state # "closed" /\ net'[c].state = "closed") =>
                  \/ Contains(net[c].up, Oversize)
                  \/ /\ net[c].state = "half_closed"
                     /\ Len(received[c] \o net[c].down) = 2 * (sent[c] \div 2)
<1>2. Typed /\ Parts /\ [Next]_vars => [Cut]_vars
  BY <1>1
<1> QED
  BY <1>2, LoopInvariant, PTL DEF Spec, AnswersBeforeClose

=============================================================================
