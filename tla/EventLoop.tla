------------------------------- MODULE EventLoop -------------------------------
(***************************************************************************)
(* One worker's event loop and its connections (server/event_loop.cpp,     *)
(* server/connection.h), between clients that pipeline requests and a      *)
(* kernel whose socket buffers are small.                                  *)
(*                                                                         *)
(* A client's stream is cut into numbered parts: request r is part 2r - 1  *)
(* (its length header) and part 2r (its body), so reads and writes can     *)
(* stop in the middle of one.  The response to a request carries the       *)
(* numbers of its parts.                                                   *)
(***************************************************************************)
EXTENDS Integers, Sequences, SequencesExt, FiniteSets

CONSTANTS Clients,
          Fds,         \* bound of the model: the file descriptors there are
          NoConn,      \* NULL in fd2conn
          Requests,    \* bound of the model: client -> requests it may send
          ReadSize,    \* parts that one read returns at most
          SocketSize   \* parts that a socket's buffer holds

ASSUME EventLoopAssumption ==
    /\ IsFiniteSet(Clients)
    /\ Fds \subseteq Nat
    /\ Requests \in [Clients -> Nat]
    /\ {ReadSize, SocketSize} \subseteq Nat \ {0}

VARIABLES pc,        \* of the event loop: poll, accept, clients, shutdown, stopped
          running,
          fd2conn,   \* fd -> Connection
          accepting, \* whether poll found the listening socket ready
          ready,     \* the rest of poll_args with events: fd -> revents
          backlog,   \* connections that wait for accept
          net,       \* client -> its connection in the kernel
          sent,      \* client -> parts it has sent
          received,  \* client -> parts it has received
          executed   \* client -> its requests that were executed

loopVars == <<pc, running, fd2conn, accepting, ready>>
clientVars == <<sent, received>>
vars == <<pc, running, fd2conn, accepting, ready, backlog, net, sent, received, executed>>

Oversize == 0  \* the header of a message longer than k_max_msg
Part == Nat

\* state: none, connected, half_closed (the client sends no more), gone (it has
\* closed its socket), reset, closed (by the server).
Socket == [state : {"none", "connected", "half_closed", "gone", "reset", "closed"},
           up : Seq(Part), down : Seq(Part)]

Connection == [client : Clients, want_read : BOOLEAN, want_write : BOOLEAN,
               want_close : BOOLEAN, incoming : Seq(Part), outgoing : Seq(Part)]

ASSUME NoConnAssumption == NoConn \notin Connection

Init ==
    /\ pc = "poll" /\ running = TRUE
    /\ fd2conn = [f \in Fds |-> NoConn]
    /\ accepting = FALSE /\ ready = <<>> /\ backlog = <<>>
    /\ net = [c \in Clients |-> [state |-> "none", up |-> <<>>, down |-> <<>>]]
    /\ sent = [c \in Clients |-> 0]
    /\ received = [c \in Clients |-> <<>>]
    /\ executed = [c \in Clients |-> 0]

-----------------------------------------------------------------------------
(* The clients and the kernel. *)

Connect(c) ==
    /\ net[c].state = "none" /\ running
    /\ net' = [net EXCEPT ![c].state = "connected"]
    /\ backlog' = Append(backlog, c)
    /\ UNCHANGED <<loopVars, clientVars, executed>>

Send(c, part) ==
    /\ net[c].state = "connected"
    /\ Len(net[c].up) < SocketSize
    /\ ~Contains(net[c].up, Oversize)
    /\ net' = [net EXCEPT ![c].up = Append(@, part)]
    /\ UNCHANGED <<loopVars, backlog, received, executed>>

SendPart(c) ==
    /\ sent[c] < 2 * Requests[c]
    /\ Send(c, sent[c] + 1)
    /\ sent' = [sent EXCEPT ![c] = @ + 1]

\* An oversize header, after which the client has nothing more to send.
SendOversize(c) ==
    /\ sent[c] % 2 = 0 /\ sent[c] < 2 * Requests[c]
    /\ Send(c, Oversize)
    /\ sent' = [sent EXCEPT ![c] = 2 * Requests[c]]

Receive(c) ==
    /\ net[c].state \notin {"none", "gone", "reset"}
    /\ net[c].down # <<>>
    /\ received' = [received EXCEPT ![c] = Append(@, Head(net[c].down))]
    /\ net' = [net EXCEPT ![c].down = Tail(@)]
    /\ UNCHANGED <<loopVars, backlog, sent, executed>>

HalfClose(c) ==
    /\ net[c].state = "connected"
    /\ net' = [net EXCEPT ![c].state = "half_closed"]
    /\ UNCHANGED <<loopVars, backlog, clientVars, executed>>

\* A client that closes with responses unread resets the connection.
Close(c) ==
    /\ net[c].state \in {"connected", "half_closed"}
    /\ net' = [net EXCEPT ![c].state = IF net[c].down = <<>> THEN "gone" ELSE "reset",
                          ![c].down = <<>>]
    /\ UNCHANGED <<loopVars, backlog, clientVars, executed>>

-----------------------------------------------------------------------------
(* The connection's handlers, as functions of the connection and its socket. *)

Readable(s) == s.up # <<>> \/ s.state \in {"half_closed", "gone", "reset"}
Writable(s) == Len(s.down) < SocketSize \/ s.state \in {"gone", "reset"}

\* A handler of one request per read.
try_first_request(conn) == IF Len(conn.incoming) < 2 THEN 0 ELSE 1

\* How many requests try_one_request finds, until it finds no complete one.  An
\* oversize header stands where a header does and is the last part of a stream,
\* so that it never counts.
try_requests(conn) == Len(conn.incoming) \div 2

\* Answering requests without taking them out of incoming.
enqueue_keeping_incoming(conn, n) ==
    IF n = 0 THEN conn
    ELSE [conn EXCEPT !.outgoing = @ \o SubSeq(conn.incoming, 1, 2 * n),
                      !.want_read = FALSE, !.want_write = TRUE]

\* Appending a response turns the connection from reading to writing.
enqueue_responses(conn, n) ==
    IF n = 0 THEN conn
    ELSE [conn EXCEPT !.outgoing = @ \o SubSeq(conn.incoming, 1, 2 * n),
                      !.incoming = SubSeq(@, 2 * n + 1, Len(@)),
                      !.want_read = FALSE, !.want_write = TRUE]

ReadLen(s) == IF Len(s.up) < ReadSize THEN Len(s.up) ELSE ReadSize

\* A read that takes the end of the stream for "nothing yet".
read_ignoring_eof(conn, s) ==
    IF s.up = <<>>
    THEN [conn EXCEPT !.want_close = s.state = "reset"]
    ELSE [conn EXCEPT !.incoming = @ \o SubSeq(s.up, 1, ReadLen(s))]

\* What read() appends to incoming: at the end of the stream, or after a reset,
\* the connection is to be closed; EAGAIN leaves it as it is.
read(conn, s) ==
    IF s.up = <<>>
    THEN [conn EXCEPT !.want_close = Readable(s)]
    ELSE [conn EXCEPT !.incoming = @ \o SubSeq(s.up, 1, ReadLen(s))]

handle_read(conn, s) ==
    LET filled == read(conn, s)
        answered == enqueue_responses(filled, try_requests(filled))
    IN  IF s.up = <<>> THEN filled
        ELSE [answered EXCEPT !.want_close = answered.incoming = <<Oversize>>]

WriteLen(conn, s) ==
    LET room == SocketSize - Len(s.down)
    IN  IF s.state = "gone" \/ Len(conn.outgoing) <= room THEN Len(conn.outgoing) ELSE room

\* A write that takes everything for written.
write_dropping_rest(conn, s) ==
    IF s.state = "reset" THEN [conn EXCEPT !.want_close = TRUE]
    ELSE IF WriteLen(conn, s) = 0 THEN conn
    ELSE [conn EXCEPT !.outgoing = <<>>, !.want_read = TRUE, !.want_write = FALSE]

\* A write that goes on wanting to write when everything is written.
write_for_ever(conn, s) ==
    IF s.state = "reset" THEN [conn EXCEPT !.want_close = TRUE]
    ELSE LET rest == SubSeq(conn.outgoing, WriteLen(conn, s) + 1, Len(conn.outgoing))
         IN  [conn EXCEPT !.outgoing = rest, !.want_read = rest = <<>>]

\* What is written leaves outgoing; when all is, the connection reads again.
handle_write(conn, s) ==
    IF s.state = "reset" THEN [conn EXCEPT !.want_close = TRUE]
    ELSE LET rest == SubSeq(conn.outgoing, WriteLen(conn, s) + 1, Len(conn.outgoing))
         IN  [conn EXCEPT !.outgoing = rest,
                          !.want_read = IF rest = <<>> THEN TRUE ELSE @,
                          !.want_write = IF rest = <<>> THEN FALSE ELSE @]

-----------------------------------------------------------------------------
(* The event loop. *)

revents(conn) ==
    LET s == net[conn.client]
    IN  {e \in {"in", "out", "err"} :
            \/ e = "in" /\ conn.want_read /\ Readable(s)
            \/ e = "out" /\ conn.want_write /\ Writable(s)
            \/ e = "err" /\ s.state = "reset"}

\* The descriptors of connections with an event.
ReadyFds == {f \in Fds : fd2conn[f] # NoConn /\ revents(fd2conn[f]) # {}}

\* The test of the loop's condition, made together with the last step of a round.
NextRound == pc' = IF running THEN "poll" ELSE "shutdown"

\* poll returns when there is an event, or when the listening socket was shut
\* down in the meantime; a round in which it timed out or was interrupted
\* changes nothing.
Poll ==
    /\ pc = "poll"
    /\ backlog # <<>> \/ ReadyFds # {} \/ ~running
    /\ accepting' = (backlog # <<>>)
    /\ ready' = [f \in ReadyFds |-> revents(fd2conn[f])]
    /\ pc' = "accept"
    /\ UNCHANGED <<running, fd2conn, backlog, net, clientVars, executed>>

FreeFds == {f \in Fds : fd2conn[f] = NoConn}

\* accept takes the lowest free descriptor; without one it fails, and the client
\* stays in the backlog.
handle_accept ==
    /\ pc = "accept"
    /\ IF accepting /\ backlog # <<>> /\ FreeFds # {}
       THEN /\ fd2conn' = [fd2conn EXCEPT ![Min(FreeFds)] =
                    [client |-> Head(backlog), want_read |-> TRUE, want_write |-> FALSE,
                     want_close |-> FALSE, incoming |-> <<>>, outgoing |-> <<>>]]
            /\ backlog' = Tail(backlog)
       ELSE UNCHANGED <<fd2conn, backlog>>
    /\ accepting' = FALSE
    /\ IF DOMAIN ready = {} THEN NextRound ELSE pc' = "clients"
    /\ UNCHANGED <<running, ready, net, clientVars, executed>>

\* What the write of conn's outgoing data does to the socket: a client that is
\* gone answers it with a reset.
Written(conn, s) ==
    IF s.state = "gone" THEN [s EXCEPT !.state = "reset"]
    ELSE IF s.state = "reset" THEN s
    ELSE [s EXCEPT !.down = @ \o SubSeq(conn.outgoing, 1, WriteLen(conn, s))]

ClosedSocket(s) == IF s.state \in {"gone", "reset"} THEN [s EXCEPT !.up = <<>>]
                   ELSE [s EXCEPT !.state = "closed", !.up = <<>>]

\* One descriptor with events, in the order of fd2conn: read and execute, or
\* write, and close.
HandleClient ==
    /\ pc = "clients"
    /\ LET fd == Min(DOMAIN ready)
           events == ready[fd]
           conn == fd2conn[fd]
           c == conn.client
           s == net[c]
           conn1 == IF "in" \in events THEN handle_read(conn, s) ELSE conn
           s1 == IF "in" \in events THEN [s EXCEPT !.up = SubSeq(@, ReadLen(s) + 1, Len(@))] ELSE s
           writing == ~conn1.want_close /\ "out" \in events
           conn2 == IF writing THEN handle_write(conn1, s1) ELSE conn1
           s2 == IF writing THEN Written(conn1, s1) ELSE s1
           closing == "err" \in events \/ conn2.want_close
       IN  /\ executed' = [executed EXCEPT ![c] = @ +
                             (Len(conn1.outgoing) - Len(conn.outgoing)) \div 2]
           /\ fd2conn' = [fd2conn EXCEPT ![fd] = IF closing THEN NoConn ELSE conn2]
           /\ net' = [net EXCEPT ![c] = IF closing THEN ClosedSocket(s2) ELSE s2]
           /\ ready' = Restrict(ready, DOMAIN ready \ {fd})
    /\ IF DOMAIN ready' = {} THEN NextRound ELSE UNCHANGED pc
    /\ UNCHANGED <<running, accepting, backlog, clientVars>>

\* stop() clears the flag and shuts the listening socket down, with the
\* connections in its backlog.
stop ==
    /\ running
    /\ running' = FALSE
    /\ backlog' = <<>>
    /\ net' = [c \in Clients |-> IF Contains(backlog, c) THEN ClosedSocket(net[c]) ELSE net[c]]
    /\ UNCHANGED <<pc, fd2conn, accepting, ready, clientVars, executed>>

\* The loop ends, and all connections are closed, written out or not.
Shutdown ==
    /\ pc = "shutdown"
    /\ net' = [c \in Clients |-> IF \E f \in Fds : fd2conn[f] # NoConn /\ fd2conn[f].client = c
                                 THEN ClosedSocket(net[c]) ELSE net[c]]
    /\ fd2conn' = [f \in Fds |-> NoConn]
    /\ pc' = "stopped"
    /\ UNCHANGED <<running, accepting, ready, backlog, clientVars, executed>>

-----------------------------------------------------------------------------
LoopStep == Poll \/ handle_accept \/ HandleClient \/ Shutdown
ClientStep(c) ==
    \/ Connect(c) \/ SendPart(c) \/ SendOversize(c) \/ Receive(c) \/ HalfClose(c) \/ Close(c)

Over == pc = "stopped" /\ UNCHANGED vars

Next == LoopStep \/ stop \/ Over \/ \E c \in Clients : ClientStep(c)

Spec == Init /\ [][Next]_vars

\* The worker's thread runs, and clients read what has arrived; they need not
\* send, close or connect.
FairSpec == Spec /\ WF_vars(LoopStep) /\ \A c \in Clients : WF_vars(Receive(c))

-----------------------------------------------------------------------------
(* Properties *)

TypeOK ==
    /\ pc \in {"poll", "accept", "clients", "shutdown", "stopped"}
    /\ running \in BOOLEAN /\ accepting \in BOOLEAN
    /\ fd2conn \in [Fds -> Connection \cup {NoConn}]
    /\ DOMAIN ready \subseteq Fds /\ ready \in [DOMAIN ready -> SUBSET {"in", "out", "err"}]
    /\ backlog \in Seq(Clients)
    /\ net \in [Clients -> Socket]
    /\ sent \in [Clients -> Part] /\ received \in [Clients -> Seq(Part)]
    /\ executed \in [Clients -> Nat] /\ \A c \in Clients : executed[c] <= Requests[c]

Serves(f, c) == fd2conn[f] # NoConn /\ fd2conn[f].client = c
Served(c) == \E f \in Fds : Serves(f, c)
ConnOf(c) == fd2conn[CHOOSE f \in Fds : Serves(f, c)]
Stream(n) == [i \in 1 .. n |-> i]

\* Whatever happens between poll and the handling of a descriptor, it still has
\* its connection, and the assertions of the loop and of handle_write hold
\* (event_loop.cpp:92 and :121, connection.h:85).
AssertsHold ==
    \A f \in DOMAIN ready :
        LET conn == fd2conn[f]
        IN  /\ conn # NoConn
            /\ "in" \in ready[f] => conn.want_read
            /\ "out" \in ready[f] => conn.want_write /\ conn.outgoing # <<>>

\* However requests are pipelined and cut by reads and writes, a client gets the
\* responses to its own executed requests, each once and in order; while its
\* connection lasts none is missing (connection.h handle_read, handle_write).
ResponsesInOrder ==
    \A c \in Clients :
        LET arriving == received[c] \o net[c].down
        IN  /\ IsPrefix(arriving, Stream(2 * executed[c]))
            /\ 2 * executed[c] <= sent[c]
            /\ Served(c) /\ net[c].state \in {"connected", "half_closed"}
                 => arriving \o ConnOf(c).outgoing = Stream(2 * executed[c])

\* While the loop runs, the server closes a connection only after an oversize
\* header, or when the client sends no more and everything it asked is answered
\* (event_loop.cpp:126).
AnswersBeforeClose ==
    [][\A c \in Clients :
          (running' /\ net[c].state # "closed" /\ net'[c].state = "closed") =>
              \/ Contains(net[c].up, Oversize)
              \/ /\ net[c].state = "half_closed"
                 /\ Len(received[c] \o net[c].down) = 2 * (sent[c] \div 2)]_vars

\* Again and again every complete request of a connection that lasts has been
\* answered: none waits in incoming for data that need not come, and no response
\* waits in outgoing (event_loop.cpp run).
Answered ==
    []<>(\A c \in Clients :
            \/ ~running \/ ~Served(c) \/ net[c].state \in {"gone", "reset"}
            \/ Len(received[c]) >= 2 * (sent[c] \div 2))

\* Again and again every connection whose client has stopped sending or is gone
\* has given its descriptor back (event_loop.cpp:126-130).
ConnectionsEnd ==
    []<>(\A c \in Clients :
            net[c].state \in {"half_closed", "gone", "reset"} => ~Served(c))
=============================================================================
