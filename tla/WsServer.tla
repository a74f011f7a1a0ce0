------------------------------ MODULE WsServer ------------------------------
(***************************************************************************)
(* The WebSocket server: WsServer (the session table, the topic table,     *)
(* start and stop) and one WsSession per connection (read loop and write   *)
(* queue), with the handler the application installs for client messages.  *)
(*                                                                         *)
(* Handlers of one session run on its strand, one at a time; the strands   *)
(* run in parallel on the io threads.  Broadcast, BroadcastToTopic and     *)
(* Send are called from any thread and lock m_sessionsMutex; the write     *)
(* queue has its own mutex.  One action is one critical section, together  *)
(* with the thread-local work around it.                                   *)
(***************************************************************************)
EXTENDS Naturals, Sequences, FiniteSets

CONSTANTS
  Conn,      \* connection ids; m_nextId never hands one out twice
  Topic,     \* topic names, none of them empty
  MaxMsg,    \* bound: messages queued in one behaviour
  SockCap    \* frames the kernel's send buffer of a socket holds

ASSUME WsAssumption == /\ MaxMsg \in Nat
                       /\ SockCap \in Nat \ {0}

VARIABLES
  server,     \* progress of Start and Stop; m_running is server = "running"
  phase,      \* phase[c]: how far the session of c has come
  sessions,   \* keys of m_sessions
  topics,     \* m_topics, an absent topic being mapped to {}
  writeQueue, \* m_writeQueue
  writing,    \* m_writing
  posted,     \* DoWrite handlers posted to the strand and not yet run
  chained,    \* OnWrite has seen a non-empty queue and is about to call DoWrite
  deferred,   \* async_writes started and waiting for room in the send buffer
  completed,  \* async_writes done, their OnWrite handler not yet run
  failed,     \* OnWrite was given an error
  sockLoad,   \* frames in the kernel's send buffer, unread by the client
  wire,       \* frames handed to the kernel, oldest first (history)
  garbled,    \* frames whose bytes were read after DoWrite's buffer died
  alive,      \* the TCP connection and the stream on it are usable
  arrived,    \* the client message the read loop is about to be given
  closePosted,\* sessions with a Close handler posted and not yet run
  nextMsg     \* messages queued so far

srvVars   == <<server, closePosted>>
tableVars == <<phase, sessions, topics>>
queueVars == <<writeQueue, writing, posted>>
chainVars == <<chained, deferred, completed, failed>>
sockVars  == <<sockLoad, wire, garbled, alive>>
vars == <<srvVars, tableVars, queueVars, chainVars, sockVars, arrived, nextMsg>>

Msg == 1..MaxMsg
None == [type |-> "none"]
ClientMessage == [type : {"subscribe", "unsubscribe"}, topic : Topic]
                   \cup [type : {"ping"}, reply : Msg] \cup {[type |-> "other"]}

\* Type invariant of the two tables, the per-session write path and the sockets:
\* in particular the send buffer of a socket never holds more than SockCap frames.
TypeOK ==
  /\ server \in {"created", "running", "closing", "halting", "stopped"}
  /\ phase \in [Conn -> {"new", "accepting", "reading", "done"}]
  /\ sessions \subseteq Conn
  /\ topics \in [Topic -> SUBSET Conn]
  /\ writeQueue \in [Conn -> Seq(Msg)]
  /\ writing \in [Conn -> BOOLEAN]
  /\ posted \in [Conn -> Nat]
  /\ chained \in [Conn -> BOOLEAN]
  /\ deferred \in [Conn -> Seq(Msg)]
  /\ completed \in [Conn -> Nat]
  /\ failed \in [Conn -> BOOLEAN]
  /\ sockLoad \in [Conn -> 0..SockCap]
  /\ wire \in [Conn -> Seq(Msg)]
  /\ garbled \in [Conn -> SUBSET Msg]
  /\ alive \in [Conn -> BOOLEAN]
  /\ arrived \in [Conn -> ClientMessage \cup {None}]
  /\ closePosted \subseteq Conn
  /\ nextMsg \in 0..MaxMsg

Init ==
  /\ server = "created"
  /\ phase = [c \in Conn |-> "new"]
  /\ sessions = {}
  /\ topics = [t \in Topic |-> {}]
  /\ writeQueue = [c \in Conn |-> <<>>]
  /\ writing = [c \in Conn |-> FALSE]
  /\ posted = [c \in Conn |-> 0]
  /\ chained = [c \in Conn |-> FALSE]
  /\ deferred = [c \in Conn |-> <<>>]
  /\ completed = [c \in Conn |-> 0]
  /\ failed = [c \in Conn |-> FALSE]
  /\ sockLoad = [c \in Conn |-> 0]
  /\ wire = [c \in Conn |-> <<>>]
  /\ garbled = [c \in Conn |-> {}]
  /\ alive = [c \in Conn |-> FALSE]
  /\ arrived = [c \in Conn |-> None]
  /\ closePosted = {}
  /\ nextMsg = 0

----------------------------------------------------------------------------
\* WsServer::Start.  A failing open, bind or listen leaves no trace.
Start ==
  /\ server = "created"
  /\ server' = "running"
  /\ UNCHANGED <<closePosted, tableVars, queueVars, chainVars, sockVars, arrived, nextMsg>>

\* A handler of c can be run: the io_context has not been stopped and the
\* strand of c is not in the middle of OnWrite.
StrandReady(c) == server \notin {"created", "stopped"} /\ ~chained[c]

----------------------------------------------------------------------------
(* The write queue of WsSession *)

\* Mutant of SendEach: DoWrite is posted whether or not one is under way.
SendEachUnguarded(S, m) ==
  /\ writeQueue' = [c \in Conn |-> IF c \in S THEN Append(writeQueue[c], m) ELSE writeQueue[c]]
  /\ posted' = [c \in Conn |-> IF c \in S THEN posted[c] + 1 ELSE posted[c]]
  /\ writing' = [c \in Conn |-> writing[c] \/ c \in S]

\* WsSession::Send on every session of S; one lock of m_writeMutex each, all
\* of them under m_sessionsMutex.  DoWrite is posted only if none is under way.
SendEach(S, m) ==
  /\ writeQueue' = [c \in Conn |-> IF c \in S THEN Append(writeQueue[c], m) ELSE writeQueue[c]]
  /\ posted' = [c \in Conn |-> IF c \in S /\ ~writing[c] THEN posted[c] + 1 ELSE posted[c]]
  /\ writing' = [c \in Conn |-> writing[c] \/ c \in S]

\* Mutant of StartWrite: a full send buffer is not waited for.
StartWriteNoWait(c) ==
  LET m == Head(writeQueue[c]) IN
  /\ writeQueue' = [writeQueue EXCEPT ![c] = Tail(@)]
  /\ wire' = [wire EXCEPT ![c] = Append(@, m)]
  /\ sockLoad' = [sockLoad EXCEPT ![c] = @ + 1]
  /\ completed' = [completed EXCEPT ![c] = @ + 1]
  /\ UNCHANGED <<deferred, writing, garbled, alive, failed>>

\* Mutant of StartWrite: the newest message is popped.
StartWriteNewest(c) ==
  LET n == Len(writeQueue[c])
      m == writeQueue[c][n] IN
  /\ writeQueue' = [writeQueue EXCEPT ![c] = SubSeq(@, 1, n - 1)]
  /\ IF alive[c] /\ sockLoad[c] < SockCap
       THEN /\ wire' = [wire EXCEPT ![c] = Append(@, m)]
            /\ sockLoad' = [sockLoad EXCEPT ![c] = @ + 1]
            /\ completed' = [completed EXCEPT ![c] = @ + 1]
            /\ UNCHANGED deferred
       ELSE /\ deferred' = [deferred EXCEPT ![c] = Append(@, m)]
            /\ UNCHANGED <<wire, sockLoad, completed>>
  /\ UNCHANGED <<writing, garbled, alive, failed>>

\* The rest of DoWrite: pop the front and start async_write on a buffer that
\* lives in DoWrite's frame.  The kernel takes the bytes at once if it has
\* room; otherwise they are read again when the socket becomes writable.
StartWrite(c) ==
  LET m == Head(writeQueue[c]) IN
  /\ writeQueue' = [writeQueue EXCEPT ![c] = Tail(@)]
  /\ IF alive[c] /\ sockLoad[c] < SockCap
       THEN /\ wire' = [wire EXCEPT ![c] = Append(@, m)]
            /\ sockLoad' = [sockLoad EXCEPT ![c] = @ + 1]
            /\ completed' = [completed EXCEPT ![c] = @ + 1]
            /\ UNCHANGED deferred
       ELSE /\ deferred' = [deferred EXCEPT ![c] = Append(@, m)]
            /\ UNCHANGED <<wire, sockLoad, completed>>
  /\ UNCHANGED <<writing, garbled, alive, failed>>

\* WsSession::DoWrite, run as a posted handler or called by OnWrite.
DoWrite(c) ==
  /\ server \notin {"created", "stopped"}
  /\ \/ /\ ~chained[c] /\ posted[c] > 0
        /\ posted' = [posted EXCEPT ![c] = @ - 1]
        /\ UNCHANGED chained
     \/ /\ chained[c]
        /\ chained' = [chained EXCEPT ![c] = FALSE]
        /\ UNCHANGED posted
  /\ IF writeQueue[c] = <<>>
       THEN /\ writing' = [writing EXCEPT ![c] = FALSE]
            /\ UNCHANGED <<writeQueue, deferred, completed, failed, sockVars>>
       ELSE StartWrite(c)
  /\ UNCHANGED <<srvVars, tableVars, arrived, nextMsg>>

\* The socket becomes writable: a deferred write reads its buffer now.
SocketWritable(c) ==
  /\ server \notin {"created", "stopped"}
  /\ alive[c] /\ deferred[c] # <<>> /\ sockLoad[c] < SockCap
  /\ deferred' = [deferred EXCEPT ![c] = Tail(@)]
  /\ wire' = [wire EXCEPT ![c] = Append(@, Head(deferred[c]))]
  /\ garbled' = [garbled EXCEPT ![c] = @ \cup {Head(deferred[c])}]
  /\ sockLoad' = [sockLoad EXCEPT ![c] = @ + 1]
  /\ completed' = [completed EXCEPT ![c] = @ + 1]
  /\ UNCHANGED <<srvVars, tableVars, queueVars, chained, failed, alive, arrived, nextMsg>>

\* Mutant of OnWrite: m_writing is reset without a look at the queue.
OnWriteNoChain(c) ==
  /\ StrandReady(c)
  /\ completed[c] > 0
  /\ completed' = [completed EXCEPT ![c] = @ - 1]
  /\ writing' = [writing EXCEPT ![c] = FALSE]
  /\ UNCHANGED <<srvVars, tableVars, writeQueue, posted, chained, deferred, failed, sockVars, arrived, nextMsg>>

\* Mutant of OnWrite: m_writing is not reset when the queue is empty.
OnWriteNoReset(c) ==
  /\ StrandReady(c)
  /\ completed[c] > 0
  /\ completed' = [completed EXCEPT ![c] = @ - 1]
  /\ chained' = [chained EXCEPT ![c] = writeQueue[c] # <<>>]
  /\ UNCHANGED <<srvVars, tableVars, queueVars, deferred, failed, sockVars, arrived, nextMsg>>

\* WsSession::OnWrite without an error, up to its call of DoWrite.
OnWrite(c) ==
  /\ StrandReady(c)
  /\ completed[c] > 0
  /\ completed' = [completed EXCEPT ![c] = @ - 1]
  /\ IF writeQueue[c] = <<>>
       THEN writing' = [writing EXCEPT ![c] = FALSE] /\ UNCHANGED chained
       ELSE chained' = [chained EXCEPT ![c] = TRUE] /\ UNCHANGED writing
  /\ UNCHANGED <<srvVars, tableVars, writeQueue, posted, deferred, failed, sockVars, arrived, nextMsg>>

\* Mutant of OnSessionDisconnected: the topic table is left as it is.
OnSessionDisconnectedKeepTopics(c) ==
  /\ sessions' = sessions \ {c}
  /\ UNCHANGED topics

\* WsServer::OnSessionDisconnected, called by the read and the write path.
OnSessionDisconnected(c) ==
  /\ sessions' = sessions \ {c}
  /\ topics' = [t \in Topic |-> topics[t] \ {c}]

\* WsSession::OnWrite with an error: m_writing stays set for good.
OnWriteError(c) ==
  /\ StrandReady(c)
  /\ ~alive[c] /\ deferred[c] # <<>>
  /\ deferred' = [deferred EXCEPT ![c] = Tail(@)]
  /\ failed' = [failed EXCEPT ![c] = TRUE]
  /\ OnSessionDisconnected(c)
  /\ UNCHANGED <<srvVars, phase, queueVars, chained, completed, sockVars, arrived, nextMsg>>

----------------------------------------------------------------------------
(* Accepting and reading *)

\* The accept handler: a new session with a fresh id, whose DoAccept is
\* dispatched to its strand.  The handshake is then in progress.
AcceptLoop(c) ==
  /\ server = "running"
  /\ phase[c] = "new"
  /\ phase' = [phase EXCEPT ![c] = "accepting"]
  /\ alive' = [alive EXCEPT ![c] = TRUE]
  /\ UNCHANGED <<srvVars, sessions, topics, queueVars, chainVars, sockLoad, wire, garbled, arrived, nextMsg>>

\* WsSession::OnAccept; without an error it enters the session table
\* (OnSessionConnected) and starts the read loop.
OnAccept(c) ==
  /\ StrandReady(c)
  /\ phase[c] = "accepting"
  /\ \/ /\ alive[c]
        /\ sessions' = sessions \cup {c}
        /\ phase' = [phase EXCEPT ![c] = "reading"]
     \/ /\ ~alive[c]
        /\ phase' = [phase EXCEPT ![c] = "done"]
        /\ UNCHANGED sessions
  /\ UNCHANGED <<srvVars, topics, queueVars, chainVars, sockVars, arrived, nextMsg>>

\* WsServer::Subscribe does not ask whether id is in the session table.
Subscribe(id, topic) == topics' = [topics EXCEPT ![topic] = @ \cup {id}]
Unsubscribe(id, topic) == topics' = [topics EXCEPT ![topic] = @ \ {id}]

\* WsSession::OnRead without an error: OnSessionMessage calls the handler that
\* WireWebSocketHandlers installed, and the read loop goes on.  A message that
\* is malformed, binary or of another type is ignored.
OnReadMessage(c) ==
  LET msg == arrived[c] IN
  /\ StrandReady(c)
  /\ phase[c] = "reading" /\ msg # None
  /\ arrived' = [arrived EXCEPT ![c] = None]
  /\ \/ msg.type = "subscribe" /\ Subscribe(c, msg.topic) /\ UNCHANGED queueVars
     \/ msg.type = "unsubscribe" /\ Unsubscribe(c, msg.topic) /\ UNCHANGED queueVars
     \/ msg.type = "ping" /\ SendEach(sessions \cap {c}, msg.reply) /\ UNCHANGED topics
     \/ msg.type = "other" /\ UNCHANGED <<topics, queueVars>>
  /\ UNCHANGED <<srvVars, phase, sessions, chainVars, sockVars, nextMsg>>

\* Mutant of OnReadError: the server is not told.
OnReadErrorSilent(c) ==
  /\ StrandReady(c)
  /\ phase[c] = "reading" /\ ~alive[c]
  /\ phase' = [phase EXCEPT ![c] = "done"]
  /\ arrived' = [arrived EXCEPT ![c] = None]
  /\ UNCHANGED <<srvVars, sessions, topics, queueVars, chainVars, sockVars, nextMsg>>

\* WsSession::OnRead with an error (closed, reset, idle timeout): the read
\* loop ends.  Nothing that had arrived unread is read any more.
OnReadError(c) ==
  /\ StrandReady(c)
  /\ phase[c] = "reading" /\ ~alive[c]
  /\ phase' = [phase EXCEPT ![c] = "done"]
  /\ arrived' = [arrived EXCEPT ![c] = None]
  /\ OnSessionDisconnected(c)
  /\ UNCHANGED <<srvVars, queueVars, chainVars, sockVars, nextMsg>>

----------------------------------------------------------------------------
(* The public API, called from any thread *)

\* WsServer::Send, to a connection that may be gone.
Send(id, m) == SendEach(sessions \cap {id}, m)

Broadcast(m) == SendEach(sessions, m)

\* Mutant of BroadcastToTopic: the session of an id is not looked up.
BroadcastToTopicUnchecked(topic, m) == SendEach(topics[topic], m)

\* Ids of the topic that are not in the session table are skipped.
BroadcastToTopic(topic, m) == SendEach(topics[topic] \cap sessions, m)

Caller ==
  /\ server # "created"
  /\ nextMsg < MaxMsg
  /\ nextMsg' = nextMsg + 1
  /\ \/ Broadcast(nextMsg')
     \/ \E id \in Conn : Send(id, nextMsg')
     \/ \E topic \in Topic : BroadcastToTopic(topic, nextMsg')
  /\ UNCHANGED <<srvVars, tableVars, chainVars, sockVars, arrived>>

----------------------------------------------------------------------------
(* WsServer::Stop, in the thread that calls it *)

\* m_running is exchanged and the acceptor closed: no session is accepted.
StopBegin ==
  /\ server = "running"
  /\ server' = "closing"
  /\ UNCHANGED <<closePosted, tableVars, queueVars, chainVars, sockVars, arrived, nextMsg>>

\* Close() of every session only posts a handler to its strand.
StopCloseSessions ==
  /\ server = "closing"
  /\ server' = "halting"
  /\ closePosted' = sessions
  /\ UNCHANGED <<tableVars, queueVars, chainVars, sockVars, arrived, nextMsg>>

\* m_ioc.stop() and the joins: no further handler runs, posted or not.
StopIoContext ==
  /\ server = "halting"
  /\ server' = "stopped"
  /\ UNCHANGED <<closePosted, tableVars, queueVars, chainVars, sockVars, arrived, nextMsg>>

\* The handler posted by WsSession::Close: the stream is closed, so that the
\* pending read and any later write end with an error.
Close(c) ==
  /\ StrandReady(c)
  /\ c \in closePosted
  /\ closePosted' = closePosted \ {c}
  /\ alive' = [alive EXCEPT ![c] = FALSE]
  /\ UNCHANGED <<server, tableVars, queueVars, chainVars, sockLoad, wire, garbled, arrived, nextMsg>>

----------------------------------------------------------------------------
(* The clients and the network *)

\* A message of the client reaches the read loop.  The reply to a ping is
\* given its number here, so that MaxMsg bounds replies too.
ClientSends(c) ==
  /\ phase[c] = "reading" /\ alive[c] /\ arrived[c] = None
  /\ \/ /\ nextMsg < MaxMsg
        /\ arrived' = [arrived EXCEPT ![c] = [type |-> "ping", reply |-> nextMsg + 1]]
        /\ nextMsg' = nextMsg + 1
     \/ /\ \E msg \in ClientMessage :
             msg.type # "ping" /\ arrived' = [arrived EXCEPT ![c] = msg]
        /\ UNCHANGED nextMsg
  /\ UNCHANGED <<srvVars, tableVars, queueVars, chainVars, sockVars>>

ClientReads(c) ==
  /\ alive[c] /\ sockLoad[c] > 0
  /\ sockLoad' = [sockLoad EXCEPT ![c] = @ - 1]
  /\ UNCHANGED <<srvVars, tableVars, queueVars, chainVars, wire, garbled, alive, arrived, nextMsg>>

\* The client closes, the network resets, or Beast's timeouts expire.
PeerLost(c) ==
  /\ alive[c]
  /\ alive' = [alive EXCEPT ![c] = FALSE]
  /\ UNCHANGED <<srvVars, tableVars, queueVars, chainVars, sockLoad, wire, garbled, arrived, nextMsg>>

----------------------------------------------------------------------------
SessionStep(c) ==
  \/ DoWrite(c) \/ SocketWritable(c) \/ OnWrite(c) \/ OnWriteError(c)
  \/ AcceptLoop(c) \/ OnAccept(c) \/ OnReadMessage(c) \/ OnReadError(c) \/ Close(c)
  \/ ClientSends(c) \/ ClientReads(c) \/ PeerLost(c)

Next ==
  \/ Start \/ StopBegin \/ StopCloseSessions \/ StopIoContext
  \/ Caller
  \/ \E c \in Conn : SessionStep(c)

Spec == Init /\ [][Next]_vars

\* A client that has stopped reading is given up after Beast's idle timeout.
StalledPeer(c) == sockLoad[c] = SockCap /\ (ClientReads(c) \/ PeerLost(c))

\* The io threads run every handler that stays runnable, and the reactor
\* reports every socket that stays writable.
Fairness ==
  \A c \in Conn :
    /\ WF_vars(DoWrite(c)) /\ WF_vars(SocketWritable(c))
    /\ WF_vars(OnWrite(c)) /\ WF_vars(OnWriteError(c))
    /\ WF_vars(OnReadError(c)) /\ WF_vars(StalledPeer(c))

FairSpec == Spec /\ Fairness

----------------------------------------------------------------------------
(* Properties *)

\* DoWrite handlers and async_writes of c that are under way.
UnderWay(c) ==
  posted[c] + completed[c] + Len(deferred[c]) + (IF chained[c] THEN 1 ELSE 0)

\* ws_session.hpp:60: at most one async_write of a session is in flight,
\* whoever calls Send and whenever.  m_writing tells exactly that, until a
\* write has failed.
SingleWriter ==
  \A c \in Conn :
    /\ UnderWay(c) <= 1
    /\ writing[c] <=> (UnderWay(c) = 1 \/ failed[c])
    /\ failed[c] => UnderWay(c) = 0

\* A queued message always has a writer under way to take it (no Send falls
\* between the check of the queue and the reset of m_writing), unless a write
\* of the session has already failed.
NoLostWakeup ==
  \A c \in Conn : writeQueue[c] # <<>> => UnderWay(c) = 1 \/ failed[c]

\* The session and topic tables only hold ids of sessions whose read loop is
\* still running: nothing else would ever remove the id again.
TablesHaveReader ==
  \A c \in Conn :
    c \in sessions \cup UNION {topics[t] : t \in Topic} => phase[c] = "reading"

\* Nothing is queued on a session that has left the session table, even
\* while its id is still, or again, in a topic.
NothingQueuedAfterRemoval ==
  [][\A c \in Conn : c \notin sessions =>
       Len(writeQueue'[c]) <= Len(writeQueue[c])]_vars

\* ws_server.hpp:66: every frame carries the message given to Send.
FramesIntact == \A c \in Conn : garbled[c] = {}

\* What is queued on c and not yet with the kernel.
Channel == INSTANCE FrameChannel WITH
  pending <- [c \in Conn |-> deferred[c] \o writeQueue[c]],
  lost <- failed

\* The write path of the session implements a lossy FIFO channel: frames leave in
\* the order they were queued, none twice, and none after one was lost.
ChannelSpec == Channel!Spec

\* A message queued on a session is eventually on the wire, unless the
\* connection breaks or the server stops.
QueuedIsSent ==
  \A c \in Conn, m \in Msg :
    (\E i \in DOMAIN writeQueue[c] : writeQueue[c][i] = m)
      ~> \/ \E i \in DOMAIN wire[c] : wire[c][i] = m
         \/ ~alive[c] \/ server = "stopped"

\* A session whose connection has broken leaves both tables for good.
BrokenIsForgotten ==
  \A c \in Conn :
    (c \in sessions /\ ~alive[c])
      ~> \/ server = "stopped"
         \/ [](c \notin sessions /\ \A t \in Topic : c \notin topics[t])
=============================================================================
