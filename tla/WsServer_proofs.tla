--------------------------- MODULE WsServer_proofs ---------------------------
(***************************************************************************)
(* Theorems about WsServer for any set of connections and topics, any      *)
(* number of messages and any size of the send buffer.                     *)
(***************************************************************************)
EXTENDS WsServer, SequenceTheorems, TLAPS

\* The types are preserved by every step.
LEMMA TypeStep == ASSUME TypeOK, [Next]_vars PROVE TypeOK'
<1> USE WsAssumption DEF TypeOK, srvVars, tableVars, queueVars, chainVars, sockVars
<1>1. CASE Start
  BY <1>1 DEF Start
<1>2. CASE StopBegin
  BY <1>2 DEF StopBegin
<1>3. CASE StopCloseSessions
  BY <1>3 DEF StopCloseSessions
<1>4. CASE StopIoContext
  BY <1>4 DEF StopIoContext
<1>5. ASSUME NEW S \in SUBSET Conn, NEW m \in Msg, SendEach(S, m)
      PROVE  /\ writeQueue' \in [Conn -> Seq(Msg)]
             /\ writing' \in [Conn -> BOOLEAN]
             /\ posted' \in [Conn -> Nat]
  BY <1>5 DEF SendEach
<1>6. CASE Caller
  <2>1. nextMsg' \in Msg /\ nextMsg' \in 0..MaxMsg
    BY <1>6 DEF Caller, Msg
  <2>2. PICK S \in SUBSET Conn : SendEach(S, nextMsg')
    <3>1. CASE Broadcast(nextMsg')
      BY <3>1 DEF Broadcast
    <3>2. CASE \E id \in Conn : Send(id, nextMsg')
      BY <3>2 DEF Send
    <3>3. CASE \E topic \in Topic : BroadcastToTopic(topic, nextMsg')
      BY <3>3 DEF BroadcastToTopic
    <3>4. QED
      BY <1>6, <3>1, <3>2, <3>3 DEF Caller
  <2>3. /\ writeQueue' \in [Conn -> Seq(Msg)]
        /\ writing' \in [Conn -> BOOLEAN]
        /\ posted' \in [Conn -> Nat]
    BY <1>5, <2>1, <2>2
  <2>4. QED
    BY <1>6, <2>1, <2>3 DEF Caller
<1>7. ASSUME NEW c \in Conn, SessionStep(c) PROVE TypeOK'
  <2>1. CASE DoWrite(c)
    <3>1. posted' \in [Conn -> Nat] /\ chained' \in [Conn -> BOOLEAN]
      <4>1. CASE chained[c]
        BY <2>1, <4>1 DEF DoWrite
      <4>2. CASE ~chained[c]
        <5>1. posted[c] - 1 \in Nat
          BY <2>1, <4>2 DEF DoWrite
        <5>2. QED
          BY <2>1, <4>2, <5>1 DEF DoWrite
      <4>3. QED
        BY <4>1, <4>2
    <3>2. CASE writeQueue[c] = <<>>
      <4>1. writing' \in [Conn -> BOOLEAN]
        BY <2>1, <3>2 DEF DoWrite
      <4>2. QED
        BY <2>1, <3>1, <3>2, <4>1 DEF DoWrite
    <3>3. CASE writeQueue[c] # <<>>
      <4> DEFINE m == Head(writeQueue[c])
      <4>1. m \in Msg /\ Tail(writeQueue[c]) \in Seq(Msg)
        BY <3>3
      <4>2. writeQueue' \in [Conn -> Seq(Msg)]
        BY <2>1, <3>3, <4>1 DEF DoWrite, StartWrite
      <4>3. CASE alive[c] /\ sockLoad[c] < SockCap
        <5>1. /\ wire' = [wire EXCEPT ![c] = Append(@, m)]
              /\ sockLoad' = [sockLoad EXCEPT ![c] = @ + 1]
              /\ completed' = [completed EXCEPT ![c] = @ + 1]
              /\ UNCHANGED deferred
          BY <2>1, <3>3, <4>3 DEF DoWrite, StartWrite
        <5>2. /\ wire' \in [Conn -> Seq(Msg)]
              /\ sockLoad' \in [Conn -> 0..SockCap]
              /\ completed' \in [Conn -> Nat]
          <6> HIDE DEF m
          <6>1. Append(wire[c], m) \in Seq(Msg)
            BY <4>1
          <6>2. sockLoad[c] + 1 \in 0..SockCap
            BY <4>3
          <6>3. QED
            BY <5>1, <6>1, <6>2
        <5>3. QED
          BY <2>1, <3>1, <3>3, <4>2, <5>1, <5>2 DEF DoWrite, StartWrite
      <4>4. CASE ~(alive[c] /\ sockLoad[c] < SockCap)
        <5>1. deferred' = [deferred EXCEPT ![c] = Append(@, m)]
          BY <2>1, <3>3, <4>4 DEF DoWrite, StartWrite
        <5>2. deferred' \in [Conn -> Seq(Msg)]
          <6> HIDE DEF m
          <6>1. Append(deferred[c], m) \in Seq(Msg)
            BY <4>1
          <6>2. QED
            BY <5>1, <6>1
        <5>3. QED
          BY <2>1, <3>1, <3>3, <4>2, <4>4, <5>2 DEF DoWrite, StartWrite
      <4>5. QED
        BY <4>3, <4>4
    <3>4. QED
      BY <3>2, <3>3
  <2>2. CASE SocketWritable(c)
    <3>1. /\ Head(deferred[c]) \in Msg
          /\ Tail(deferred[c]) \in Seq(Msg)
      BY <2>2 DEF SocketWritable
    <3>2. /\ Append(wire[c], Head(deferred[c])) \in Seq(Msg)
          /\ sockLoad[c] + 1 \in 0..SockCap
          /\ completed[c] + 1 \in Nat
      BY <2>2, <3>1 DEF SocketWritable
    <3>3. /\ wire' \in [Conn -> Seq(Msg)]
          /\ deferred' \in [Conn -> Seq(Msg)]
      BY <2>2, <3>1, <3>2 DEF SocketWritable
    <3>4. /\ sockLoad' \in [Conn -> 0..SockCap]
          /\ completed' \in [Conn -> Nat]
          /\ garbled' \in [Conn -> SUBSET Msg]
      BY <2>2, <3>1, <3>2 DEF SocketWritable
    <3>5. QED
      BY <2>2, <3>3, <3>4 DEF SocketWritable
  <2>3. CASE OnWrite(c)
    <3>1. completed' \in [Conn -> Nat]
      BY <2>3 DEF OnWrite
    <3>2. writing' \in [Conn -> BOOLEAN] /\ chained' \in [Conn -> BOOLEAN]
      BY <2>3 DEF OnWrite
    <3>3. QED
      BY <2>3, <3>1, <3>2 DEF OnWrite
  <2>4. CASE OnWriteError(c)
    <3>1. Tail(deferred[c]) \in Seq(Msg)
      BY <2>4 DEF OnWriteError
    <3>2. QED
      BY <2>4, <3>1 DEF OnWriteError, OnSessionDisconnected
  <2>5. CASE AcceptLoop(c)
    BY <2>5 DEF AcceptLoop
  <2>6. CASE OnAccept(c)
    BY <2>6 DEF OnAccept
  <2>7. CASE OnReadMessage(c)
    <3>1. arrived' \in [Conn -> ClientMessage \cup {None}]
      BY <2>7 DEF OnReadMessage
    <3>2. arrived[c] \in ClientMessage
      BY <2>7 DEF OnReadMessage
    <3>3. CASE arrived[c].type \in {"subscribe", "unsubscribe"}
      <4>1. arrived[c].topic \in Topic
        BY <3>2, <3>3 DEF ClientMessage
      <4>2. UNCHANGED queueVars
        BY <2>7, <3>3 DEF OnReadMessage
      <4>3. Subscribe(c, arrived[c].topic) \/ Unsubscribe(c, arrived[c].topic)
        BY <2>7, <3>3 DEF OnReadMessage
      <4>4. topics' \in [Topic -> SUBSET Conn]
        <5> DEFINE t == arrived[c].topic
        <5>1. topics[t] \cup {c} \in SUBSET Conn /\ topics[t] \ {c} \in SUBSET Conn
          BY <4>1
        <5>2. QED
          BY <4>1, <4>3, <5>1 DEF Subscribe, Unsubscribe
      <4>5. QED
        BY <2>7, <3>1, <4>2, <4>4 DEF OnReadMessage
    <3>4. CASE arrived[c].type = "ping"
      <4>1. arrived[c].reply \in Msg
        BY <3>2, <3>4 DEF ClientMessage
      <4>2. SendEach(sessions \cap {c}, arrived[c].reply) /\ UNCHANGED topics
        BY <2>7, <3>4 DEF OnReadMessage
      <4>3. /\ writeQueue' \in [Conn -> Seq(Msg)]
            /\ writing' \in [Conn -> BOOLEAN]
            /\ posted' \in [Conn -> Nat]
        BY <1>5, <4>1, <4>2
      <4>4. QED
        BY <2>7, <3>1, <4>2, <4>3 DEF OnReadMessage
    <3>5. CASE arrived[c].type = "other"
      BY <2>7, <3>1, <3>5 DEF OnReadMessage
    <3>6. QED
      BY <2>7, <3>3, <3>4, <3>5 DEF OnReadMessage
  <2>8. CASE OnReadError(c)
    BY <2>8 DEF OnReadError, OnSessionDisconnected
  <2>9. CASE Close(c)
    BY <2>9 DEF Close
  <2>10. CASE ClientSends(c)
    <3>1. CASE /\ nextMsg < MaxMsg
               /\ arrived' = [arrived EXCEPT ![c] = [type |-> "ping", reply |-> nextMsg + 1]]
               /\ nextMsg' = nextMsg + 1
      <4>1. [type |-> "ping", reply |-> nextMsg + 1] \in ClientMessage
        BY <3>1 DEF ClientMessage, Msg
      <4>2. QED
        BY <2>10, <3>1, <4>1 DEF ClientSends
    <3>2. ASSUME NEW msg \in ClientMessage, UNCHANGED nextMsg,
                 arrived' = [arrived EXCEPT ![c] = msg]
          PROVE  TypeOK'
      BY <2>10, <3>2 DEF ClientSends
    <3>3. QED
      BY <2>10, <3>1, <3>2 DEF ClientSends
  <2>11. CASE ClientReads(c)
    BY <2>11 DEF ClientReads
  <2>12. CASE PeerLost(c)
    BY <2>12 DEF PeerLost
  <2>13. QED
    BY <1>7, <2>1, <2>2, <2>3, <2>4, <2>5, <2>6, <2>7, <2>8, <2>9, <2>10, <2>11, <2>12
       DEF SessionStep
<1>8. CASE UNCHANGED vars
  BY <1>8 DEF vars
<1>9. QED
  BY <1>1, <1>2, <1>3, <1>4, <1>6, <1>7, <1>8 DEF Next

\* Every variable keeps its type in every behaviour of the server.
THEOREM TypeCorrect == Spec => []TypeOK
<1>1. Init => TypeOK
  BY WsAssumption DEF Init, TypeOK
<1>2. QED
  BY <1>1, TypeStep, PTL DEF Spec

----------------------------------------------------------------------------
(* The write chain.  SingleWriter and NoLostWakeup are inductive together:  *)
(* m_writing decides whether Send posts DoWrite, so the count of writers    *)
(* can only be bounded by what m_writing says of it.                        *)

WriterInv == SingleWriter /\ NoLostWakeup

\* The writers of a connection are counted by a natural number.
LEMMA UnderWayNat == ASSUME TypeOK, NEW c \in Conn PROVE UnderWay(c) \in Nat
<1>1. posted[c] \in Nat /\ completed[c] \in Nat /\ Len(deferred[c]) \in Nat
  BY DEF TypeOK
<1>2. QED
  BY <1>1 DEF UnderWay

\* Steps that touch neither the queue nor the chain keep the invariant.
LEMMA WriterFrame ==
  ASSUME WriterInv, UNCHANGED <<queueVars, chainVars>>
  PROVE  WriterInv'
BY DEF WriterInv, SingleWriter, NoLostWakeup, UnderWay, queueVars, chainVars

\* Send posts DoWrite exactly on the sessions that have no writer.
LEMMA WriterSend ==
  ASSUME TypeOK, WriterInv, UNCHANGED chainVars,
         NEW S \in SUBSET Conn, NEW m \in Msg, SendEach(S, m)
  PROVE  WriterInv'
<1> SUFFICES ASSUME NEW d \in Conn
             PROVE  /\ UnderWay(d)' <= 1
                    /\ writing'[d] <=> (UnderWay(d)' = 1 \/ failed'[d])
                    /\ failed'[d] => UnderWay(d)' = 0
                    /\ writeQueue'[d] # <<>> => UnderWay(d)' = 1 \/ failed'[d]
  BY DEF WriterInv, SingleWriter, NoLostWakeup
<1>1. /\ UnderWay(d) <= 1
      /\ writing[d] <=> (UnderWay(d) = 1 \/ failed[d])
      /\ failed[d] => UnderWay(d) = 0
      /\ writeQueue[d] # <<>> => UnderWay(d) = 1 \/ failed[d]
  BY DEF WriterInv, SingleWriter, NoLostWakeup
<1>2. UNCHANGED <<chained, deferred, completed, failed>>
  BY DEF chainVars
<1>3. UnderWay(d) \in Nat /\ posted[d] \in Nat /\ Len(deferred[d]) \in Nat /\ completed[d] \in Nat
  BY UnderWayNat DEF TypeOK
<1>4. CASE d \in S /\ ~writing[d]
  <2>1. posted'[d] = posted[d] + 1 /\ writing'[d]
    BY <1>4 DEF SendEach
  <2>2. UnderWay(d)' = UnderWay(d) + 1
    <3>1. CASE chained[d]
      BY <1>2, <1>3, <2>1, <3>1 DEF UnderWay
    <3>2. CASE ~chained[d]
      BY <1>2, <1>3, <2>1, <3>2 DEF UnderWay
    <3>3. QED
      BY <3>1, <3>2
  <2>3. UnderWay(d) = 0 /\ ~failed[d]
    BY <1>1, <1>3, <1>4
  <2>4. QED
    BY <1>2, <2>1, <2>2, <2>3
<1>5. CASE ~(d \in S /\ ~writing[d])
  <2>1. posted'[d] = posted[d] /\ (writing'[d] <=> writing[d])
    BY <1>5 DEF SendEach
  <2>2. UnderWay(d)' = UnderWay(d)
    BY <1>2, <2>1 DEF UnderWay
  <2>3. writeQueue'[d] # <<>> => writing[d] \/ writeQueue[d] # <<>>
    BY <1>5 DEF SendEach
  <2>4. QED
    BY <1>1, <1>2, <2>1, <2>2, <2>3
<1>6. QED
  BY <1>4, <1>5

\* A step of the chain of c leaves every other connection alone and keeps the
\* invariant of c.
LEMMA WriterStep == ASSUME TypeOK, WriterInv, [Next]_vars PROVE WriterInv'
<1> DEFINE W(d) == /\ UnderWay(d) <= 1
                   /\ writing[d] <=> (UnderWay(d) = 1 \/ failed[d])
                   /\ failed[d] => UnderWay(d) = 0
                   /\ writeQueue[d] # <<>> => UnderWay(d) = 1 \/ failed[d]
<1>1. WriterInv <=> \A d \in Conn : W(d)
  BY DEF WriterInv, SingleWriter, NoLostWakeup
<1>2. WriterInv' <=> \A d \in Conn : W(d)'
  BY DEF WriterInv, SingleWriter, NoLostWakeup
<1>3. ASSUME NEW c \in Conn,
             \A d \in Conn \ {c} :
               /\ writeQueue'[d] = writeQueue[d] /\ posted'[d] = posted[d]
               /\ writing'[d] = writing[d] /\ chained'[d] = chained[d]
               /\ deferred'[d] = deferred[d] /\ completed'[d] = completed[d]
               /\ failed'[d] = failed[d],
             W(c)'
      PROVE  WriterInv'
  <2>1. ASSUME NEW d \in Conn \ {c} PROVE W(d)'
    <3>1. UnderWay(d)' = UnderWay(d)
      BY <1>3 DEF UnderWay
    <3>2. W(d)
      BY <1>1
    <3>3. QED
      BY <1>3, <3>1, <3>2
  <2>2. QED
    BY <1>2, <1>3, <2>1
<1>4. ASSUME NEW c \in Conn PROVE
        /\ posted[c] \in Nat /\ completed[c] \in Nat /\ Len(deferred[c]) \in Nat
        /\ UnderWay(c) = posted[c] + completed[c] + Len(deferred[c]) + (IF chained[c] THEN 1 ELSE 0)
        /\ W(c)
  BY <1>1 DEF TypeOK, UnderWay
<1>5. CASE Start \/ StopBegin \/ StopCloseSessions \/ StopIoContext \/ UNCHANGED vars
  BY <1>5, WriterFrame
     DEF Start, StopBegin, StopCloseSessions, StopIoContext, vars, queueVars, chainVars
<1>6. CASE Caller
  <2>1. nextMsg' \in Msg /\ UNCHANGED chainVars
    BY <1>6, WsAssumption DEF Caller, Msg, TypeOK
  <2>2. PICK S \in SUBSET Conn : SendEach(S, nextMsg')
    <3>1. CASE Broadcast(nextMsg')
      BY <3>1 DEF Broadcast, TypeOK
    <3>2. CASE \E id \in Conn : Send(id, nextMsg')
      BY <3>2 DEF Send
    <3>3. CASE \E topic \in Topic : BroadcastToTopic(topic, nextMsg')
      BY <3>3 DEF BroadcastToTopic, TypeOK
    <3>4. QED
      BY <1>6, <3>1, <3>2, <3>3 DEF Caller
  <2>3. QED
    BY <2>1, <2>2, WriterSend
<1>7. ASSUME NEW c \in Conn, SessionStep(c) PROVE WriterInv'
  <2>1. CASE DoWrite(c)
    <3>1. UnderWay(c) = 1 /\ writing[c] /\ ~failed[c] /\ completed[c] = 0 /\ Len(deferred[c]) = 0
      <4>1. UnderWay(c) >= 1
        BY <2>1, <1>4 DEF DoWrite
      <4>2. UnderWay(c) = 1 /\ ~failed[c]
        BY <1>4, <4>1
      <4>3. writing[c]
        BY <1>4, <4>2
      <4>4. completed[c] = 0 /\ Len(deferred[c]) = 0
        BY <2>1, <1>4, <4>2 DEF DoWrite
      <4>5. QED
        BY <4>2, <4>3, <4>4
    <3>2. /\ posted'[c] + (IF chained'[c] THEN 1 ELSE 0) = 0
          /\ posted'[c] \in Nat
      <4>1. CASE chained[c]
        <5>1. posted[c] = 0
          BY <1>4, <3>1, <4>1
        <5>2. posted'[c] = 0 /\ ~chained'[c]
          BY <2>1, <4>1, <5>1 DEF DoWrite, TypeOK
        <5>3. QED
          BY <5>2
      <4>2. CASE ~chained[c]
        <5>1. posted[c] = 1
          BY <1>4, <3>1, <4>2
        <5>2. posted'[c] = 0 /\ ~chained'[c]
          BY <2>1, <4>2, <5>1 DEF DoWrite, TypeOK
        <5>3. QED
          BY <5>2
      <4>3. QED
        BY <4>1, <4>2
    <3>3. UnderWay(c)' = posted'[c] + completed'[c] + Len(deferred'[c]) + (IF chained'[c] THEN 1 ELSE 0)
      BY DEF UnderWay
    <3>4. \A d \in Conn \ {c} :
            /\ writeQueue'[d] = writeQueue[d] /\ posted'[d] = posted[d]
            /\ writing'[d] = writing[d] /\ chained'[d] = chained[d]
            /\ deferred'[d] = deferred[d] /\ completed'[d] = completed[d]
            /\ failed'[d] = failed[d]
      BY <2>1 DEF DoWrite, StartWrite, TypeOK, sockVars
    <3>5. CASE writeQueue[c] = <<>>
      <4>1. /\ ~writing'[c] /\ ~failed'[c] /\ writeQueue'[c] = <<>>
            /\ completed'[c] = 0 /\ Len(deferred'[c]) = 0
        BY <2>1, <3>1, <3>5 DEF DoWrite, TypeOK
      <4>2. UnderWay(c)' = 0
        BY <3>2, <3>3, <4>1
      <4>3. QED
        BY <1>3, <3>4, <4>1, <4>2
    <3>6. CASE writeQueue[c] # <<>>
      <4>1. writing'[c] /\ ~failed'[c]
        BY <2>1, <3>1, <3>6 DEF DoWrite, StartWrite
      <4>2. completed'[c] + Len(deferred'[c]) = 1 /\ completed'[c] \in Nat /\ Len(deferred'[c]) \in Nat
        <5>1. CASE alive[c] /\ sockLoad[c] < SockCap
          <6>1. completed'[c] = completed[c] + 1 /\ deferred'[c] = deferred[c]
            BY <2>1, <3>6, <5>1 DEF DoWrite, StartWrite, TypeOK
          <6>2. QED
            BY <3>1, <6>1
        <5>2. CASE ~(alive[c] /\ sockLoad[c] < SockCap)
          <6>1. /\ deferred'[c] = Append(deferred[c], Head(writeQueue[c]))
                /\ completed'[c] = completed[c]
            BY <2>1, <3>6, <5>2 DEF DoWrite, StartWrite, TypeOK
          <6>2. Head(writeQueue[c]) \in Msg /\ deferred[c] \in Seq(Msg)
            BY <3>6 DEF TypeOK
          <6>3. Len(deferred'[c]) = Len(deferred[c]) + 1
            BY <6>1, <6>2
          <6>4. QED
            BY <3>1, <6>1, <6>3
        <5>3. QED
          BY <5>1, <5>2
      <4>3. UnderWay(c)' = 1
        BY <3>2, <3>3, <4>2
      <4>4. QED
        BY <1>3, <3>4, <4>1, <4>3
    <3>7. QED
      BY <3>5, <3>6
  <2>2. CASE SocketWritable(c)
    <3>1. deferred[c] \in Seq(Msg) /\ deferred[c] # <<>>
      BY <2>2 DEF SocketWritable, TypeOK
    <3>2. Len(deferred'[c]) = Len(deferred[c]) - 1 /\ completed'[c] = completed[c] + 1
      BY <2>2, <3>1 DEF SocketWritable, TypeOK
    <3>3. UNCHANGED <<posted, chained, writing, failed, writeQueue>>
      BY <2>2 DEF SocketWritable, queueVars
    <3>4. UnderWay(c)' = UnderWay(c)
      BY <1>4, <3>2, <3>3 DEF UnderWay
    <3>5. W(c)'
      BY <1>4, <3>3, <3>4
    <3>6. \A d \in Conn \ {c} : deferred'[d] = deferred[d] /\ completed'[d] = completed[d]
      BY <2>2 DEF SocketWritable, TypeOK
    <3>7. QED
      BY <1>3, <3>3, <3>5, <3>6
  <2>3. CASE OnWrite(c)
    <3>1. UnderWay(c) = 1 /\ ~failed[c] /\ posted[c] = 0 /\ completed[c] = 1 /\ Len(deferred[c]) = 0
      BY <1>4, <2>3 DEF OnWrite
    <3>2. completed'[c] = 0 /\ UNCHANGED <<writeQueue, posted, deferred, failed>> /\ ~chained[c]
      BY <2>3, <3>1 DEF OnWrite, StrandReady, TypeOK
    <3>3. \A d \in Conn \ {c} :
            completed'[d] = completed[d] /\ writing'[d] = writing[d] /\ chained'[d] = chained[d]
      BY <2>3 DEF OnWrite, TypeOK
    <3>4. CASE writeQueue[c] = <<>>
      <4>1. ~writing'[c] /\ ~chained'[c]
        BY <2>3, <3>2, <3>4 DEF OnWrite, TypeOK
      <4>2. UnderWay(c)' = 0
        BY <3>1, <3>2, <4>1 DEF UnderWay
      <4>3. QED
        BY <1>3, <3>1, <3>2, <3>3, <3>4, <4>1, <4>2
    <3>5. CASE writeQueue[c] # <<>>
      <4>1. writing'[c] = writing[c] /\ chained'[c]
        BY <2>3, <3>5 DEF OnWrite, TypeOK
      <4>2. UnderWay(c)' = 1
        BY <3>1, <3>2, <4>1 DEF UnderWay
      <4>3. writing[c]
        BY <1>4, <3>1
      <4>4. W(c)'
        BY <3>1, <3>2, <4>1, <4>2, <4>3
      <4>5. QED
        BY <1>3, <3>2, <3>3, <4>4
    <3>6. QED
      BY <3>4, <3>5
  <2>4. CASE OnWriteError(c)
    <3>1. deferred[c] \in Seq(Msg) /\ deferred[c] # <<>>
      BY <2>4 DEF OnWriteError, TypeOK
    <3>2. /\ Len(deferred'[c]) = Len(deferred[c]) - 1
          /\ failed'[c]
          /\ UNCHANGED <<posted, writing, writeQueue, chained, completed>>
      BY <2>4, <3>1 DEF OnWriteError, TypeOK, queueVars
    <3>3. UnderWay(c) = 1
      BY <1>4, <3>1
    <3>4. UnderWay(c)' = 0
      <4>1. posted[c] + completed[c] + Len(deferred[c]) + (IF chained[c] THEN 1 ELSE 0) = 1
        BY <3>3 DEF UnderWay
      <4>2. posted[c] \in Nat /\ completed[c] \in Nat /\ Len(deferred[c]) \in Nat
        BY <3>1 DEF TypeOK
      <4>3. posted[c] + completed[c] + (Len(deferred[c]) - 1) + (IF chained[c] THEN 1 ELSE 0) = 0
        BY <4>1, <4>2
      <4>4. QED
        BY <3>2, <4>3 DEF UnderWay
    <3>5. writing'[c]
      BY <1>4, <3>2, <3>3
    <3>6. \A d \in Conn \ {c} : deferred'[d] = deferred[d] /\ failed'[d] = failed[d]
      BY <2>4 DEF OnWriteError, TypeOK
    <3>7. QED
      BY <1>3, <3>2, <3>4, <3>5, <3>6
  <2>5. CASE OnReadMessage(c)
    <3>1. CASE UNCHANGED queueVars
      BY <2>5, <3>1, WriterFrame DEF OnReadMessage
    <3>2. CASE arrived[c].type = "ping"
      <4>1. arrived[c].reply \in Msg
        <5>1. arrived[c] \in ClientMessage
          BY <2>5 DEF OnReadMessage, TypeOK
        <5>2. QED
          BY <3>2, <5>1 DEF ClientMessage
      <4>2. SendEach(sessions \cap {c}, arrived[c].reply) /\ UNCHANGED chainVars
        BY <2>5, <3>2 DEF OnReadMessage
      <4>3. QED
        BY <4>1, <4>2, WriterSend
    <3>3. QED
      BY <2>5, <3>1, <3>2 DEF OnReadMessage
  <2>6. CASE \/ AcceptLoop(c) \/ OnAccept(c) \/ OnReadError(c) \/ Close(c)
             \/ ClientSends(c) \/ ClientReads(c) \/ PeerLost(c)
    BY <2>6, WriterFrame DEF AcceptLoop, OnAccept, OnReadError, Close, ClientSends, ClientReads, PeerLost
  <2>7. QED
    BY <1>7, <2>1, <2>2, <2>3, <2>4, <2>5, <2>6 DEF SessionStep
<1>8. QED
  BY <1>5, <1>6, <1>7 DEF Next

\* At most one async_write per session, and m_writing says which sessions have
\* one, in every interleaving of senders, handlers, failures and Stop.
THEOREM OneWriter == Spec => []SingleWriter
<1>1. Init => WriterInv
  BY DEF Init, WriterInv, SingleWriter, NoLostWakeup, UnderWay
<1>2. WriterInv => SingleWriter
  BY DEF WriterInv
<1>3. QED
  BY <1>1, <1>2, WriterStep, TypeCorrect, PTL DEF Spec

\* No queued message is ever left without a writer before the first failure.
THEOREM NoWakeupLost == Spec => []NoLostWakeup
<1>1. Init => WriterInv
  BY DEF Init, WriterInv, SingleWriter, NoLostWakeup, UnderWay
<1>2. WriterInv => NoLostWakeup
  BY DEF WriterInv
<1>3. QED
  BY <1>1, <1>2, WriterStep, TypeCorrect, PTL DEF Spec

----------------------------------------------------------------------------
(* The session and topic tables *)

\* No step leaves the id of a session that has stopped reading in a table.
LEMMA TablesStep ==
  ASSUME TypeOK, TablesHaveReader, [Next]_vars
  PROVE  TablesHaveReader'
<1> DEFINE Listed(c) == c \in sessions \/ \E t \in Topic : c \in topics[t]
<1>1. TablesHaveReader <=> \A c \in Conn : Listed(c) => phase[c] = "reading"
  BY DEF TablesHaveReader
<1>2. TablesHaveReader' <=> \A c \in Conn : Listed(c)' => phase'[c] = "reading"
  BY DEF TablesHaveReader
<1>3. ASSUME UNCHANGED tableVars PROVE TablesHaveReader'
  BY <1>3 DEF TablesHaveReader, tableVars
<1>4. ASSUME NEW c \in Conn, OnSessionDisconnected(c),
             \A d \in Conn \ {c} : phase'[d] = phase[d]
      PROVE  TablesHaveReader'
  <2>1. ~Listed(c)'
    BY <1>4 DEF OnSessionDisconnected
  <2>2. ASSUME NEW d \in Conn, Listed(d)' PROVE Listed(d)
    BY <1>4, <2>2 DEF OnSessionDisconnected
  <2>3. QED
    BY <1>1, <1>2, <1>4, <2>1, <2>2
<1>5. CASE Start \/ StopBegin \/ StopCloseSessions \/ StopIoContext \/ Caller \/ UNCHANGED vars
  BY <1>3, <1>5
     DEF Start, StopBegin, StopCloseSessions, StopIoContext, Caller, vars, tableVars
<1>6. ASSUME NEW c \in Conn, SessionStep(c) PROVE TablesHaveReader'
  <2>1. CASE OnReadError(c)
    BY <1>4, <2>1 DEF OnReadError, TypeOK
  <2>2. CASE OnWriteError(c)
    BY <1>4, <2>2 DEF OnWriteError
  <2>3. CASE AcceptLoop(c)
    <3>1. ~Listed(c)
      BY <1>1, <2>3 DEF AcceptLoop
    <3>2. UNCHANGED <<sessions, topics>> /\ \A d \in Conn \ {c} : phase'[d] = phase[d]
      BY <2>3 DEF AcceptLoop, TypeOK
    <3>3. \A d \in Conn : Listed(d)' => Listed(d)
      BY <3>2
    <3>4. QED
      BY <1>1, <1>2, <3>1, <3>2, <3>3
  <2>4. CASE OnAccept(c)
    <3>1. ~Listed(c) /\ UNCHANGED topics
      BY <1>1, <2>4 DEF OnAccept
    <3>2. \A d \in Conn \ {c} : phase'[d] = phase[d]
      BY <2>4 DEF OnAccept, TypeOK
    <3>3. \A d \in Conn \ {c} : Listed(d)' => Listed(d)
      BY <2>4, <3>1 DEF OnAccept
    <3>4. Listed(c)' => phase'[c] = "reading"
      BY <2>4, <3>1 DEF OnAccept, TypeOK
    <3>5. QED
      BY <1>1, <1>2, <3>2, <3>3, <3>4
  <2>5. CASE OnReadMessage(c)
    <3>1. phase[c] = "reading" /\ UNCHANGED <<phase, sessions>>
      BY <2>5 DEF OnReadMessage
    <3>2. \/ UNCHANGED topics
          \/ Subscribe(c, arrived[c].topic)
          \/ Unsubscribe(c, arrived[c].topic)
      BY <2>5 DEF OnReadMessage
    <3>3. \A d \in Conn \ {c} : Listed(d)' => Listed(d)
      <4>1. CASE UNCHANGED topics
        BY <3>1, <4>1
      <4>2. CASE Subscribe(c, arrived[c].topic)
        BY <3>1, <4>2 DEF Subscribe, TypeOK
      <4>3. CASE Unsubscribe(c, arrived[c].topic)
        BY <3>1, <4>3 DEF Unsubscribe, TypeOK
      <4>4. QED
        BY <3>2, <4>1, <4>2, <4>3
    <3>4. QED
      BY <1>1, <1>2, <3>1, <3>3
  <2>6. CASE \/ DoWrite(c) \/ SocketWritable(c) \/ OnWrite(c) \/ Close(c)
             \/ ClientSends(c) \/ ClientReads(c) \/ PeerLost(c)
    BY <1>3, <2>6
       DEF DoWrite, SocketWritable, OnWrite, Close, ClientSends, ClientReads, PeerLost, tableVars
  <2>7. QED
    BY <1>6, <2>1, <2>2, <2>3, <2>4, <2>5, <2>6 DEF SessionStep
<1>7. QED
  BY <1>5, <1>6 DEF Next

\* An id is only in the tables while a read loop is there to take it out.
THEOREM NoOrphanId == Spec => []TablesHaveReader
<1>1. Init => TablesHaveReader
  BY DEF Init, TablesHaveReader
<1>2. QED
  BY <1>1, TablesStep, TypeCorrect, PTL DEF Spec

----------------------------------------------------------------------------
(* The session implements the FIFO channel.  OneWriter is what makes it so: *)
(* a message popped while another write is deferred would overtake it.      *)

\* Appending to the second of two sequences appends to their concatenation.
LEMMA ConcatAppend ==
  ASSUME NEW T, NEW s \in Seq(T), NEW t \in Seq(T), NEW e \in T
  PROVE  s \o Append(t, e) = Append(s \o t, e)
<1>1. Append(t, e) = t \o <<e>> /\ <<e>> \in Seq(T)
  BY AppendIsConcat
<1>2. s \o t \in Seq(T)
  BY ConcatProperties
<1>3. Append(s \o t, e) = (s \o t) \o <<e>>
  BY <1>2, AppendIsConcat
<1>4. (s \o t) \o <<e>> = s \o (t \o <<e>>)
  BY <1>1, ConcatAssociative
<1>5. QED
  BY <1>1, <1>3, <1>4

\* The first element of a concatenation is taken from its first part.
LEMMA ConcatHeadTail ==
  ASSUME NEW T, NEW s \in Seq(T), NEW t \in Seq(T), s # <<>>
  PROVE  /\ s \o t # <<>>
         /\ Head(s \o t) = Head(s)
         /\ Tail(s \o t) = Tail(s) \o t
<1> DEFINE u == s \o t
           v == Tail(s) \o t
<1>1. Len(s) \in Nat /\ Len(t) \in Nat /\ Len(s) > 0
  BY LenProperties, EmptySeq
<1>2. /\ u \in Seq(T) /\ Len(u) = Len(s) + Len(t)
      /\ \A i \in 1 .. Len(s) + Len(t) : u[i] = IF i <= Len(s) THEN s[i] ELSE t[i - Len(s)]
  BY ConcatProperties
<1>3. /\ Tail(s) \in Seq(T) /\ Len(Tail(s)) = Len(s) - 1
      /\ \A i \in 1 .. Len(Tail(s)) : Tail(s)[i] = s[i + 1]
  BY HeadTailProperties
<1>4. /\ v \in Seq(T) /\ Len(v) = Len(s) - 1 + Len(t)
      /\ \A i \in 1 .. Len(s) - 1 + Len(t) :
           v[i] = IF i <= Len(s) - 1 THEN Tail(s)[i] ELSE t[i - (Len(s) - 1)]
  BY <1>3, ConcatProperties
<1>5. u # <<>>
  BY <1>1, <1>2, EmptySeq
<1>6. u[1] = s[1] /\ Head(u) = u[1] /\ Head(s) = s[1]
  BY <1>1, <1>2
<1> HIDE DEF u, v
<1>7. /\ Tail(u) \in Seq(T) /\ Len(Tail(u)) = Len(u) - 1
      /\ \A i \in 1 .. Len(Tail(u)) : Tail(u)[i] = u[i + 1]
  BY <1>2, <1>5, HeadTailProperties
<1>8. Len(Tail(u)) = Len(v)
  BY <1>1, <1>2, <1>4, <1>7
<1>9. ASSUME NEW i \in 1 .. Len(v) PROVE Tail(u)[i] = v[i]
  <2>1. Tail(u)[i] = u[i + 1] /\ i + 1 \in 1 .. Len(s) + Len(t)
    BY <1>1, <1>4, <1>7, <1>8
  <2>2. CASE i <= Len(s) - 1
    BY <1>1, <1>2, <1>3, <1>4, <2>1, <2>2
  <2>3. CASE i > Len(s) - 1
    <3>1. i \in Nat /\ i \in 1 .. Len(s) - 1 + Len(t)
      BY <1>1, <1>4
    <3>2. ~(i + 1 <= Len(s)) /\ i + 1 - Len(s) = i - (Len(s) - 1)
      BY <1>1, <2>3, <3>1
    <3>3. u[i + 1] = t[i + 1 - Len(s)]
      BY <1>2, <2>1, <3>2
    <3>4. v[i] = t[i - (Len(s) - 1)]
      BY <1>1, <1>4, <2>3, <3>1
    <3>5. QED
      BY <2>1, <3>2, <3>3, <3>4
  <2>4. i <= Len(s) - 1 \/ i > Len(s) - 1
    BY <1>1
  <2>5. QED
    BY <2>2, <2>3, <2>4
<1>10. Tail(u) = v
  BY <1>4, <1>7, <1>8, <1>9, SeqEqual
<1>11. QED
  BY <1>5, <1>6, <1>10 DEF u, v

\* The message a step queues: the next one of a caller, or the reply that was
\* numbered when the ping arrived.
Issued(m) ==
  \/ m = nextMsg + 1 /\ nextMsg' = m /\ UNCHANGED arrived
  \/ \E c \in Conn :
       /\ arrived[c].type = "ping" /\ m = arrived[c].reply
       /\ arrived' = [arrived EXCEPT ![c] = None]
       /\ UNCHANGED nextMsg

\* Every step queues one message on some sessions in one go, takes the oldest
\* one of a session, or is invisible in the channel.
LEMMA ChannelMoves ==
  ASSUME TypeOK, WriterInv, [Next]_vars
  PROVE  \/ UNCHANGED Channel!vars
         \/ \E c \in Conn : Channel!Transmit(c) \/ Channel!Lose(c)
         \/ \E S \in SUBSET Conn, m \in Msg : Channel!Enqueue(S, m) /\ Issued(m)
<1> DEFINE P == [c \in Conn |-> deferred[c] \o writeQueue[c]]
<1>1. ASSUME UNCHANGED <<deferred, writeQueue, wire, failed>>
      PROVE  UNCHANGED Channel!vars
  BY <1>1 DEF Channel!vars
<1> DEFINE Queues == \E S \in SUBSET Conn, m \in Msg : Channel!Enqueue(S, m) /\ Issued(m)
           Takes == \E c \in Conn : Channel!Transmit(c) \/ Channel!Lose(c)
           Quiet == UNCHANGED Channel!vars
<1>2. ASSUME NEW S \in SUBSET Conn, NEW m \in Msg, SendEach(S, m), Issued(m),
             UNCHANGED <<chainVars, sockVars>>
      PROVE  Queues
  <2>1. ASSUME NEW c \in Conn
        PROVE  P'[c] = IF c \in S THEN Append(P[c], m) ELSE P[c]
    <3>1. deferred[c] \in Seq(Msg) /\ writeQueue[c] \in Seq(Msg) /\ deferred'[c] = deferred[c]
      BY <1>2 DEF TypeOK, chainVars
    <3>2. \A f, q \in Seq(Msg) : f \o Append(q, m) = Append(f \o q, m)
      BY ConcatAppend
    <3>3. QED
      BY <1>2, <3>1, <3>2 DEF SendEach
  <2>2. P' = [c \in Conn |-> IF c \in S THEN Append(P[c], m) ELSE P[c]]
    BY <2>1
  <2>3. UNCHANGED <<wire, failed>>
    BY <1>2 DEF chainVars, sockVars
  <2>4. Channel!Enqueue(S, m)
    BY <2>2, <2>3 DEF Channel!Enqueue
  <2>5. QED
    BY <1>2, <2>4
<1>3. ASSUME NEW c \in Conn, ~failed[c], P[c] # <<>>,
             wire' = [wire EXCEPT ![c] = Append(@, Head(P[c]))],
             P' = [P EXCEPT ![c] = Tail(@)],
             UNCHANGED failed
      PROVE  Takes
  <2>1. Channel!Transmit(c)
    BY <1>3 DEF Channel!Transmit
  <2>2. QED
    BY <2>1
<1>4. CASE Start \/ StopBegin \/ StopCloseSessions \/ StopIoContext \/ UNCHANGED vars
  BY <1>1, <1>4 DEF Start, StopBegin, StopCloseSessions, StopIoContext, vars,
                    queueVars, chainVars, sockVars
<1>5. CASE Caller
  <2>1. nextMsg' \in Msg /\ UNCHANGED <<chainVars, sockVars>>
    BY <1>5, WsAssumption DEF Caller, Msg, TypeOK
  <2>2. PICK S \in SUBSET Conn : SendEach(S, nextMsg')
    <3>1. CASE Broadcast(nextMsg')
      BY <3>1 DEF Broadcast, TypeOK
    <3>2. CASE \E id \in Conn : Send(id, nextMsg')
      BY <3>2 DEF Send
    <3>3. CASE \E topic \in Topic : BroadcastToTopic(topic, nextMsg')
      BY <3>3 DEF BroadcastToTopic, TypeOK
    <3>4. QED
      BY <1>5, <3>1, <3>2, <3>3 DEF Caller
  <2>3. Issued(nextMsg')
    BY <1>5 DEF Caller, Issued
  <2>4. QED
    BY <1>2, <2>1, <2>2, <2>3
<1>6. ASSUME NEW c \in Conn, SessionStep(c) PROVE Quiet \/ Takes \/ Queues
  <2> DEFINE q == writeQueue[c]
             f == deferred[c]
  <2>1. q \in Seq(Msg) /\ f \in Seq(Msg)
    BY DEF TypeOK
  <2>2. /\ posted[c] \in Nat /\ completed[c] \in Nat /\ Len(f) \in Nat
        /\ posted[c] + completed[c] + Len(f) + (IF chained[c] THEN 1 ELSE 0) <= 1
        /\ failed[c] => posted[c] + completed[c] + Len(f) + (IF chained[c] THEN 1 ELSE 0) = 0
    BY DEF WriterInv, SingleWriter, UnderWay, TypeOK
  <2>3. CASE DoWrite(c)
    <3>1. Len(f) = 0 /\ ~failed[c]
      <4>1. CASE chained[c]
        BY <2>2, <4>1
      <4>2. CASE ~chained[c]
        BY <2>2, <2>3, <4>2 DEF DoWrite
      <4>3. QED
        BY <4>1, <4>2
    <3>2. f = <<>>
      BY <2>1, <3>1
    <3>3. CASE q = <<>>
      BY <1>1, <2>3, <3>3 DEF DoWrite, sockVars
    <3>4. CASE q # <<>> /\ alive[c] /\ sockLoad[c] < SockCap
      <4>1. /\ wire' = [wire EXCEPT ![c] = Append(@, Head(q))]
            /\ writeQueue' = [writeQueue EXCEPT ![c] = Tail(@)]
            /\ UNCHANGED <<deferred, failed>>
        BY <2>3, <3>4 DEF DoWrite, StartWrite
      <4>2. P[c] = q
        BY <2>1, <3>2, ConcatEmptySeq
      <4>3. ASSUME NEW d \in Conn PROVE P'[d] = [P EXCEPT ![c] = Tail(@)][d]
        <5>1. CASE d = c
          <6>1. P'[c] = <<>> \o Tail(q)
            BY <3>2, <4>1 DEF TypeOK
          <6>2. <<>> \o Tail(q) = Tail(q)
            BY <2>1, <3>4
          <6>3. QED
            BY <4>2, <5>1, <6>1, <6>2
        <5>2. CASE d # c
          BY <4>1, <5>2 DEF TypeOK
        <5>3. QED
          BY <5>1, <5>2
      <4>4. P' = [P EXCEPT ![c] = Tail(@)]
        BY <4>3
      <4>5. P[c] # <<>> /\ Head(P[c]) = Head(q)
        BY <3>4, <4>2
      <4>6. QED
        BY <1>3, <3>1, <4>1, <4>4, <4>5
    <3>5. CASE q # <<>> /\ ~(alive[c] /\ sockLoad[c] < SockCap)
      <4>1. /\ deferred' = [deferred EXCEPT ![c] = Append(@, Head(q))]
            /\ writeQueue' = [writeQueue EXCEPT ![c] = Tail(@)]
            /\ UNCHANGED <<wire, failed>>
        BY <2>3, <3>5 DEF DoWrite, StartWrite
      <4>2. ASSUME NEW d \in Conn PROVE deferred'[d] \o writeQueue'[d] = deferred[d] \o writeQueue[d]
        <5>1. CASE d = c
          <6>1. deferred'[c] = <<Head(q)>> /\ writeQueue'[c] = Tail(q)
            BY <2>1, <3>2, <3>5, <4>1 DEF TypeOK
          <6>2. <<Head(q)>> \o Tail(q) = q /\ <<>> \o q = q
            BY <2>1, <3>5
          <6>3. QED
            BY <3>2, <5>1, <6>1, <6>2
        <5>2. CASE d # c
          BY <4>1, <5>2 DEF TypeOK
        <5>3. QED
          BY <5>1, <5>2
      <4>3. P' = P
        BY <4>2
      <4>4. QED
        BY <4>1, <4>3 DEF Channel!vars
    <3>6. QED
      BY <3>3, <3>4, <3>5
  <2>4. CASE SocketWritable(c)
    <3>1. f # <<>> /\ ~failed[c]
      BY <2>1, <2>2, <2>4 DEF SocketWritable
    <3>2. /\ wire' = [wire EXCEPT ![c] = Append(@, Head(f))]
          /\ deferred' = [deferred EXCEPT ![c] = Tail(@)]
          /\ UNCHANGED <<writeQueue, failed>>
      BY <2>4 DEF SocketWritable, queueVars
    <3>3. /\ f \o q # <<>> /\ Head(f \o q) = Head(f)
          /\ Tail(f \o q) = Tail(f) \o q
      BY <2>1, <3>1, ConcatHeadTail
    <3>4. ASSUME NEW d \in Conn PROVE P'[d] = [P EXCEPT ![c] = Tail(@)][d]
      BY <3>2, <3>3 DEF TypeOK
    <3>5. P' = [P EXCEPT ![c] = Tail(@)]
      BY <3>4
    <3>6. QED
      BY <1>3, <3>1, <3>2, <3>3, <3>5
  <2>5. CASE OnWriteError(c)
    <3>1. f # <<>> /\ ~failed[c]
      BY <2>1, <2>2, <2>5 DEF OnWriteError
    <3>2. /\ failed' = [failed EXCEPT ![c] = TRUE]
          /\ deferred' = [deferred EXCEPT ![c] = Tail(@)]
          /\ UNCHANGED <<writeQueue, wire>>
      BY <2>5 DEF OnWriteError, queueVars, sockVars
    <3>3. f \o q # <<>> /\ Tail(f \o q) = Tail(f) \o q
      BY <2>1, <3>1, ConcatHeadTail
    <3>4. ASSUME NEW d \in Conn PROVE P'[d] = [P EXCEPT ![c] = Tail(@)][d]
      BY <3>2, <3>3 DEF TypeOK
    <3>5. P' = [P EXCEPT ![c] = Tail(@)]
      BY <3>4
    <3>6. Channel!Lose(c)
      BY <3>1, <3>2, <3>3, <3>5 DEF Channel!Lose
    <3>7. QED
      BY <3>6
  <2>6. CASE OnReadMessage(c)
    <3>1. CASE UNCHANGED queueVars
      BY <1>1, <2>6, <3>1 DEF OnReadMessage, queueVars, chainVars, sockVars
    <3>2. CASE arrived[c].type = "ping"
      <4>1. arrived[c] \in ClientMessage
        BY <2>6 DEF OnReadMessage, TypeOK
      <4>2. arrived[c].reply \in Msg
        BY <3>2, <4>1 DEF ClientMessage
      <4>3. SendEach(sessions \cap {c}, arrived[c].reply) /\ UNCHANGED <<chainVars, sockVars>>
        BY <2>6, <3>2 DEF OnReadMessage
      <4>4. Issued(arrived[c].reply)
        BY <2>6, <3>2 DEF OnReadMessage, Issued
      <4>5. QED
        BY <1>2, <4>2, <4>3, <4>4
    <3>3. QED
      BY <2>6, <3>1, <3>2 DEF OnReadMessage
  <2>7. CASE \/ OnWrite(c) \/ AcceptLoop(c) \/ OnAccept(c) \/ OnReadError(c) \/ Close(c)
             \/ ClientSends(c) \/ ClientReads(c) \/ PeerLost(c)
    BY <1>1, <2>7 DEF OnWrite, AcceptLoop, OnAccept, OnReadError, Close, ClientSends,
                      ClientReads, PeerLost, queueVars, chainVars, sockVars
  <2>8. QED
    BY <1>6, <2>3, <2>4, <2>5, <2>6, <2>7 DEF SessionStep
<1>7. QED
  BY <1>4, <1>5, <1>6 DEF Next

LEMMA ChannelStep ==
  ASSUME TypeOK, WriterInv, [Next]_vars
  PROVE  [Channel!Next]_Channel!vars
BY ChannelMoves DEF Channel!Next

\* Frames leave a session in the order they were queued, without duplicates,
\* and none follows a lost one: the server implements FrameChannel.
THEOREM ImplementsChannel == Spec => ChannelSpec
<1>1. Init => Channel!Init
  <2> SUFFICES ASSUME Init PROVE Channel!Init
    OBVIOUS
  <2>1. [c \in Conn |-> deferred[c] \o writeQueue[c]] = [c \in Conn |-> <<>>]
    BY DEF Init
  <2>2. QED
    BY <2>1 DEF Init, Channel!Init
<1>2. Init => WriterInv
  BY DEF Init, WriterInv, SingleWriter, NoLostWakeup, UnderWay
<1>3. QED
  BY <1>1, <1>2, TypeCorrect, WriterStep, ChannelStep, PTL DEF Spec, ChannelSpec, Channel!Spec

----------------------------------------------------------------------------
(* Sessions that have left the table *)

\* Every Send goes to members of the session table, and a write only takes
\* messages off its own queue.
LEMMA QuietStep ==
  ASSUME TypeOK, [Next]_vars, NEW c \in Conn, c \notin sessions
  PROVE  Len(writeQueue'[c]) <= Len(writeQueue[c])
<1> USE DEF TypeOK, queueVars
<1>1. writeQueue[c] \in Seq(Msg) /\ Len(writeQueue[c]) \in Nat
  OBVIOUS
<1>2. CASE UNCHANGED writeQueue
  BY <1>1, <1>2
<1>3. ASSUME NEW S \in SUBSET sessions, NEW m, SendEach(S, m)
      PROVE  writeQueue'[c] = writeQueue[c]
  BY <1>3 DEF SendEach
<1>4. CASE Caller
  <2>1. \E S \in SUBSET sessions : SendEach(S, nextMsg')
    BY <1>4 DEF Caller, Broadcast, Send, BroadcastToTopic
  <2>2. writeQueue'[c] = writeQueue[c]
    BY <1>3, <2>1
  <2>3. QED
    BY <1>1, <2>2
<1>5. ASSUME NEW d \in Conn, SessionStep(d)
      PROVE  Len(writeQueue'[c]) <= Len(writeQueue[c])
  <2>1. CASE DoWrite(d)
    <3>1. CASE writeQueue[d] = <<>>
      BY <1>1, <2>1, <3>1 DEF DoWrite
    <3>2. CASE writeQueue[d] # <<>>
      <4>1. writeQueue' = [writeQueue EXCEPT ![d] = Tail(@)]
        BY <2>1, <3>2 DEF DoWrite, StartWrite
      <4>2. CASE d = c
        <5>1. Len(Tail(writeQueue[c])) = Len(writeQueue[c]) - 1 /\ Len(writeQueue[c]) \in Nat
          BY <1>1, <3>2, <4>2
        <5>2. QED
          BY <4>1, <4>2, <5>1
      <4>3. CASE d # c
        BY <1>1, <4>1, <4>3
      <4>4. QED
        BY <4>2, <4>3
    <3>3. QED
      BY <3>1, <3>2
  <2>2. CASE OnReadMessage(d)
    <3>1. CASE UNCHANGED queueVars
      BY <1>2, <3>1
    <3>2. CASE arrived[d].type = "ping" /\ SendEach(sessions \cap {d}, arrived[d].reply)
      <4>1. writeQueue'[c] = writeQueue[c]
        BY <1>3, <3>2
      <4>2. QED
        BY <1>1, <4>1
    <3>3. QED
      BY <2>2, <3>1, <3>2 DEF OnReadMessage
  <2>3. QED
    BY <1>2, <1>5, <2>1, <2>2
    DEF SessionStep, SocketWritable, OnWrite, OnWriteError, AcceptLoop, OnAccept, OnReadError,
        Close, ClientSends, ClientReads, PeerLost
<1>6. QED
  BY <1>2, <1>4, <1>5 DEF Next, Start, StopBegin, StopCloseSessions, StopIoContext, vars

\* BroadcastToTopic looks every id up in m_sessions (ws_server.cpp): an id left
\* in a topic by a session that is gone gets nothing.
THEOREM RemovedStaysQuiet == Spec => NothingQueuedAfterRemoval
<1>1. TypeOK /\ [Next]_vars =>
        [\A c \in Conn : c \notin sessions => Len(writeQueue'[c]) <= Len(writeQueue[c])]_vars
  BY QuietStep
<1>2. QED
  BY <1>1, TypeCorrect, PTL DEF Spec, NothingQueuedAfterRemoval

----------------------------------------------------------------------------
(* Total order.  Broadcast and BroadcastToTopic hold m_sessionsMutex over   *)
(* all their sessions, so that every queue gets its messages in the order   *)
(* in which the mutex was taken.                                            *)

\* No element is twice in s or t, and what both hold is in the same order.
Agree(s, t) ==
  \A i, j \in 1 .. Len(s), k, l \in 1 .. Len(t) :
    s[i] = t[k] /\ s[j] = t[l] /\ i < j => k < l

\* ws_server.cpp:141-168: two clients that both receive two frames receive them
\* in the same order, whatever threads broadcast and to which topics, and no
\* client receives a frame twice (the case c = d).
SameOrder == \A c, d \in Conn : Agree(wire[c], wire[d])

\* All that was ever queued on c and not lost, oldest first.
Chain(c) == wire[c] \o (deferred[c] \o writeQueue[c])

Awaits(c) == arrived[c].type = "ping"

\* The chains agree, and the message that is to come next is in none of them:
\* not the number of the next caller, nor that of a reply not yet queued.
OrderInv ==
  /\ \A c, d \in Conn : Agree(Chain(c), Chain(d))
  /\ \A c \in Conn : \A i \in 1 .. Len(Chain(c)) : Chain(c)[i] <= nextMsg
  /\ \A c \in Conn : Awaits(c) => arrived[c].reply <= nextMsg
  /\ \A c, d \in Conn : \A i \in 1 .. Len(Chain(d)) :
       Awaits(c) => Chain(d)[i] # arrived[c].reply
  /\ \A c, d \in Conn :
       Awaits(c) /\ Awaits(d) /\ c # d => arrived[c].reply # arrived[d].reply

\* s is what is left of t when some elements are taken out.
Embeds(s, t) ==
  \E g \in [1 .. Len(s) -> 1 .. Len(t)] :
    /\ \A i \in 1 .. Len(s) : s[i] = t[g[i]]
    /\ \A i, j \in 1 .. Len(s) : i < j => g[i] < g[j]

\* A sequence embeds in itself.
LEMMA EmbedsSelf == ASSUME NEW T, NEW s \in Seq(T) PROVE Embeds(s, s)
<1> DEFINE g == [i \in 1 .. Len(s) |-> i]
<1>1. g \in [1 .. Len(s) -> 1 .. Len(s)]
  OBVIOUS
<1>2. \A i \in 1 .. Len(s) : s[i] = s[g[i]]
  OBVIOUS
<1>3. \A i, j \in 1 .. Len(s) : i < j => g[i] < g[j]
  OBVIOUS
<1> HIDE DEF g
<1>4. QED
  BY <1>1, <1>2, <1>3 DEF Embeds

\* Taking the oldest message out of the second part of a concatenation.
LEMMA EmbedsRemoval ==
  ASSUME NEW T, NEW s \in Seq(T), NEW p \in Seq(T), p # <<>>
  PROVE  Embeds(s \o Tail(p), s \o p)
<1> DEFINE u == s \o Tail(p)
           v == s \o p
           g == [i \in 1 .. Len(u) |-> IF i <= Len(s) THEN i ELSE i + 1]
<1>1. /\ Tail(p) \in Seq(T) /\ Len(Tail(p)) = Len(p) - 1
      /\ \A i \in 1 .. Len(Tail(p)) : Tail(p)[i] = p[i + 1]
  BY HeadTailProperties
<1>2. Len(s) \in Nat /\ Len(p) \in Nat /\ Len(p) > 0
  BY LenProperties, EmptySeq
<1>3. /\ Len(u) = Len(s) + Len(p) - 1
      /\ \A i \in 1 .. Len(s) + Len(Tail(p)) :
           u[i] = IF i <= Len(s) THEN s[i] ELSE Tail(p)[i - Len(s)]
  BY <1>1, <1>2, ConcatProperties
<1>4. /\ Len(v) = Len(s) + Len(p)
      /\ \A i \in 1 .. Len(s) + Len(p) : v[i] = IF i <= Len(s) THEN s[i] ELSE p[i - Len(s)]
  BY ConcatProperties
<1> HIDE DEF u, v
<1>5. g \in [1 .. Len(u) -> 1 .. Len(v)]
  BY <1>2, <1>3, <1>4
<1>6. ASSUME NEW i \in 1 .. Len(u) PROVE u[i] = v[g[i]]
  <2>1. i \in 1 .. Len(s) + Len(Tail(p)) /\ i \in Nat
    BY <1>1, <1>2, <1>3
  <2>2. CASE i <= Len(s)
    BY <1>2, <1>3, <1>4, <2>1, <2>2
  <2>3. CASE ~(i <= Len(s))
    <3>1. u[i] = Tail(p)[i - Len(s)] /\ i - Len(s) \in 1 .. Len(Tail(p))
      BY <1>1, <1>2, <1>3, <2>1, <2>3
    <3>2. g[i] = i + 1 /\ i + 1 \in 1 .. Len(s) + Len(p) /\ ~(i + 1 <= Len(s))
      BY <1>2, <1>3, <2>1, <2>3
    <3>3. v[i + 1] = p[i + 1 - Len(s)]
      BY <1>4, <3>2
    <3>4. i + 1 - Len(s) = i - Len(s) + 1
      BY <1>2, <2>1
    <3>5. QED
      BY <1>1, <3>1, <3>2, <3>3, <3>4
  <2>4. QED
    BY <2>2, <2>3
<1>7. \A i, j \in 1 .. Len(u) : i < j => g[i] < g[j]
  BY <1>2, <1>3
<1> HIDE DEF g
<1>8. Embeds(u, v)
  BY <1>5, <1>6, <1>7 DEF Embeds
<1>9. QED
  BY <1>8 DEF u, v

\* Agreement is inherited by what is left of two sequences.
LEMMA AgreeEmbeds ==
  ASSUME NEW T, NEW s \in Seq(T), NEW t \in Seq(T), NEW u \in Seq(T), NEW v \in Seq(T),
         Agree(s, t), Embeds(u, s), Embeds(v, t)
  PROVE  Agree(u, v)
<1>1. PICK g \in [1 .. Len(u) -> 1 .. Len(s)] :
        /\ \A i \in 1 .. Len(u) : u[i] = s[g[i]]
        /\ \A i, j \in 1 .. Len(u) : i < j => g[i] < g[j]
  BY DEF Embeds
<1>2. PICK h \in [1 .. Len(v) -> 1 .. Len(t)] :
        /\ \A i \in 1 .. Len(v) : v[i] = t[h[i]]
        /\ \A i, j \in 1 .. Len(v) : i < j => h[i] < h[j]
  BY DEF Embeds
<1>3. SUFFICES ASSUME NEW i \in 1 .. Len(u), NEW j \in 1 .. Len(u),
                      NEW k \in 1 .. Len(v), NEW l \in 1 .. Len(v),
                      u[i] = v[k], u[j] = v[l], i < j
               PROVE  k < l
  BY DEF Agree
<1>4. g[i] < g[j] /\ s[g[i]] = t[h[k]] /\ s[g[j]] = t[h[l]]
  BY <1>1, <1>2, <1>3
<1>5. g[i] \in 1 .. Len(s) /\ g[j] \in 1 .. Len(s) /\ h[k] \in 1 .. Len(t) /\ h[l] \in 1 .. Len(t)
  BY <1>1, <1>2
<1>6. h[k] < h[l]
  BY <1>4, <1>5 DEF Agree
<1>7. ~(l < k) /\ l # k
  BY <1>2, <1>5, <1>6
<1>8. QED
  BY <1>7

\* In a sequence that may have got m at its end, what is not m was there before.
LEMMA OldElement ==
  ASSUME NEW T, NEW s \in Seq(T), NEW m \in T, NEW u, u = s \/ u = Append(s, m)
  PROVE  \A i \in 1 .. Len(u) :
           /\ i \in 1 .. Len(s) => u[i] = s[i]
           /\ i \notin 1 .. Len(s) => u[i] = m /\ i = Len(s) + 1
<1>1. CASE u = s
  BY <1>1
<1>2. CASE u = Append(s, m)
  <2>1. /\ Len(u) = Len(s) + 1 /\ Len(s) \in Nat
        /\ \A x \in 1 .. Len(s) : u[x] = s[x]
        /\ u[Len(s) + 1] = m
    BY <1>2, AppendProperties, LenProperties
  <2>2. \A i \in 1 .. Len(u) : i \notin 1 .. Len(s) => i = Len(s) + 1
    BY <2>1
  <2>3. QED
    BY <2>1, <2>2
<1>3. QED
  BY <1>1, <1>2

\* Agreement survives a new element at the end of either sequence or of both.
LEMMA AgreeAppend ==
  ASSUME NEW T, NEW s \in Seq(T), NEW t \in Seq(T), NEW m \in T, Agree(s, t),
         \A i \in 1 .. Len(s) : s[i] # m,
         \A i \in 1 .. Len(t) : t[i] # m,
         NEW u, u = s \/ u = Append(s, m), NEW v, v = t \/ v = Append(t, m)
  PROVE  Agree(u, v)
<1> SUFFICES ASSUME NEW i \in 1 .. Len(u), NEW j \in 1 .. Len(u),
                    NEW k \in 1 .. Len(v), NEW l \in 1 .. Len(v),
                    u[i] = v[k], u[j] = v[l], i < j
             PROVE  k < l
  BY DEF Agree
<1>1. Len(s) \in Nat /\ Len(t) \in Nat
  BY LenProperties
<1>2. \A x \in 1 .. Len(u) :
        /\ x \in 1 .. Len(s) => u[x] = s[x]
        /\ x \notin 1 .. Len(s) => u[x] = m /\ x = Len(s) + 1
  BY OldElement
<1>3. \A x \in 1 .. Len(v) :
        /\ x \in 1 .. Len(t) => v[x] = t[x]
        /\ x \notin 1 .. Len(t) => v[x] = m /\ x = Len(t) + 1
  BY OldElement
<1>4. i \in 1 .. Len(s)
  <2>1. j \in 1 .. Len(s) \/ j = Len(s) + 1
    BY <1>2
  <2>2. QED
    BY <1>1, <2>1
<1>5. u[i] = s[i] /\ u[i] # m
  BY <1>2, <1>4
<1>6. k \in 1 .. Len(t) /\ v[k] = t[k]
  BY <1>3, <1>5
<1>7. CASE j \in 1 .. Len(s)
  <2>1. u[j] = s[j] /\ u[j] # m
    BY <1>2, <1>7
  <2>2. l \in 1 .. Len(t) /\ v[l] = t[l]
    BY <1>3, <2>1
  <2>3. QED
    BY <1>4, <1>5, <1>6, <1>7, <2>1, <2>2 DEF Agree
<1>8. CASE j \notin 1 .. Len(s)
  <2>1. u[j] = m
    BY <1>2, <1>8
  <2>2. l \notin 1 .. Len(t)
    BY <1>3, <2>1
  <2>3. l = Len(t) + 1
    BY <1>3, <2>2
  <2>4. QED
    BY <1>1, <1>6, <2>3
<1>9. QED
  BY <1>7, <1>8

LEMMA ChainType == ASSUME TypeOK, NEW c \in Conn
                   PROVE  /\ deferred[c] \o writeQueue[c] \in Seq(Msg)
                          /\ Chain(c) \in Seq(Msg)
<1>1. wire[c] \in Seq(Msg) /\ deferred[c] \in Seq(Msg) /\ writeQueue[c] \in Seq(Msg)
  BY DEF TypeOK
<1>2. QED
  BY <1>1, ConcatProperties DEF Chain

\* What a step may do to the pings that wait for their reply: only a ping that
\* arrives is given a number, and it is a new one.
RepliesKept ==
  /\ nextMsg <= nextMsg'
  /\ \A c \in Conn : Awaits(c)' =>
       \/ arrived'[c] = arrived[c]
       \/ /\ arrived'[c].reply = nextMsg + 1 /\ nextMsg' = nextMsg + 1
          /\ \A d \in Conn \ {c} : arrived'[d] = arrived[d]

LEMMA RepliesStep == ASSUME TypeOK, [Next]_vars PROVE RepliesKept
<1>1. nextMsg \in Nat
  BY WsAssumption DEF TypeOK
<1>2. ASSUME UNCHANGED nextMsg, NEW c \in Conn, NEW msg, ~(msg.type = "ping"),
             arrived' = [arrived EXCEPT ![c] = msg]
      PROVE  RepliesKept
  BY <1>1, <1>2 DEF RepliesKept, Awaits, TypeOK
<1>3. CASE UNCHANGED <<arrived, nextMsg>>
  BY <1>1, <1>3 DEF RepliesKept
<1>4. CASE Caller
  BY <1>1, <1>4 DEF Caller, RepliesKept
<1>5. ASSUME NEW c \in Conn, OnReadMessage(c) \/ OnReadError(c) PROVE RepliesKept
  <2>1. ~(None.type = "ping")
    BY DEF None
  <2>2. arrived' = [arrived EXCEPT ![c] = None] /\ UNCHANGED nextMsg
    BY <1>5 DEF OnReadMessage, OnReadError
  <2>3. QED
    BY <1>2, <2>1, <2>2
<1>6. ASSUME NEW c \in Conn, ClientSends(c) PROVE RepliesKept
  <2>1. CASE /\ arrived' = [arrived EXCEPT ![c] = [type |-> "ping", reply |-> nextMsg + 1]]
             /\ nextMsg' = nextMsg + 1
    BY <1>1, <2>1 DEF RepliesKept, Awaits, TypeOK
  <2>2. CASE /\ \E msg \in ClientMessage :
                  msg.type # "ping" /\ arrived' = [arrived EXCEPT ![c] = msg]
             /\ UNCHANGED nextMsg
    BY <1>2, <2>2
  <2>3. QED
    BY <1>6, <2>1, <2>2 DEF ClientSends
<1>7. ASSUME NEW c \in Conn, SessionStep(c) PROVE RepliesKept
  BY <1>3, <1>5, <1>6, <1>7
     DEF SessionStep, DoWrite, SocketWritable, OnWrite, OnWriteError, AcceptLoop, OnAccept, Close,
         ClientReads, PeerLost
<1>8. QED
  BY <1>3, <1>4, <1>7 DEF Next, Start, StopBegin, StopCloseSessions, StopIoContext, vars

\* The pings waiting keep numbers of their own, in no chain that has got nothing new.
LEMMA RepliesApart ==
  ASSUME TypeOK, TypeOK', OrderInv, RepliesKept
  PROVE  /\ \A c \in Conn : Awaits(c)' => arrived'[c].reply <= nextMsg'
         /\ \A c, d \in Conn : \A i \in 1 .. Len(Chain(d)) :
              Awaits(c)' => Chain(d)[i] # arrived'[c].reply
         /\ \A c, d \in Conn :
              Awaits(c)' /\ Awaits(d)' /\ c # d => arrived'[c].reply # arrived'[d].reply
<1>1. nextMsg \in Nat /\ nextMsg' \in Nat /\ nextMsg <= nextMsg'
  BY WsAssumption DEF TypeOK, RepliesKept
<1>2. ASSUME NEW c \in Conn, Awaits(c) PROVE arrived[c].reply \in Nat /\ arrived[c].reply <= nextMsg
  <2>1. arrived[c] \in ClientMessage
    BY <1>2 DEF TypeOK, Awaits, None
  <2>2. arrived[c].reply \in Msg
    BY <1>2, <2>1 DEF Awaits, ClientMessage
  <2>3. QED
    BY <1>2, <2>2, WsAssumption DEF Msg, OrderInv
<1>3. ASSUME NEW c \in Conn, Awaits(c)', arrived'[c] = arrived[c]
      PROVE  /\ Awaits(c)
             /\ arrived'[c].reply <= nextMsg'
             /\ \A d \in Conn : \A i \in 1 .. Len(Chain(d)) : Chain(d)[i] # arrived'[c].reply
  <2>1. Awaits(c)
    BY <1>3 DEF Awaits
  <2>2. QED
    BY <1>1, <1>2, <1>3, <2>1 DEF OrderInv
<1>4. ASSUME NEW c \in Conn, Awaits(c)', arrived'[c].reply = nextMsg + 1, nextMsg' = nextMsg + 1
      PROVE  /\ arrived'[c].reply <= nextMsg'
             /\ \A d \in Conn : \A i \in 1 .. Len(Chain(d)) : Chain(d)[i] # arrived'[c].reply
  <2>1. ASSUME NEW d \in Conn, NEW i \in 1 .. Len(Chain(d))
        PROVE  Chain(d)[i] # nextMsg + 1
    <3>1. Chain(d)[i] \in Msg
      BY ChainType, ElementOfSeq
    <3>2. Chain(d)[i] <= nextMsg /\ Chain(d)[i] \in Nat
      BY <3>1, WsAssumption DEF Msg, OrderInv
    <3>3. QED
      BY <1>1, <3>2
  <2>2. QED
    BY <1>1, <1>4, <2>1
<1>5. ASSUME NEW c \in Conn, Awaits(c)', NEW d \in Conn, Awaits(d)', c # d
      PROVE  arrived'[c].reply # arrived'[d].reply
  <2>1. CASE arrived'[c] = arrived[c] /\ arrived'[d] = arrived[d]
    BY <1>3, <1>5, <2>1 DEF OrderInv
  <2>2. CASE arrived'[c].reply = nextMsg + 1 /\ arrived'[d] = arrived[d]
    BY <1>1, <1>2, <1>3, <1>5, <2>2
  <2>3. CASE arrived'[d].reply = nextMsg + 1 /\ arrived'[c] = arrived[c]
    BY <1>1, <1>2, <1>3, <1>5, <2>3
  <2>4. QED
    BY <1>5, <2>1, <2>2, <2>3 DEF RepliesKept
<1>6. QED
  BY <1>3, <1>4, <1>5 DEF RepliesKept

\* A step that at most takes messages out of the chains.
LEMMA OrderKept ==
  ASSUME TypeOK, TypeOK', OrderInv, RepliesKept, \A c \in Conn : Embeds(Chain(c)', Chain(c))
  PROVE  OrderInv'
<1>1. ASSUME NEW c \in Conn PROVE Chain(c) \in Seq(Msg) /\ Chain(c)' \in Seq(Msg)
  <2>1. wire'[c] \in Seq(Msg) /\ deferred'[c] \in Seq(Msg) /\ writeQueue'[c] \in Seq(Msg)
    BY DEF TypeOK
  <2>2. Chain(c)' \in Seq(Msg)
    BY <2>1, ConcatProperties DEF Chain
  <2>3. QED
    BY <2>2, ChainType
<1>2. ASSUME NEW c \in Conn, NEW d \in Conn PROVE Agree(Chain(c), Chain(d))'
  <2>1. Agree(Chain(c), Chain(d))
    BY DEF OrderInv
  <2>2. Agree(Chain(c)', Chain(d)')
    BY <1>1, <2>1, AgreeEmbeds
  <2>3. QED
    BY <2>2 DEF Agree
<1>3. ASSUME NEW c \in Conn, NEW i \in 1 .. Len(Chain(c)')
      PROVE  \E j \in 1 .. Len(Chain(c)) : Chain(c)'[i] = Chain(c)[j]
  BY DEF Embeds
<1>4. ASSUME NEW c \in Conn, NEW i \in 1 .. Len(Chain(c)') PROVE Chain(c)'[i] <= nextMsg'
  <2>1. PICK j \in 1 .. Len(Chain(c)) : Chain(c)'[i] = Chain(c)[j]
    BY <1>3
  <2>2. Chain(c)[j] \in Nat /\ Chain(c)[j] <= nextMsg
    BY <1>1, WsAssumption, ElementOfSeq DEF Msg, OrderInv
  <2>3. nextMsg \in Nat /\ nextMsg' \in Nat /\ nextMsg <= nextMsg'
    BY WsAssumption DEF TypeOK, RepliesKept
  <2>4. QED
    BY <2>1, <2>2, <2>3
<1>5. ASSUME NEW c \in Conn, NEW d \in Conn, NEW i \in 1 .. Len(Chain(d)'), Awaits(c)'
      PROVE  Chain(d)'[i] # arrived'[c].reply
  <2>1. PICK j \in 1 .. Len(Chain(d)) : Chain(d)'[i] = Chain(d)[j]
    BY <1>3
  <2>2. QED
    BY <1>5, <2>1, RepliesApart
<1>6. /\ \A c \in Conn : Awaits(c)' => arrived'[c].reply <= nextMsg'
      /\ \A c, d \in Conn :
           Awaits(c)' /\ Awaits(d)' /\ c # d => arrived'[c].reply # arrived'[d].reply
  BY RepliesApart
<1>7. QED
  BY <1>2, <1>4, <1>5, <1>6 DEF OrderInv

\* A step that queues one message, on any number of sessions at once.
LEMMA OrderQueued ==
  ASSUME TypeOK, TypeOK', OrderInv, RepliesKept, NEW m \in Msg, Issued(m),
         \A c \in Conn : Chain(c)' = Chain(c) \/ Chain(c)' = Append(Chain(c), m)
  PROVE  OrderInv'
<1>1. \A c \in Conn : Chain(c) \in Seq(Msg)
  BY ChainType
<1>2. /\ m <= nextMsg'
      /\ \A c \in Conn : \A i \in 1 .. Len(Chain(c)) : Chain(c)[i] # m
      /\ \A c \in Conn : Awaits(c)' => arrived'[c].reply # m
  <2>1. nextMsg \in Nat
    BY WsAssumption DEF TypeOK
  <2>2. CASE m = nextMsg + 1 /\ nextMsg' = m /\ UNCHANGED arrived
    <3>1. ASSUME NEW c \in Conn, NEW i \in 1 .. Len(Chain(c)) PROVE Chain(c)[i] # m
      <4>1. Chain(c)[i] \in Nat /\ Chain(c)[i] <= nextMsg
        BY <1>1, WsAssumption, ElementOfSeq DEF Msg, OrderInv
      <4>2. QED
        BY <2>1, <2>2, <4>1
    <3>2. ASSUME NEW c \in Conn, Awaits(c)' PROVE arrived'[c].reply # m
      <4>1. Awaits(c)
        BY <2>2, <3>2 DEF Awaits
      <4>2. arrived[c].reply <= nextMsg
        BY <4>1 DEF OrderInv
      <4>3. QED
        BY <2>1, <2>2, <4>2
    <3>3. QED
      BY <2>1, <2>2, <3>1, <3>2
  <2>3. ASSUME NEW e \in Conn, Awaits(e), m = arrived[e].reply,
               arrived' = [arrived EXCEPT ![e] = None], UNCHANGED nextMsg
        PROVE  /\ m <= nextMsg'
               /\ \A c \in Conn : \A i \in 1 .. Len(Chain(c)) : Chain(c)[i] # m
               /\ \A c \in Conn : Awaits(c)' => arrived'[c].reply # m
    <3>1. ASSUME NEW c \in Conn, Awaits(c)' PROVE Awaits(c) /\ c # e /\ arrived'[c] = arrived[c]
      BY <2>3, <3>1 DEF Awaits, None, TypeOK
    <3>2. QED
      BY <2>3, <3>1 DEF OrderInv
  <2>4. QED
    BY <2>2, <2>3 DEF Issued, Awaits
<1>3. ASSUME NEW c \in Conn
      PROVE  \A i \in 1 .. Len(Chain(c)') :
               /\ i \in 1 .. Len(Chain(c)) => Chain(c)'[i] = Chain(c)[i]
               /\ i \notin 1 .. Len(Chain(c)) => Chain(c)'[i] = m /\ i = Len(Chain(c)) + 1
  BY <1>1, OldElement
<1>4. ASSUME NEW c \in Conn, NEW d \in Conn PROVE Agree(Chain(c), Chain(d))'
  <2>1. Agree(Chain(c), Chain(d))
    BY DEF OrderInv
  <2>2. /\ Chain(c)' = Chain(c) \/ Chain(c)' = Append(Chain(c), m)
        /\ Chain(d)' = Chain(d) \/ Chain(d)' = Append(Chain(d), m)
    OBVIOUS
  <2>3. /\ Chain(c) \in Seq(Msg) /\ \A i \in 1 .. Len(Chain(c)) : Chain(c)[i] # m
        /\ Chain(d) \in Seq(Msg) /\ \A i \in 1 .. Len(Chain(d)) : Chain(d)[i] # m
    BY <1>1, <1>2
  <2>4. Agree(Chain(c)', Chain(d)')
    BY ONLY m \in Msg, <2>1, <2>2, <2>3, AgreeAppend
  <2>5. QED
    BY <2>4 DEF Agree
<1>5. ASSUME NEW c \in Conn, NEW i \in 1 .. Len(Chain(c)') PROVE Chain(c)'[i] <= nextMsg'
  <2>1. CASE i \in 1 .. Len(Chain(c))
    <3>1. Chain(c)'[i] = Chain(c)[i]
      BY <1>3, <2>1
    <3>2. Chain(c)[i] \in Nat /\ Chain(c)[i] <= nextMsg
      BY <1>1, <2>1, WsAssumption, ElementOfSeq DEF Msg, OrderInv
    <3>3. nextMsg \in Nat /\ nextMsg' \in Nat /\ nextMsg <= nextMsg'
      BY WsAssumption DEF TypeOK, RepliesKept
    <3>4. QED
      BY <3>1, <3>2, <3>3
  <2>2. CASE i \notin 1 .. Len(Chain(c))
    BY <1>2, <1>3, <2>2
  <2>3. QED
    BY <2>1, <2>2
<1>6. ASSUME NEW c \in Conn, NEW d \in Conn, NEW i \in 1 .. Len(Chain(d)'), Awaits(c)'
      PROVE  Chain(d)'[i] # arrived'[c].reply
  <2>1. CASE i \in 1 .. Len(Chain(d))
    <3>1. Chain(d)'[i] = Chain(d)[i]
      BY <1>3, <2>1
    <3>2. QED
      BY <1>6, <2>1, <3>1, RepliesApart
  <2>2. CASE i \notin 1 .. Len(Chain(d))
    BY <1>2, <1>3, <1>6, <2>2
  <2>3. QED
    BY <2>1, <2>2
<1>7. /\ \A c \in Conn : Awaits(c)' => arrived'[c].reply <= nextMsg'
      /\ \A c, d \in Conn :
           Awaits(c)' /\ Awaits(d)' /\ c # d => arrived'[c].reply # arrived'[d].reply
  BY RepliesApart
<1>8. QED
  BY <1>4, <1>5, <1>6, <1>7 DEF OrderInv

\* Moving the first element of the second sequence to the end of the first one.
LEMMA ConcatMoves ==
  ASSUME NEW T, NEW s \in Seq(T), NEW p \in Seq(T), p # <<>>
  PROVE  Append(s, Head(p)) \o Tail(p) = s \o p
<1>1. Head(p) \in T /\ Tail(p) \in Seq(T)
  BY HeadTailProperties
<1>2. <<Head(p)>> \in Seq(T)
  BY <1>1
<1>3. Append(s, Head(p)) = s \o <<Head(p)>>
  BY <1>1, AppendIsConcat
<1>4. (s \o <<Head(p)>>) \o Tail(p) = s \o (<<Head(p)>> \o Tail(p))
  BY <1>1, <1>2, ConcatAssociative
<1>5. <<Head(p)>> \o Tail(p) = p
  OBVIOUS
<1>6. QED
  BY <1>3, <1>4, <1>5

\* In the terms of the channel: a Transmit leaves the chain as it is, a Lose takes
\* one message out of it, an Enqueue puts one at its end.
LEMMA OrderStep ==
  ASSUME TypeOK, TypeOK', WriterInv, OrderInv, [Next]_vars
  PROVE  OrderInv'
<1> DEFINE P == [c \in Conn |-> deferred[c] \o writeQueue[c]]
<1>1. ASSUME NEW c \in Conn
      PROVE  /\ P[c] \in Seq(Msg) /\ wire[c] \in Seq(Msg)
             /\ Chain(c) = wire[c] \o P[c] /\ Chain(c)' = wire'[c] \o P'[c]
             /\ Chain(c) \in Seq(Msg)
  BY ChainType DEF Chain, TypeOK
<1>2. RepliesKept
  BY RepliesStep
<1> HIDE DEF P
<1>3. CASE UNCHANGED Channel!vars
  <2>1. P' = P /\ wire' = wire
    BY <1>3 DEF Channel!vars, P
  <2>2. \A c \in Conn : Embeds(Chain(c)', Chain(c))
    BY <1>1, <2>1, EmbedsSelf
  <2>3. QED
    BY <1>2, <2>2, OrderKept
<1>4. ASSUME NEW e \in Conn, Channel!Transmit(e) PROVE OrderInv'
  <2>1. /\ P[e] # <<>>
        /\ wire' = [wire EXCEPT ![e] = Append(@, Head(P[e]))]
        /\ P' = [P EXCEPT ![e] = Tail(@)]
    BY <1>4 DEF Channel!Transmit, P
  <2>2. ASSUME NEW c \in Conn PROVE Chain(c)' = Chain(c)
    <3>1. CASE c = e
      <4>1. wire'[c] = Append(wire[c], Head(P[c])) /\ P'[c] = Tail(P[c])
        BY <2>1, <3>1 DEF P, TypeOK
      <4>2. Append(wire[c], Head(P[c])) \o Tail(P[c]) = wire[c] \o P[c]
        BY <1>1, <2>1, <3>1, ConcatMoves
      <4>3. QED
        BY <1>1, <4>1, <4>2
    <3>2. CASE c # e
      <4>1. wire'[c] = wire[c] /\ P'[c] = P[c]
        BY <2>1, <3>2 DEF P, TypeOK
      <4>2. QED
        BY <1>1, <4>1
    <3>3. QED
      BY <3>1, <3>2
  <2>3. \A c \in Conn : Embeds(Chain(c)', Chain(c))
    BY <1>1, <2>2, EmbedsSelf
  <2>4. QED
    BY <1>2, <2>3, OrderKept
<1>5. ASSUME NEW e \in Conn, Channel!Lose(e) PROVE OrderInv'
  <2>1. P[e] # <<>> /\ wire' = wire /\ P' = [P EXCEPT ![e] = Tail(@)]
    BY <1>5 DEF Channel!Lose, P
  <2>2. ASSUME NEW c \in Conn PROVE Embeds(Chain(c)', Chain(c))
    <3>1. CASE c = e
      <4>1. wire'[c] = wire[c] /\ P'[c] = Tail(P[c])
        BY <2>1, <3>1 DEF P
      <4>2. Embeds(wire[c] \o Tail(P[c]), wire[c] \o P[c])
        BY <1>1, <2>1, <3>1, EmbedsRemoval
      <4>3. QED
        BY <1>1, <4>1, <4>2
    <3>2. CASE c # e
      <4>1. wire'[c] = wire[c] /\ P'[c] = P[c]
        BY <2>1, <3>2 DEF P
      <4>2. QED
        BY <1>1, <4>1, EmbedsSelf
    <3>3. QED
      BY <3>1, <3>2
  <2>3. QED
    BY <1>2, <2>2, OrderKept
<1>6. ASSUME NEW S \in SUBSET Conn, NEW m \in Msg, Channel!Enqueue(S, m), Issued(m)
      PROVE  OrderInv'
  <2>1. /\ P' = [c \in Conn |-> IF c \in S THEN Append(P[c], m) ELSE P[c]]
        /\ wire' = wire
    BY <1>6 DEF Channel!Enqueue, P
  <2>2. ASSUME NEW c \in Conn PROVE Chain(c)' = Chain(c) \/ Chain(c)' = Append(Chain(c), m)
    <3>1. CASE c \in S
      <4>1. Chain(c)' = wire[c] \o Append(P[c], m)
        BY <1>1, <2>1, <3>1
      <4>2. \A f, q \in Seq(Msg) : f \o Append(q, m) = Append(f \o q, m)
        BY ConcatAppend
      <4>3. QED
        BY <1>1, <4>1, <4>2
    <3>2. CASE c \notin S
      <4>1. Chain(c)' = wire[c] \o P[c]
        BY <1>1, <2>1, <3>2
      <4>2. QED
        BY <1>1, <4>1
    <3>3. QED
      BY <3>1, <3>2
  <2>3. QED
    BY <1>2, <1>6, <2>2, OrderQueued
<1>7. QED
  BY <1>3, <1>4, <1>5, <1>6, ChannelMoves

\* What has left for the clients is the beginning of the chains.
LEMMA OrderShows == ASSUME TypeOK, OrderInv PROVE SameOrder
<1> SUFFICES ASSUME NEW c \in Conn, NEW d \in Conn PROVE Agree(wire[c], wire[d])
  BY DEF SameOrder
<1>1. ASSUME NEW e \in Conn
      PROVE  /\ 1 .. Len(wire[e]) \subseteq 1 .. Len(Chain(e))
             /\ \A i \in 1 .. Len(wire[e]) : Chain(e)[i] = wire[e][i]
  <2>1. wire[e] \in Seq(Msg) /\ deferred[e] \o writeQueue[e] \in Seq(Msg)
    BY ChainType DEF TypeOK
  <2> DEFINE w == wire[e]
             p == deferred[e] \o writeQueue[e]
  <2>2. Len(w) \in Nat /\ Len(p) \in Nat
    BY <2>1, LenProperties
  <2>3. /\ Len(w \o p) = Len(w) + Len(p)
        /\ \A i \in 1 .. Len(w) + Len(p) : (w \o p)[i] = IF i <= Len(w) THEN w[i] ELSE p[i - Len(w)]
    BY <2>1, ConcatProperties
  <2> HIDE DEF w, p
  <2>4. 1 .. Len(w) \subseteq 1 .. Len(w \o p) /\ \A i \in 1 .. Len(w) : (w \o p)[i] = w[i]
    BY <2>2, <2>3
  <2>5. QED
    BY <2>4 DEF Chain, w, p
<1>2. Agree(Chain(c), Chain(d))
  BY DEF OrderInv
<1>3. QED
  BY <1>1, <1>2 DEF Agree

\* The clients see one order of all broadcasts: any two of them receive the
\* frames that both receive in the same order, and none of them twice.
THEOREM BroadcastsAreOrdered == Spec => []SameOrder
<1>1. Init => WriterInv
  BY DEF Init, WriterInv, SingleWriter, NoLostWakeup, UnderWay
<1>2. Init => OrderInv
  <2> SUFFICES ASSUME Init PROVE OrderInv
    OBVIOUS
  <2>1. \A c \in Conn : Len(Chain(c)) = 0 /\ ~Awaits(c)
    BY DEF Init, Chain, Awaits, None
  <2>2. QED
    BY <2>1 DEF OrderInv, Agree
<1>3. QED
  BY <1>1, <1>2, TypeCorrect, WriterStep, OrderStep, OrderShows, PTL DEF Spec

=============================================================================
