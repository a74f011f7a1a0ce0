--------------------------- MODULE MqttClient_proofs ---------------------------
(***************************************************************************)
(* Theorems about MqttClient for any finite set of topics, persistent or   *)
(* clean sessions, and any bounds on connections and queued commands.      *)
(***************************************************************************)
EXTENDS MqttClient, FiniteSetTheorems, FunctionTheorems, SequenceTheorems, TLAPS

----------------------------------------------------------------------------
(* What the broker will hold, by what is done to the commands *)

\* A command that is issued decides for its topic and for no other.
LEMMA HoldsIssued ==
  ASSUME NEW cs \in Seq(Command), NEW c \in Command, NEW subs, NEW t
  PROVE  HoldsAfter(Append(cs, c), subs, t) <=>
           IF c.topic = t THEN c.cmd = "subscribe" ELSE HoldsAfter(cs, subs, t)
<1> DEFINE n == Len(cs)
           ds == Append(cs, c)
<1>1. /\ n \in Nat /\ DOMAIN cs = 1..n /\ DOMAIN ds = 1..(n + 1)
      /\ ds[n + 1] = c /\ \A i \in 1..n : ds[i] = cs[i]
  OBVIOUS
<1> HIDE DEF n, ds
<1>2. \A i \in 1..(n + 1) : i = n + 1 \/ i \in 1..n
  BY <1>1
<1>3. c = [cmd |-> c.cmd, topic |-> c.topic]
  BY DEF Command
<1>4. CASE c.topic = t /\ c.cmd = "subscribe"
  <2>1. n + 1 \in DOMAIN ds /\ ds[n + 1] = [cmd |-> "subscribe", topic |-> t]
        /\ \A j \in DOMAIN ds : j <= n + 1
    BY <1>1, <1>3, <1>4
  <2>2. HoldsAfter(ds, subs, t)
    BY <2>1 DEF HoldsAfter
  <2>3. QED
    BY <1>4, <2>2 DEF ds
<1>5. CASE c.topic = t /\ c.cmd # "subscribe"
  <2>1. n + 1 \in DOMAIN ds /\ ds[n + 1].topic = t
    BY <1>1, <1>5
  <2>2. ASSUME NEW i \in DOMAIN ds, ds[i] = [cmd |-> "subscribe", topic |-> t],
               \A j \in DOMAIN ds : ds[j].topic = t => j <= i
        PROVE  FALSE
    <3>1. i = n + 1
      BY <1>1, <2>1, <2>2
    <3>2. c.cmd = "subscribe"
      BY <1>1, <2>2, <3>1
    <3>3. QED
      BY <1>5, <3>2
  <2>3. ~HoldsAfter(ds, subs, t)
    BY <2>1, <2>2 DEF HoldsAfter
  <2>4. QED
    BY <1>5, <2>3 DEF ds
<1>6. CASE c.topic # t
  <2>1. ds[n + 1] # [cmd |-> "subscribe", topic |-> t]
    BY <1>1, <1>6
  <2>2. HoldsAfter(ds, subs, t) <=> HoldsAfter(cs, subs, t)
    BY <1>1, <1>2, <1>6, <2>1 DEF HoldsAfter
  <2>3. QED
    BY <1>6, <2>2 DEF ds
<1>7. QED
  BY <1>4, <1>5, <1>6

\* Carrying out the first command changes nothing about the outcome.
LEMMA HoldsExecuted ==
  ASSUME NEW cs \in Seq(Command), cs # <<>>, NEW subs, NEW t
  PROVE  LET c == Head(cs)
             after == IF c.cmd = "subscribe" THEN subs \cup {c.topic} ELSE subs \ {c.topic}
         IN  HoldsAfter(Tail(cs), after, t) <=> HoldsAfter(cs, subs, t)
<1> DEFINE n == Len(cs)
           c == Head(cs)
           ds == Tail(cs)
           after == IF c.cmd = "subscribe" THEN subs \cup {c.topic} ELSE subs \ {c.topic}
<1>1. /\ n \in Nat \ {0} /\ DOMAIN cs = 1..n /\ DOMAIN ds = 1..(n - 1)
      /\ c = cs[1] /\ c \in Command /\ \A i \in 1..(n - 1) : ds[i] = cs[i + 1]
  OBVIOUS
<1>2. t \in after <=> IF c.topic = t THEN c.cmd = "subscribe" ELSE t \in subs
  OBVIOUS
<1>3. c.cmd = "subscribe" /\ c.topic = t <=> c = [cmd |-> "subscribe", topic |-> t]
  BY <1>1 DEF Command
<1> HIDE DEF n, c, ds, after
<1>4. \A i \in 1..n : i = 1 \/ (i - 1 \in 1..(n - 1) /\ cs[i] = ds[i - 1])
  BY <1>1
<1>5. ASSUME NEW i \in 1..(n - 1)
      PROVE  (\A j \in 1..(n - 1) : ds[j].topic = t => j <= i) <=>
               (\A j \in 1..n : cs[j].topic = t => j <= i + 1)
  <2>1. ASSUME \A j \in 1..(n - 1) : ds[j].topic = t => j <= i, NEW j \in 1..n, cs[j].topic = t
        PROVE  j <= i + 1
    BY <1>1, <1>4, <2>1
  <2>2. ASSUME \A j \in 1..n : cs[j].topic = t => j <= i + 1, NEW j \in 1..(n - 1), ds[j].topic = t
        PROVE  j <= i
    <3>1. j + 1 \in 1..n /\ cs[j + 1].topic = t
      BY <1>1, <2>2
    <3>2. j + 1 <= i + 1
      BY <2>2, <3>1
    <3>3. QED
      BY <3>2
  <2>3. QED
    BY <2>1, <2>2
<1>6. ASSUME HoldsAfter(ds, after, t) PROVE HoldsAfter(cs, subs, t)
  <2>1. CASE \E i \in 1..(n - 1) : /\ ds[i] = [cmd |-> "subscribe", topic |-> t]
                                  /\ \A j \in 1..(n - 1) : ds[j].topic = t => j <= i
    <3>1. PICK i \in 1..(n - 1) : /\ ds[i] = [cmd |-> "subscribe", topic |-> t]
                                  /\ \A j \in 1..(n - 1) : ds[j].topic = t => j <= i
      BY <2>1
    <3>2. i + 1 \in 1..n /\ cs[i + 1] = [cmd |-> "subscribe", topic |-> t]
      BY <1>1, <3>1
    <3>3. \A j \in 1..n : cs[j].topic = t => j <= i + 1
      BY <1>5, <3>1
    <3>4. QED
      BY <1>1, <3>2, <3>3 DEF HoldsAfter
  <2>2. CASE t \in after /\ \A i \in 1..(n - 1) : ds[i].topic # t
    <3>1. CASE c.topic = t
      <4>1. 1 \in DOMAIN cs /\ cs[1] = [cmd |-> "subscribe", topic |-> t]
        BY <1>1, <1>2, <1>3, <2>2, <3>1
      <4>2. \A j \in DOMAIN cs : cs[j].topic = t => j <= 1
        BY <1>1, <1>4, <2>2
      <4>3. QED
        BY <4>1, <4>2 DEF HoldsAfter
    <3>2. CASE c.topic # t
      BY <1>1, <1>2, <1>4, <2>2, <3>2 DEF HoldsAfter
    <3>3. QED
      BY <3>1, <3>2
  <2>3. QED
    BY <1>1, <1>6, <2>1, <2>2 DEF HoldsAfter
<1>7. ASSUME HoldsAfter(cs, subs, t) PROVE HoldsAfter(ds, after, t)
  <2>1. CASE \E i \in 1..n : /\ cs[i] = [cmd |-> "subscribe", topic |-> t]
                            /\ \A j \in 1..n : cs[j].topic = t => j <= i
    <3>1. PICK i \in 1..n : /\ cs[i] = [cmd |-> "subscribe", topic |-> t]
                            /\ \A j \in 1..n : cs[j].topic = t => j <= i
      BY <2>1
    <3>2. CASE i = 1
      <4>1. t \in after
        BY <1>1, <1>2, <1>3, <3>1, <3>2
      <4>2. ASSUME NEW k \in 1..(n - 1), ds[k].topic = t PROVE FALSE
        <5>1. k + 1 \in 1..n /\ cs[k + 1].topic = t
          BY <1>1, <4>2
        <5>2. k + 1 <= 1
          BY <3>1, <3>2, <5>1
        <5>3. QED
          BY <5>2
      <4>3. QED
        BY <1>1, <4>1, <4>2 DEF HoldsAfter
    <3>3. CASE i # 1
      <4>1. i - 1 \in 1..(n - 1) /\ ds[i - 1] = [cmd |-> "subscribe", topic |-> t]
        BY <1>4, <3>1, <3>3
      <4>2. \A j \in 1..(n - 1) : ds[j].topic = t => j <= i - 1
        BY <1>5, <3>1, <4>1
      <4>3. QED
        BY <1>1, <4>1, <4>2 DEF HoldsAfter
    <3>4. QED
      BY <3>2, <3>3
  <2>2. CASE t \in subs /\ \A i \in 1..n : cs[i].topic # t
    <3>1. t \in after
      BY <1>1, <1>2, <2>2
    <3>2. \A i \in 1..(n - 1) : ds[i].topic # t
      <4>1. \A i \in 1..(n - 1) : i + 1 \in 1..n /\ ds[i] = cs[i + 1]
        BY <1>1
      <4>2. QED
        BY <2>2, <4>1
    <3>3. QED
      BY <1>1, <3>1, <3>2 DEF HoldsAfter
  <2>3. QED
    BY <1>1, <1>7, <2>1, <2>2 DEF HoldsAfter
<1>8. QED
  BY <1>6, <1>7 DEF after, c, ds

\* Renewing the topics of S makes the broker hold them and changes no other.
LEMMA HoldsRenewed ==
  ASSUME NEW cs \in Seq(Command), NEW S, IsFiniteSet(S), NEW w \in Walks(S), NEW subs, NEW t
  PROVE  LET ds == cs \o [i \in DOMAIN w |-> [cmd |-> "subscribe", topic |-> w[i]]]
         IN  HoldsAfter(ds, subs, t) <=> (t \in S \/ HoldsAfter(cs, subs, t))
<1> DEFINE n == Len(cs)
           m == Cardinality(S)
           r == [i \in DOMAIN w |-> [cmd |-> "subscribe", topic |-> w[i]]]
           ds == cs \o r
<1>1. /\ m \in Nat /\ n \in Nat /\ DOMAIN w = 1..m
      /\ \A i \in 1..m : w[i] \in S
      /\ \A s \in S : \E i \in 1..m : w[i] = s
  BY FS_CardinalityType DEF Walks
<1>2. r \in Seq({[cmd |-> "subscribe", topic |-> s] : s \in S}) /\ Len(r) = m
  BY <1>1
<1>3. /\ DOMAIN cs = 1..n /\ DOMAIN ds = 1..(n + m)
      /\ \A i \in 1..n : ds[i] = cs[i]
      /\ \A i \in 1..m : ds[n + i] = [cmd |-> "subscribe", topic |-> w[i]]
  BY <1>1, <1>2
<1> HIDE DEF n, m, r, ds
<1>4. \A i \in 1..(n + m) : i \in 1..n \/ \E k \in 1..m : i = n + k
  <2> SUFFICES ASSUME NEW i \in 1..(n + m), i \notin 1..n PROVE \E k \in 1..m : i = n + k
    OBVIOUS
  <2>1. i - n \in 1..m /\ i = n + (i - n)
    BY <1>1
  <2>2. QED
    BY <2>1
<1>5. CASE t \in S
  <2>1. \A i, j \in 1..m : w[i] = w[j] => i = j
    <3>1. w \in Surjection(1..m, S)
      BY <1>1, Fun_IsSurj DEF Walks, m
    <3>2. IsFiniteSet(1..m) /\ Cardinality(1..m) = m
      BY <1>1, FS_Interval
    <3>3. w \in Injection(1..m, S)
      BY <3>1, <3>2, FS_SurjSameCardinalityImpliesInj DEF m
    <3>4. QED
      BY <3>3, Fun_InjectionProperties
  <2>2. PICK k \in 1..m : w[k] = t
    BY <1>1, <1>5
  <2>3. n + k \in 1..(n + m) /\ ds[n + k] = [cmd |-> "subscribe", topic |-> t]
    BY <1>1, <1>3, <2>2
  <2>4. ASSUME NEW j \in 1..(n + m), ds[j].topic = t PROVE j <= n + k
    <3>1. CASE j \in 1..n
      BY <1>1, <3>1
    <3>2. CASE \E l \in 1..m : j = n + l
      <4>1. PICK l \in 1..m : j = n + l
        BY <3>2
      <4>2. w[l] = t
        <5>1. ds[n + l] = [cmd |-> "subscribe", topic |-> w[l]]
          BY <1>3
        <5>2. ds[n + l].topic = w[l]
          BY <5>1
        <5>3. QED
          BY <2>4, <4>1, <5>2
      <4>3. QED
        BY <2>1, <2>2, <4>1, <4>2
    <3>3. QED
      BY <1>4, <3>1, <3>2
  <2>5. HoldsAfter(ds, subs, t)
    BY <1>3, <2>3, <2>4 DEF HoldsAfter
  <2>6. QED
    BY <1>5, <2>5 DEF ds, r
<1>6. CASE t \notin S
  <2>1. ASSUME NEW k \in 1..m PROVE ds[n + k].topic # t
    <3>1. ds[n + k] = [cmd |-> "subscribe", topic |-> w[k]]
      BY <1>3
    <3>2. ds[n + k].topic = w[k]
      BY <3>1
    <3>3. QED
      BY <1>1, <1>6, <3>2
  <2>2. \A i \in 1..n : i \in 1..(n + m)
    BY <1>1
  <2>3. \A i \in 1..(n + m) : ds[i].topic = t => i \in 1..n
    BY <1>4, <2>1
  <2>4. HoldsAfter(ds, subs, t) <=> HoldsAfter(cs, subs, t)
    <3>1. ASSUME NEW i \in 1..n
          PROVE  (\A j \in 1..(n + m) : ds[j].topic = t => j <= i) <=>
                   (\A j \in 1..n : cs[j].topic = t => j <= i)
      BY <1>3, <2>2, <2>3
    <3>2. ASSUME NEW i \in 1..(n + m), ds[i] = [cmd |-> "subscribe", topic |-> t]
          PROVE  i \in 1..n
      BY <2>3, <3>2
    <3>3. (\A i \in 1..(n + m) : ds[i].topic # t) <=> \A i \in 1..n : cs[i].topic # t
      BY <1>3, <2>2, <2>3
    <3>4. (\E i \in 1..(n + m) : /\ ds[i] = [cmd |-> "subscribe", topic |-> t]
                                 /\ \A j \in 1..(n + m) : ds[j].topic = t => j <= i) <=>
             \E i \in 1..n : /\ cs[i] = [cmd |-> "subscribe", topic |-> t]
                             /\ \A j \in 1..n : cs[j].topic = t => j <= i
      BY <1>3, <2>2, <3>1, <3>2
    <3>5. QED
      BY <1>3, <3>3, <3>4 DEF HoldsAfter
  <2>5. QED
    BY <1>6, <2>4 DEF ds, r
<1>7. QED
  BY <1>5, <1>6

----------------------------------------------------------------------------
(* Types *)

LEMMA CallFields ==
  /\ Idle \in Call /\ Idle.op = "idle"
  /\ \A op \in {"connecting", "leaving", "disconnecting", "closed", "destroyed"} : [op |-> op] \in Call
  /\ \A op \in {"checked", "subscribing", "unsubscribing"}, t \in Topic :
       [op |-> op, topic |-> t] \in Call
  /\ \A c \in Call : c.op \in {"checked", "subscribing", "unsubscribing"} => c.topic \in Topic
BY DEF Call, Idle

LEMMA CommandType ==
  \A t \in Topic : /\ [cmd |-> "subscribe", topic |-> t] \in Command
                   /\ [cmd |-> "unsubscribe", topic |-> t] \in Command
BY DEF Command

LEMMA RenewalType ==
  ASSUME NEW S \in SUBSET Topic, NEW w \in Walks(S)
  PROVE  /\ IsFiniteSet(S)
         /\ [i \in DOMAIN w |-> [cmd |-> "subscribe", topic |-> w[i]]] \in Seq(Command)
<1>1. IsFiniteSet(S) /\ Cardinality(S) \in Nat
  BY MqttAssumption, FS_Subset, FS_CardinalityType DEF MqttAssumption
<1>2. DOMAIN w = 1..Cardinality(S) /\ \A i \in DOMAIN w : w[i] \in Topic
  BY DEF Walks
<1>3. \A i \in 1..Cardinality(S) : [cmd |-> "subscribe", topic |-> w[i]] \in Command
  BY <1>2, CommandType
<1>4. QED
  BY <1>1, <1>2, <1>3

Callbacks == {"success", "failure", "connected", "resubscribe", "lost"}

LEMMA CallbackTypes ==
  /\ <<>> \in Seq(Callbacks)
  /\ \A c \in Callbacks : <<c>> \in Seq(Callbacks)
  /\ <<"success", "connected">> \in Seq(Callbacks)
  /\ \A q \in Seq(Callbacks) : q # <<>> => /\ Tail(q) \in Seq(Callbacks)
                                          /\ <<"resubscribe">> \o Tail(q) \in Seq(Callbacks)
BY DEF Callbacks

LEMMA CommandTypes ==
  /\ <<>> \in Seq(Command)
  /\ \A q \in Seq(Command) : /\ \A c \in Command : Append(q, c) \in Seq(Command)
                             /\ \A r \in Seq(Command) : q \o r \in Seq(Command)
                             /\ q # <<>> => Head(q) \in Command /\ Tail(q) \in Seq(Command)
OBVIOUS

LEMMA TypeInit == Init => TypeOK
<1> SUFFICES ASSUME Init PROVE TypeOK
  OBVIOUS
<1>1. callbacks \in Seq(Callbacks) /\ commands \in Seq(Command)
  BY CallbackTypes, CommandTypes DEF Init
<1>2. brokerSubs \subseteq Topic /\ links \in 0..MaxLinks
  BY MqttAssumption DEF Init, MqttAssumption
<1>3. QED
  BY <1>1, <1>2, CallFields DEF Init, TypeOK, Callbacks

LEMMA TypeStep == ASSUME TypeOK, [Next]_vars PROVE TypeOK'
<1>1. callbacks \in Seq(Callbacks) /\ commands \in Seq(Command)
  BY DEF TypeOK, Callbacks
<1>2. ASSUME \/ UNCHANGED callbacks \/ callbacks' = <<>>
             \/ \E c \in Callbacks : callbacks' = <<c>>
             \/ callbacks' = <<"success", "connected">>
             \/ callbacks # <<>> /\ callbacks' \in {Tail(callbacks), <<"resubscribe">> \o Tail(callbacks)}
      PROVE  callbacks' \in Seq(Callbacks)
  BY <1>1, <1>2, CallbackTypes
<1>3. ASSUME \/ UNCHANGED commands \/ commands' = <<>>
             \/ \E c \in Command : commands' = Append(commands, c)
             \/ \E r \in Seq(Command) : commands' = commands \o r
             \/ commands # <<>> /\ commands' = Tail(commands)
      PROVE  commands' \in Seq(Command)
  BY <1>1, <1>3, CommandTypes
<1> DEFINE Rest ==
      /\ connected \in BOOLEAN
      /\ subscriptions \subseteq Topic
      /\ connectDone \in BOOLEAN /\ connectSuccess \in BOOLEAN
      /\ connectResult \in {"none", "ok", "failed", "timeout"}
      /\ call \in Call
      /\ link \in {"off", "trying", "up"}
      /\ links \in 0..MaxLinks
      /\ brokerSubs \subseteq Topic
      /\ overtaken \in BOOLEAN
      /\ straddled \subseteq Topic
      /\ released \subseteq Topic
      /\ crossed \in BOOLEAN
<1>4. TypeOK' <=> Rest' /\ callbacks' \in Seq(Callbacks) /\ commands' \in Seq(Command)
  BY DEF TypeOK, Callbacks
<1>5. Rest
  BY DEF TypeOK
<1> USE DEF apiVars, linkVars, history
<1>6. CASE Connect
  BY <1>1, <1>4, <1>5, <1>6, CallFields DEF Connect
<1>7. CASE ConnectReturns \/ ConnectTimesOut
  BY <1>1, <1>4, <1>5, <1>7, CallFields DEF ConnectReturns, ConnectTimesOut
<1>8. ASSUME NEW t \in Topic, SubscribeChecks(t) PROVE TypeOK'
  BY <1>1, <1>4, <1>5, <1>8, CallFields DEF SubscribeChecks
<1>9. ASSUME NEW t \in Topic, UnsubscribeIssues(t) PROVE TypeOK'
  <2>1. commands' \in Seq(Command)
    BY <1>3, <1>9, CommandType DEF UnsubscribeIssues
  <2>2. Rest' /\ UNCHANGED callbacks
    BY <1>5, <1>9, CallFields DEF UnsubscribeIssues
  <2>3. QED
    BY <1>1, <1>4, <2>1, <2>2
<1>10. CASE SubscribeIssues
  <2>1. call.topic \in Topic
    BY <1>5, <1>10, CallFields DEF SubscribeIssues
  <2>2. commands' \in Seq(Command)
    BY <1>3, <1>10, <2>1, CommandType DEF SubscribeIssues
  <2>3. Rest' /\ UNCHANGED callbacks
    BY <1>5, <1>10, <2>1, CallFields DEF SubscribeIssues
  <2>4. QED
    BY <1>1, <1>4, <2>2, <2>3
<1>11. CASE SubscribeRecords \/ UnsubscribeErases
  <2>1. call.topic \in Topic
    BY <1>5, <1>11, CallFields DEF SubscribeRecords, UnsubscribeErases
  <2>2. Rest' /\ UNCHANGED <<callbacks, commands>>
    BY <1>5, <1>11, <2>1, CallFields DEF SubscribeRecords, UnsubscribeErases
  <2>3. QED
    BY <1>1, <1>4, <2>2
<1>12. CASE DisconnectChecks \/ DisconnectIssues \/ DisconnectResets \/ Destroy
  <2>1. Rest'
    BY <1>5, <1>12, CallFields DEF DisconnectChecks, DisconnectIssues, DisconnectResets, Destroy
  <2>2. callbacks' \in Seq(Callbacks) /\ commands' \in Seq(Command)
    BY <1>2, <1>3, <1>12 DEF DisconnectChecks, DisconnectIssues, DisconnectResets, Destroy
  <2>3. QED
    BY <1>4, <2>1, <2>2
<1>13. CASE OnConnectSuccess \/ OnConnectFailure \/ OnConnected \/ OnConnectionLost
  <2>1. Rest' /\ UNCHANGED commands
    BY <1>5, <1>13 DEF OnConnectSuccess, OnConnectFailure, OnConnected, OnConnectionLost
  <2>2. callbacks' \in Seq(Callbacks)
    BY <1>2, <1>13 DEF OnConnectSuccess, OnConnectFailure, OnConnected, OnConnectionLost, Due
  <2>3. QED
    BY <1>1, <1>4, <2>1, <2>2
<1>14. CASE ResubscribeAll
  <2>1. Rest'
    BY <1>5, <1>14 DEF ResubscribeAll
  <2>2. callbacks' \in Seq(Callbacks)
    BY <1>2, <1>14 DEF ResubscribeAll, Due
  <2>3. commands' \in Seq(Command)
    BY <1>3, <1>5, <1>14, RenewalType DEF ResubscribeAll
  <2>4. QED
    BY <1>4, <2>1, <2>2, <2>3
<1>15. CASE BrokerAccepts \/ FirstAttemptFails
  <2>1. Rest' /\ UNCHANGED commands
    BY <1>5, <1>15, MqttAssumption DEF BrokerAccepts, FirstAttemptFails, MqttAssumption
  <2>2. callbacks' \in Seq(Callbacks)
    BY <1>2, <1>15 DEF BrokerAccepts, FirstAttemptFails, Callbacks
  <2>3. QED
    BY <1>1, <1>4, <2>1, <2>2
<1>16. CASE LinkLost
  <2>1. Rest'
    BY <1>5, <1>16 DEF LinkLost
  <2>2. callbacks' \in Seq(Callbacks) /\ commands' \in Seq(Command)
    BY <1>2, <1>3, <1>16 DEF LinkLost, Callbacks
  <2>3. QED
    BY <1>4, <2>1, <2>2
<1>17. CASE BrokerExecutes
  <2>1. Head(commands).topic \in Topic
    BY <1>1, <1>17, CommandTypes DEF BrokerExecutes, Command
  <2>2. Rest' /\ UNCHANGED callbacks
    BY <1>5, <1>17, <2>1 DEF BrokerExecutes
  <2>3. commands' \in Seq(Command)
    BY <1>3, <1>17 DEF BrokerExecutes
  <2>4. QED
    BY <1>1, <1>4, <2>2, <2>3
<1>18. CASE UNCHANGED vars
  BY <1>1, <1>4, <1>5, <1>18 DEF vars
<1>19. QED
  BY <1>6, <1>7, <1>8, <1>9, <1>10, <1>11, <1>12, <1>13, <1>14, <1>15, <1>16, <1>17, <1>18
  DEF Next, Caller, Callback, Library

\* The members of MqttClient (mqtt_client.hpp), the library and the broker keep
\* the types given for them.
THEOREM MqttTypes == Spec => []TypeOK
BY TypeInit, TypeStep, PTL DEF Spec

----------------------------------------------------------------------------
(* m_connected and the link *)

\* The callbacks that are under way, and what they leave to be said about the
\* flag: a connected callback finds it unset and the link up, unless Disconnect has
\* closed it; after a loss it is unset before the library tries again.
LinkInv ==
  /\ callbacks \in {<<>>, <<"success", "connected">>, <<"connected">>, <<"resubscribe">>,
                    <<"failure">>, <<"lost">>}
  /\ callbacks \in {<<"success", "connected">>, <<"connected">>} =>
       /\ ~connected /\ links > 0
       /\ link = "up" \/ (link = "off" /\ call.op = "disconnecting") \/ crossed
  /\ callbacks = <<"success", "connected">> => call.op \notin {"leaving", "disconnecting"}
  /\ connected \/ call.op \in {"leaving", "disconnecting"} => links > 0
  /\ callbacks = <<"lost">> => link = "trying"
  /\ callbacks = <<"failure">> => ~connected /\ link # "up"
  /\ link = "trying" /\ callbacks # <<"lost">> => ~connected
  /\ callbacks \in {<<>>, <<"resubscribe">>} /\ call.op # "disconnecting" =>
       /\ connected => link = "up" \/ crossed
       /\ link = "up" /\ call.op # "closed" => connected
  /\ crossed => link = "off" /\ call.op \in {"closed", "destroyed"}
  /\ connectResult = "none" /\ call.op # "connecting" =>
       ~connected /\ link = "off" /\ callbacks = <<>>

LEMMA DistinctCallbacks ==
  /\ <<"success", "connected">> \notin {<<>>, <<"connected">>, <<"resubscribe">>, <<"failure">>, <<"lost">>}
  /\ <<"connected">> \notin {<<>>, <<"resubscribe">>, <<"failure">>, <<"lost">>}
  /\ <<"resubscribe">> \notin {<<>>, <<"failure">>, <<"lost">>}
  /\ <<"failure">> \notin {<<>>, <<"lost">>}
  /\ <<"lost">> # <<>>
<1>1. \A c, d : <<c, d>> # <<>> /\ <<c>> # <<>> /\ (\A b : <<c, d>> # <<b>>)
  OBVIOUS
<1>2. \A c, d : <<c>> = <<d>> => c = d
  OBVIOUS
<1>3. QED
  BY <1>1, <1>2

LEMMA ShiftedCallbacks ==
  /\ \A c \in Callbacks : Head(<<c>>) = c /\ Tail(<<c>>) = <<>>
  /\ \A c, d \in Callbacks : Head(<<c, d>>) = c /\ Tail(<<c, d>>) = <<d>>
  /\ \A c \in Callbacks : <<c>> \o <<>> = <<c>>
<1>1. \A c \in Callbacks : Tail(<<c>>) = <<>>
  BY EmptySeq
<1>2. \A c, d \in Callbacks : Tail(<<c, d>>) = <<d>>
  OBVIOUS
<1>3. \A c \in Callbacks : <<c>> \o <<>> = <<c>>
  OBVIOUS
<1>4. QED
  BY <1>1, <1>2, <1>3

\* The callback that is due is the only one, but for the first success.
LEMMA DueCallbacks ==
  ASSUME LinkInv
  PROVE  /\ Due("success") => callbacks = <<"success", "connected">> /\ Tail(callbacks) = <<"connected">>
         /\ Due("connected") => /\ callbacks = <<"connected">>
                                /\ <<"resubscribe">> \o Tail(callbacks) = <<"resubscribe">>
         /\ \A c \in {"resubscribe", "failure", "lost"} :
              Due(c) => callbacks = <<c>> /\ Tail(callbacks) = <<>>
<1>1. ASSUME NEW c, callbacks = <<c>>, c \in {"connected", "resubscribe", "failure", "lost"}
      PROVE  Head(callbacks) = c /\ Tail(callbacks) = <<>>
  BY <1>1, ShiftedCallbacks DEF Callbacks
<1>2. ASSUME callbacks = <<"success", "connected">>
      PROVE  Head(callbacks) = "success" /\ Tail(callbacks) = <<"connected">>
  BY <1>2, ShiftedCallbacks DEF Callbacks
<1>3. \/ callbacks \in {<<>>, <<"success", "connected">>}
      \/ \E c \in {"connected", "resubscribe", "failure", "lost"} : callbacks = <<c>>
  BY DEF LinkInv
<1>4. <<"resubscribe">> \o <<>> = <<"resubscribe">>
  BY ShiftedCallbacks DEF Callbacks
<1>5. QED
  BY <1>1, <1>2, <1>3, <1>4 DEF Due

LEMMA LinkStep == ASSUME TypeOK, LinkInv, [Next]_vars PROVE LinkInv'
<1> USE DistinctCallbacks DEF apiVars, linkVars, history
<1>1. CASE Connect
  BY <1>1 DEF Connect, LinkInv, Idle
<1>2. CASE ConnectReturns \/ ConnectTimesOut
  BY <1>2 DEF ConnectReturns, ConnectTimesOut, LinkInv, Idle, TypeOK
<1>3. ASSUME NEW t \in Topic, SubscribeChecks(t) \/ UnsubscribeIssues(t) PROVE LinkInv'
  BY <1>3 DEF SubscribeChecks, UnsubscribeIssues, LinkInv, Idle
<1>4. CASE SubscribeIssues \/ SubscribeRecords \/ UnsubscribeErases
  BY <1>4 DEF SubscribeIssues, SubscribeRecords, UnsubscribeErases, LinkInv, Idle
<1>5. CASE DisconnectChecks
  BY <1>5 DEF DisconnectChecks, LinkInv, Idle
<1>16. CASE DisconnectIssues
  BY <1>16 DEF DisconnectIssues, LinkInv
<1>6. CASE DisconnectResets
  <2>1. callbacks # <<>> /\ callbacks \in {<<"success", "connected">>, <<"connected">>} =>
          callbacks = <<"connected">> /\ Head(callbacks) = "connected"
    BY <1>6, ShiftedCallbacks DEF LinkInv, DisconnectResets, Callbacks
  <2>2. QED
    BY <1>6, <2>1 DEF DisconnectResets, LinkInv
<1>17. CASE Destroy
  BY <1>17 DEF Destroy, LinkInv
<1>7. CASE OnConnectSuccess \/ OnConnectFailure
  <2>1. CASE OnConnectSuccess
    BY <2>1, DueCallbacks DEF OnConnectSuccess, LinkInv
  <2>2. CASE OnConnectFailure
    BY <2>2, DueCallbacks DEF OnConnectFailure, LinkInv
  <2>3. QED
    BY <1>7, <2>1, <2>2
<1>8. CASE OnConnected
  BY <1>8, DueCallbacks DEF OnConnected, LinkInv
<1>9. CASE ResubscribeAll
  BY <1>9, DueCallbacks DEF ResubscribeAll, LinkInv
<1>10. CASE OnConnectionLost
  BY <1>10, DueCallbacks DEF OnConnectionLost, LinkInv
<1>11. CASE BrokerAccepts
  <2>1. links \in Nat /\ links' = links + 1 /\ link = "trying" /\ link' = "up" /\ callbacks = <<>>
        /\ UNCHANGED <<connected, call, crossed, connectResult>>
    BY <1>11 DEF BrokerAccepts, TypeOK
  <2>2. \/ callbacks' = <<"connected">>
        \/ callbacks' = <<"success", "connected">> /\ links = 0
    BY <1>11 DEF BrokerAccepts
  <2>3. QED
    BY <2>1, <2>2 DEF LinkInv
<1>12. CASE FirstAttemptFails
  BY <1>12 DEF FirstAttemptFails, LinkInv
<1>13. CASE LinkLost
  BY <1>13 DEF LinkLost, LinkInv
<1>14. CASE BrokerExecutes \/ UNCHANGED vars
  BY <1>14 DEF BrokerExecutes, LinkInv, vars
<1>15. QED
  BY <1>1, <1>2, <1>3, <1>4, <1>5, <1>6, <1>7, <1>8, <1>9, <1>10, <1>11, <1>12, <1>13, <1>14, <1>16, <1>17
  DEF Next, Caller, Callback, Library

\* OnConnected, OnConnectionLost and Disconnect (mqtt_client.cpp): once Paho's
\* thread has nothing left to run, m_connected tells whether there is a connection,
\* but for a Disconnect (mqtt_client.cpp:122, 131) that a loss and a reconnection
\* crossed.
THEOREM FlagIsTrue == Spec => []FlagTracksLink
<1>1. Init => LinkInv
  BY DistinctCallbacks DEF Init, LinkInv, Idle
<1>2. LinkInv => FlagTracksLink
  BY DEF LinkInv, FlagTracksLink
<1>3. QED
  BY <1>1, <1>2, TypeInit, TypeStep, LinkStep, PTL DEF Spec

----------------------------------------------------------------------------
(* The table of subscriptions and the broker *)

\* What each step does, while the link lasts, to what the broker will hold.
LEMMA HoldsBy ==
  ASSUME TypeOK, [Next]_vars, link = "up", link' = "up", NEW t \in Topic
  PROVE  /\ SubscribeIssues => (Holds(t)' <=> (call.topic = t \/ Holds(t)))
         /\ \A u \in Topic : UnsubscribeIssues(u) => (Holds(t)' <=> (u # t /\ Holds(t)))
         /\ ResubscribeAll => (Holds(t)' <=> (t \in subscriptions \/ Holds(t)))
         /\ \/ SubscribeIssues \/ ResubscribeAll \/ \E u \in Topic : UnsubscribeIssues(u)
            \/ Holds(t)' <=> Holds(t)
<1> USE DEF apiVars, linkVars, history
<1>1. ASSUME UNCHANGED <<commands, brokerSubs>> PROVE Holds(t)' <=> Holds(t)
  BY <1>1 DEF Holds
<1>2. commands \in Seq(Command)
  BY DEF TypeOK
<1>3. ASSUME SubscribeIssues PROVE Holds(t)' <=> (call.topic = t \/ Holds(t))
  <2>1. call.topic \in Topic
    BY <1>3, CallFields DEF SubscribeIssues, TypeOK
  <2>2. commands' = Append(commands, [cmd |-> "subscribe", topic |-> call.topic])
        /\ brokerSubs' = brokerSubs
    BY <1>3 DEF SubscribeIssues
  <2>3. QED
    BY <1>2, <2>1, <2>2, HoldsIssued, CommandType DEF Holds
<1>4. ASSUME NEW u \in Topic, UnsubscribeIssues(u)
      PROVE  Holds(t)' <=> (u # t /\ Holds(t))
  <2>1. commands' = Append(commands, [cmd |-> "unsubscribe", topic |-> u])
        /\ brokerSubs' = brokerSubs
    BY <1>4 DEF UnsubscribeIssues
  <2>2. QED
    BY <1>2, <2>1, HoldsIssued, CommandType DEF Holds
<1>5. ASSUME ResubscribeAll PROVE Holds(t)' <=> (t \in subscriptions \/ Holds(t))
  <2>1. PICK w \in Walks(subscriptions) :
          commands' = commands \o [i \in DOMAIN w |-> [cmd |-> "subscribe", topic |-> w[i]]]
    BY <1>5 DEF ResubscribeAll
  <2>2. IsFiniteSet(subscriptions) /\ brokerSubs' = brokerSubs
    BY <1>5, <2>1, RenewalType DEF TypeOK, ResubscribeAll
  <2>3. QED
    BY <1>2, <2>1, <2>2, HoldsRenewed DEF Holds
<1>6. ASSUME BrokerExecutes
      PROVE  Holds(t)' <=> Holds(t)
  BY <1>2, <1>6, HoldsExecuted DEF BrokerExecutes, Holds
<1>7. ASSUME Connect \/ ConnectReturns \/ ConnectTimesOut \/ SubscribeRecords \/ UnsubscribeErases
      PROVE  Holds(t)' <=> Holds(t)
  BY <1>1, <1>7 DEF Connect, ConnectReturns, ConnectTimesOut, SubscribeRecords, UnsubscribeErases
<1>8. ASSUME NEW u \in Topic, SubscribeChecks(u) PROVE Holds(t)' <=> Holds(t)
  BY <1>1, <1>8 DEF SubscribeChecks
<1>9. ASSUME DisconnectChecks \/ DisconnectIssues \/ DisconnectResets \/ Destroy
      PROVE  Holds(t)' <=> Holds(t)
  BY <1>1, <1>9 DEF DisconnectChecks, DisconnectIssues, DisconnectResets, Destroy
<1>10. ASSUME OnConnectSuccess \/ OnConnectFailure \/ OnConnected \/ OnConnectionLost
       PROVE  Holds(t)' <=> Holds(t)
  BY <1>1, <1>10 DEF OnConnectSuccess, OnConnectFailure, OnConnected, OnConnectionLost
<1>11. ASSUME BrokerAccepts \/ FirstAttemptFails \/ LinkLost \/ UNCHANGED vars
       PROVE  Holds(t)' <=> Holds(t)
  BY <1>1, <1>11 DEF BrokerAccepts, FirstAttemptFails, LinkLost, vars
<1>12. \/ SubscribeIssues \/ ResubscribeAll \/ \E u \in Topic : UnsubscribeIssues(u)
       \/ Holds(t)' <=> Holds(t)
  BY <1>6, <1>7, <1>8, <1>9, <1>10, <1>11 DEF Next, Caller, Callback, Library
<1>13. QED
  BY <1>3, <1>4, <1>5, <1>12

\* It changes for the topic of a Subscribe or an Unsubscribe, and by ResubscribeAll.
LEMMA HoldsChanges ==
  ASSUME TypeOK, [Next]_vars, link = "up", link' = "up", NEW t \in Topic
  PROVE  /\ \/ Holds(t)' <=> Holds(t)
            \/ SubscribeIssues /\ call.topic = t
            \/ UnsubscribeIssues(t)
            \/ ResubscribeAll /\ t \in subscriptions
         /\ SubscribeIssues /\ call.topic = t => Holds(t)'
         /\ UnsubscribeIssues(t) => ~Holds(t)'
         /\ ResubscribeAll /\ t \in subscriptions => Holds(t)'
BY HoldsBy

\* With the link up, Paho's thread has nothing left to run after a step only if it
\* had nothing before or has renewed the subscriptions.
LEMMA CaughtUp ==
  ASSUME TypeOK, LinkInv, [Next]_vars, link' = "up", callbacks' = <<>>
  PROVE  link = "up" /\ (callbacks = <<>> \/ ResubscribeAll)
<1> USE DistinctCallbacks DEF apiVars, linkVars, history
<1>1. CASE Caller
  BY <1>1 DEF Caller, Connect, ConnectReturns, ConnectTimesOut, SubscribeChecks, UnsubscribeIssues,
       SubscribeIssues, SubscribeRecords, UnsubscribeErases, DisconnectChecks, DisconnectIssues, DisconnectResets,
       Destroy, LinkInv
<1>2. CASE OnConnectSuccess \/ OnConnectFailure \/ OnConnected \/ OnConnectionLost
  BY <1>2, DueCallbacks
  DEF OnConnectSuccess, OnConnectFailure, OnConnected, OnConnectionLost, LinkInv
<1>3. CASE ResubscribeAll
  BY <1>3 DEF ResubscribeAll
<1>4. CASE Library \/ UNCHANGED vars
  BY <1>4 DEF Library, BrokerAccepts, FirstAttemptFails, LinkLost, BrokerExecutes, vars
<1>5. QED
  BY <1>1, <1>2, <1>3, <1>4 DEF Next, Callback

\* Beyond NoSubscriptionForgotten: a topic that is issued and not yet recorded is held
\* too, unless a ResubscribeAll has passed it by.
RenewInv ==
  /\ NoSubscriptionForgotten
  /\ call.op = "subscribing" /\ ~overtaken /\ link = "up" /\ callbacks = <<>> =>
       \A t \in Topic : call.topic = t => Holds(t)

LEMMA RenewStep ==
  ASSUME TypeOK, LinkInv, RenewInv, [Next]_vars
  PROVE  RenewInv'
<1> SUFFICES ASSUME link' = "up", callbacks' = <<>> PROVE RenewInv'
  BY DEF RenewInv, NoSubscriptionForgotten
<1>1. link = "up" /\ (callbacks = <<>> \/ ResubscribeAll)
  BY CaughtUp
<1>2. CASE ResubscribeAll
  <2>1. \A t \in subscriptions' \ straddled' : Holds(t)'
    BY <1>1, <1>2, HoldsChanges DEF ResubscribeAll, TypeOK
  <2>2. call'.op = "subscribing" => overtaken'
    BY <1>2 DEF ResubscribeAll
  <2>3. QED
    BY <2>1, <2>2 DEF RenewInv, NoSubscriptionForgotten
<1>3. CASE callbacks = <<>> /\ ~ResubscribeAll
  <2>1. /\ subscriptions \subseteq Topic
        /\ call.op \in {"checked", "subscribing", "unsubscribing"} => call.topic \in Topic
    BY CallFields DEF TypeOK
  <2>2. \A t \in Topic : Holds(t) => Holds(t)' \/ UnsubscribeIssues(t)
    BY <1>1, <1>3, HoldsChanges
  <2>3. /\ \A t \in subscriptions \ straddled :
             Holds(t) \/ (call.op = "unsubscribing" /\ call.topic = t)
        /\ call.op = "subscribing" /\ ~overtaken => \A t \in Topic : call.topic = t => Holds(t)
    BY <1>1, <1>3 DEF RenewInv, NoSubscriptionForgotten
  <2>4. SUFFICES /\ \A t \in subscriptions' \ straddled' :
                      Holds(t)' \/ (call'.op = "unsubscribing" /\ call'.topic = t)
                 /\ call'.op = "subscribing" /\ ~overtaken' =>
                      \A t \in Topic : call'.topic = t => Holds(t)'
    BY DEF RenewInv, NoSubscriptionForgotten
  <2>5. CASE SubscribeIssues
    <3>1. \A t \in Topic : call.topic = t => Holds(t)'
      BY <1>1, <2>1, <2>5, HoldsChanges DEF SubscribeIssues
    <3>2. /\ call.op = "checked" /\ call' = [op |-> "subscribing", topic |-> call.topic]
          /\ UNCHANGED <<subscriptions, straddled>>
      BY <1>1, <2>5 DEF SubscribeIssues
    <3>3. \A t \in Topic : ~UnsubscribeIssues(t)
      BY <3>2 DEF UnsubscribeIssues, Idle
    <3>4. QED
      BY <2>1, <2>2, <2>3, <3>1, <3>2, <3>3
  <2>6. ASSUME NEW u \in Topic, UnsubscribeIssues(u)
        PROVE  \A t \in Topic : UnsubscribeIssues(t) => t = u
    BY <2>6 DEF UnsubscribeIssues
  <2>7. ASSUME NEW u \in Topic, UnsubscribeIssues(u)
        PROVE  /\ \A t \in subscriptions' \ straddled' :
                    Holds(t)' \/ (call'.op = "unsubscribing" /\ call'.topic = t)
               /\ call'.op = "subscribing" /\ ~overtaken' =>
                    \A t \in Topic : call'.topic = t => Holds(t)'
    <3>1. /\ call = Idle /\ call' = [op |-> "unsubscribing", topic |-> u]
          /\ UNCHANGED <<subscriptions, straddled>>
      BY <2>7 DEF UnsubscribeIssues, history
    <3>2. QED
      BY <2>1, <2>2, <2>3, <2>6, <2>7, <3>1 DEF Idle
  <2>8. CASE SubscribeRecords
    <3>1. /\ call.op = "subscribing" /\ call' = Idle
          /\ subscriptions' = subscriptions \cup {call.topic}
          /\ straddled' = IF overtaken THEN straddled \cup {call.topic} ELSE straddled \ {call.topic}
      BY <2>8 DEF SubscribeRecords
    <3>2. \A t \in Topic : ~UnsubscribeIssues(t)
      BY <3>1 DEF UnsubscribeIssues, Idle
    <3>3. QED
      BY <2>1, <2>2, <2>3, <3>1, <3>2 DEF Idle
  <2>9. CASE UnsubscribeErases
    <3>1. /\ call.op = "unsubscribing" /\ call' = Idle
          /\ subscriptions' = subscriptions \ {call.topic}
          /\ straddled' = straddled \ {call.topic}
      BY <2>9 DEF UnsubscribeErases
    <3>2. \A t \in Topic : ~UnsubscribeIssues(t)
      BY <3>1 DEF UnsubscribeIssues, Idle
    <3>3. QED
      BY <2>1, <2>2, <2>3, <3>1, <3>2 DEF Idle
  <2>10. ASSUME ~SubscribeIssues, ~SubscribeRecords, ~UnsubscribeErases,
                \A t \in Topic : ~UnsubscribeIssues(t)
         PROVE  /\ UNCHANGED <<subscriptions, straddled>>
                /\ \/ UNCHANGED <<call, overtaken>>
                   \/ call.op \in {"idle", "connecting", "leaving", "disconnecting", "closed"}
                      /\ call'.op \notin {"subscribing", "unsubscribing"}
    BY <1>1, <1>3, <2>10
    DEF Next, Caller, Connect, ConnectReturns, ConnectTimesOut, SubscribeChecks, DisconnectChecks,
        DisconnectIssues, DisconnectResets, Destroy, Callback, OnConnectSuccess, OnConnectFailure, OnConnected,
        OnConnectionLost, Due, Library, BrokerAccepts, FirstAttemptFails, LinkLost, BrokerExecutes,
        vars, history, Idle
  <2>11. CASE ~SubscribeIssues /\ ~SubscribeRecords /\ ~UnsubscribeErases
              /\ \A t \in Topic : ~UnsubscribeIssues(t)
    BY <2>1, <2>2, <2>3, <2>10, <2>11
  <2>12. QED
    BY <2>5, <2>7, <2>8, <2>9, <2>11
<1>4. QED
  BY <1>1, <1>2, <1>3

\* ResubscribeAll (mqtt_client.hpp:81): once
\* Paho's thread has caught up with a connection the broker has been told of every
\* recorded topic, but for those that NoSubscriptionForgotten names.
THEOREM SubscriptionsRenewed == Spec => []NoSubscriptionForgotten
<1>1. Init => LinkInv /\ RenewInv
  BY DistinctCallbacks DEF Init, LinkInv, RenewInv, NoSubscriptionForgotten, Idle
<1>2. RenewInv => NoSubscriptionForgotten
  BY DEF RenewInv
<1>3. QED
  BY <1>1, <1>2, TypeInit, TypeStep, LinkStep, RenewStep, PTL DEF Spec

----------------------------------------------------------------------------
(* What has been unsubscribed *)

\* Beyond UnsubscribedIsGone: so is a topic that is being unsubscribed, if nothing
\* overtakes it; a topic that is being subscribed to is not released, and no topic
\* is before the first connection or between two.
GoneInv ==
  /\ UnsubscribedIsGone
  /\ call.op = "unsubscribing" /\ ~overtaken /\ link = "up" =>
       \A t \in Topic : call.topic = t => ~Holds(t)
  /\ call.op = "subscribing" => call.topic \notin released
  /\ link = "trying" => released = {} /\ (call.op = "unsubscribing" => overtaken)
  /\ connectResult = "none" => released = {} /\ call.op # "unsubscribing"

LEMMA GoneStep ==
  ASSUME TypeOK, GoneInv, [Next]_vars
  PROVE  GoneInv'
<1> USE DEF apiVars, linkVars, history
<1>1. /\ released \subseteq Topic
      /\ call.op \in {"checked", "subscribing", "unsubscribing"} => call.topic \in Topic
  BY CallFields DEF TypeOK
<1>2. ASSUME link = "up", link' = "up", NEW t \in Topic, ~SubscribeIssues, t \notin subscriptions, ~Holds(t)
      PROVE  ~Holds(t)'
  BY <1>2, HoldsChanges
<1>3. CASE Connect \/ ConnectReturns \/ ConnectTimesOut
  <2>1. ~SubscribeIssues /\ UNCHANGED <<subscriptions, released, overtaken>>
    BY <1>3 DEF Connect, ConnectReturns, ConnectTimesOut, SubscribeIssues, Idle
  <2>2. QED
    BY <1>1, <1>2, <1>3, <2>1
    DEF Connect, ConnectReturns, ConnectTimesOut, GoneInv, UnsubscribedIsGone, Idle
<1>4. ASSUME NEW u \in Topic, SubscribeChecks(u) PROVE GoneInv'
  BY <1>1, <1>2, <1>4 DEF SubscribeChecks, SubscribeIssues, GoneInv, UnsubscribedIsGone, Idle
<1>5. ASSUME NEW u \in Topic, UnsubscribeIssues(u) PROVE GoneInv'
  <2>1. /\ call = Idle /\ call' = [op |-> "unsubscribing", topic |-> u] /\ ~SubscribeIssues
        /\ overtaken' = (link # "up") /\ connectResult # "none"
        /\ UNCHANGED <<subscriptions, released, link, connectResult>>
    BY <1>5 DEF UnsubscribeIssues, SubscribeIssues, Idle
  <2>2. link = "up" => ~Holds(u)'
    BY <1>5, <2>1, HoldsChanges
  <2>3. UnsubscribedIsGone'
    BY <1>1, <1>2, <2>1 DEF GoneInv, UnsubscribedIsGone
  <2>4. QED
    BY <2>1, <2>2, <2>3 DEF GoneInv
<1>6. CASE SubscribeIssues
  <2>1. CASE link = "up"
    <3>1. /\ call.op = "checked" /\ call' = [op |-> "subscribing", topic |-> call.topic]
          /\ released' = released \ {call.topic} /\ UNCHANGED <<subscriptions, link, connectResult>>
      BY <1>6, <2>1 DEF SubscribeIssues
    <3>2. ASSUME NEW t \in released' PROVE t \notin subscriptions' /\ ~Holds(t)'
      <4>1. t \in released /\ t \in Topic /\ t # call.topic
        BY <1>1, <3>1
      <4>2. ~UnsubscribeIssues(t) /\ ~ResubscribeAll
        BY <1>6, <3>1, <2>1 DEF UnsubscribeIssues, ResubscribeAll, Due, Idle, SubscribeIssues
      <4>3. Holds(t)' <=> Holds(t)
        BY <2>1, <3>1, <4>1, <4>2, HoldsChanges
      <4>4. QED
        BY <2>1, <3>1, <4>1, <4>3 DEF GoneInv, UnsubscribedIsGone
    <3>3. QED
      BY <2>1, <3>1, <3>2 DEF GoneInv, UnsubscribedIsGone
  <2>2. CASE link # "up"
    BY <1>6, <2>2 DEF SubscribeIssues, GoneInv, UnsubscribedIsGone, Idle
  <2>3. QED
    BY <2>1, <2>2
<1>7. CASE SubscribeRecords
  <2>1. /\ call.op = "subscribing" /\ call' = Idle /\ ~SubscribeIssues
        /\ subscriptions' = subscriptions \cup {call.topic}
        /\ UNCHANGED <<released, link, connectResult>>
    BY <1>7 DEF SubscribeRecords, SubscribeIssues
  <2>2. UnsubscribedIsGone'
    BY <1>1, <1>2, <2>1 DEF GoneInv, UnsubscribedIsGone
  <2>3. QED
    BY <2>1, <2>2 DEF GoneInv, Idle
<1>8. CASE UnsubscribeErases
  <2>1. /\ call.op = "unsubscribing" /\ call' = Idle /\ ~SubscribeIssues
        /\ subscriptions' = subscriptions \ {call.topic}
        /\ released' = IF overtaken THEN released ELSE released \cup {call.topic}
        /\ UNCHANGED <<link, connectResult, commands, brokerSubs>>
    BY <1>8 DEF UnsubscribeErases, SubscribeIssues
  <2>2. \A t \in Topic : Holds(t)' <=> Holds(t)
    BY <2>1 DEF Holds
  <2>3. UnsubscribedIsGone'
    BY <1>1, <2>1, <2>2 DEF GoneInv, UnsubscribedIsGone
  <2>4. QED
    BY <2>1, <2>3 DEF GoneInv, Idle
<1>9. CASE DisconnectChecks \/ DisconnectIssues \/ DisconnectResets \/ Destroy
  <2>1. /\ ~SubscribeIssues /\ UNCHANGED <<subscriptions, released, connectResult>>
        /\ call'.op \in {"leaving", "disconnecting", "closed", "destroyed"}
        /\ link' = link \/ link' = "off"
    BY <1>9 DEF DisconnectChecks, DisconnectIssues, DisconnectResets, Destroy, SubscribeIssues, Idle
  <2>2. UnsubscribedIsGone'
    BY <1>1, <1>2, <2>1 DEF GoneInv, UnsubscribedIsGone
  <2>3. QED
    BY <2>1, <2>2 DEF GoneInv
<1>10. CASE OnConnectSuccess \/ OnConnectFailure \/ OnConnected \/ OnConnectionLost \/ UNCHANGED vars
  <2>1. UNCHANGED <<subscriptions, connectResult, call, link, commands, brokerSubs, overtaken, released>>
    BY <1>10 DEF OnConnectSuccess, OnConnectFailure, OnConnected, OnConnectionLost, vars
  <2>2. QED
    BY <2>1 DEF GoneInv, UnsubscribedIsGone, Holds
<1>11. CASE ResubscribeAll
  <2>1. /\ UNCHANGED <<subscriptions, connectResult, call, link, released>>
        /\ call.op = "unsubscribing" => overtaken'
        /\ overtaken => overtaken'
    BY <1>11 DEF ResubscribeAll
  <2>2. ~SubscribeIssues
    BY <1>11 DEF ResubscribeAll, SubscribeIssues, Due
  <2>3. UnsubscribedIsGone'
    BY <1>1, <1>2, <2>1, <2>2 DEF GoneInv, UnsubscribedIsGone
  <2>4. QED
    BY <2>1, <2>3 DEF GoneInv
<1>12. CASE BrokerAccepts \/ FirstAttemptFails \/ LinkLost
  BY <1>12 DEF BrokerAccepts, FirstAttemptFails, LinkLost, GoneInv, UnsubscribedIsGone
<1>13. CASE BrokerExecutes
  <2>1. /\ UNCHANGED <<subscriptions, connectResult, call, link, overtaken, released>>
        /\ link = "up"
    BY <1>13 DEF BrokerExecutes
  <2>2. \A t \in Topic : Holds(t)' <=> Holds(t)
    BY <1>13, HoldsExecuted DEF BrokerExecutes, Holds, TypeOK
  <2>3. QED
    BY <1>1, <2>1, <2>2 DEF GoneInv, UnsubscribedIsGone
<1>14. QED
  BY <1>3, <1>4, <1>5, <1>6, <1>7, <1>8, <1>9, <1>10, <1>11, <1>12, <1>13
  DEF Next, Caller, Callback, Library

\* Unsubscribe (mqtt_client.cpp:169): a topic whose Unsubscribe nothing overtook is
\* neither recorded nor held by the broker as long as the link lasts.
THEOREM ReleasedStaysGone == Spec => []UnsubscribedIsGone
<1>1. Init => GoneInv
  BY DEF Init, GoneInv, UnsubscribedIsGone, Idle
<1>2. GoneInv => UnsubscribedIsGone
  BY DEF GoneInv
<1>3. QED
  BY <1>1, <1>2, TypeInit, TypeStep, GoneStep, PTL DEF Spec

----------------------------------------------------------------------------
(* The promise to the callers *)

\* A connection is new until Paho's thread has nothing left to run.
Connection == IF link = "up" THEN (IF callbacks = <<>> THEN "renewed" ELSE "new") ELSE "none"

\* What the broker will hold: the commands in the library count as carried out.
Held == {t \in Topic : link = "up" /\ Holds(t)}

\* A Subscribe that has only looked at m_connected has not begun.
Calling == IF call.op \in {"subscribing", "unsubscribing"} THEN call ELSE Idle

Service == INSTANCE SubscriptionService WITH
  connection <- Connection, recorded <- subscriptions, held <- Held, calling <- Calling

LEMMA HeldChanges ==
  ASSUME TypeOK, [Next]_vars
  PROVE  /\ link # "up" => Held = {}
         /\ link' # "up" => Held' = {}
         /\ link = "up" /\ link' = "up" =>
              /\ SubscribeIssues => Held' = Held \cup ({call.topic} \cap Topic)
              /\ \A u \in Topic : UnsubscribeIssues(u) => Held' = Held \ {u}
              /\ ResubscribeAll => Held' = Held \cup subscriptions
              /\ \/ SubscribeIssues \/ ResubscribeAll \/ \E u \in Topic : UnsubscribeIssues(u)
                 \/ Held' = Held
<1>1. /\ link # "up" => Held = {}
      /\ link' # "up" => Held' = {}
  BY DEF Held
<1> SUFFICES ASSUME link = "up", link' = "up"
             PROVE  /\ SubscribeIssues => Held' = Held \cup ({call.topic} \cap Topic)
                    /\ \A u \in Topic : UnsubscribeIssues(u) => Held' = Held \ {u}
                    /\ ResubscribeAll => Held' = Held \cup subscriptions
                    /\ \/ SubscribeIssues \/ ResubscribeAll \/ \E u \in Topic : UnsubscribeIssues(u)
                       \/ Held' = Held
  BY <1>1
<1>2. /\ Held \subseteq Topic /\ \A t \in Topic : t \in Held <=> Holds(t)
      /\ Held' \subseteq Topic /\ \A t \in Topic : t \in Held' <=> Holds(t)'
  BY DEF Held
<1>3. ASSUME SubscribeIssues PROVE Held' = Held \cup ({call.topic} \cap Topic)
  <2>1. \A t \in Topic : Holds(t)' <=> (call.topic = t \/ Holds(t))
    BY <1>3, HoldsBy
  <2>2. QED
    BY <1>2, <2>1
<1>4. ASSUME NEW u \in Topic, UnsubscribeIssues(u) PROVE Held' = Held \ {u}
  <2>1. \A t \in Topic : Holds(t)' <=> (u # t /\ Holds(t))
    BY <1>4, HoldsBy
  <2>2. QED
    BY <1>2, <2>1
<1>5. ASSUME ResubscribeAll PROVE Held' = Held \cup subscriptions
  <2>1. \A t \in Topic : Holds(t)' <=> (t \in subscriptions \/ Holds(t))
    BY <1>5, HoldsBy
  <2>2. subscriptions \subseteq Topic
    BY DEF TypeOK
  <2>3. QED
    BY <1>2, <2>1, <2>2
<1>6. ASSUME ~SubscribeIssues, ~ResubscribeAll, \A u \in Topic : ~UnsubscribeIssues(u)
      PROVE  Held' = Held
  <2>1. \A t \in Topic : Holds(t)' <=> Holds(t)
    BY <1>6, HoldsBy
  <2>2. QED
    BY <1>2, <2>1
<1>7. QED
  BY <1>3, <1>4, <1>5, <1>6

\* Every step of the client is one of the service, or changes nothing it shows.
LEMMA ServiceStep ==
  ASSUME TypeOK, LinkInv, [Next]_vars
  PROVE  [Service!Next]_(Service!vars)
<1> USE DistinctCallbacks DEF apiVars, linkVars, history
<1>1. SUFFICES ASSUME ~UNCHANGED <<Connection, subscriptions, Held, Calling>>
               PROVE  Service!Next
  BY DEF Service!vars
<1>2. /\ Idle.op = "idle" /\ Service!NoCall = Idle
      /\ call.op \in {"checked", "subscribing", "unsubscribing"} => call.topic \in Topic
  BY CallFields DEF Idle, Service!NoCall, TypeOK
<1>3. CASE Connect \/ ConnectReturns \/ ConnectTimesOut
  <2>1. /\ link' = link \/ (link = "off" /\ link' = "trying")
        /\ UNCHANGED <<subscriptions, callbacks, commands, brokerSubs>>
        /\ call.op \in {"idle", "connecting"} /\ call'.op \in {"idle", "connecting"}
    BY <1>2, <1>3 DEF Connect, ConnectReturns, ConnectTimesOut, LinkInv, Idle
  <2>2. Connection' = Connection /\ Calling' = Calling
    BY <2>1 DEF Connection, Calling
  <2>3. Held' = Held
    BY <2>1 DEF Held, Holds
  <2>4. QED
    BY <1>1, <2>1, <2>2, <2>3
<1>4. ASSUME NEW t \in Topic, SubscribeChecks(t) PROVE Service!Next
  <2>1. Calling' = Calling /\ Connection' = Connection /\ subscriptions' = subscriptions
    BY <1>4 DEF SubscribeChecks, Calling, Connection, Idle
  <2>2. Held' = Held
    BY <1>4 DEF SubscribeChecks, Held, Holds
  <2>3. QED
    BY <1>1, <2>1, <2>2
<1>5. CASE SubscribeIssues
  <2>1. Calling = Idle /\ Connection' = Connection /\ subscriptions' = subscriptions
        /\ link' = link /\ call.topic \in Topic
    BY <1>2, <1>5 DEF SubscribeIssues, Calling, Connection
  <2>2. CASE link = "up"
    <3>1. Held' = Held \cup {call.topic}
      BY <1>5, <2>1, <2>2, HeldChanges
    <3>2. Calling' = [op |-> "subscribing", topic |-> call.topic]
      BY <1>5, <2>2 DEF SubscribeIssues, Calling
    <3>3. Connection # "none"
      BY <2>2 DEF Connection
    <3>4. Service!Subscribe(call.topic)
      BY <1>2, <2>1, <3>1, <3>2, <3>3 DEF Service!Subscribe
    <3>5. QED
      BY <2>1, <3>4 DEF Service!Next
  <2>3. CASE link # "up"
    <3>1. Held' = Held
      BY <2>1, <2>3 DEF Held
    <3>2. Calling' = Idle
      BY <1>2, <1>5, <2>3 DEF SubscribeIssues, Calling
    <3>3. QED
      BY <1>1, <2>1, <3>1, <3>2
  <2>4. QED
    BY <2>2, <2>3
<1>6. CASE SubscribeRecords \/ UnsubscribeErases
  <2>1. /\ UNCHANGED <<link, callbacks, commands, brokerSubs>> /\ call' = Idle
        /\ call.op \in {"subscribing", "unsubscribing"}
    BY <1>6 DEF SubscribeRecords, UnsubscribeErases
  <2>2. Held' = Held /\ Connection' = Connection
    BY <2>1 DEF Held, Holds, Connection
  <2>3. Calling = call /\ Calling' = Idle
    BY <1>2, <2>1 DEF Calling
  <2>4. CASE SubscribeRecords
    <3>1. Service!SubscribeReturns
      BY <1>2, <2>2, <2>3, <2>4 DEF SubscribeRecords, Service!SubscribeReturns
    <3>2. QED
      BY <3>1 DEF Service!Next
  <2>5. CASE UnsubscribeErases
    <3>1. Service!UnsubscribeReturns
      BY <1>2, <2>2, <2>3, <2>5 DEF UnsubscribeErases, Service!UnsubscribeReturns
    <3>2. QED
      BY <3>1 DEF Service!Next
  <2>6. QED
    BY <1>6, <2>4, <2>5
<1>7. ASSUME NEW t \in Topic, UnsubscribeIssues(t) PROVE Service!Next
  <2>1. /\ Calling = Idle /\ Calling' = [op |-> "unsubscribing", topic |-> t]
        /\ Connection' = Connection /\ subscriptions' = subscriptions /\ link' = link
    BY <1>2, <1>7 DEF UnsubscribeIssues, Calling, Connection
  <2>2. Held' = Held \ {t}
    BY <1>7, <2>1, HeldChanges
  <2>3. Service!Unsubscribe(t)
    BY <1>2, <2>1, <2>2 DEF Service!Unsubscribe
  <2>4. QED
    BY <2>3 DEF Service!Next
\* The connection goes when the caller closes it or when it is lost.
<1>8. ASSUME link = "up", link' # "up", callbacks = <<>> \/ Calling = Idle,
             UNCHANGED <<subscriptions, Calling>>
      PROVE  Service!Next
  <2>1. Connection' = "none" /\ (Connection = "renewed" \/ (Connection = "new" /\ Calling = Idle))
    BY <1>8 DEF Connection
  <2>2. Held' = {}
    BY <1>8 DEF Held
  <2>3. Service!ConnectionGoes
    BY <1>2, <1>8, <2>1, <2>2 DEF Service!ConnectionGoes
  <2>4. QED
    BY <2>3 DEF Service!Next
<1>9. ASSUME link # "up", link' # "up", UNCHANGED <<subscriptions, Calling>>
      PROVE  FALSE
  BY <1>1, <1>9 DEF Connection, Held
<1>10. CASE DisconnectChecks \/ DisconnectIssues \/ Destroy
  <2>1. /\ Calling = Idle /\ Calling' = Idle /\ subscriptions' = subscriptions
    BY <1>2, <1>10 DEF DisconnectChecks, DisconnectIssues, Destroy, Calling
  <2>2. CASE link' = "up"
    <3>1. UNCHANGED <<link, callbacks, commands, brokerSubs>>
      BY <1>10, <2>2 DEF DisconnectChecks, DisconnectIssues, Destroy
    <3>2. Connection' = Connection /\ Held' = Held
      BY <3>1 DEF Connection, Held, Holds
    <3>3. QED
      BY <1>1, <2>1, <3>2
  <2>3. CASE link' # "up"
    BY <1>8, <1>9, <2>1, <2>3
  <2>4. QED
    BY <2>2, <2>3
<1>11. CASE DisconnectResets \/ OnConnectSuccess \/ OnConnected \/ BrokerExecutes
  <2>1. /\ UNCHANGED <<subscriptions, link>>
        /\ link = "up" => (callbacks = <<>> <=> callbacks' = <<>>)
    BY <1>11, DueCallbacks DEF DisconnectResets, OnConnectSuccess, OnConnected, BrokerExecutes
  <2>2. Connection' = Connection
    BY <2>1 DEF Connection
  <2>3. Calling' = Calling
    BY <1>2, <1>11 DEF DisconnectResets, OnConnectSuccess, OnConnected, BrokerExecutes, Calling
  <2>4. CASE BrokerExecutes
    <3>1. commands \in Seq(Command)
      BY DEF TypeOK
    <3>2. \A t \in Topic : Holds(t)' <=> Holds(t)
      BY <2>4, <3>1, HoldsExecuted DEF BrokerExecutes, Holds
    <3>3. Held' = Held
      BY <2>1, <3>2 DEF Held
    <3>4. QED
      BY <1>1, <2>1, <2>2, <2>3, <3>3
  <2>5. CASE ~BrokerExecutes
    <3>1. UNCHANGED <<commands, brokerSubs>>
      BY <1>11, <2>5 DEF DisconnectResets, OnConnectSuccess, OnConnected
    <3>2. Held' = Held
      BY <2>1, <3>1 DEF Held, Holds
    <3>3. QED
      BY <1>1, <2>1, <2>2, <2>3, <3>2
  <2>6. QED
    BY <2>4, <2>5
<1>12. CASE OnConnectFailure \/ OnConnectionLost \/ FirstAttemptFails
  <2>1. link # "up" /\ link' # "up" /\ UNCHANGED <<subscriptions, call>>
    BY <1>12, DueCallbacks DEF OnConnectFailure, OnConnectionLost, FirstAttemptFails, LinkInv
  <2>2. QED
    BY <1>9, <2>1 DEF Calling
<1>13. CASE ResubscribeAll
  <2>1. UNCHANGED <<subscriptions, call, link>> /\ callbacks # <<>> /\ callbacks' = <<>>
    BY <1>13, DueCallbacks DEF ResubscribeAll
  <2>2. Calling' = Calling
    BY <2>1 DEF Calling
  <2>3. CASE link = "up"
    <3>1. Connection = "new" /\ Connection' = "renewed"
      BY <2>1, <2>3 DEF Connection
    <3>2. Held' = Held \cup subscriptions
      BY <1>13, <2>1, <2>3, HeldChanges
    <3>3. Service!Renew
      BY <2>1, <2>2, <3>1, <3>2 DEF Service!Renew
    <3>4. QED
      BY <3>3 DEF Service!Next
  <2>4. CASE link # "up"
    BY <1>9, <2>1, <2>2, <2>4
  <2>5. QED
    BY <2>3, <2>4
<1>14. CASE BrokerAccepts
  <2>1. /\ link = "trying" /\ link' = "up" /\ callbacks' # <<>> /\ UNCHANGED <<subscriptions, call>>
    BY <1>14 DEF BrokerAccepts
  <2>2. Connection = "none" /\ Connection' = "new" /\ Calling' = Calling
    BY <2>1 DEF Connection, Calling
  <2>3. Held' \in SUBSET Topic
    BY DEF Held
  <2>4. Service!ConnectionComes
    BY <2>1, <2>2, <2>3 DEF Service!ConnectionComes
  <2>5. QED
    BY <2>4 DEF Service!Next
<1>15. CASE LinkLost
  <2>1. link = "up" /\ link' # "up" /\ callbacks = <<>> /\ UNCHANGED <<subscriptions, call>>
    BY <1>15 DEF LinkLost
  <2>2. QED
    BY <1>8, <2>1 DEF Calling
<1>16. CASE UNCHANGED vars
  BY <1>1, <1>16 DEF vars, Connection, Held, Holds, Calling
<1>17. QED
  BY <1>3, <1>4, <1>5, <1>6, <1>7, <1>10, <1>11, <1>12, <1>13, <1>14, <1>15, <1>16
  DEF Next, Caller, Callback, Library

\* Subscribe, Unsubscribe and ResubscribeAll (mqtt_client.cpp): to its callers the
\* client is one whose broker carries out every call at once, whatever the order of
\* callbacks, queued commands and losses.  It implements SubscriptionService.
THEOREM ImplementsService == Spec => Service!Spec
<1>1. Init => Service!Init
  BY DEF Init, Service!Init, Connection, Held, Calling, Idle, Service!NoCall
<1>2. Init => LinkInv
  BY DistinctCallbacks DEF Init, LinkInv, Idle
<1>3. QED
  BY <1>1, <1>2, TypeInit, TypeStep, LinkStep, ServiceStep, PTL DEF Spec, Service!Spec
=============================================================================
