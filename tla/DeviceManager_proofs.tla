------------------------ MODULE DeviceManager_proofs ------------------------
(***************************************************************************)
(* Theorems about DeviceManager for any sets of devices and HTTP threads.  *)
(***************************************************************************)
EXTENDS DeviceManager, TLAPS

LEMMA RowIsNotNoRow == \A r \in Row : r # NoRow
<1> SUFFICES ASSUME NEW r \in Row, r = NoRow PROVE FALSE
  OBVIOUS
<1>1. "latest" \in DOMAIN r
  BY DEF Row
<1>2. "latest" \notin DOMAIN NoRow
  BY DEF NoRow
<1>3. QED
  BY <1>1, <1>2

\* A request that is at its topics names one of the three; any other that is
\* not idle names its device.
LEMMA RequestFields ==
  ASSUME NEW r \in Request
  PROVE  /\ r.op \in {"subscribing", "unsubscribing"} =>
              r \in [op : {"subscribing", "unsubscribing"}, device : Device, next : 1..3]
         /\ r.op \in {"added", "removing", "publishing"} => r.device \in Device
BY DEF Request

LEMMA MessageFields ==
  ASSUME NEW p \in Message
  PROVE  /\ p.op = "status" =>
              p \in [op : {"status"}, device : Device, copy : Row \cup {NoRow}, online : BOOLEAN]
         /\ p.op = "heartbeat" => p \in [op : {"heartbeat"}, device : Device, copy : Row]
         /\ p.op = "announcing" => p \in [op : {"announcing"}, device : Device, online : BOOLEAN]
BY DEF Message

LEMMA SubscribeType ==
  ASSUME TypeOK, NEW topic \in DeviceTopic, MqttSubscribe(topic)
  PROVE  recorded' \subseteq DeviceTopic /\ missed' \subseteq Device
BY DEF TypeOK, MqttSubscribe, DeviceTopic

LEMMA KindsType == \A i \in 1..3 : Kinds[i] \in Kind
BY DEF Kinds, Kind

\* The types are preserved by every step of an HTTP thread ...
LEMMA HttpType == ASSUME TypeOK, NEW h \in HttpThread, HttpStep(h) PROVE TypeOK'
<1> USE DEF TypeOK, history
<1>1. ASSUME NEW r \in Request, http' = [http EXCEPT ![h] = r] PROVE http' \in [HttpThread -> Request]
  BY <1>1
<1>2. ASSUME NEW d \in Device, RegisterAdds(h, d) PROVE TypeOK'
  <2>1. row' \in [Device -> Row \cup {NoRow}] /\ paho' \in Message
    <3>1. [latest |-> TRUE, online |-> FALSE] \in Row
      BY DEF Row
    <3>2. CASE HoldsCopy(d)
      <4>1. CASE paho.op = "status"
        <5>1. [paho EXCEPT !.copy.latest = FALSE] \in Message
          <6>1. paho \in [op : {"status"}, device : Device, copy : Row \cup {NoRow}, online : BOOLEAN]
            BY <4>1, MessageFields
          <6>2. [paho.copy EXCEPT !.latest = FALSE] \in Row
            BY <3>2, <6>1 DEF HoldsCopy, Row
          <6>3. QED
            BY <6>1, <6>2 DEF Message
        <5>2. QED
          BY <1>2, <3>1, <5>1 DEF RegisterAdds, Add
      <4>2. CASE paho.op = "heartbeat"
        <5>1. [paho EXCEPT !.copy.latest = FALSE] \in Message
          <6>1. paho \in [op : {"heartbeat"}, device : Device, copy : Row]
            BY <4>2, MessageFields
          <6>2. [paho.copy EXCEPT !.latest = FALSE] \in Row
            BY <6>1 DEF Row
          <6>3. QED
            BY <6>1, <6>2 DEF Message
        <5>2. QED
          BY <1>2, <3>1, <5>1 DEF RegisterAdds, Add
      <4>3. QED
        BY <3>2, <4>1, <4>2 DEF HoldsCopy
    <3>3. CASE ~HoldsCopy(d)
      BY <1>2, <3>1, <3>3 DEF RegisterAdds, Add
    <3>4. QED
      BY <3>2, <3>3
  <2>2. [op |-> "added", device |-> d, inserted |-> row[d] = NoRow,
         status |-> AddStatus(row[d] = NoRow)] \in Request
    BY DEF Request, AddStatus
  <2>3. QED
    BY <1>1, <1>2, <2>1, <2>2 DEF RegisterAdds
<1>3. CASE RegisterAsksConnected(h)
  <2>1. http[h].device \in Device
    BY <1>3, RequestFields DEF RegisterAsksConnected
  <2>2. /\ Idle \in Request
        /\ [op |-> "subscribing", device |-> http[h].device, next |-> 1] \in Request
    BY <2>1 DEF Request, Idle
  <2>3. QED
    BY <1>1, <1>3, <2>1, <2>2 DEF RegisterAsksConnected
<1>4. ASSUME NEW r \in Request, r = http[h], r.op \in {"subscribing", "unsubscribing"}
      PROVE  /\ r.device \in Device /\ <<r.device, Kinds[r.next]>> \in DeviceTopic
             /\ [op |-> "removing", device |-> r.device] \in Request /\ Idle \in Request
             /\ r.next # 3 => [r EXCEPT !.next = @ + 1] \in Request
  <2>1. r \in [op : {"subscribing", "unsubscribing"}, device : Device, next : 1..3]
    BY <1>4, RequestFields
  <2>2. r.next # 3 => r.next + 1 \in 1..3
    BY <2>1
  <2>3. r.next # 3 => [r EXCEPT !.next = @ + 1] \in Request
    BY <2>1, <2>2 DEF Request
  <2>4. Kinds[r.next] \in Kind
    BY <2>1, KindsType
  <2>5. QED
    BY <2>1, <2>3, <2>4 DEF Request, Idle, DeviceTopic
<1>5. CASE RegisterSubscribes(h)
  <2>1. http' \in [HttpThread -> Request]
    BY <1>1, <1>4, <1>5 DEF RegisterSubscribes
  <2>2. recorded' \subseteq DeviceTopic /\ missed' \subseteq Device
    BY <1>4, <1>5, SubscribeType DEF RegisterSubscribes
  <2>3. QED
    BY <1>5, <2>1, <2>2 DEF RegisterSubscribes
<1>6. ASSUME NEW d \in Device, UnregisterAsksConnected(h, d) PROVE TypeOK'
  <2>1. /\ [op |-> "unsubscribing", device |-> d, next |-> 1] \in Request
        /\ [op |-> "removing", device |-> d] \in Request
    BY DEF Request
  <2>2. QED
    BY <1>1, <1>6, <2>1 DEF UnregisterAsksConnected
<1>7. CASE UnregisterUnsubscribes(h)
  <2>1. http' \in [HttpThread -> Request]
    BY <1>1, <1>4, <1>7 DEF UnregisterUnsubscribes
  <2>2. recorded' \subseteq DeviceTopic
    BY <1>7 DEF UnregisterUnsubscribes
  <2>3. QED
    BY <1>7, <2>1, <2>2 DEF UnregisterUnsubscribes
<1>8. CASE UnregisterRemoves(h)
  BY <1>1, <1>8 DEF UnregisterRemoves, Request, Idle
<1>9. ASSUME NEW d \in Device, CommandChecks(h, d) PROVE TypeOK'
  BY <1>1, <1>9 DEF CommandChecks, Request
<1>10. CASE CommandPublishes(h)
  BY <1>1, <1>10 DEF CommandPublishes, Request, Idle
<1>11. QED
  BY <1>2, <1>3, <1>5, <1>6, <1>7, <1>8, <1>9, <1>10 DEF HttpStep

\* ... and of Paho's thread.
LEMMA PahoType == ASSUME TypeOK, PahoStep PROVE TypeOK'
<1> USE DEF TypeOK, history
<1>1. ASSUME NEW d \in Device, NEW copy \in Row, Update(d, copy)
      PROVE  row' \in [Device -> Row \cup {NoRow}]
  BY <1>1 DEF Update
<1>2. ASSUME NEW d \in Device, HeartbeatArrives(d) PROVE TypeOK'
  BY <1>2 DEF HeartbeatArrives, Message
<1>3. ASSUME NEW d \in Device, NEW online \in BOOLEAN, StatusArrives(d, online) PROVE TypeOK'
  <2>1. ASSUME row[d] # NoRow PROVE [row[d] EXCEPT !.online = online] \in Row
    BY <2>1 DEF Row
  <2>2. (IF row[d] = NoRow THEN NoRow ELSE [row[d] EXCEPT !.online = online]) \in Row \cup {NoRow}
    BY <2>1
  <2>3. paho' \in Message
    BY <1>3, <2>2 DEF StatusArrives, Message
  <2>4. QED
    BY <1>3, <2>3 DEF StatusArrives
<1>4. CASE StatusUpdates
  <2>1. paho \in [op : {"status"}, device : Device, copy : Row \cup {NoRow}, online : BOOLEAN]
    BY <1>4, MessageFields DEF StatusUpdates
  <2>2. row' \in [Device -> Row \cup {NoRow}]
    BY <1>1, <1>4, <2>1 DEF StatusUpdates
  <2>3. paho' \in Message
    BY <1>4, <2>1 DEF StatusUpdates, Message
  <2>4. QED
    BY <1>4, <2>2, <2>3 DEF StatusUpdates
<1>5. CASE StatusAnnounces
  <2>1. paho.device \in Device /\ paho.online \in BOOLEAN
    BY <1>5, MessageFields DEF StatusAnnounces
  <2>2. announced' \in [Device -> {"inherited", "online", "offline"}]
    BY <1>5, <2>1 DEF StatusAnnounces
  <2>3. Idle \in Message
    BY DEF Idle, Message
  <2>4. QED
    BY <1>5, <2>2, <2>3 DEF StatusAnnounces
<1>6. CASE HeartbeatUpdates
  <2>1. paho.device \in Device /\ paho.copy \in Row
    BY <1>6, MessageFields DEF HeartbeatUpdates
  <2>2. row' \in [Device -> Row \cup {NoRow}]
    BY <1>1, <1>6, <2>1 DEF HeartbeatUpdates
  <2>3. Idle \in Message
    BY DEF Idle, Message
  <2>4. QED
    BY <1>6, <2>2, <2>3 DEF HeartbeatUpdates
<1>7. CASE SensorArrives
  BY <1>7 DEF SensorArrives, Message
<1>8. CASE RuleCommands
  BY <1>8 DEF RuleCommands, Message, Idle
<1>9. CASE RulePublishes
  BY <1>9 DEF RulePublishes, Message
<1>10. QED
  BY <1>2, <1>3, <1>4, <1>5, <1>6, <1>7, <1>8, <1>9 DEF PahoStep

\* What a process that starts finds of the rows has the types given for it.
LEMMA StartTypes ==
  ASSUME row \in [Device -> Row \cup {NoRow}]
  PROVE  /\ NothingAnnounced \in [Device -> {"inherited", "online", "offline"}]
         /\ \A start \in Starts : start.todo \subseteq DeviceTopic /\ start.missed \subseteq Device
         /\ Idle \in Request /\ Idle \in Message
BY DEF NothingAnnounced, Starts, Stored, DeviceTopic, Idle, Request, Message

LEMMA RestartType == ASSUME TypeOK, Restart PROVE TypeOK'
<1>1. row' \in [Device -> Row \cup {NoRow}] /\ row \in [Device -> Row \cup {NoRow}]
  BY DEF Restart, TypeOK
<1>2. /\ announced' \in [Device -> {"inherited", "online", "offline"}]
      /\ todo' \subseteq DeviceTopic /\ missed' \subseteq Device
  BY <1>1, StartTypes DEF Restart
<1>3. http' \in [HttpThread -> Request] /\ paho' \in Message
  BY <1>1, StartTypes DEF Restart
<1>4. QED
  BY <1>1, <1>2, <1>3 DEF Restart, TypeOK

LEMMA TypeStep == ASSUME TypeOK, [Next]_vars PROVE TypeOK'
<1>1. CASE ConnectionChanges
  BY <1>1 DEF ConnectionChanges, TypeOK, history
<1>2. CASE SubscribeAll
  <2>1. PICK topic \in todo : MqttSubscribe(topic) /\ todo' = todo \ {topic}
    BY <1>2 DEF SubscribeAll
  <2>2. recorded' \subseteq DeviceTopic /\ missed' \subseteq Device
    BY <2>1, SubscribeType DEF TypeOK
  <2>3. QED
    BY <1>2, <2>1, <2>2 DEF SubscribeAll, TypeOK
<1>3. CASE UNCHANGED vars
  BY <1>3 DEF vars, TypeOK, history
<1>4. QED
  BY <1>1, <1>2, <1>3, HttpType, PahoType, RestartType DEF Next

LEMMA TypeInit == Init => TypeOK
<1> SUFFICES ASSUME Init PROVE TypeOK
  OBVIOUS
<1>1. row \in [Device -> Row \cup {NoRow}]
  BY DEF Init, Row
<1>2. todo \subseteq DeviceTopic /\ missed \subseteq Device
  BY <1>1, StartTypes DEF Init
<1>3. QED
  BY <1>1, <1>2, StartTypes DEF Init, TypeOK

\* The type invariant of rows, requests, messages and topic tables
\* (device_manager.cpp:31-221), for any devices and HTTP threads.
THEOREM DeviceTypes == Spec => []TypeOK
BY TypeInit, TypeStep, PTL DEF Spec

----------------------------------------------------------------------------
(* Who creates and removes rows *)

\* The router's mutex: one request at a time is in progress.
OneRequest == \A g, h \in HttpThread : http[g] # Idle /\ http[h] # Idle => g = h

CommandInv == OneRequest /\ CommandedIsRegistered

LEMMA OpIsNotIdle == \A r : r.op # "idle" => r # Idle
BY DEF Idle

\* A step of a thread finds the others idle and leaves them so.
LEMMA HttpAlone ==
  ASSUME TypeOK, OneRequest, NEW h \in HttpThread, HttpStep(h)
  PROVE  \A g \in HttpThread \ {h} : http[g] = Idle /\ http'[g] = Idle
<1>1. \A g \in HttpThread \ {h} : http[g] = Idle
  <2>1. CASE RouterFree
    BY <2>1 DEF RouterFree
  <2>2. CASE http[h] # Idle
    BY <2>2 DEF OneRequest
  <2>3. QED
    BY <2>1, <2>2, OpIsNotIdle
    DEF HttpStep, RegisterAdds, UnregisterAsksConnected, CommandChecks, RegisterAsksConnected,
        RegisterSubscribes, UnregisterUnsubscribes, UnregisterRemoves, CommandPublishes
<1>2. \A g \in HttpThread \ {h} : http'[g] = http[g]
  BY DEF TypeOK, HttpStep, RegisterAdds, UnregisterAsksConnected, CommandChecks,
         RegisterAsksConnected, RegisterSubscribes, UnregisterUnsubscribes, UnregisterRemoves,
         CommandPublishes
<1>3. QED
  BY <1>1, <1>2

\* What a thread writes to the table: a row of its registration, or none.
LEMMA HttpRows ==
  ASSUME TypeOK, NEW h \in HttpThread, HttpStep(h)
  PROVE  \/ UNCHANGED row
         \/ \E d \in Device : /\ RegisterAdds(h, d) /\ row[d] = NoRow
                              /\ row' = [row EXCEPT ![d] = [latest |-> TRUE, online |-> FALSE]]
         \/ /\ UnregisterRemoves(h)
            /\ row' = [row EXCEPT ![http[h].device] = NoRow]
BY DEF HttpStep, RegisterAdds, Add, UnregisterAsksConnected, CommandChecks, RegisterAsksConnected,
       RegisterSubscribes, UnregisterUnsubscribes, UnregisterRemoves, CommandPublishes

\* Paho's thread neither creates nor removes a row, and leaves the requests alone.
LEMMA PahoRows ==
  ASSUME TypeOK, PahoStep
  PROVE  UNCHANGED http /\ \A d \in Device : row'[d] = NoRow <=> row[d] = NoRow
<1>1. ASSUME NEW d \in Device, NEW copy \in Row, Update(d, copy)
      PROVE  \A e \in Device : row'[e] = NoRow <=> row[e] = NoRow
  BY <1>1, RowIsNotNoRow DEF Update, TypeOK
<1>2. CASE StatusUpdates
  <2>1. paho.device \in Device /\ paho.copy \in Row \cup {NoRow}
    BY <1>2, MessageFields DEF StatusUpdates, TypeOK
  <2>2. QED
    BY <1>1, <1>2, <2>1 DEF StatusUpdates
<1>3. CASE HeartbeatUpdates
  <2>1. paho.device \in Device /\ paho.copy \in Row
    BY <1>3, MessageFields DEF HeartbeatUpdates, TypeOK
  <2>2. QED
    BY <1>1, <1>3, <2>1 DEF HeartbeatUpdates
<1>4. QED
  BY <1>2, <1>3 DEF PahoStep, HeartbeatArrives, StatusArrives, StatusAnnounces, SensorArrives,
                    RuleCommands, RulePublishes

LEMMA OthersKeep ==
  ASSUME ConnectionChanges \/ SubscribeAll \/ UNCHANGED vars
  PROVE  UNCHANGED <<row, http, paho, announced>>
BY DEF ConnectionChanges, SubscribeAll, vars, history

\* Only the check of a command leads to a Publish.
LEMMA HttpPublishes ==
  ASSUME TypeOK, NEW h \in HttpThread, HttpStep(h), http'[h].op = "publishing"
  PROVE  row'[http'[h].device] # NoRow
<1>1. PICK d \in Device : CommandChecks(h, d)
  <2>1. ~RegisterAsksConnected(h) /\ ~CommandPublishes(h) /\ ~UnregisterRemoves(h)
    BY DEF TypeOK, Idle, RegisterAsksConnected, CommandPublishes, UnregisterRemoves
  <2>2. ~RegisterSubscribes(h) /\ ~UnregisterUnsubscribes(h)
    <3>1. ASSUME http[h].op \in {"subscribing", "unsubscribing"}
          PROVE  [http[h] EXCEPT !.next = @ + 1].op = http[h].op
      <4>1. http[h] \in [op : {"subscribing", "unsubscribing"}, device : Device, next : 1..3]
        BY <3>1, RequestFields DEF TypeOK
      <4>2. QED
        BY <4>1
    <3>2. ASSUME RegisterSubscribes(h) PROVE FALSE
      <4>1. http'[h] = Idle \/ http'[h] = [http[h] EXCEPT !.next = @ + 1]
        BY <3>2 DEF TypeOK, RegisterSubscribes
      <4>2. http[h].op = "subscribing"
        BY <3>2 DEF RegisterSubscribes
      <4>3. [http[h] EXCEPT !.next = @ + 1].op = "subscribing" /\ Idle.op = "idle"
        BY <3>1, <4>2 DEF Idle
      <4>4. http'[h].op \in {"subscribing", "idle"}
        BY <4>1, <4>3
      <4>5. QED
        BY <4>4
    <3>3. ASSUME UnregisterUnsubscribes(h) PROVE FALSE
      <4>1. \/ http'[h] = [op |-> "removing", device |-> http[h].device]
            \/ http'[h] = [http[h] EXCEPT !.next = @ + 1]
        BY <3>3 DEF TypeOK, UnregisterUnsubscribes
      <4>2. http[h].op = "unsubscribing"
        BY <3>3 DEF UnregisterUnsubscribes
      <4>3. [http[h] EXCEPT !.next = @ + 1].op = "unsubscribing"
        BY <3>1, <4>2
      <4>4. [op |-> "removing", device |-> http[h].device].op = "removing"
        OBVIOUS
      <4>5. http'[h].op \in {"unsubscribing", "removing"}
        BY <4>1, <4>3, <4>4, Zenon
      <4>6. QED
        BY <4>5
    <3>4. QED
      BY <3>2, <3>3
  <2>3. \A d \in Device : ~RegisterAdds(h, d) /\ ~UnregisterAsksConnected(h, d)
    BY DEF TypeOK, RegisterAdds, UnregisterAsksConnected
  <2>4. QED
    BY <2>1, <2>2, <2>3 DEF HttpStep
<1>2. QED
  BY <1>1 DEF CommandChecks, TypeOK

LEMMA CommandStep == ASSUME TypeOK, CommandInv, [Next]_vars PROVE CommandInv'
<1> USE DEF CommandInv
<1>1. ASSUME NEW h \in HttpThread, HttpStep(h) PROVE CommandInv'
  <2>1. \A g \in HttpThread \ {h} : http'[g] = Idle
    BY <1>1, HttpAlone
  <2>2. OneRequest'
    BY <2>1 DEF OneRequest, Idle
  <2>3. CommandedIsRegistered'
    BY <1>1, <2>1, HttpPublishes DEF CommandedIsRegistered, Idle
  <2>4. QED
    BY <2>2, <2>3
<1>2. CASE PahoStep
  <2>1. \A h \in HttpThread : http[h].op = "publishing" => http[h].device \in Device
    BY RequestFields DEF TypeOK
  <2>2. QED
    BY <1>2, <2>1, PahoRows DEF OneRequest, CommandedIsRegistered, Idle
<1>3. CASE ConnectionChanges \/ SubscribeAll \/ UNCHANGED vars
  BY <1>3, OthersKeep DEF OneRequest, CommandedIsRegistered, Idle
<1>4. CASE Restart
  <2>1. \A h \in HttpThread : http'[h] = Idle
    BY <1>4 DEF Restart
  <2>2. QED
    BY <2>1 DEF OneRequest, CommandedIsRegistered, Idle
<1>5. QED
  BY <1>1, <1>2, <1>3, <1>4 DEF Next

\* SendCommand (device_manager.cpp:83-117): the row it has checked is still
\* there when it publishes, as the requests that remove rows wait for the router.
THEOREM CommandsAreSafe == Spec => []CommandedIsRegistered
<1>1. Init => CommandInv
  BY DEF Init, CommandInv, OneRequest, CommandedIsRegistered, Idle
<1>2. QED
  BY <1>1, TypeInit, TypeStep, CommandStep, PTL DEF Spec, CommandInv

\* A message that is being handled while its device is unregistered does not
\* bring the row back (sqlite_device_repository.cpp, Update): rows come from
\* Register alone.
THEOREM RowsAreRegistered == Spec => OnlyRegisterCreates
<1>1. ASSUME TypeOK, [Next]_vars, NEW d \in Device, row[d] = NoRow, row'[d] # NoRow
      PROVE  \E h \in HttpThread : http[h] = Idle /\ http'[h].op = "added" /\ http'[h].device = d
  <2>1. PICK h \in HttpThread : HttpStep(h)
    BY <1>1, PahoRows, OthersKeep DEF Next, Restart
  <2>2. RegisterAdds(h, d)
    BY <1>1, <2>1, HttpRows DEF TypeOK
  <2>3. QED
    BY <1>1, <2>2 DEF RegisterAdds, TypeOK
<1>2. TypeOK /\ [Next]_vars =>
        [\A d \in Device : row[d] = NoRow /\ row'[d] # NoRow =>
           \E h \in HttpThread : http[h] = Idle /\ http'[h].op = "added" /\ http'[h].device = d]_vars
  BY <1>1
<1>3. QED
  BY <1>2, TypeInit, TypeStep, PTL DEF Spec, OnlyRegisterCreates

----------------------------------------------------------------------------
(* What the WebSocket clients have been told *)

Offline(d) == row[d] = NoRow \/ ~row[d].online

\* "online" was broadcast last, or nothing was and the row was found online.
Told(d) == announced[d] \in {"online", "inherited"}

\* What the message in progress owes to the rows: a status without a row to
\* update and one "offline" about to be announced are of a device that is not
\* stored as online; the copy of a status holds what will be announced; the copy
\* of a heartbeat that is online has been announced.
MessageIsTrue ==
  /\ paho.op = "status" =>
       IF paho.copy = NoRow THEN Offline(paho.device) ELSE paho.copy.online = paho.online
  /\ paho.op = "heartbeat" /\ paho.copy.online => Told(paho.device)
  /\ paho.op = "announcing" /\ ~paho.online => Offline(paho.device)

AnnounceInv == OnlineIsAnnounced /\ MessageIsTrue

\* Requests put no device online and change no message but its mark of age.
LEMMA AnnounceHttp ==
  ASSUME TypeOK, AnnounceInv, NEW h \in HttpThread, HttpStep(h)
  PROVE  AnnounceInv'
<1>1. \A d \in Device : row'[d] = row[d] \/ Offline(d)'
  BY HttpRows DEF Offline, TypeOK
<1>2. \A d \in Device : Offline(d) => Offline(d)'
  BY <1>1 DEF Offline
<1>3. UNCHANGED announced
  BY DEF HttpStep, RegisterAdds, UnregisterAsksConnected, CommandChecks, RegisterAsksConnected,
         RegisterSubscribes, UnregisterUnsubscribes, UnregisterRemoves, CommandPublishes, history
<1>4. \/ UNCHANGED paho
      \/ /\ paho.op \in {"status", "heartbeat"} /\ paho.copy # NoRow
         /\ paho' = [paho EXCEPT !.copy.latest = FALSE]
  BY DEF HttpStep, RegisterAdds, Add, HoldsCopy, UnregisterAsksConnected, CommandChecks,
         RegisterAsksConnected, RegisterSubscribes, UnregisterUnsubscribes, UnregisterRemoves,
         CommandPublishes, history
<1>5. OnlineIsAnnounced'
  <2>1. paho.op = "announcing" => UNCHANGED paho
    BY <1>4
  <2>2. QED
    BY <1>1, <1>3, <2>1 DEF AnnounceInv, OnlineIsAnnounced, Offline
<1>6. MessageIsTrue'
  <2>1. CASE UNCHANGED paho
    <3>1. paho.op \in {"status", "announcing"} => paho.device \in Device
      BY MessageFields DEF TypeOK
    <3>2. QED
      BY <1>2, <1>3, <2>1, <3>1 DEF AnnounceInv, MessageIsTrue, Told
  <2>2. CASE paho.op = "status" /\ paho.copy # NoRow /\ paho' = [paho EXCEPT !.copy.latest = FALSE]
    <3>1. paho \in [op : {"status"}, device : Device, copy : Row \cup {NoRow}, online : BOOLEAN]
      BY <2>2, MessageFields DEF TypeOK
    <3>2. paho.copy \in Row /\ paho.copy.online = paho.online
      BY <2>2, <3>1 DEF AnnounceInv, MessageIsTrue, Told
    <3>3. paho'.op = "status" /\ paho'.online = paho.online
      BY <2>2, <3>1
    <3>4. paho'.copy = [paho.copy EXCEPT !.latest = FALSE]
      BY <2>2, <3>1
    <3>5. paho'.copy.online = paho.copy.online /\ paho'.copy \in Row
      BY <3>2, <3>4 DEF Row
    <3>6. paho'.copy # NoRow
      BY <3>5, RowIsNotNoRow
    <3>7. QED
      BY <3>2, <3>3, <3>5, <3>6 DEF MessageIsTrue, Told
  <2>3. CASE paho.op = "heartbeat" /\ paho' = [paho EXCEPT !.copy.latest = FALSE]
    <3>1. paho \in [op : {"heartbeat"}, device : Device, copy : Row]
      BY <2>3, MessageFields DEF TypeOK
    <3>2. paho'.op = "heartbeat" /\ paho'.device = paho.device
      BY <2>3, <3>1
    <3>3. paho'.copy = [paho.copy EXCEPT !.latest = FALSE]
      BY <2>3, <3>1
    <3>4. paho'.copy.online = paho.copy.online
      BY <3>1, <3>3 DEF Row
    <3>5. QED
      BY <1>3, <2>3, <3>2, <3>4 DEF AnnounceInv, MessageIsTrue, Told
  <2>4. QED
    BY <1>4, <2>1, <2>2, <2>3
<1>7. QED
  BY <1>5, <1>6 DEF AnnounceInv

LEMMA AnnouncePaho ==
  ASSUME TypeOK, AnnounceInv, PahoStep
  PROVE  AnnounceInv'
<1> USE DEF AnnounceInv
<1>1. ASSUME NEW d \in Device, HeartbeatArrives(d) PROVE AnnounceInv'
  BY <1>1 DEF HeartbeatArrives, OnlineIsAnnounced, MessageIsTrue, Told, Idle, history
<1>2. ASSUME NEW d \in Device, NEW online \in BOOLEAN, StatusArrives(d, online) PROVE AnnounceInv'
  <2>1. UNCHANGED <<row, announced>> /\ paho = Idle /\ paho'.op = "status" /\ paho'.device = d
        /\ paho'.online = online
    BY <1>2 DEF StatusArrives, history
  <2>2. OnlineIsAnnounced'
    BY <2>1 DEF OnlineIsAnnounced, Idle
  <2>3. CASE row[d] = NoRow
    BY <1>2, <2>1, <2>2, <2>3 DEF StatusArrives, MessageIsTrue, Told, Offline
  <2>4. CASE row[d] # NoRow
    <3>1. row[d] \in Row
      BY <2>4 DEF TypeOK
    <3>2. paho'.copy = [row[d] EXCEPT !.online = online]
      BY <1>2, <2>4 DEF StatusArrives
    <3>3. paho'.copy.online = online /\ paho'.copy \in Row
      BY <3>1, <3>2 DEF Row
    <3>4. paho'.copy # NoRow
      BY <3>3, RowIsNotNoRow
    <3>5. QED
      BY <2>1, <2>2, <3>3, <3>4 DEF MessageIsTrue, Told
  <2>5. QED
    BY <2>3, <2>4
<1>3. CASE StatusUpdates
  <2>1. paho \in [op : {"status"}, device : Device, copy : Row \cup {NoRow}, online : BOOLEAN]
    BY <1>3, MessageFields DEF StatusUpdates, TypeOK
  <2>2. /\ paho' = [op |-> "announcing", device |-> paho.device, online |-> paho.online]
        /\ UNCHANGED announced
    BY <1>3 DEF StatusUpdates, history
  <2>3. \A e \in Device \ {paho.device} : row'[e] = row[e]
    BY <1>3 DEF StatusUpdates, Update, TypeOK
  <2>4. Offline(paho.device)' \/ (row'[paho.device].online /\ (paho.online \/ row' = row))
    BY <1>3, <2>1 DEF StatusUpdates, Update, TypeOK, MessageIsTrue, Told, Offline
  <2>5. ~paho.online => Offline(paho.device)'
    BY <1>3, <2>1 DEF StatusUpdates, Update, TypeOK, MessageIsTrue, Told, Offline
  <2>6. OnlineIsAnnounced'
    BY <1>3, <2>1, <2>2, <2>3, <2>4, <2>5 DEF StatusUpdates, OnlineIsAnnounced, Offline
  <2>7. QED
    BY <2>2, <2>5, <2>6 DEF MessageIsTrue, Told, Offline
<1>4. CASE StatusAnnounces
  <2>1. paho \in [op : {"announcing"}, device : Device, online : BOOLEAN]
    BY <1>4, MessageFields DEF StatusAnnounces, TypeOK
  <2>2. OnlineIsAnnounced'
    BY <1>4, <2>1 DEF StatusAnnounces, OnlineIsAnnounced, MessageIsTrue, Told, Offline, TypeOK
  <2>3. QED
    BY <1>4, <2>2 DEF StatusAnnounces, MessageIsTrue, Told, Idle
<1>5. CASE HeartbeatUpdates
  <2>1. paho \in [op : {"heartbeat"}, device : Device, copy : Row]
    BY <1>5, MessageFields DEF HeartbeatUpdates, TypeOK
  <2>2. OnlineIsAnnounced'
    BY <1>5, <2>1 DEF HeartbeatUpdates, Update, OnlineIsAnnounced, MessageIsTrue, Told, TypeOK, history
  <2>3. QED
    BY <1>5, <2>2 DEF HeartbeatUpdates, MessageIsTrue, Told, Idle
<1>6. CASE SensorArrives
  BY <1>6 DEF SensorArrives, OnlineIsAnnounced, MessageIsTrue, Told, Idle, history
<1>7. CASE RuleCommands
  BY <1>7 DEF RuleCommands, OnlineIsAnnounced, MessageIsTrue, Told, Idle, history
<1>8. CASE RulePublishes
  BY <1>8 DEF RulePublishes, OnlineIsAnnounced, MessageIsTrue, Told, history
<1>9. QED
  BY <1>1, <1>2, <1>3, <1>4, <1>5, <1>6, <1>7, <1>8 DEF PahoStep

\* A process that starts has announced nothing and owes nothing.
LEMMA AnnounceRestart ==
  /\ Restart => AnnounceInv'
  /\ Init => AnnounceInv
<1>1. \A d \in Device : (row[d] # NoRow /\ row[d].online) => NothingAnnounced[d] = "inherited"
  BY DEF NothingAnnounced
<1>2. Restart => AnnounceInv'
  BY <1>1 DEF Restart, AnnounceInv, OnlineIsAnnounced, MessageIsTrue, Idle
<1>3. Init => AnnounceInv
  BY <1>1 DEF Init, AnnounceInv, OnlineIsAnnounced, MessageIsTrue, Idle
<1>4. QED
  BY <1>2, <1>3

\* HandleStatusMessage and the status callback (device_manager.cpp:243-254,
\* application.cpp:186-193): a device stored as online has been announced so to the
\* WebSocket clients of this process, or is about to be, unless its row was online
\* when the process started, which Start tells nobody (application.cpp:96-139).
THEOREM OnlineIsTold == Spec => []OnlineIsAnnounced
<1>1. Init => AnnounceInv
  BY AnnounceRestart
<1>2. ASSUME TypeOK, AnnounceInv, [Next]_vars PROVE AnnounceInv'
  <2>1. CASE ConnectionChanges \/ SubscribeAll \/ UNCHANGED vars
    BY <1>2, <2>1, OthersKeep DEF AnnounceInv, OnlineIsAnnounced, MessageIsTrue, Offline, Told
  <2>2. QED
    BY <1>2, <2>1, AnnounceHttp, AnnouncePaho, AnnounceRestart DEF Next
<1>3. QED
  BY <1>1, <1>2, TypeInit, TypeStep, PTL DEF Spec, AnnounceInv

----------------------------------------------------------------------------
(* The topics in the table of the MQTT client *)

\* The first topics of a device.
First(d, n) == {<<d, Kinds[i]>> : i \in 1..n}

LEMMA FirstTopics ==
  ASSUME NEW d
  PROVE  /\ First(d, 0) = {} /\ First(d, 3) = TopicsOf(d)
         /\ \A n \in 1..3 : /\ First(d, n) = First(d, n - 1) \cup {<<d, Kinds[n]>>}
                            /\ <<d, Kinds[n]>> \in TopicsOf(d)
<1>1. First(d, 0) = {}
  BY DEF First
<1>2. \A n \in 1..3 : First(d, n) = First(d, n - 1) \cup {<<d, Kinds[n]>>}
  <2> SUFFICES ASSUME NEW n \in 1..3 PROVE First(d, n) = First(d, n - 1) \cup {<<d, Kinds[n]>>}
    OBVIOUS
  <2>1. \A i : i \in 1..n <=> i \in 1..(n - 1) \/ i = n
    OBVIOUS
  <2>2. QED
    BY <2>1 DEF First
<1>3. First(d, 3) = TopicsOf(d)
  <2>1. \A i : i \in 1..3 <=> i \in {1, 2, 3}
    OBVIOUS
  <2>2. Kinds[1] = "status" /\ Kinds[2] = "sensors" /\ Kinds[3] = "heartbeat"
    BY DEF Kinds
  <2>3. First(d, 3) = {<<d, "status">>, <<d, "sensors">>, <<d, "heartbeat">>}
    BY <2>1, <2>2 DEF First
  <2>4. QED
    BY <2>3 DEF TopicsOf, Kind
<1>4. \A n \in 1..3 : <<d, Kinds[n]>> \in TopicsOf(d)
  BY KindsType DEF TopicsOf
<1>5. QED
  BY <1>1, <1>2, <1>3, <1>4

LEMMA TopicsApart == \A d, e, k : <<d, k>> \in TopicsOf(e) => d = e
BY DEF TopicsOf

\* A request that changes the topics of its device.
Changing == {"added", "subscribing", "unsubscribing", "removing"}
Busy(d) == \E h \in HttpThread : http[h].op \in Changing /\ http[h].device = d

Wanted(d) == IF row[d] = NoRow THEN {} ELSE TopicsOf(d)

\* How far the request of a thread has come with the topics of its device.
TopicsSoFar(h) ==
  LET r == http[h] IN
  /\ r.op \in {"added", "subscribing"} => row[r.device] # NoRow
  /\ r.op = "subscribing" /\ r.device \notin missed => First(r.device, r.next - 1) \subseteq recorded
  /\ r.op = "unsubscribing" /\ r.device \notin missed => First(r.device, r.next - 1) \cap recorded = {}
  /\ r.op = "removing" /\ r.device \notin missed => TopicsOf(r.device) \cap recorded = {}

\* Beyond RecordedMatchesRows: before HTTP starts the topics that SubscribeAll has yet
\* to come to count as recorded, and a request leaves other devices than its own alone.
TopicInv ==
  /\ OneRequest
  /\ todo # {} => \A h \in HttpThread : http[h] = Idle
  /\ \A d \in Device \ missed : ~Busy(d) => (recorded \cup todo) \cap TopicsOf(d) = Wanted(d)
  /\ \A h \in HttpThread : TopicsSoFar(h)

\* Before and after a step of a thread only its own request can be at topics.
LEMMA TopicsAlone ==
  ASSUME TypeOK, TopicInv, NEW h \in HttpThread, HttpStep(h)
  PROVE  /\ todo = {} /\ todo' = {}
         /\ OneRequest'
         /\ \A d : Busy(d) <=> http[h].op \in Changing /\ http[h].device = d
         /\ \A d : Busy(d)' <=> http'[h].op \in Changing /\ http'[h].device = d
         /\ \A g \in HttpThread \ {h} : TopicsSoFar(g)'
<1>1. \A g \in HttpThread \ {h} : http[g] = Idle /\ http'[g] = Idle
  BY HttpAlone DEF TopicInv
<1>2. RouterFree \/ http[h].op # "idle"
  BY DEF HttpStep, RegisterAdds, UnregisterAsksConnected, CommandChecks, RegisterAsksConnected,
         RegisterSubscribes, UnregisterUnsubscribes, UnregisterRemoves, CommandPublishes
<1>3. todo = {}
  BY <1>2, OpIsNotIdle DEF RouterFree, TopicInv
<1>4. todo' = todo
  BY DEF HttpStep, RegisterAdds, UnregisterAsksConnected, CommandChecks, RegisterAsksConnected,
         RegisterSubscribes, UnregisterUnsubscribes, UnregisterRemoves, CommandPublishes
<1>5. Idle.op = "idle" /\ "idle" \notin Changing
  BY DEF Idle, Changing
<1>6. QED
  BY <1>1, <1>3, <1>4, <1>5 DEF OneRequest, Busy, TopicsSoFar

\* It is enough to look at the device of the request.
LEMMA TopicsOfRequest ==
  ASSUME TypeOK, TopicInv, NEW h \in HttpThread, HttpStep(h), NEW d \in Device,
         \A e \in Device \ {d} : /\ row'[e] = row[e] /\ (e \in missed' <=> e \in missed)
                                 /\ recorded' \cap TopicsOf(e) = recorded \cap TopicsOf(e),
         http[h].op \in Changing => http[h].device = d,
         http'[h].op \in Changing => http'[h].device = d,
         d \in missed' \/ http'[h].op \in Changing \/ recorded' \cap TopicsOf(d) = Wanted(d)',
         TopicsSoFar(h)'
  PROVE  TopicInv'
<1>1. ASSUME NEW e \in Device \ missed', ~Busy(e)'
      PROVE  (recorded' \cup todo') \cap TopicsOf(e) = Wanted(e)'
  <2>1. todo = {} /\ todo' = {}
    BY TopicsAlone
  <2>2. CASE e = d
    BY <1>1, <2>1, <2>2, TopicsAlone
  <2>3. CASE e # d
    <3>1. ~Busy(e) /\ e \notin missed
      BY <1>1, <2>3, TopicsAlone
    <3>2. recorded \cap TopicsOf(e) = Wanted(e)
      BY <2>1, <3>1 DEF TopicInv
    <3>3. QED
      BY <2>1, <2>3, <3>2 DEF Wanted
  <2>4. QED
    BY <2>2, <2>3
<1>2. QED
  BY <1>1, TopicsAlone DEF TopicInv

\* One Subscribe that DeviceManager asks for adds its topic or marks its device.
LEMMA SubscribeTopics ==
  ASSUME NEW d \in Device, NEW k \in Kind, MqttSubscribe(<<d, k>>)
  PROVE  /\ \A e \in Device \ {d} : /\ e \in missed' <=> e \in missed
                                   /\ recorded' \cap TopicsOf(e) = recorded \cap TopicsOf(e)
         /\ \/ d \in missed'
            \/ missed' = missed /\ recorded' = recorded \cup {<<d, k>>}
BY TopicsApart DEF MqttSubscribe

LEMMA TopicHttp ==
  ASSUME TypeOK, TopicInv, NEW h \in HttpThread, HttpStep(h)
  PROVE  TopicInv'
<1> DEFINE r == http[h]
<1>1. TopicsSoFar(h) /\ (\A e \in Device \ missed : ~Busy(e) => (recorded \cup todo) \cap TopicsOf(e) = Wanted(e))
  BY DEF TopicInv
<1>2. \A q : http' = [http EXCEPT ![h] = q] => http'[h] = q
  BY DEF TypeOK
<1>3. ASSUME NEW d \in Device, RegisterAdds(h, d) PROVE TopicInv'
  <2>1. /\ r = Idle /\ http'[h].op = "added" /\ http'[h].device = d
        /\ UNCHANGED <<recorded, missed>>
    BY <1>2, <1>3 DEF RegisterAdds, history
  <2>2. row'[d] # NoRow /\ \A e \in Device \ {d} : row'[e] = row[e]
    <3>1. [latest |-> TRUE, online |-> FALSE] # NoRow
      BY RowIsNotNoRow DEF Row
    <3>2. QED
      BY <1>3, <3>1 DEF RegisterAdds, Add, TypeOK
  <2>3. TopicsSoFar(h)'
    BY <2>1, <2>2 DEF TopicsSoFar
  <2>4. QED
    BY <2>1, <2>2, <2>3, TopicsOfRequest DEF Changing, Idle
<1>4. CASE RegisterAsksConnected(h)
  <2>1. r.op = "added" /\ r.device \in Device /\ UNCHANGED <<row, recorded>>
    BY <1>4, RequestFields DEF RegisterAsksConnected, TypeOK
  <2>2. \/ /\ http'[h] = [op |-> "subscribing", device |-> r.device, next |-> 1]
           /\ missed' = missed \ {r.device}
        \/ http'[h] = Idle /\ missed' = missed \cup {r.device}
    BY <1>2, <1>4 DEF RegisterAsksConnected
  <2>3. TopicsSoFar(h)'
    <3>1. row[r.device] # NoRow
      BY <1>1, <2>1 DEF TopicsSoFar
    <3>2. CASE http'[h] = [op |-> "subscribing", device |-> r.device, next |-> 1]
      <4>1. First(http'[h].device, http'[h].next - 1) = {}
        <5>1. http'[h].next - 1 = 0
          BY <3>2
        <5>2. QED
          BY <5>1, FirstTopics
      <4>2. QED
        BY <2>1, <3>1, <3>2, <4>1 DEF TopicsSoFar
    <3>3. CASE http'[h] = Idle
      BY <3>3 DEF TopicsSoFar, Idle
    <3>4. QED
      BY <2>2, <3>2, <3>3
  <2>4. QED
    BY <2>1, <2>2, <2>3, TopicsOfRequest DEF Changing, Idle
<1>5. CASE RegisterSubscribes(h)
  <2>1. r \in [op : {"subscribing", "unsubscribing"}, device : Device, next : 1..3]
        /\ r.op = "subscribing" /\ UNCHANGED row
    BY <1>5, RequestFields DEF RegisterSubscribes, TypeOK
  <2>2. /\ \A e \in Device \ {r.device} : /\ e \in missed' <=> e \in missed
                                        /\ recorded' \cap TopicsOf(e) = recorded \cap TopicsOf(e)
        /\ \/ r.device \in missed'
           \/ missed' = missed /\ recorded' = recorded \cup {<<r.device, Kinds[r.next]>>}
    BY <1>5, <2>1, KindsType, SubscribeTopics DEF RegisterSubscribes
  <2>3. r.device \notin missed' => First(r.device, r.next) \subseteq recorded' /\ missed' = missed
    <3>1. First(r.device, r.next) = First(r.device, r.next - 1) \cup {<<r.device, Kinds[r.next]>>}
      BY <2>1, FirstTopics
    <3>2. QED
      BY <1>1, <2>1, <2>2, <3>1 DEF TopicsSoFar
  <2>4. row[r.device] # NoRow
    BY <1>1, <2>1 DEF TopicsSoFar
  <2>5. CASE r.next = 3
    <3>1. http'[h] = Idle
      BY <1>2, <1>5, <2>5 DEF RegisterSubscribes
    <3>2. PICK d \in Device : d = r.device
      BY <2>1
    <3>3. d \notin missed' => recorded' \cap TopicsOf(d) = Wanted(d)'
      <4>1. First(d, 3) = TopicsOf(d) /\ Wanted(d)' = TopicsOf(d)
        BY <2>1, <2>4, <3>2, FirstTopics DEF Wanted
      <4>2. d \notin missed' => TopicsOf(d) \subseteq recorded'
        BY <2>3, <2>5, <3>2, <4>1
      <4>3. QED
        BY <4>1, <4>2
    <3>4. TopicsSoFar(h)'
      BY <3>1 DEF TopicsSoFar, Idle
    <3>5. QED
      BY <2>1, <2>2, <3>1, <3>2, <3>3, <3>4, TopicsOfRequest DEF Changing, Idle
  <2>6. CASE r.next # 3
    <3>1. http'[h] = [r EXCEPT !.next = @ + 1]
      BY <1>2, <1>5, <2>6 DEF RegisterSubscribes
    <3>2. http'[h].op = "subscribing" /\ http'[h].device = r.device /\ http'[h].next = r.next + 1
      BY <2>1, <3>1
    <3>3. http'[h].next - 1 = r.next
      BY <2>1, <3>2
    <3>4. TopicsSoFar(h)'
      BY <2>1, <2>3, <2>4, <3>2, <3>3 DEF TopicsSoFar
    <3>5. QED
      BY <2>1, <2>2, <3>2, <3>4, TopicsOfRequest DEF Changing
  <2>7. QED
    BY <2>5, <2>6
<1>6. ASSUME NEW d \in Device, UnregisterAsksConnected(h, d) PROVE TopicInv'
  <2>1. r = Idle /\ UNCHANGED <<row, recorded>>
    BY <1>6 DEF UnregisterAsksConnected
  <2>2. \/ /\ http'[h] = [op |-> "unsubscribing", device |-> d, next |-> 1]
           /\ missed' = missed \ {d}
        \/ http'[h] = [op |-> "removing", device |-> d] /\ missed' = missed \cup {d}
    BY <1>2, <1>6 DEF UnregisterAsksConnected
  <2>3. TopicsSoFar(h)'
    <3>1. CASE http'[h] = [op |-> "unsubscribing", device |-> d, next |-> 1]
      <4>1. First(http'[h].device, http'[h].next - 1) = {}
        <5>1. http'[h].next - 1 = 0
          BY <3>1
        <5>2. QED
          BY <5>1, FirstTopics
      <4>2. QED
        BY <3>1, <4>1 DEF TopicsSoFar
    <3>2. CASE http'[h] = [op |-> "removing", device |-> d] /\ missed' = missed \cup {d}
      BY <3>2 DEF TopicsSoFar
    <3>3. QED
      BY <2>2, <3>1, <3>2
  <2>4. QED
    BY <2>1, <2>2, <2>3, TopicsOfRequest DEF Changing, Idle
<1>7. CASE UnregisterUnsubscribes(h)
  <2>1. r \in [op : {"subscribing", "unsubscribing"}, device : Device, next : 1..3]
        /\ r.op = "unsubscribing" /\ UNCHANGED <<row, missed>>
        /\ recorded' = recorded \ {<<r.device, Kinds[r.next]>>}
    BY <1>7, RequestFields DEF UnregisterUnsubscribes, TypeOK, history
  <2>2. \A e \in Device \ {r.device} : recorded' \cap TopicsOf(e) = recorded \cap TopicsOf(e)
    BY <2>1, TopicsApart
  <2>3. r.device \notin missed' => First(r.device, r.next) \cap recorded' = {}
    <3>1. First(r.device, r.next) = First(r.device, r.next - 1) \cup {<<r.device, Kinds[r.next]>>}
      BY <2>1, FirstTopics
    <3>2. QED
      BY <1>1, <2>1, <3>1 DEF TopicsSoFar
  <2>4. CASE r.next = 3
    <3>1. http'[h] = [op |-> "removing", device |-> r.device]
      BY <1>2, <1>7, <2>4 DEF UnregisterUnsubscribes
    <3>2. TopicsSoFar(h)'
      <4>1. First(r.device, 3) = TopicsOf(r.device)
        BY FirstTopics
      <4>2. QED
        BY <2>1, <2>3, <2>4, <3>1, <4>1 DEF TopicsSoFar
    <3>3. QED
      BY <2>1, <2>2, <3>1, <3>2, TopicsOfRequest DEF Changing
  <2>5. CASE r.next # 3
    <3>1. http'[h] = [r EXCEPT !.next = @ + 1]
      BY <1>2, <1>7, <2>5 DEF UnregisterUnsubscribes
    <3>2. http'[h].op = "unsubscribing" /\ http'[h].device = r.device /\ http'[h].next = r.next + 1
      BY <2>1, <3>1
    <3>3. http'[h].next - 1 = r.next
      BY <2>1, <3>2
    <3>4. TopicsSoFar(h)'
      BY <2>1, <2>3, <3>2, <3>3 DEF TopicsSoFar
    <3>5. QED
      BY <2>1, <2>2, <3>2, <3>4, TopicsOfRequest DEF Changing
  <2>6. QED
    BY <2>4, <2>5
<1>8. CASE UnregisterRemoves(h)
  <2>1. /\ r.op = "removing" /\ r.device \in Device /\ http'[h] = Idle
        /\ UNCHANGED <<recorded, missed>>
        /\ row'[r.device] = NoRow /\ \A e \in Device \ {r.device} : row'[e] = row[e]
    BY <1>2, <1>8, RequestFields DEF UnregisterRemoves, TypeOK, history
  <2>2. PICK d \in Device : d = r.device
    BY <2>1
  <2>3. d \notin missed' => recorded' \cap TopicsOf(d) = Wanted(d)'
    <3>1. Wanted(d)' = {}
      BY <2>1, <2>2 DEF Wanted
    <3>2. d \notin missed => TopicsOf(d) \cap recorded = {}
      BY <1>1, <2>1, <2>2 DEF TopicsSoFar
    <3>3. QED
      BY <2>1, <3>1, <3>2
  <2>4. TopicsSoFar(h)'
    BY <2>1 DEF TopicsSoFar, Idle
  <2>5. QED
    BY <2>1, <2>2, <2>3, <2>4, TopicsOfRequest DEF Changing, Idle
<1>9. ASSUME NEW d \in Device, UNCHANGED <<row, recorded, missed>>,
             r.op \in {"idle", "publishing"}, http'[h].op \in {"idle", "publishing"}
      PROVE  TopicInv'
  <2>1. ~Busy(d) /\ todo = {}
    BY <1>9, TopicsAlone DEF Changing
  <2>2. d \notin missed' => recorded' \cap TopicsOf(d) = Wanted(d)'
    BY <1>1, <1>9, <2>1 DEF Wanted
  <2>3. TopicsSoFar(h)'
    BY <1>9 DEF TopicsSoFar
  <2>4. QED
    BY <1>9, <2>2, <2>3, TopicsOfRequest DEF Changing
<1>10. ASSUME NEW d \in Device, CommandChecks(h, d) PROVE TopicInv'
  BY <1>2, <1>9, <1>10 DEF CommandChecks, Idle, history
<1>11. CASE CommandPublishes(h)
  BY <1>2, <1>9, <1>11, RequestFields DEF CommandPublishes, Idle, history, TypeOK
<1>12. QED
  BY <1>3, <1>4, <1>5, <1>6, <1>7, <1>8, <1>10, <1>11 DEF HttpStep

\* The topics of a stored device are all to come, or the device counts as missed.
LEMMA StartTopics ==
  ASSUME NEW start \in Starts, NEW d \in Device \ start.missed
  PROVE  start.todo \cap TopicsOf(d) = IF row[d] = NoRow THEN {} ELSE TopicsOf(d)
BY DEF Starts, Stored, TopicsOf

LEMMA TopicStep == ASSUME TypeOK, TopicInv, [Next]_vars PROVE TopicInv'
<1>1. CASE PahoStep
  <2>1. UNCHANGED <<http, todo, recorded, missed>>
    BY <1>1 DEF PahoStep, HeartbeatArrives, StatusArrives, StatusUpdates, StatusAnnounces,
                HeartbeatUpdates, SensorArrives, RuleCommands, RulePublishes, history
  <2>2. \A d \in Device : row'[d] = NoRow <=> row[d] = NoRow
    BY <1>1, PahoRows
  <2>3. \A h \in HttpThread : TopicsSoFar(h)'
    <3>1. \A h \in HttpThread : http[h].op = "added" \/ http[h].op = "subscribing" => http[h].device \in Device
      BY RequestFields DEF TypeOK
    <3>2. QED
      BY <2>1, <2>2, <3>1 DEF TopicInv, TopicsSoFar
  <2>4. \A d \in Device : (Busy(d)' <=> Busy(d)) /\ Wanted(d)' = Wanted(d)
    BY <2>1, <2>2 DEF Busy, Wanted
  <2>5. QED
    BY <2>1, <2>3, <2>4 DEF TopicInv, OneRequest
<1>2. CASE SubscribeAll
  <2>1. PICK d \in Device, k \in Kind :
          <<d, k>> \in todo /\ MqttSubscribe(<<d, k>>) /\ todo' = todo \ {<<d, k>>}
    BY <1>2 DEF SubscribeAll, TypeOK, DeviceTopic
  <2>2. UNCHANGED <<row, http>> /\ \A h \in HttpThread : http[h] = Idle
    BY <1>2, <2>1 DEF SubscribeAll, TopicInv
  <2>3. \A e : ~Busy(e) /\ ~Busy(e)' /\ Wanted(e)' = Wanted(e)
    BY <2>2 DEF Busy, Wanted, Changing, Idle
  <2>4. ASSUME NEW e \in Device \ missed'
        PROVE  (recorded' \cup todo') \cap TopicsOf(e) = Wanted(e)'
    <3>1. e \notin missed /\ (recorded \cup todo) \cap TopicsOf(e) = Wanted(e)
      BY <2>1, <2>3, <2>4 DEF TopicInv, MqttSubscribe
    <3>2. (recorded' \cup todo') \cap TopicsOf(e) = (recorded \cup todo) \cap TopicsOf(e)
      <4>1. CASE e = d
        BY <2>1, <2>4, <4>1 DEF MqttSubscribe
      <4>2. CASE e # d
        BY <2>1, <4>2, SubscribeTopics, TopicsApart
      <4>3. QED
        BY <4>1, <4>2
    <3>3. QED
      BY <2>3, <3>1, <3>2
  <2>5. QED
    BY <2>2, <2>4 DEF TopicInv, OneRequest, TopicsSoFar, Idle
<1>3. CASE ConnectionChanges \/ UNCHANGED vars
  <2>1. UNCHANGED <<row, http, todo, recorded, missed>>
    BY <1>3 DEF ConnectionChanges, vars, history
  <2>2. QED
    BY <2>1 DEF TopicInv, OneRequest, TopicsSoFar, Busy, Wanted
<1>4. CASE Restart
  <2>1. \A h \in HttpThread : http'[h] = Idle
    BY <1>4 DEF Restart
  <2>2. \A d \in Device \ missed' : (recorded' \cup todo') \cap TopicsOf(d) = Wanted(d)'
    BY <1>4, StartTopics DEF Restart, Wanted
  <2>3. QED
    BY <2>1, <2>2 DEF TopicInv, OneRequest, TopicsSoFar, Idle
<1>5. QED
  BY <1>1, <1>2, <1>3, <1>4, TopicHttp DEF Next

\* Register, Unregister and SubscribeAll (device_manager.cpp): between requests the
\* MQTT client is subscribed to the topics of the rows and to no other, but for devices
\* whose last call met a disconnected client.
THEOREM TopicsMatchRows == Spec => []RecordedMatchesRows
<1>1. ASSUME Init PROVE TopicInv
  <2>1. \A h \in HttpThread : http[h] = Idle
    BY <1>1 DEF Init
  <2>2. \A d \in Device \ missed : (recorded \cup todo) \cap TopicsOf(d) = Wanted(d)
    BY <1>1, StartTopics DEF Init, Wanted
  <2>3. QED
    BY <2>1, <2>2 DEF TopicInv, OneRequest, TopicsSoFar, Idle
<1>2. ASSUME TopicInv PROVE RecordedMatchesRows
  <2>1. ASSUME RouterFree PROVE todo = {} /\ \A d : ~Busy(d)
    BY <2>1 DEF RouterFree, Busy, Changing, Idle
  <2>2. QED
    BY <1>2, <2>1 DEF TopicInv, RecordedMatchesRows, Wanted
<1>3. QED
  BY <1>1, <1>2, TypeInit, TypeStep, TopicStep, PTL DEF Spec
=============================================================================
