---------------------------- MODULE DeviceManager ----------------------------
(***************************************************************************)
(* DeviceManager with the device table of SqliteDeviceRepository: device   *)
(* registration and commands from the HTTP threads, MQTT messages handled  *)
(* on Paho's thread, SubscribeAll on the main thread at start.             *)
(*                                                                         *)
(* No lock spans a whole method of DeviceManager.  Each repository call    *)
(* holds the repository's mutex, each MQTT call is atomic here (MqttClient *)
(* models its inside), and HttpRouter::Dispatch holds the router's mutex   *)
(* while a handler runs; one action is one such call.  SQLite statements   *)
(* fail only on a constraint.  The program may be killed at any point and  *)
(* started again; what it finds then is the table.                         *)
(***************************************************************************)
EXTENDS Naturals, Sequences

CONSTANTS
  Device,     \* device ids
  HttpThread  \* threads of the HTTP server

VARIABLES
  row,       \* row[d]: the row of d in the table devices
  http,      \* http[h]: the request thread h is handling
  paho,      \* the MQTT message Paho's thread is handling
  todo,      \* topics SubscribeAll has yet to subscribe to
  mqttUp,    \* IMqttClient::IsConnected
  recorded,  \* topics in the MQTT client's table of subscriptions
  announced, \* announced[d]: the last status of d this process has broadcast (history)
  missed     \* devices whose topics a disconnected client left as they were (history)

history == <<announced, missed>>
vars == <<row, http, paho, todo, mqttUp, recorded, history>>

\* latest: name, type, protocol and address are those of the last INSERT of
\* the id, and not of one before.
Row == [latest : BOOLEAN, online : BOOLEAN]
NoRow == [op |-> "none"]
Kinds == <<"status", "sensors", "heartbeat">>
Kind == {"status", "sensors", "heartbeat"}
DeviceTopic == Device \X Kind
TopicsOf(d) == {d} \X Kind
Idle == [op |-> "idle"]

\* A request in progress; next is the index in Kinds of the next topic.
Request ==
  [op : {"idle"}]
    \cup [op : {"added"}, device : Device, inserted : BOOLEAN, status : {201, 409}]
    \cup [op : {"removing", "publishing"}, device : Device]
    \cup [op : {"subscribing", "unsubscribing"}, device : Device, next : 1..3]

\* A message in progress, with the copy of the row that GetById returned.
Message ==
  [op : {"idle"}]
    \cup [op : {"status"}, device : Device, copy : Row \cup {NoRow}, online : BOOLEAN]
    \cup [op : {"heartbeat"}, device : Device, copy : Row]
    \cup [op : {"announcing"}, device : Device, online : BOOLEAN]
    \cup [op : {"evaluated"}]
    \cup [op : {"commanding"}, device : Device]

\* Type invariant: rows, the request of each HTTP thread (answered 201 or 409 when
\* the row was asked for), the message on Paho's thread, the topic tables.
TypeOK ==
  /\ row \in [Device -> Row \cup {NoRow}]
  /\ http \in [HttpThread -> Request]
  /\ paho \in Message
  /\ todo \subseteq DeviceTopic
  /\ mqttUp \in BOOLEAN
  /\ recorded \subseteq DeviceTopic
  /\ announced \in [Device -> {"inherited", "online", "offline"}]
  /\ missed \subseteq Device

Stored == {d \in Device : row[d] # NoRow}

\* What Start makes of the rows it finds: it has called Connect, and if that
\* succeeded SubscribeAll goes through all of them; if not their topics are left out.
Starts == {[todo |-> Stored \X Kind, missed |-> {}], [todo |-> {}, missed |-> Stored]}

\* A process that has broadcast nothing yet: what a row that is online says, an
\* earlier process may have broadcast, or not have come to.
NothingAnnounced ==
  [d \in Device |-> IF row[d] # NoRow /\ row[d].online THEN "inherited" ELSE "offline"]

\* The table may hold devices of an earlier run, as they were when it ended.
Init ==
  /\ row \in [Device -> [latest : {TRUE}, online : BOOLEAN] \cup {NoRow}]
  /\ http = [h \in HttpThread |-> Idle]
  /\ paho = Idle
  /\ mqttUp \in BOOLEAN
  /\ \E start \in Starts : todo = start.todo /\ missed = start.missed
  /\ recorded = {}
  /\ announced = NothingAnnounced

\* The process ends, between any two calls, and the program is started again: the
\* rows stay, and nothing in Start broadcasts what they say.
Restart ==
  /\ UNCHANGED row
  /\ http' = [h \in HttpThread |-> Idle]
  /\ paho' = Idle
  /\ mqttUp' \in BOOLEAN
  /\ \E start \in Starts : todo' = start.todo /\ missed' = start.missed
  /\ recorded' = {}
  /\ announced' = NothingAnnounced

----------------------------------------------------------------------------
(* The MQTT client as DeviceManager sees it *)

\* m_connected changes when the client's callbacks say so.
ConnectionChanges ==
  /\ mqttUp' = ~mqttUp
  /\ UNCHANGED <<row, http, paho, todo, recorded, history>>

\* Subscribe is refused while m_connected is unset, and by the library when the
\* connection is gone and m_connected not yet reset; the result is ignored.
MqttSubscribe(topic) ==
  \/ mqttUp /\ recorded' = recorded \cup {topic} /\ UNCHANGED missed
  \/ missed' = missed \cup {topic[1]} /\ UNCHANGED recorded

\* One iteration of SubscribeAll, over the rows it read; HTTP has not started.
SubscribeAll ==
  /\ \E topic \in todo : MqttSubscribe(topic) /\ todo' = todo \ {topic}
  /\ UNCHANGED <<row, http, paho, mqttUp, announced>>

----------------------------------------------------------------------------
(* HTTP requests *)

\* Mutant of RouterFree: handlers of different requests run in parallel.
RouterIgnored == todo = {}

\* HttpRouter::Dispatch holds m_mutex while a handler runs, and the HTTP
\* server is started after SubscribeAll.
RouterFree == todo = {} /\ \A h \in HttpThread : http[h] = Idle

HoldsCopy(d) == paho.op \in {"status", "heartbeat"} /\ paho.device = d /\ paho.copy # NoRow

\* SqliteDeviceRepository::Add, for a row marked offline; the primary key
\* makes a second INSERT fail.  A copy read before is not the latest any more.
Add(d) ==
  IF row[d] = NoRow
    THEN /\ row' = [row EXCEPT ![d] = [latest |-> TRUE, online |-> FALSE]]
         /\ paho' = IF HoldsCopy(d) THEN [paho EXCEPT !.copy.latest = FALSE] ELSE paho
    ELSE UNCHANGED <<row, paho>>

\* Mutant of AddStatus: a code of its own for a failed INSERT.
AddStatusOther(inserted) == IF inserted THEN 201 ELSE 500

\* Both ways out of Add return success, so Register goes on and the answer
\* is 201 whether or not the row was inserted.
AddStatus(inserted) == 201

\* Register up to the end of Add.
RegisterAdds(h, d) ==
  /\ RouterFree /\ http[h] = Idle
  /\ Add(d)
  /\ http' = [http EXCEPT ![h] = [op |-> "added", device |-> d, inserted |-> row[d] = NoRow,
                                 status |-> AddStatus(row[d] = NoRow)]]
  /\ UNCHANGED <<todo, mqttUp, recorded, history>>

\* Register asks IsConnected once, before the first of its three Subscribes.
RegisterAsksConnected(h) ==
  /\ http[h].op = "added"
  /\ LET d == http[h].device IN
       IF mqttUp
         THEN /\ http' = [http EXCEPT ![h] = [op |-> "subscribing", device |-> d, next |-> 1]]
              /\ missed' = missed \ {d}
         ELSE /\ http' = [http EXCEPT ![h] = Idle]
              /\ missed' = missed \cup {d}
  /\ UNCHANGED <<row, paho, todo, mqttUp, recorded, announced>>

\* Mutant of RegisterSubscribes: the loop ends one topic early.
RegisterSubscribesTwo(h) ==
  /\ http[h].op = "subscribing"
  /\ LET r == http[h] IN
       /\ MqttSubscribe(<<r.device, Kinds[r.next]>>)
       /\ http' = [http EXCEPT ![h] = IF r.next = 2 THEN Idle ELSE [r EXCEPT !.next = @ + 1]]
  /\ UNCHANGED <<row, paho, todo, mqttUp, announced>>

RegisterSubscribes(h) ==
  /\ http[h].op = "subscribing"
  /\ LET r == http[h] IN
       /\ MqttSubscribe(<<r.device, Kinds[r.next]>>)
       /\ http' = [http EXCEPT ![h] = IF r.next = 3 THEN Idle ELSE [r EXCEPT !.next = @ + 1]]
  /\ UNCHANGED <<row, paho, todo, mqttUp, announced>>

\* Unregister starts with the topics, and leaves them if not connected.
UnregisterAsksConnected(h, d) ==
  /\ RouterFree /\ http[h] = Idle
  /\ IF mqttUp
       THEN /\ http' = [http EXCEPT ![h] = [op |-> "unsubscribing", device |-> d, next |-> 1]]
            /\ missed' = missed \ {d}
       ELSE /\ http' = [http EXCEPT ![h] = [op |-> "removing", device |-> d]]
            /\ missed' = missed \cup {d}
  /\ UNCHANGED <<row, paho, todo, mqttUp, recorded, announced>>

\* MqttClient::Unsubscribe erases the topic whether or not it is connected.
UnregisterUnsubscribes(h) ==
  /\ http[h].op = "unsubscribing"
  /\ LET r == http[h] IN
       /\ recorded' = recorded \ {<<r.device, Kinds[r.next]>>}
       /\ http' = [http EXCEPT ![h] = IF r.next = 3 THEN [op |-> "removing", device |-> r.device]
                                                    ELSE [r EXCEPT !.next = @ + 1]]
  /\ UNCHANGED <<row, paho, todo, mqttUp, history>>

\* SqliteDeviceRepository::Remove; an unknown id is answered with 404.
UnregisterRemoves(h) ==
  /\ http[h].op = "removing"
  /\ row' = [row EXCEPT ![http[h].device] = NoRow]
  /\ http' = [http EXCEPT ![h] = Idle]
  /\ UNCHANGED <<paho, todo, mqttUp, recorded, history>>

\* SendCommand up to its check of the row; otherwise it is answered 404 or 422.
CommandChecks(h, d) ==
  /\ RouterFree /\ http[h] = Idle
  /\ row[d] # NoRow /\ row[d].online
  /\ http' = [http EXCEPT ![h] = [op |-> "publishing", device |-> d]]
  /\ UNCHANGED <<row, paho, todo, mqttUp, recorded, history>>

\* Publish, accepted or refused, ends the request.
CommandPublishes(h) ==
  /\ http[h].op = "publishing"
  /\ http' = [http EXCEPT ![h] = Idle]
  /\ UNCHANGED <<row, paho, todo, mqttUp, recorded, history>>

----------------------------------------------------------------------------
(* MQTT messages, handled one at a time on Paho's thread.  A message for any
   device can arrive at any time: retained, in flight when its topic was
   unsubscribed, or due to the persistent session of an earlier run. *)

\* Mutant of Update: INSERT OR REPLACE.
UpdateInserts(d, copy) == row' = [row EXCEPT ![d] = copy]

\* SqliteDeviceRepository::Update writes every column; a removed row is gone.
Update(d, copy) == row' = IF row[d] = NoRow THEN row ELSE [row EXCEPT ![d] = copy]

\* HandleStatusMessage up to the new status of the copy that GetById returned;
\* a row need not exist.
StatusArrives(d, online) ==
  /\ paho = Idle
  /\ paho' = [op |-> "status", device |-> d, online |-> online,
              copy |-> IF row[d] = NoRow THEN NoRow ELSE [row[d] EXCEPT !.online = online]]
  /\ UNCHANGED <<row, http, todo, mqttUp, recorded, history>>

\* Update with the copy, if there is one.
StatusUpdates ==
  /\ paho.op = "status"
  /\ IF paho.copy = NoRow THEN UNCHANGED row ELSE Update(paho.device, paho.copy)
  /\ paho' = [op |-> "announcing", device |-> paho.device, online |-> paho.online]
  /\ UNCHANGED <<http, todo, mqttUp, recorded, history>>

\* The status callback broadcasts, whether or not the device is known or its
\* status has changed.
StatusAnnounces ==
  /\ paho.op = "announcing"
  /\ announced' = [announced EXCEPT ![paho.device] = IF paho.online THEN "online" ELSE "offline"]
  /\ paho' = Idle
  /\ UNCHANGED <<row, http, todo, mqttUp, recorded, missed>>

\* A heartbeat of an unknown device is ignored.
HeartbeatArrives(d) ==
  /\ paho = Idle
  /\ row[d] # NoRow
  /\ paho' = [op |-> "heartbeat", device |-> d, copy |-> row[d]]
  /\ UNCHANGED <<row, http, todo, mqttUp, recorded, history>>

\* Mutant of HeartbeatUpdates: a device that is alive is marked online.
HeartbeatUpdatesOnline ==
  /\ paho.op = "heartbeat"
  /\ Update(paho.device, [paho.copy EXCEPT !.online = TRUE])
  /\ paho' = Idle
  /\ UNCHANGED <<http, todo, mqttUp, recorded, history>>

\* Only m_lastSeen (not modelled) is new in the row written back.
HeartbeatUpdates ==
  /\ paho.op = "heartbeat"
  /\ Update(paho.device, paho.copy)
  /\ paho' = Idle
  /\ UNCHANGED <<http, todo, mqttUp, recorded, history>>

\* A sensor reading is broadcast, not stored, and given to the rule engine.
SensorArrives ==
  /\ paho = Idle
  /\ paho' = [op |-> "evaluated"]
  /\ UNCHANGED <<row, http, todo, mqttUp, recorded, history>>

\* Each action of a matching rule is a SendCommand on this thread.
RuleCommands ==
  /\ paho.op = "evaluated"
  /\ \/ paho' = Idle
     \/ \E d \in Device : row[d] # NoRow /\ row[d].online
                          /\ paho' = [op |-> "commanding", device |-> d]
  /\ UNCHANGED <<row, http, todo, mqttUp, recorded, history>>

RulePublishes ==
  /\ paho.op = "commanding"
  /\ paho' = [op |-> "evaluated"]
  /\ UNCHANGED <<row, http, todo, mqttUp, recorded, history>>

----------------------------------------------------------------------------
HttpStep(h) ==
  \/ \E d \in Device : RegisterAdds(h, d) \/ UnregisterAsksConnected(h, d) \/ CommandChecks(h, d)
  \/ RegisterAsksConnected(h) \/ RegisterSubscribes(h)
  \/ UnregisterUnsubscribes(h) \/ UnregisterRemoves(h) \/ CommandPublishes(h)

PahoStep ==
  \/ \E d \in Device : HeartbeatArrives(d) \/ \E online \in BOOLEAN : StatusArrives(d, online)
  \/ StatusUpdates \/ StatusAnnounces \/ HeartbeatUpdates
  \/ SensorArrives \/ RuleCommands \/ RulePublishes

Next ==
  \/ ConnectionChanges \/ SubscribeAll
  \/ \E h \in HttpThread : HttpStep(h)
  \/ PahoStep
  \/ Restart

Spec == Init /\ [][Next]_vars

----------------------------------------------------------------------------
(* Properties *)

\* A row comes into being by a Register and in no other way: a message that
\* was being handled when its device was unregistered does not bring it back.
OnlyRegisterCreates ==
  [][\A d \in Device : row[d] = NoRow /\ row'[d] # NoRow =>
       \E h \in HttpThread : http[h] = Idle /\ http'[h].op = "added" /\ http'[h].device = d]_vars

\* A device stored as online has been announced so to the WebSocket clients of this
\* process, or is about to be.  The one exception: its row was online when the
\* process started, and no status of the device has been broadcast since.
OnlineIsAnnounced ==
  \A d \in Device :
    row[d] # NoRow /\ row[d].online =>
      announced[d] \in {"online", "inherited"}
        \/ (paho.op = "announcing" /\ paho.device = d /\ paho.online)

\* Between requests the MQTT client's table holds exactly the topics of the
\* rows, but for devices whose last call met a disconnected client.
RecordedMatchesRows ==
  RouterFree =>
    \A d \in Device \ missed :
      recorded \cap TopicsOf(d) = IF row[d] = NoRow THEN {} ELSE TopicsOf(d)

\* A command of POST /commands is published while its device is registered:
\* no DELETE /devices gets between the check and the Publish.
CommandedIsRegistered ==
  \A h \in HttpThread : http[h].op = "publishing" => row[http[h].device] # NoRow

\* device_manager.hpp:48 ("Thread-safe"): a row holds what the last
\* registration of its id gave it.
RowIsLatest == \A d \in Device : row[d] # NoRow => row[d].latest
=============================================================================
