----------------------------- MODULE MqttClient -----------------------------
(***************************************************************************)
(* MqttClient: the flag m_connected, the table of subscriptions to renew   *)
(* after a reconnection, the blocking Connect, and the Paho callbacks.     *)
(*                                                                         *)
(* Two threads meet here: Paho's, which runs the callbacks one at a time   *)
(* and notices changes of the link between them, and the application's:    *)
(* the main thread during Application::Start and Stop and, in between, the *)
(* HTTP handlers, which the router runs one at a time.  Every other thread *)
(* only reads m_connected.  A call to the library is a step of its own,    *)
(* and so is what the calling method does before and after it.             *)
(***************************************************************************)
EXTENDS Naturals, Sequences, FiniteSets

CONSTANTS
  Topic,        \* the topics subscribed to
  CleanSession, \* m_cleanSession: the broker forgets the session with the link
  MaxLinks,     \* bound: connections established with the broker
  MaxCommands   \* bound: commands queued in the library when one is issued

ASSUME MqttAssumption == /\ IsFiniteSet(Topic)
                         /\ CleanSession \in BOOLEAN
                         /\ MaxLinks \in Nat \ {0}
                         /\ MaxCommands \in Nat \ {0}

VARIABLES
  connected,      \* m_connected
  subscriptions,  \* keys of m_subscriptions
  connectDone,    \* m_connectDone
  connectSuccess, \* m_connectSuccess
  connectResult,  \* what Connect returned
  call,           \* the application's call in progress
  link,           \* the library's connection
  links,          \* connections established so far
  callbacks,      \* callbacks the library is about to run, in order
  commands,       \* commands issued and not yet carried out by the broker
  brokerSubs,     \* the broker's subscriptions for this client
  overtaken,      \* the call in progress was overtaken by the link (history)
  straddled,      \* recorded too late for the last ResubscribeAll (history)
  released,       \* unsubscribed on this link, undisturbed (history)
  crossed         \* Disconnect ended with its connection's connected callback due (history)

apiVars == <<connectDone, connectSuccess, connectResult>>
linkVars == <<link, links>>
history == <<overtaken, straddled, released, crossed>>
vars == <<connected, subscriptions, apiVars, call, linkVars, callbacks, commands,
          brokerSubs, history>>

Idle == [op |-> "idle"]
Command == [cmd : {"subscribe", "unsubscribe"}, topic : Topic]
Call == [op : {"idle", "connecting", "leaving", "disconnecting", "closed", "destroyed"}]
          \cup [op : {"checked", "subscribing", "unsubscribing"}, topic : Topic]

\* Type invariant: the flag, the table, the outcome Connect reports (ok, failed or
\* timeout), the callbacks and commands of the library, the broker.
TypeOK ==
  /\ connected \in BOOLEAN
  /\ subscriptions \subseteq Topic
  /\ connectDone \in BOOLEAN /\ connectSuccess \in BOOLEAN
  /\ connectResult \in {"none", "ok", "failed", "timeout"}
  /\ call \in Call
  /\ link \in {"off", "trying", "up"}
  /\ links \in 0..MaxLinks
  /\ callbacks \in Seq({"success", "failure", "connected", "resubscribe", "lost"})
  /\ commands \in Seq(Command)
  /\ brokerSubs \subseteq Topic
  /\ overtaken \in BOOLEAN
  /\ straddled \subseteq Topic
  /\ released \subseteq Topic
  /\ crossed \in BOOLEAN

\* With a persistent session the broker may still hold the subscriptions of
\* an earlier run of the program, which used the same client id.
Init ==
  /\ connected = FALSE
  /\ subscriptions = {}
  /\ connectDone = FALSE /\ connectSuccess = FALSE /\ connectResult = "none"
  /\ call = Idle
  /\ link = "off" /\ links = 0
  /\ callbacks = <<>>
  /\ commands = <<>>
  /\ brokerSubs \in (IF CleanSession THEN {{}} ELSE SUBSET Topic)
  /\ overtaken = FALSE /\ straddled = {} /\ released = {} /\ crossed = FALSE

----------------------------------------------------------------------------
(* Connect, called once, by Application::Start *)

Connect ==
  /\ call = Idle /\ connectResult = "none"
  /\ connectDone' = FALSE /\ connectSuccess' = FALSE
  /\ \/ /\ link' = "trying"
        /\ call' = [op |-> "connecting"]
        /\ UNCHANGED connectResult
     \/ \* MQTTAsync_connect refuses the request
        /\ connectResult' = "failed"
        /\ UNCHANGED <<link, call>>
  /\ UNCHANGED <<connected, subscriptions, links, callbacks, commands, brokerSubs, history>>

\* Mutant of ConnectReturns: a refusal gets a code of its own.
ConnectReturnsRefused ==
  /\ call.op = "connecting" /\ connectDone
  /\ connectResult' = IF connectSuccess THEN "ok" ELSE "refused"
  /\ call' = Idle
  /\ UNCHANGED <<connected, subscriptions, connectDone, connectSuccess, linkVars,
                 callbacks, commands, brokerSubs, history>>

\* The wait ends because a callback has reported the outcome ...
ConnectReturns ==
  /\ call.op = "connecting" /\ connectDone
  /\ connectResult' = IF connectSuccess THEN "ok" ELSE "failed"
  /\ call' = Idle
  /\ UNCHANGED <<connected, subscriptions, connectDone, connectSuccess, linkVars,
                 callbacks, commands, brokerSubs, history>>

\* ... or because m_connectTimeoutSeconds have passed without one.
ConnectTimesOut ==
  /\ call.op = "connecting" /\ ~connectDone
  /\ connectResult' = "timeout"
  /\ call' = Idle
  /\ UNCHANGED <<connected, subscriptions, connectDone, connectSuccess, linkVars,
                 callbacks, commands, brokerSubs, history>>

----------------------------------------------------------------------------
(* Subscribe and Unsubscribe *)

\* Subscribe has seen m_connected set; if it is not, it returns at once.
SubscribeChecks(topic) ==
  /\ call = Idle /\ connectResult # "none"
  /\ connected
  /\ call' = [op |-> "checked", topic |-> topic]
  /\ UNCHANGED <<connected, subscriptions, apiVars, linkVars, callbacks, commands,
                 brokerSubs, history>>

\* Mutant of SubscribeIssues: the topic is only recorded.
SubscribeIssuesNothing ==
  /\ call.op = "checked"
  /\ call' = [op |-> "subscribing", topic |-> call.topic]
  /\ overtaken' = FALSE
  /\ UNCHANGED <<connected, subscriptions, apiVars, linkVars, callbacks, commands,
                 brokerSubs, straddled, released, crossed>>

\* MQTTAsync_subscribe; without a connection it is refused and nothing recorded.
SubscribeIssues ==
  /\ call.op = "checked"
  /\ IF link = "up"
       THEN /\ Len(commands) < MaxCommands
            /\ commands' = Append(commands, [cmd |-> "subscribe", topic |-> call.topic])
            /\ call' = [op |-> "subscribing", topic |-> call.topic]
            /\ overtaken' = FALSE
            /\ released' = released \ {call.topic}
       ELSE /\ call' = Idle
            /\ UNCHANGED <<commands, overtaken, released>>
  /\ UNCHANGED <<connected, subscriptions, apiVars, linkVars, callbacks, brokerSubs,
                 straddled, crossed>>

\* The topic is recorded, under m_subsMutex, after the library has been told.
SubscribeRecords ==
  /\ call.op = "subscribing"
  /\ subscriptions' = subscriptions \cup {call.topic}
  /\ straddled' = IF overtaken THEN straddled \cup {call.topic} ELSE straddled \ {call.topic}
  /\ call' = Idle
  /\ UNCHANGED <<connected, apiVars, linkVars, callbacks, commands, brokerSubs,
                 overtaken, released, crossed>>

\* Unsubscribe neither looks at m_connected nor at what the library returns.
UnsubscribeIssues(topic) ==
  /\ call = Idle /\ connectResult # "none"
  /\ IF link = "up"
       THEN /\ Len(commands) < MaxCommands
            /\ commands' = Append(commands, [cmd |-> "unsubscribe", topic |-> topic])
       ELSE UNCHANGED commands
  /\ call' = [op |-> "unsubscribing", topic |-> topic]
  /\ overtaken' = (link # "up")
  /\ UNCHANGED <<connected, subscriptions, apiVars, linkVars, callbacks, brokerSubs,
                 straddled, released, crossed>>

\* Mutant of UnsubscribeErases: the topic stays in m_subscriptions.
UnsubscribeErasesNothing ==
  /\ call.op = "unsubscribing"
  /\ straddled' = straddled \ {call.topic}
  /\ released' = IF overtaken THEN released ELSE released \cup {call.topic}
  /\ call' = Idle
  /\ UNCHANGED <<connected, subscriptions, apiVars, linkVars, callbacks, commands, brokerSubs,
                 overtaken, crossed>>

UnsubscribeErases ==
  /\ call.op = "unsubscribing"
  /\ subscriptions' = subscriptions \ {call.topic}
  /\ straddled' = straddled \ {call.topic}
  /\ released' = IF overtaken THEN released ELSE released \cup {call.topic}
  /\ call' = Idle
  /\ UNCHANGED <<connected, apiVars, linkVars, callbacks, commands, brokerSubs,
                 overtaken, crossed>>

----------------------------------------------------------------------------
(* Disconnect and the destructor *)

\* Without m_connected Disconnect returns at once and leaves the library to
\* its reconnecting; Application::Stop calls it last.
DisconnectChecks ==
  /\ call = Idle
  /\ call' = [op |-> IF connected THEN "leaving" ELSE "closed"]
  /\ UNCHANGED <<connected, subscriptions, apiVars, linkVars, callbacks, commands,
                 brokerSubs, history>>

\* MQTTAsync_disconnect closes the link it finds, which need not be the one that
\* set the flag; without one it changes nothing.
DisconnectIssues ==
  /\ call.op = "leaving"
  /\ call' = [op |-> "disconnecting"]
  /\ IF link = "up"
       THEN link' = "off" /\ commands' = <<>>
       ELSE UNCHANGED <<link, commands>>
  /\ UNCHANGED <<connected, subscriptions, apiVars, links, callbacks, brokerSubs, history>>

\* Mutant of DisconnectResets: the flag is left as it is.
DisconnectResetsNothing ==
  /\ call.op = "disconnecting"
  /\ call' = [op |-> "closed"]
  /\ crossed' = (link = "off" /\ callbacks # <<>> /\ Head(callbacks) = "connected")
  /\ UNCHANGED <<connected, subscriptions, apiVars, linkVars, callbacks, commands, brokerSubs,
                 overtaken, straddled, released>>

DisconnectResets ==
  /\ call.op = "disconnecting"
  /\ connected' = FALSE
  /\ call' = [op |-> "closed"]
  /\ crossed' = (link = "off" /\ callbacks # <<>> /\ Head(callbacks) = "connected")
  /\ UNCHANGED <<subscriptions, apiVars, linkVars, callbacks, commands, brokerSubs,
                 overtaken, straddled, released>>

\* ~MqttClient: the library's handle goes, and its callbacks with it.
Destroy ==
  /\ call.op \in {"idle", "closed"}
  /\ connected' = FALSE
  /\ link' = "off" /\ callbacks' = <<>> /\ commands' = <<>>
  /\ call' = [op |-> "destroyed"]
  /\ UNCHANGED <<subscriptions, apiVars, links, brokerSubs, history>>

----------------------------------------------------------------------------
(* The callbacks, on Paho's thread *)

Due(name) == callbacks # <<>> /\ Head(callbacks) = name

OnConnectSuccess ==
  /\ Due("success")
  /\ connectDone' = TRUE /\ connectSuccess' = TRUE
  /\ callbacks' = Tail(callbacks)
  /\ UNCHANGED <<connected, subscriptions, connectResult, call, linkVars, commands,
                 brokerSubs, history>>

OnConnectFailure ==
  /\ Due("failure")
  /\ connectDone' = TRUE /\ connectSuccess' = FALSE
  /\ callbacks' = Tail(callbacks)
  /\ UNCHANGED <<connected, subscriptions, connectResult, call, linkVars, commands,
                 brokerSubs, history>>

\* Mutant of OnConnected: the subscriptions are not renewed.
OnConnectedOnly ==
  /\ Due("connected")
  /\ connected' = TRUE
  /\ callbacks' = Tail(callbacks)
  /\ UNCHANGED <<subscriptions, apiVars, call, linkVars, commands, brokerSubs, history>>

\* OnConnected sets the flag and goes on to call ResubscribeAll.
OnConnected ==
  /\ Due("connected")
  /\ connected' = TRUE
  /\ callbacks' = <<"resubscribe">> \o Tail(callbacks)
  /\ UNCHANGED <<subscriptions, apiVars, call, linkVars, commands, brokerSubs, history>>

\* The orders in which an unordered map with the keys of S may be walked.
Walks(S) == {w \in [1..Cardinality(S) -> S] : \A t \in S : \E i \in DOMAIN w : w[i] = t}

\* One MQTTAsync_subscribe for each recorded topic, under m_subsMutex.
ResubscribeAll ==
  /\ Due("resubscribe")
  /\ callbacks' = Tail(callbacks)
  /\ IF link = "up"
       THEN \E w \in Walks(subscriptions) :
              commands' = commands \o
                [i \in DOMAIN w |-> [cmd |-> "subscribe", topic |-> w[i]]]
       ELSE UNCHANGED commands
  /\ straddled' = {}
  /\ overtaken' = (overtaken \/ call.op \in {"subscribing", "unsubscribing"})
  /\ UNCHANGED <<connected, subscriptions, apiVars, call, linkVars, brokerSubs, released, crossed>>

OnConnectionLost ==
  /\ Due("lost")
  /\ connected' = FALSE
  /\ callbacks' = Tail(callbacks)
  /\ UNCHANGED <<subscriptions, apiVars, call, linkVars, commands, brokerSubs, history>>

----------------------------------------------------------------------------
(* The Paho library and the broker *)

\* The broker accepts.  onSuccess is called on the first connection only, the
\* connected callback on every one, after it.
BrokerAccepts ==
  /\ link = "trying" /\ callbacks = <<>>
  /\ links < MaxLinks
  /\ link' = "up" /\ links' = links + 1
  /\ callbacks' = IF links = 0 /\ ~connectDone THEN <<"success", "connected">> ELSE <<"connected">>
  /\ UNCHANGED <<connected, subscriptions, apiVars, call, commands, brokerSubs, history>>

\* The first attempt fails: onFailure is called, once.
FirstAttemptFails ==
  /\ link = "trying" /\ callbacks = <<>>
  /\ links = 0 /\ ~connectDone
  /\ link' \in {"off", "trying"}
  /\ callbacks' = <<"failure">>
  /\ UNCHANGED <<connected, subscriptions, apiVars, call, links, commands, brokerSubs, history>>

\* The library notices that the connection is gone and starts to reconnect.
\* Unfinished commands are kept for the next connection or dropped; the broker
\* forgets a clean session, and every session when it restarts without a store.
LinkLost ==
  /\ link = "up" /\ callbacks = <<>>
  /\ link' = "trying"
  /\ callbacks' = <<"lost">>
  /\ commands' \in {commands, <<>>}
  /\ brokerSubs' \in (IF CleanSession THEN {{}} ELSE {brokerSubs, {}})
  /\ released' = {}
  /\ overtaken' = (overtaken \/ call.op = "unsubscribing")
  /\ UNCHANGED <<connected, subscriptions, apiVars, call, links, straddled, crossed>>

BrokerExecutes ==
  /\ link = "up" /\ commands # <<>>
  /\ LET c == Head(commands) IN
       brokerSubs' = IF c.cmd = "subscribe" THEN brokerSubs \cup {c.topic}
                                            ELSE brokerSubs \ {c.topic}
  /\ commands' = Tail(commands)
  /\ UNCHANGED <<connected, subscriptions, apiVars, call, linkVars, callbacks, history>>

----------------------------------------------------------------------------
Callback == OnConnectSuccess \/ OnConnectFailure \/ OnConnected \/ ResubscribeAll \/ OnConnectionLost

Caller ==
  \/ Connect \/ ConnectReturns \/ ConnectTimesOut
  \/ \E topic \in Topic : SubscribeChecks(topic) \/ UnsubscribeIssues(topic)
  \/ SubscribeIssues \/ SubscribeRecords \/ UnsubscribeErases
  \/ DisconnectChecks \/ DisconnectIssues \/ DisconnectResets \/ Destroy

Library == BrokerAccepts \/ FirstAttemptFails \/ LinkLost \/ BrokerExecutes

Next == Caller \/ Callback \/ Library

Spec == Init /\ [][Next]_vars

\* Paho's threads keep running, and the broker answers while the link is up.
FairSpec == Spec /\ WF_vars(Callback) /\ WF_vars(BrokerExecutes)

----------------------------------------------------------------------------
(* Properties *)

\* Whether a broker with the subscriptions subs holds topic once it has carried out
\* cs: the last command for the topic decides.
HoldsAfter(cs, subs, topic) ==
  \/ topic \in subs /\ \A i \in DOMAIN cs : cs[i].topic # topic
  \/ \E i \in DOMAIN cs :
       /\ cs[i] = [cmd |-> "subscribe", topic |-> topic]
       /\ \A j \in DOMAIN cs : cs[j].topic = topic => j <= i

Holds(topic) == HoldsAfter(commands, brokerSubs, topic)

\* Once Paho's thread has caught up, m_connected tells whether there is a
\* connection: no order of losses and reconnections leaves it set without one,
\* and before Disconnect it is never left unset with one.  Disconnect is where
\* it goes wrong, and only so: after a loss and a reconnection between its check
\* of the flag and its reset, the connected callback still due sets the flag for
\* a link Disconnect has closed.  (A reconnection that MQTTAsync_disconnect does
\* not see leaves the flag unset for good.)
FlagTracksLink ==
  callbacks = <<>> /\ call.op # "disconnecting" =>
    /\ connected => link = "up" \/ crossed
    /\ link = "up" /\ call.op # "closed" => connected

\* mqtt_client.hpp:81: on every connection the broker is told of every topic
\* in m_subscriptions, whatever the broker forgot.  Only a topic recorded after
\* the ResubscribeAll of the present connection, though issued before it, is
\* not, nor one whose Unsubscribe is under way.
NoSubscriptionForgotten ==
  link = "up" /\ callbacks = <<>> =>
    \A t \in subscriptions \ straddled :
      Holds(t) \/ (call.op = "unsubscribing" /\ call.topic = t)

\* A topic whose Unsubscribe was not overtaken by a ResubscribeAll or a loss of
\* the link is neither recorded nor held by the broker, as long as the link
\* lasts and until it is subscribed to again.
UnsubscribedIsGone ==
  \A t \in released : t \notin subscriptions /\ (link = "up" => ~Holds(t))

\* A recorded topic becomes a subscription of the broker on the next connection
\* that lasts, unless it is unsubscribed first.
RecordedIsSubscribed ==
  \A t \in Topic :
    (t \in subscriptions \ straddled /\ link = "up")
      ~> \/ t \in brokerSubs
         \/ link # "up"
         \/ call.op = "unsubscribing" /\ call.topic = t

\* mqtt_client_test.cpp:124: after a successful Connect, and as long as the
\* first connection lasts, IsConnected() is true.
ConnectedAfterConnect ==
  connectResult = "ok" /\ links = 1 /\ link = "up" => connected
=============================================================================
