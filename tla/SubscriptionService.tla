------------------------- MODULE SubscriptionService -------------------------
(***************************************************************************)
(* What an IMqttClient promises about subscriptions: it behaves as if the  *)
(* broker carried out every call at once.  While a connection lasts, the   *)
(* broker holds what it held when the connection came about, with the      *)
(* subscriptions and unsubscriptions made since, in their order; and       *)
(* before the connection can be lost, what is recorded is subscribed to    *)
(* once more.  Nothing is said of what a broker remembers from one         *)
(* connection to the next.                                                 *)
(***************************************************************************)
CONSTANT Topic  \* the topics subscribed to

VARIABLES connection, \* there is none, a new one, or one that was told of all that is recorded
          recorded,   \* topics to be renewed on every connection
          held,       \* topics of which the broker sends the messages
          calling     \* the Subscribe or Unsubscribe in progress

vars == <<connection, recorded, held, calling>>

NoCall == [op |-> "idle"]

Init ==
  /\ connection = "none"
  /\ recorded = {} /\ held = {}
  /\ calling = NoCall

ConnectionComes ==
  /\ connection = "none"
  /\ connection' = "new" /\ held' \in SUBSET Topic
  /\ UNCHANGED <<recorded, calling>>

Renew ==
  /\ connection = "new"
  /\ connection' = "renewed"
  /\ held' = held \cup recorded
  /\ UNCHANGED <<recorded, calling>>

\* The connection is lost, or closed by a caller that has nothing else in progress.
ConnectionGoes ==
  /\ connection = "renewed" \/ (connection = "new" /\ calling = NoCall)
  /\ connection' = "none" /\ held' = {}
  /\ UNCHANGED <<recorded, calling>>

\* Without a connection Subscribe is refused, which changes nothing.
Subscribe(topic) ==
  /\ calling = NoCall /\ connection # "none"
  /\ held' = held \cup {topic}
  /\ calling' = [op |-> "subscribing", topic |-> topic]
  /\ UNCHANGED <<connection, recorded>>

SubscribeReturns ==
  /\ calling.op = "subscribing"
  /\ recorded' = recorded \cup {calling.topic}
  /\ calling' = NoCall
  /\ UNCHANGED <<connection, held>>

Unsubscribe(topic) ==
  /\ calling = NoCall
  /\ held' = held \ {topic}
  /\ calling' = [op |-> "unsubscribing", topic |-> topic]
  /\ UNCHANGED <<connection, recorded>>

UnsubscribeReturns ==
  /\ calling.op = "unsubscribing"
  /\ recorded' = recorded \ {calling.topic}
  /\ calling' = NoCall
  /\ UNCHANGED <<connection, held>>

Next ==
  \/ ConnectionComes \/ Renew \/ ConnectionGoes
  \/ \E topic \in Topic : Subscribe(topic) \/ Unsubscribe(topic)
  \/ SubscribeReturns \/ UnsubscribeReturns

Spec == Init /\ [][Next]_vars
=============================================================================
