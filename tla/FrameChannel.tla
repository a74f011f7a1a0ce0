---------------------------- MODULE FrameChannel ----------------------------
(***************************************************************************)
(* What a WebSocket connection promises to the threads that call           *)
(* WsServer::Send, Broadcast and BroadcastToTopic: the frames of one       *)
(* connection leave in the order they were queued, none is duplicated, and *)
(* once a frame is lost nothing queued after it is ever transmitted.       *)
(***************************************************************************)
EXTENDS Naturals, Sequences

CONSTANTS Conn,  \* the connections
          Msg    \* the frames

VARIABLES pending,  \* pending[c]: queued on c and not yet transmitted
          wire,     \* wire[c]: transmitted to the client of c, oldest first
          lost      \* lost[c]: a frame of c failed to be transmitted

vars == <<pending, wire, lost>>

Init ==
  /\ pending = [c \in Conn |-> <<>>]
  /\ wire = [c \in Conn |-> <<>>]
  /\ lost = [c \in Conn |-> FALSE]

\* One message is queued on each connection of S, in one step.
Enqueue(S, m) ==
  /\ pending' = [c \in Conn |-> IF c \in S THEN Append(pending[c], m) ELSE pending[c]]
  /\ UNCHANGED <<wire, lost>>

Transmit(c) ==
  /\ ~lost[c]
  /\ pending[c] # <<>>
  /\ wire' = [wire EXCEPT ![c] = Append(@, Head(pending[c]))]
  /\ pending' = [pending EXCEPT ![c] = Tail(@)]
  /\ UNCHANGED lost

Lose(c) ==
  /\ ~lost[c]
  /\ pending[c] # <<>>
  /\ lost' = [lost EXCEPT ![c] = TRUE]
  /\ pending' = [pending EXCEPT ![c] = Tail(@)]
  /\ UNCHANGED wire

Next ==
  \/ \E S \in SUBSET Conn, m \in Msg : Enqueue(S, m)
  \/ \E c \in Conn : Transmit(c) \/ Lose(c)

Spec == Init /\ [][Next]_vars
=============================================================================
