----------------------------- MODULE Application -----------------------------
(***************************************************************************)
(* The life of the process: main, Application with the objects it owns,    *)
(* and the threads of the heartbeat monitor and the two servers.           *)
(*                                                                         *)
(* What the threads do is in the modules of their components; here they    *)
(* are at work until they have been asked to stop and the handler they are *)
(* in has returned.  Paho's thread is not among them: nothing ever waits   *)
(* for it.  (Disconnect is asynchronous, so that a message callback can    *)
(* still be under way when the objects it uses are destroyed.)  Exceptions *)
(* are those that the program throws itself; that memory and threads can   *)
(* be had is taken for granted, and what handlers throw is left out.       *)
(***************************************************************************)
EXTENDS Integers, Sequences

\* Data members of Application in the order of their declaration; the six
\* controllers count as one.
Members == <<"db", "deviceRepo", "sensorRepo", "mqtt", "deviceManager", "heartbeat",
             "ruleRepo", "ruleEngine", "auth", "http", "ws", "controllers">>

Group == {"heartbeat", "http", "ws"}

\* What the threads of a group refer to: HttpSession and the controllers reach
\* everything, the handlers of WsServer use only that.  (The timeout callback of
\* the monitor uses "ws", but as nobody registers a device it is never called.)
Uses == [heartbeat |-> {"heartbeat"},
         http |-> {Members[i] : i \in DOMAIN Members} \ {"heartbeat"},
         ws |-> {"ws"}]

VARIABLES
  main,    \* where main is
  alive,   \* how many of Members exist: they are destroyed from the last one on
  running, \* Application::m_running
  work,    \* threads of each group
  stop,    \* the Application::Stop that was let in: whose thread, where it is
  closing  \* main is in the destructor of a server that it has asked to stop

vars == <<main, alive, running, work, stop, closing>>

\* Stop has been let in at most once, as m_running is exchanged.
NotStopped == [by |-> "nobody", at |-> 1, joining |-> FALSE]

\* Type invariant: main, members, threads, and the Stop in progress.
TypeOK ==
  /\ main \in {"initialize", "initialized", "start heartbeat", "start ws", "start http",
               "started", "loop", "destroy", "exited", "aborted", "uncaught"}
  /\ alive \in 0..Len(Members)
  /\ running \in BOOLEAN
  /\ work \in [Group -> {"none", "running", "stopping", "ended", "joined"}]
  /\ stop \in [by : {"nobody", "main", "paho"} \cup Group, at : 1..5, joining : BOOLEAN]
  /\ closing \in BOOLEAN

Init ==
  /\ main = "initialize"
  /\ alive = 0
  /\ running = FALSE
  /\ work = [g \in Group |-> "none"]
  /\ stop = NotStopped
  /\ closing = FALSE

Lives(c) == \E i \in 1..alive : Members[i] = c

\* The process has ended.
Gone == main \in {"exited", "aborted", "uncaught"}

----------------------------------------------------------------------------
(* main: Initialize, Start, the loop *)

\* An exception that nobody catches: std::terminate, and nothing is destroyed in order.
Uncaught == main' = "uncaught" /\ alive' = 0

\* Initialize makes everything, or gives up: the database cannot be opened, or a migration
\* returns an error.  Only the opening is in a try: an exception of a statement that
\* cannot be prepared (a file that is not a database), or of the constructor of
\* MqttClient, leaves Initialize and main.
Initialize ==
  /\ main = "initialize"
  /\ \/ main' = "initialized" /\ alive' = Len(Members)
     \/ main' = "destroy" /\ alive' \in {0, 1}
     \/ Uncaught
  /\ UNCHANGED <<running, work, stop, closing>>

\* Without --serve main returns; with it, it calls Start, which connects to the
\* broker and goes on whether or not that succeeds.  If it does, SubscribeAll reads the
\* devices, with a statement that may throw as well.
Serve ==
  /\ main = "initialized"
  /\ \/ main' \in {"destroy", "start heartbeat"} /\ UNCHANGED alive
     \/ Uncaught
  /\ UNCHANGED <<running, work, stop, closing>>

StartHeartbeat ==
  /\ main = "start heartbeat"
  /\ main' = "start ws"
  /\ work' = [work EXCEPT !["heartbeat"] = "running"]
  /\ UNCHANGED <<alive, running, stop, closing>>

\* A server starts its threads, or its port is in use: then main returns, with
\* what has been started before.
StartServer(g, at, next) ==
  /\ main = at
  /\ \/ main' = next /\ work' = [work EXCEPT ![g] = "running"]
     \/ main' = "destroy" /\ UNCHANGED work
  /\ UNCHANGED <<alive, running, stop, closing>>

StartWs == StartServer("ws", "start ws", "start http")
StartHttp == StartServer("http", "start http", "started")

\* The last step of Start, and the signal handlers.
Started ==
  /\ main = "started"
  /\ main' = "loop"
  /\ running' = TRUE
  /\ UNCHANGED <<alive, work, stop, closing>>

\* A handler on the thread of main holds it up until it returns.
InHandler == stop.by = "main" /\ stop.at < 5

LeaveLoop ==
  /\ main = "loop"
  /\ ~running /\ ~InHandler
  /\ main' = "destroy"
  /\ UNCHANGED <<alive, running, work, stop, closing>>

----------------------------------------------------------------------------
(* Signals and Application::Stop *)

\* SIGINT or SIGTERM before the handlers are installed.
Killed ==
  /\ ~Gone /\ main # "loop"
  /\ stop = NotStopped
  /\ main' = "exited"
  /\ alive' = 0
  /\ work' = [g \in Group |-> "none"]
  /\ closing' = FALSE
  /\ UNCHANGED <<running, stop>>

\* A signal is handled by a thread that does not block it, usually that of main.
\* Any further Stop returns at once.
Signal(t) ==
  /\ main = "loop" /\ running
  /\ running' = FALSE
  /\ stop' = [by |-> t, at |-> 1, joining |-> FALSE]
  /\ UNCHANGED <<main, alive, work, closing>>

Aborts ==
  /\ main' = "aborted"
  /\ work' = [g \in Group |-> "none"]
  /\ UNCHANGED <<alive, running, stop, closing>>

\* Stop is at work, on a thread that still runs.
Stopping == stop.by # "nobody" /\ stop.at < 5 /\ ~Gone

StopOrder == <<"heartbeat", "http", "ws", "mqtt">>

\* Mutant of NextToStop: the HTTP server is left to its destructor.
NextToStopNoHttp == <<"heartbeat", "ws", "ws", "mqtt">>[stop.at]

NextToStop == StopOrder[stop.at]

Proceeds == stop' = [by |-> stop.by, at |-> stop.at + 1, joining |-> FALSE]

\* Mutant of AsksToStop: the threads are joined before they are asked to stop.
AsksToStopNot(g) == UNCHANGED work

\* m_running is cleared and the io_context stopped: the handlers that are at work
\* are the last ones.
AsksToStop(g) == work' = [work EXCEPT ![g] = "stopping"]

\* Stop of a server, or Disconnect.  An object that has been destroyed by main
\* meanwhile is used all the same.
StopNext ==
  /\ Stopping /\ ~stop.joining
  /\ IF NextToStop \in Group /\ Lives(NextToStop) /\ work[NextToStop] = "running"
       THEN AsksToStop(NextToStop) /\ stop' = [by |-> stop.by, at |-> stop.at, joining |-> TRUE]
       ELSE Proceeds /\ UNCHANGED work
  /\ UNCHANGED <<main, alive, running, closing>>

StopUsesDestroyed ==
  /\ Stopping /\ ~Lives(NextToStop)
  /\ Aborts

ThreadsEnd(g) ==
  /\ work[g] = "stopping"
  /\ work' = [work EXCEPT ![g] = "ended"]
  /\ UNCHANGED <<main, alive, running, stop, closing>>

\* A thread that joins itself throws.
StopJoins ==
  /\ Stopping /\ stop.joining
  /\ IF stop.by = NextToStop
       THEN Aborts
       ELSE /\ work[NextToStop] = "ended"
            /\ work' = [work EXCEPT ![NextToStop] = "joined"]
            /\ Proceeds
            /\ UNCHANGED <<main, alive, running, closing>>

----------------------------------------------------------------------------
(* The destructors, when main returns *)

Doomed == Members[alive]

\* Mutant of Destroyed: a member is destroyed along with the one behind it.
DestroyedTwice == alive' = alive - 2 /\ closing' = FALSE

Destroyed == alive' = alive - 1 /\ closing' = FALSE

\* Mutant of DestroyAsks: there is no such destructor, and joinable threads are destroyed.
DestroyAsksNot ==
  /\ main = "destroy" /\ alive > 0
  /\ Doomed \in Group
  /\ work[Doomed] = "running"
  /\ Aborts

\* The destructor of a server whose threads run calls its Stop.
DestroyAsks ==
  /\ main = "destroy" /\ alive > 0
  /\ Doomed \in Group
  /\ work[Doomed] = "running"
  /\ AsksToStop(Doomed)
  /\ closing' = TRUE
  /\ UNCHANGED <<main, alive, running, stop>>

DestroyJoins ==
  /\ main = "destroy" /\ closing
  /\ work[Doomed] = "ended"
  /\ work' = [work EXCEPT ![Doomed] = "joined"]
  /\ Destroyed
  /\ UNCHANGED <<main, running, stop>>

\* Stop returns at once where it was called before: threads that nobody has
\* joined yet are destroyed, which ends the process.
DestroyAborts ==
  /\ main = "destroy" /\ alive > 0 /\ ~closing
  /\ Doomed \in Group
  /\ work[Doomed] \in {"stopping", "ended"}
  /\ Aborts

Destroy ==
  /\ main = "destroy" /\ alive > 0
  /\ Doomed \in Group => work[Doomed] \in {"none", "joined"}
  /\ Destroyed
  /\ UNCHANGED <<main, running, work, stop>>

Exit ==
  /\ main = "destroy" /\ alive = 0
  /\ main' = "exited"
  /\ UNCHANGED <<alive, running, work, stop, closing>>

\* The process is gone.
Over == Gone /\ UNCHANGED vars

OnSignal == \E t \in {"main", "paho"} \cup Group : Signal(t)
StopSteps == StopNext \/ StopJoins
MainReturns == LeaveLoop \/ DestroyAsks \/ DestroyJoins \/ Destroy \/ Exit

Next == \/ Initialize \/ Serve \/ StartHeartbeat \/ StartWs \/ StartHttp \/ Started
        \/ Killed \/ OnSignal \/ StopSteps \/ StopUsesDestroyed
        \/ \E g \in Group : ThreadsEnd(g)
        \/ MainReturns \/ DestroyAborts
        \/ Over

\* A thread that runs goes on, and handlers return.  Nothing is assumed of Stop on
\* another thread than that of main: it may have been interrupted with a mutex
\* that Stop needs, and wait for itself.
Fairness == /\ WF_vars(MainReturns)
            /\ WF_vars(stop.by = "main" /\ StopSteps)
            /\ \A g \in Group : WF_vars(ThreadsEnd(g))

Spec == Init /\ [][Next]_vars /\ Fairness

----------------------------------------------------------------------------
(* Properties *)

\* Stop did not run on another thread than that of main.
StoppedByMain == stop.by \in {"nobody", "main"}

\* A handler of a server or of the monitor that is at work finds the objects it
\* refers to, whether main returns after Stop or because Start has failed half
\* way: although the controllers and the servers are destroyed first.
ThreadsOutlived ==
  StoppedByMain =>
    \A g \in Group : work[g] \in {"running", "stopping"} => \A c \in Uses[g] : Lives(c)

\* No thread of the monitor and the servers is destroyed unjoined or joins itself, and Stop
\* meets no destroyed object, which would end the process, unless the signal was handled by
\* another thread than that of main; and where an exception leaves Initialize or Start, which
\* does end it, no such thread has been started yet.
NoAbort ==
  StoppedByMain =>
    /\ main # "aborted"
    /\ main = "uncaught" => \A g \in Group : work[g] = "none"

\* After a signal that main handles, or a Start that has failed, the process exits.
Terminates ==
  stop.by = "main" \/ (main = "destroy" /\ stop.by = "nobody") ~> main = "exited"
=============================================================================
