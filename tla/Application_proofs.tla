-------------------------- MODULE Application_proofs --------------------------
(***************************************************************************)
(* Theorems about Application.  It has no parameter and its run is         *)
(* exhaustive: what the proofs add is the argument, an invariant that says *)
(* which threads and objects there are at each place in main.              *)
(***************************************************************************)
EXTENDS Application, TLAPS

----------------------------------------------------------------------------
(* The members and the groups *)

\* Where the member that owns the threads of a group is.
Place == [heartbeat |-> 6, http |-> 10, ws |-> 11]

\* When Application::Stop comes to a group.
Turn == [heartbeat |-> 1, http |-> 2, ws |-> 3]

LEMMA MembersAre ==
  /\ Len(Members) = 12 /\ DOMAIN Members = 1..12
  /\ \A i \in 1..12 : Members[i] \in Group => i = Place[Members[i]]
  /\ \A g \in Group : Place[g] \in 1..12 /\ Members[Place[g]] = g
BY DEF Members, Group, Place

LEMMA StopOrderIs ==
  /\ \A g \in Group : Turn[g] \in 1..3 /\ StopOrder[Turn[g]] = g
  /\ \A i \in 1..4 : StopOrder[i] \in Group <=> i \in 1..3
  /\ \A i \in 1..3 : StopOrder[i] \in Group /\ Turn[StopOrder[i]] = i
BY DEF StopOrder, Group, Turn

LEMMA LivesFrom ==
  ASSUME alive \in 0..12
  PROVE  /\ \A g \in Group : alive >= Place[g] => Lives(g)
         /\ alive = 12 => \A i \in 1..12 : Lives(Members[i])
BY MembersAre DEF Lives

----------------------------------------------------------------------------
(* The invariant *)

Starting == {"initialize", "initialized", "start heartbeat", "start ws", "start http", "started"}

\* The groups that run when main is at a place in Start.
Running(place) ==
  CASE place \in {"initialize", "initialized", "start heartbeat"} -> {}
    [] place = "start ws" -> {"heartbeat"}
    [] place = "start http" -> {"heartbeat", "ws"}
    [] OTHER -> Group

\* Stop, on the thread of main, has joined the groups before the present one and left
\* those behind it running.
StopProgress ==
  /\ stop.joining => stop.at <= 3
  /\ \A g \in Group :
       /\ Turn[g] < stop.at => work[g] = "joined"
       /\ Turn[g] = stop.at => IF stop.joining THEN work[g] \in {"stopping", "ended"}
                                               ELSE work[g] = "running"
       /\ Turn[g] > stop.at => work[g] = "running"

\* What there is at each place of main, unless Stop is on another thread.  Objects
\* are destroyed with their threads joined; the threads that main still has to join are
\* those of the server it destroys, and they lose nothing that they use before.
Orderly ==
  /\ main # "aborted"
  /\ main = "uncaught" => \A g \in Group : work[g] = "none"
  /\ main \in Starting =>
       /\ main # "initialize" => alive = 12
       /\ \A g \in Group : work[g] = IF g \in Running(main) THEN "running" ELSE "none"
  /\ main = "loop" =>
       /\ alive = 12
       /\ stop.by = "nobody" => running /\ \A g \in Group : work[g] = "running"
       /\ stop.by = "main" => StopProgress
  /\ main \in {"destroy", "exited"} =>
       /\ stop.by = "main" => stop.at = 5
       /\ \A g \in Group :
            /\ work[g] \in {"running", "stopping", "ended"} => g # "http" /\ alive >= Place[g]
            /\ work[g] \in {"stopping", "ended"} => closing /\ alive = Place[g]

LifeInv ==
  /\ main \in Starting => stop = NotStopped /\ ~running /\ ~closing
  /\ running => main = "loop" /\ stop = NotStopped
  /\ closing => alive > 0 /\ Doomed \in Group
  /\ StoppedByMain => Orderly

----------------------------------------------------------------------------
(* Types *)

Work == {"none", "running", "stopping", "ended", "joined"}
Thread == {"nobody", "main", "paho"} \cup Group

LEMMA StopIs ==
  ASSUME TypeOK
  PROVE  stop.by \in Thread /\ stop.at \in 1..5 /\ stop.joining \in BOOLEAN
BY DEF TypeOK, Thread

LEMMA StopRecord ==
  ASSUME NEW b \in Thread, NEW a \in 1..5, NEW j \in BOOLEAN
  PROVE  [by |-> b, at |-> a, joining |-> j]
           \in [by : {"nobody", "main", "paho"} \cup Group, at : 1..5, joining : BOOLEAN]
BY DEF Thread

LEMMA StopFirst ==
  ASSUME NEW b \in Thread
  PROVE  [by |-> b, at |-> 1, joining |-> FALSE]
           \in [by : {"nobody", "main", "paho"} \cup Group, at : 1..5, joining : BOOLEAN]
<1>1. 1 \in 1..5
  OBVIOUS
<1>2. FALSE \in BOOLEAN
  OBVIOUS
<1>3. QED
  BY <1>1, <1>2, StopRecord, Zenon

LEMMA StopType ==
  ASSUME TypeOK, stop.at < 5,
         \/ stop' = [by |-> stop.by, at |-> stop.at, joining |-> TRUE]
         \/ stop' = [by |-> stop.by, at |-> stop.at + 1, joining |-> FALSE]
  PROVE  stop' \in [by : {"nobody", "main", "paho"} \cup Group, at : 1..5, joining : BOOLEAN]
<1>1. stop.by \in Thread /\ stop.at \in 1..5 /\ stop.at + 1 \in 1..5
  BY StopIs
<1>2. CASE stop' = [by |-> stop.by, at |-> stop.at, joining |-> TRUE]
  BY StopRecord, <1>1, <1>2
<1>3. CASE stop' = [by |-> stop.by, at |-> stop.at + 1, joining |-> FALSE]
  BY StopRecord, <1>1, <1>3
<1>4. QED
  BY <1>2, <1>3

LEMMA NotStoppedIs ==
  NotStopped.by = "nobody" /\ NotStopped.at = 1 /\ NotStopped.joining = FALSE
BY DEF NotStopped

LEMMA AliveIn == ASSUME TypeOK PROVE alive \in 0..12
BY MembersAre DEF TypeOK

LEMMA Bounds ==
  ASSUME NEW a \in 0..12, NEW n \in {0, 1, 12, a}
  PROVE  n \in 0..12
OBVIOUS

LEMMA NoneIsWork == [g \in Group |-> "none"] \in [Group -> Work]
BY DEF Work

LEMMA TypeInit == Init => TypeOK
<1> SUFFICES ASSUME Init PROVE TypeOK
  OBVIOUS
<1>1. NotStopped \in [by : {"nobody", "main", "paho"} \cup Group, at : 1..5, joining : BOOLEAN]
  BY DEF NotStopped
<1>2. alive \in 0..Len(Members)
  BY MembersAre DEF Init
<1>3. QED
  BY <1>1, <1>2, NoneIsWork DEF Init, TypeOK, Work

LEMMA DoomedIsThere ==
  ASSUME TypeOK, alive > 0
  PROVE  alive \in 1..12 /\ alive - 1 \in 0..12 /\ (Doomed \in Group => alive = Place[Doomed])
<1>1. alive \in 1..12 /\ alive - 1 \in 0..12
  BY AliveIn
<1>2. QED
  BY <1>1, MembersAre DEF Doomed

LEMMA TypeStep == ASSUME TypeOK, LifeInv, [Next]_vars PROVE TypeOK'
<1> USE MembersAre DEF TypeOK
<1>1. ASSUME NEW g \in Group, NEW w \in {"none", "running", "stopping", "ended", "joined"},
             work' = [work EXCEPT ![g] = w]
      PROVE  work' \in [Group -> {"none", "running", "stopping", "ended", "joined"}]
  BY <1>1
<1>2. {"heartbeat", "http", "ws"} = Group
  BY DEF Group
<1>3. CASE Initialize \/ Serve \/ Started \/ Exit \/ LeaveLoop
  <2>1. UNCHANGED <<work, stop, closing>> /\ running' \in BOOLEAN
    BY <1>3 DEF Initialize, Serve, Uncaught, Started, Exit, LeaveLoop
  <2>2. alive' \in 0..Len(Members)
    <3>1. Len(Members) = 12 /\ alive \in 0..12
      BY AliveIn, MembersAre
    <3>2. alive' \in {0, 1, 12, alive}
      BY <1>3, <3>1 DEF Initialize, Serve, Uncaught, Started, Exit, LeaveLoop
    <3>3. QED
      <4>1. alive' \in 0..12
        BY <3>1, <3>2, Bounds
      <4>2. QED
        BY <3>1, <4>1
  <2>3. main' \in {"initialized", "destroy", "start heartbeat", "loop", "exited", "uncaught"}
    BY <1>3 DEF Initialize, Serve, Uncaught, Started, Exit, LeaveLoop
  <2>4. QED
    BY <2>1, <2>2, <2>3
<1>4. CASE StartHeartbeat \/ StartWs \/ StartHttp
  BY <1>1, <1>2, <1>4 DEF StartHeartbeat, StartWs, StartHttp, StartServer
<1>5. CASE Killed \/ StopUsesDestroyed \/ DestroyAborts
  <2>1. /\ main' \in {"exited", "aborted"} /\ alive' \in {0, alive} /\ closing' \in {FALSE, closing}
        /\ work' = [g \in Group |-> "none"] /\ UNCHANGED <<running, stop>>
    BY <1>5 DEF Killed, StopUsesDestroyed, DestroyAborts, Aborts
  <2>2. work' \in [Group -> {"none", "running", "stopping", "ended", "joined"}]
    BY <2>1, NoneIsWork DEF Work
  <2>3. alive' \in 0..Len(Members)
    <3>1. Len(Members) = 12 /\ alive \in 0..12
      BY AliveIn, MembersAre
    <3>2. alive' \in 0..12
      BY <2>1, <3>1, Bounds
    <3>3. QED
      BY <3>1, <3>2
  <2>4. QED
    BY <2>1, <2>2, <2>3
<1>6. CASE OnSignal
  <2>1. PICK t \in {"main", "paho"} \cup Group : Signal(t)
    BY <1>6 DEF OnSignal
  <2>2. t \in Thread
    BY DEF Thread
  <2>3. stop' \in [by : {"nobody", "main", "paho"} \cup Group, at : 1..5, joining : BOOLEAN]
    BY <2>1, <2>2, StopFirst DEF Signal
  <2>4. QED
    BY <2>1, <2>3 DEF Signal
<1>7. CASE StopNext
  <2>1. /\ stop.at \in 1..5 /\ stop.at < 5
        /\ UNCHANGED <<main, alive, running, closing>>
    BY <1>7 DEF StopNext, Stopping
  <2>2. stop' = [by |-> stop.by, at |-> stop.at, joining |-> TRUE] \/ stop' = [by |-> stop.by, at |-> stop.at + 1, joining |-> FALSE]
    BY <1>7 DEF StopNext, Proceeds
  <2>3. work' = work \/ \E g \in Group : work' = [work EXCEPT ![g] = "stopping"]
    BY <1>7 DEF StopNext, AsksToStop
  <2>4. stop' \in [by : {"nobody", "main", "paho"} \cup Group, at : 1..5, joining : BOOLEAN]
    BY <2>1, <2>2, StopType
  <2>5. work' \in [Group -> {"none", "running", "stopping", "ended", "joined"}]
    BY <1>1, <2>3
  <2>6. QED
    BY <2>1, <2>4, <2>5
<1>8. CASE StopJoins
  <2>1. CASE Aborts
    BY <2>1 DEF Aborts
  <2>2. CASE /\ work' = [work EXCEPT ![NextToStop] = "joined"] /\ Proceeds
             /\ work[NextToStop] = "ended" /\ UNCHANGED <<main, alive, running, closing>>
    <3>1. stop.at \in 1..5 /\ stop.at < 5
      BY <1>8 DEF StopJoins, Stopping
    <3>2. stop' \in [by : {"nobody", "main", "paho"} \cup Group, at : 1..5, joining : BOOLEAN]
      BY <2>2, <3>1, StopType DEF Proceeds
    <3>3. QED
      BY <2>2, <3>2
  <2>3. QED
    BY <1>8, <2>1, <2>2 DEF StopJoins
<1>9. ASSUME NEW g \in Group, ThreadsEnd(g) PROVE TypeOK'
  BY <1>1, <1>9 DEF ThreadsEnd
<1>10. CASE DestroyAsks
  BY <1>1, <1>10 DEF DestroyAsks, AsksToStop
<1>11. CASE DestroyJoins
  <2>1. alive > 0 /\ Doomed \in Group
    BY <1>11 DEF DestroyJoins, LifeInv
  <2>2. QED
    BY <1>1, <1>11, <2>1, DoomedIsThere DEF DestroyJoins, Destroyed
<1>12. CASE Destroy
  BY <1>12, DoomedIsThere DEF Destroy, Destroyed
<1>13. CASE Over \/ UNCHANGED vars
  BY <1>13 DEF Over, vars
<1>14. QED
  BY <1>3, <1>4, <1>5, <1>6, <1>7, <1>8, <1>9, <1>10, <1>11, <1>12, <1>13
  DEF Next, StopSteps, MainReturns

----------------------------------------------------------------------------
(* The invariant is preserved *)

LEMMA StartSteps ==
  ASSUME TypeOK, LifeInv, Initialize \/ Serve \/ StartHeartbeat \/ StartWs \/ StartHttp \/ Started
  PROVE  LifeInv'
<1>1. main \in Starting
  BY DEF Initialize, Serve, StartHeartbeat, StartWs, StartHttp, StartServer, Started, Starting
<1>2. /\ stop = NotStopped /\ ~running /\ ~closing /\ StoppedByMain
      /\ main # "initialize" => alive = 12
      /\ \A g \in Group : work[g] = IF g \in Running(main) THEN "running" ELSE "none"
  BY <1>1, NotStoppedIs DEF LifeInv, Orderly, StoppedByMain
<1>3. /\ UNCHANGED <<stop, closing>> /\ (main' = "loop" \/ ~running')
      /\ main' \in Starting \cup {"destroy", "loop", "uncaught"}
  <2>1. CASE Initialize \/ Serve \/ StartHeartbeat
    <3>1. UNCHANGED <<stop, closing, running>> /\ ~running
      BY <1>2, <2>1 DEF Initialize, Serve, StartHeartbeat
    <3>2. main' \in {"initialized", "destroy", "start heartbeat", "start ws", "uncaught"}
      BY <2>1 DEF Initialize, Serve, Uncaught, StartHeartbeat
    <3>3. QED
      BY <3>1, <3>2 DEF Starting
  <2>2. CASE StartWs \/ StartHttp
    <3>1. UNCHANGED <<stop, closing, running>> /\ ~running
      BY <1>2, <2>2 DEF StartWs, StartHttp, StartServer
    <3>2. main' \in {"destroy", "start http", "started"}
      BY <2>2 DEF StartWs, StartHttp, StartServer
    <3>3. QED
      BY <3>1, <3>2 DEF Starting
  <2>3. CASE Started
    BY <1>2, <2>3 DEF Started
  <2>4. QED
    BY <2>1, <2>2, <2>3
<1>4. SUFFICES Orderly'
  BY <1>2, <1>3 DEF LifeInv, Starting
<1>5. /\ Running("initialize") = {} /\ Running("initialized") = {}
      /\ Running("start heartbeat") = {} /\ Running("start ws") = {"heartbeat"}
      /\ Running("start http") = {"heartbeat", "ws"} /\ Running("started") = Group
  BY DEF Running
<1>6. /\ \A g \in Group : g \in {"heartbeat", "http", "ws"} /\ (g # "http" => 12 >= Place[g])
      /\ \A g \in Group : work[g] \in {"none", "running"}
  BY <1>2 DEF Place, Group
\* main comes to the next place in Start with the threads that run there
<1>7. ASSUME main' \in Starting \ {"initialize"}, alive' = 12,
             \A g \in Group : work'[g] = IF g \in Running(main') THEN "running" ELSE "none"
      PROVE  Orderly'
  BY <1>7 DEF Orderly, Starting
\* or it returns with what has been started
<1>8. ASSUME main' = "destroy", work' = work, work["http"] = "none",
             alive' = 12 \/ \A g \in Group : work[g] = "none"
      PROVE  Orderly'
  <2>1. stop'.by = "nobody"
    BY <1>2, <1>3, NotStoppedIs
  <2>2. QED
    BY <1>6, <1>8, <2>1 DEF Orderly, Starting
\* or the process ends before any of them runs
<1>8a. ASSUME main' = "uncaught", work' = work, \A g \in Group : work[g] = "none"
       PROVE  Orderly'
  BY <1>8a DEF Orderly, Starting
<1>9. CASE Initialize
  <2>1. work' = work /\ \A g \in Group : work[g] = "none"
    BY <1>2, <1>5, <1>9 DEF Initialize
  <2>2. CASE main' = "initialized" /\ alive' = 12
    BY <1>5, <1>7, <2>1, <2>2 DEF Starting
  <2>3. CASE main' = "destroy"
    BY <1>8, <2>1, <2>3 DEF Group
  <2>4. CASE main' = "uncaught"
    BY <1>8a, <2>1, <2>4
  <2>5. QED
    BY <1>9, <2>2, <2>3, <2>4, MembersAre DEF Initialize, Uncaught
<1>10. CASE Serve
  <2>1. work' = work /\ \A g \in Group : work[g] = "none"
    BY <1>2, <1>5, <1>10 DEF Serve
  <2>2. CASE main' = "start heartbeat"
    <3>1. alive' = 12
      BY <1>2, <1>10, <2>2 DEF Serve, Uncaught
    <3>2. QED
      BY <1>5, <1>7, <2>1, <2>2, <3>1 DEF Starting
  <2>3. CASE main' = "destroy"
    BY <1>8, <2>1, <2>3 DEF Group
  <2>4. CASE main' = "uncaught"
    BY <1>8a, <2>1, <2>4
  <2>5. QED
    BY <1>10, <2>2, <2>3, <2>4 DEF Serve, Uncaught
<1>11. CASE StartHeartbeat
  <2>1. /\ main' = "start ws" /\ alive' = 12 /\ \A g \in Group : work[g] = "none"
        /\ work' = [work EXCEPT !["heartbeat"] = "running"]
    BY <1>2, <1>5, <1>11 DEF StartHeartbeat
  <2>2. \A g \in Group : work'[g] = IF g \in {"heartbeat"} THEN "running" ELSE "none"
    BY <2>1 DEF TypeOK
  <2>3. QED
    BY <1>5, <1>7, <2>1, <2>2 DEF Starting
<1>12. CASE StartWs
  <2>1. /\ main = "start ws" /\ alive' = 12 /\ work["http"] = "none"
        /\ \A g \in Group : work[g] = IF g \in {"heartbeat"} THEN "running" ELSE "none"
    BY <1>2, <1>5, <1>12 DEF StartWs, StartServer, Group
  <2>2. CASE main' = "start http" /\ work' = [work EXCEPT !["ws"] = "running"]
    <3>1. \A g \in Group : work'[g] = IF g \in {"heartbeat", "ws"} THEN "running" ELSE "none"
      BY <2>1, <2>2 DEF TypeOK
    <3>2. QED
      BY <1>5, <1>7, <2>1, <2>2, <3>1 DEF Starting
  <2>3. CASE main' = "destroy" /\ work' = work
    BY <1>8, <2>1, <2>3
  <2>4. QED
    BY <1>12, <2>2, <2>3 DEF StartWs, StartServer
<1>13. CASE StartHttp
  <2>1. /\ main = "start http" /\ alive' = 12 /\ work["http"] = "none"
        /\ \A g \in Group : work[g] = IF g \in {"heartbeat", "ws"} THEN "running" ELSE "none"
    BY <1>2, <1>5, <1>13 DEF StartHttp, StartServer, Group
  <2>2. CASE main' = "started" /\ work' = [work EXCEPT !["http"] = "running"]
    <3>1. \A g \in Group : work'[g] = IF g \in Group THEN "running" ELSE "none"
      BY <1>6, <2>1, <2>2 DEF TypeOK
    <3>2. QED
      BY <1>5, <1>7, <2>1, <2>2, <3>1 DEF Starting
  <2>3. CASE main' = "destroy" /\ work' = work
    BY <1>8, <2>1, <2>3
  <2>4. QED
    BY <1>13, <2>2, <2>3 DEF StartHttp, StartServer
<1>14. CASE Started
  <2>1. /\ main' = "loop" /\ alive' = 12 /\ running' /\ work' = work
        /\ \A g \in Group : work[g] = "running"
    BY <1>2, <1>5, <1>14 DEF Started
  <2>2. stop'.by = "nobody"
    BY <1>2, <1>3, NotStoppedIs
  <2>3. QED
    BY <2>1, <2>2 DEF Orderly, Starting
<1>15. QED
  BY <1>9, <1>10, <1>11, <1>12, <1>13, <1>14

LEMMA SignalSteps ==
  ASSUME TypeOK, LifeInv, Killed \/ OnSignal \/ LeaveLoop
  PROVE  LifeInv'
<1>1. CASE Killed
  BY <1>1 DEF Killed, Gone, LifeInv, Orderly, StoppedByMain, NotStopped, Starting, TypeOK
<1>2. ASSUME NEW t \in {"main", "paho"} \cup Group, Signal(t) PROVE LifeInv'
  <2>1. /\ stop = NotStopped /\ main = "loop" /\ main' = main /\ ~running'
        /\ stop' = [by |-> t, at |-> 1, joining |-> FALSE]
        /\ UNCHANGED <<alive, work, closing>> /\ StoppedByMain
    <3>1. /\ main = "loop" /\ running /\ main' = main /\ ~running' /\ stop' = [by |-> t, at |-> 1, joining |-> FALSE]
          /\ UNCHANGED <<alive, work, closing>>
      BY <1>2 DEF Signal
    <3>2. stop = NotStopped
      BY <3>1 DEF LifeInv
    <3>3. QED
      BY <3>1, <3>2, NotStoppedIs DEF Thread, StoppedByMain
  <2>2. alive = 12 /\ \A g \in Group : work[g] = "running"
    BY <2>1 DEF LifeInv, Orderly, NotStopped
  <2>3. StoppedByMain' => Orderly'
    BY <2>1, <2>2, StopOrderIs DEF StoppedByMain, Orderly, StopProgress, Starting, Group
  <2>4. QED
    BY <2>1, <2>3 DEF LifeInv, Starting, Doomed
<1>3. CASE LeaveLoop
  <2>1. /\ main = "loop" /\ main' = "destroy" /\ ~running /\ ~(stop.by = "main" /\ stop.at < 5)
        /\ UNCHANGED <<alive, running, work, stop, closing>>
    BY <1>3 DEF LeaveLoop, InHandler
  <2>2. ASSUME StoppedByMain PROVE Orderly'
    <3>1. stop.by = "main" /\ stop.at = 5 /\ StopProgress
      BY <2>1, <2>2 DEF LifeInv, Orderly, StoppedByMain, TypeOK
    <3>2. \A g \in Group : work[g] = "joined"
      BY <3>1, StopOrderIs DEF StopProgress
    <3>3. QED
      BY <2>1, <3>1, <3>2 DEF Orderly, Starting
  <2>3. QED
    BY <2>1, <2>2 DEF LifeInv, Starting, StoppedByMain, Doomed
<1>4. QED
  BY <1>1, <1>2, <1>3 DEF OnSignal

\* Stop on the thread of main works in the loop, while everything is there.
LEMMA StopInLoop ==
  ASSUME TypeOK, LifeInv, Stopping, StoppedByMain
  PROVE  main = "loop" /\ alive = 12 /\ StopProgress /\ stop.by = "main"
<1>1. stop.by = "main" /\ stop.at < 5 /\ main \notin {"exited", "aborted", "uncaught"}
  BY DEF Stopping, Gone, StoppedByMain
<1>2. Orderly /\ main \notin Starting
  BY <1>1, NotStoppedIs DEF LifeInv
<1>3. main # "destroy"
  BY <1>1, <1>2 DEF Orderly
<1>4. main = "loop"
  BY <1>1, <1>2, <1>3 DEF TypeOK, Starting
<1>5. QED
  BY <1>1, <1>2, <1>4 DEF Orderly

LEMMA StopStepsKeep ==
  ASSUME TypeOK, LifeInv, StopNext \/ StopJoins \/ StopUsesDestroyed
  PROVE  LifeInv'
<1>1. Stopping /\ stop.at \in 1..4 /\ stop' # NotStopped /\ stop # NotStopped
      /\ stop'.by = stop.by
  <2>1. Stopping
    BY DEF StopNext, StopJoins, StopUsesDestroyed
  <2>2. stop.by # "nobody" /\ stop.at \in 1..4
    BY <2>1, StopIs DEF Stopping
  <2>3. \/ stop' = stop \/ stop' = [by |-> stop.by, at |-> stop.at, joining |-> TRUE]
        \/ stop' = [by |-> stop.by, at |-> stop.at + 1, joining |-> FALSE]
    BY DEF StopNext, StopJoins, StopUsesDestroyed, Aborts, Proceeds
  <2>4. stop'.by = stop.by
    BY <2>3
  <2>5. QED
    BY <2>1, <2>2, <2>4, NotStoppedIs
<1>2. UNCHANGED <<alive, running, closing>> /\ ~running
  BY <1>1 DEF StopNext, StopJoins, StopUsesDestroyed, Aborts, LifeInv
<1>3. main \notin Starting /\ (main' = main \/ main' = "aborted")
  BY <1>1 DEF StopNext, StopJoins, StopUsesDestroyed, Aborts, LifeInv
<1>4. ASSUME StoppedByMain PROVE Orderly'
  <2>1. main = "loop" /\ alive = 12 /\ StopProgress /\ stop.by = "main"
    BY <1>1, <1>4, StopInLoop
  <2>2. NextToStop \in Group <=> stop.at \in 1..3
    BY <1>1, StopOrderIs DEF NextToStop
  <2>3. \A g \in Group : g = NextToStop <=> Turn[g] = stop.at
    BY <1>1, StopOrderIs DEF NextToStop
  <2>4. Lives(NextToStop)
    <3>1. \A i \in 1..4 : StopOrder[i] \in {Members[j] : j \in 1..12}
      <4>1. Members[6] = "heartbeat" /\ Members[10] = "http" /\ Members[11] = "ws" /\ Members[4] = "mqtt"
        BY DEF Members
      <4>2. \A i \in 1..4 : StopOrder[i] \in {"heartbeat", "http", "ws", "mqtt"}
        BY DEF StopOrder
      <4>3. QED
        BY <4>1, <4>2
    <3>2. QED
      BY <1>1, <2>1, <3>1, LivesFrom DEF NextToStop
  <2>5. CASE StopNext /\ stop.at \in 1..3
    <3>1. ~stop.joining /\ NextToStop \in Group /\ work[NextToStop] = "running"
      BY <2>1, <2>2, <2>3, <2>5 DEF StopNext, StopProgress
    <3>2. /\ work' = [work EXCEPT ![NextToStop] = "stopping"]
          /\ stop' = [by |-> stop.by, at |-> stop.at, joining |-> TRUE] /\ main' = main
      BY <2>4, <2>5, <3>1 DEF StopNext, AsksToStop
    <3>3. stop'.at = stop.at /\ stop'.joining
      BY <3>2 DEF TypeOK
    <3>4. StopProgress'
      BY <2>1, <2>3, <2>5, <3>1, <3>2, <3>3 DEF StopProgress, TypeOK
    <3>5. QED
      BY <1>1, <1>2, <2>1, <3>2, <3>4 DEF Orderly, Starting
  <2>6. CASE StopNext /\ stop.at = 4
    <3>1. /\ work' = work /\ main' = main
          /\ stop' = [by |-> stop.by, at |-> stop.at + 1, joining |-> FALSE]
      BY <2>2, <2>6 DEF StopNext, Proceeds
    <3>2. stop'.at = 5 /\ ~stop'.joining
      BY <2>6, <3>1
    <3>3. StopProgress'
      BY <2>1, <2>6, <3>1, <3>2, StopOrderIs DEF StopProgress
    <3>4. QED
      BY <1>1, <1>2, <2>1, <3>1, <3>3 DEF Orderly, Starting
  <2>7. CASE StopJoins
    <3>1. stop.joining /\ stop.at \in 1..3 /\ NextToStop \in Group
      BY <1>1, <2>1, <2>2, <2>7 DEF StopJoins, StopProgress
    <3>2. stop.by # NextToStop
      BY <2>1, <3>1 DEF Group
    <3>3. /\ work' = [work EXCEPT ![NextToStop] = "joined"] /\ main' = main
          /\ stop' = [by |-> stop.by, at |-> stop.at + 1, joining |-> FALSE]
      BY <2>7, <3>2 DEF StopJoins, Proceeds
    <3>4. stop'.at = stop.at + 1 /\ ~stop'.joining
      BY <3>3
    <3>5. StopProgress'
      BY <1>1, <2>1, <2>3, <3>1, <3>3, <3>4, StopOrderIs DEF StopProgress, TypeOK
    <3>6. QED
      BY <1>1, <1>2, <2>1, <3>3, <3>5 DEF Orderly, Starting
  <2>8. CASE StopUsesDestroyed
    BY <2>4, <2>8 DEF StopUsesDestroyed
  <2>9. QED
    BY <1>1, <2>5, <2>6, <2>7, <2>8
<1>5. QED
  BY <1>1, <1>2, <1>3, <1>4 DEF LifeInv, StoppedByMain, Starting, Doomed

LEMMA ThreadsEndKeeps ==
  ASSUME TypeOK, LifeInv, NEW g \in Group, ThreadsEnd(g)
  PROVE  LifeInv'
<1>1. /\ work[g] = "stopping" /\ work' = [work EXCEPT ![g] = "ended"]
      /\ UNCHANGED <<main, alive, running, stop, closing>>
  BY DEF ThreadsEnd
<1>2. work'[g] = "ended" /\ \A e \in Group \ {g} : work'[e] = work[e]
  BY <1>1 DEF TypeOK
<1>3. StoppedByMain => Orderly'
  BY <1>1, <1>2 DEF LifeInv, Orderly, StopProgress, StoppedByMain, TypeOK
<1>4. QED
  BY <1>1, <1>3 DEF LifeInv, StoppedByMain, Doomed

LEMMA DestroySteps ==
  ASSUME TypeOK, LifeInv, DestroyAsks \/ DestroyJoins \/ Destroy \/ Exit \/ DestroyAborts
  PROVE  LifeInv'
<1>1. main = "destroy" /\ UNCHANGED <<running, stop>> /\ ~running
      /\ main' \in {"destroy", "exited", "aborted"}
  BY DEF DestroyAsks, DestroyJoins, Destroy, Exit, DestroyAborts, Aborts, LifeInv
<1>2. main \notin Starting /\ main' \notin Starting
  BY <1>1 DEF Starting
<1>3. closing' => alive' > 0 /\ Doomed' \in Group
  BY DEF DestroyAsks, DestroyJoins, Destroy, Exit, DestroyAborts, Aborts, LifeInv, Destroyed, Doomed
<1>4. ASSUME StoppedByMain PROVE Orderly'
  <2>1. /\ stop.by = "main" => stop.at = 5
        /\ \A g \in Group :
             /\ work[g] \in {"running", "stopping", "ended"} => g # "http" /\ alive >= Place[g]
             /\ work[g] \in {"stopping", "ended"} => closing /\ alive = Place[g]
    BY <1>1, <1>4 DEF LifeInv, Orderly
  <2>2. \A g \in Group : alive > 0 /\ alive = Place[g] => g = Doomed
    BY MembersAre DEF Doomed
  <2>3. alive \in 0..12 /\ \A g \in Group : Place[g] \in 1..12
    BY MembersAre DEF TypeOK
  <2>4. CASE DestroyAsks
    <3>1. /\ alive > 0 /\ Doomed \in Group /\ work[Doomed] = "running" /\ closing'
          /\ work' = [work EXCEPT ![Doomed] = "stopping"] /\ UNCHANGED <<main, alive>>
      BY <2>4 DEF DestroyAsks, AsksToStop
    <3>2. alive = Place[Doomed]
      BY <3>1, DoomedIsThere
    <3>3. QED
      BY <1>1, <1>2, <2>1, <3>1, <3>2 DEF Orderly, TypeOK
  <2>5. CASE DestroyJoins
    <3>1. alive > 0 /\ Doomed \in Group
      BY <2>5 DEF DestroyJoins, LifeInv
    <3>2. /\ work' = [work EXCEPT ![Doomed] = "joined"] /\ alive' = alive - 1 /\ main' = main
      BY <2>5 DEF DestroyJoins, Destroyed
    <3>3. \A g \in Group : g # Doomed => work'[g] = work[g] /\ alive # Place[g]
      BY <2>2, <3>1, <3>2 DEF TypeOK
    <3>4. work'[Doomed] = "joined"
      BY <3>1, <3>2 DEF TypeOK
    <3>5. \A g \in Group :
            /\ work'[g] \in {"running", "stopping", "ended"} => g # "http" /\ alive' >= Place[g]
            /\ work'[g] \notin {"stopping", "ended"}
      BY <2>1, <2>3, <3>2, <3>3, <3>4
    <3>6. QED
      BY <1>1, <1>2, <2>1, <3>2, <3>5 DEF Orderly
  <2>6. CASE Destroy
    <3>1. /\ alive > 0 /\ (Doomed \in Group => work[Doomed] \in {"none", "joined"})
          /\ alive' = alive - 1 /\ UNCHANGED <<main, work>>
      BY <2>6 DEF Destroy, Destroyed
    <3>2. \A g \in Group :
            /\ work[g] \in {"running", "stopping", "ended"} => g # "http" /\ alive' >= Place[g]
            /\ work[g] \notin {"stopping", "ended"}
      BY <2>1, <2>2, <2>3, <3>1
    <3>3. QED
      BY <1>1, <1>2, <2>1, <3>1, <3>2 DEF Orderly
  <2>7. CASE Exit
    <3>1. alive = 0 /\ main' = "exited" /\ UNCHANGED <<alive, work, closing>>
      BY <2>7 DEF Exit
    <3>2. QED
      BY <1>1, <1>2, <2>1, <3>1 DEF Orderly
  <2>8. CASE DestroyAborts
    BY <2>1, <2>8 DEF DestroyAborts
  <2>9. QED
    BY <2>4, <2>5, <2>6, <2>7, <2>8
<1>5. QED
  BY <1>1, <1>2, <1>3, <1>4 DEF LifeInv, StoppedByMain

LEMMA LifeStep == ASSUME TypeOK, LifeInv, [Next]_vars PROVE LifeInv'
<1>1. CASE Over \/ UNCHANGED vars
  <2>1. UNCHANGED vars
    BY <1>1 DEF Over
  <2>2. QED
    BY <2>1 DEF vars, LifeInv, Orderly, StopProgress, StoppedByMain, Doomed
<1>2. QED
  BY <1>1, StartSteps, SignalSteps, StopStepsKeep, ThreadsEndKeeps, DestroySteps
  DEF Next, StopSteps, MainReturns

LEMMA LifeInit == Init => LifeInv
BY DEF Init, LifeInv, Orderly, Starting, Running, StoppedByMain, NotStopped

----------------------------------------------------------------------------
(* Theorems *)

\* What main and Application (main.cpp, application.hpp) hold has the types given for it;
\* no more members are destroyed than there are.
THEOREM LifeTypes == Spec => []TypeOK
BY TypeInit, TypeStep, LifeInit, LifeStep, PTL DEF Spec

\* The order of the members in application.hpp: whichever way main returns, a thread
\* that is at work finds what it refers to.
THEOREM ObjectsOutliveThreads == Spec => []ThreadsOutlived
<1>1. ASSUME TypeOK, LifeInv PROVE ThreadsOutlived
  <2> SUFFICES ASSUME StoppedByMain, NEW g \in Group, work[g] \in {"running", "stopping"},
                      NEW c \in Uses[g]
               PROVE  Lives(c)
    BY DEF ThreadsOutlived
  <2>1. Orderly
    BY <1>1 DEF LifeInv
  <2>2. alive \in 0..12
    BY <1>1, MembersAre DEF TypeOK
  <2>3. CASE main \in {"destroy", "exited"}
    <3>1. g # "http" /\ alive >= Place[g]
      BY <2>1, <2>3 DEF Orderly
    <3>2. c = g
      BY <3>1 DEF Uses, Group
    <3>3. QED
      BY <2>2, <3>1, <3>2, LivesFrom
  <2>4. CASE main \notin {"destroy", "exited"}
    <3>1. alive = 12
      BY <1>1, <2>1, <2>4 DEF Orderly, Starting, Running, TypeOK
    <3>2. c \in {Members[i] : i \in 1..12}
      <4>1. \A h \in Group : h \in {Members[i] : i \in 1..12}
        BY MembersAre
      <4>2. QED
        BY <4>1, MembersAre DEF Uses, Group
    <3>3. QED
      BY <2>2, <3>1, <3>2, LivesFrom
  <2>5. QED
    BY <2>3, <2>4
<1>2. QED
  BY <1>1, TypeInit, TypeStep, LifeInit, LifeStep, PTL DEF Spec

\* Application::Stop and the destructors of the servers (application.cpp): no thread of the
\* monitor or the servers is destroyed unjoined and none joins itself, if main handles the
\* signal.  An exception that leaves Initialize or Start ends the process as well, but
\* before there are such threads.
THEOREM NeverAborts == Spec => []NoAbort
<1>1. LifeInv => NoAbort
  BY DEF LifeInv, Orderly, NoAbort
<1>2. QED
  BY <1>1, TypeInit, TypeStep, LifeInit, LifeStep, PTL DEF Spec
=============================================================================
