----------------------- MODULE HeartbeatMonitor_proofs -----------------------
(***************************************************************************)
(* Theorems about HeartbeatMonitor for any set of devices and any timeouts *)
(* of which one is the longest.                                            *)
(***************************************************************************)
EXTENDS HeartbeatMonitor, TLAPS

\* The longest timeout is one of them, and no other is longer.
LEMMA MaxTimeoutFacts ==
  /\ MaxTimeout \in Timeouts /\ MaxTimeout \in Nat
  /\ \A t \in Timeouts : t \in Nat /\ t <= MaxTimeout
BY HeartbeatAssumption DEF MaxTimeout

\* A record with a timeout is never taken for an absent device.
LEMMA RecordIsNotAbsent == \A r \in Record : r # Absent
<1> SUFFICES ASSUME NEW r \in Record, r = Absent PROVE FALSE
  OBVIOUS
<1>1. "timeout" \in DOMAIN r
  BY DEF Record
<1>2. "timeout" \notin DOMAIN Absent
  BY DEF Absent
<1>3. QED
  BY <1>1, <1>2

\* The poll thread's idea of how long a device has been silent is never more
\* than the truth: its now was read earlier.
ElapsedBehind == \A d \in Device : elapsed[d] <= age[d]

\* A device that was reported in the present silence is marked.
ToldIsMarked == \A d \in told : devices[d] # Absent /\ devices[d].timedOut

\* Where the poll thread is tells what the owner has done, and a callback can
\* only be due while it is at its calls.
PollMatchesOwner ==
  /\ owner = "joining" => ~running
  /\ owner = "idle" /\ ~running => poll = "none"
  /\ poll # "calling" => batch = {}

MonitorInv == ElapsedBehind /\ ReportedIsSilent /\ ToldIsMarked /\ OncePerSilence /\ PollMatchesOwner

\* The types are preserved by every step.
LEMMA TypeStep == ASSUME TypeOK, [Next]_vars PROVE TypeOK'
<1> USE MaxTimeoutFacts DEF TypeOK, tableVars, pollVars, history, Seconds
<1>1. ASSUME NEW d \in Device, NEW timeout \in Timeouts, Register(d, timeout) PROVE TypeOK'
  <2>1. [timeout |-> timeout, timedOut |-> FALSE] \in Record
    BY DEF Record
  <2>2. QED
    BY <1>1, <2>1 DEF Register, SeenNow, Touch
<1>2. ASSUME NEW d \in Device, Unregister(d) PROVE TypeOK'
  BY <1>2 DEF Unregister, SeenNow, Touch
<1>3. ASSUME NEW d \in Device, RecordHeartbeat(d) PROVE TypeOK'
  <2>1. devices[d] \in Record
    BY <1>3 DEF RecordHeartbeat
  <2>2. [devices[d] EXCEPT !.timedOut = FALSE] \in Record
    BY <2>1 DEF Record
  <2>3. QED
    BY <1>3, <2>2 DEF RecordHeartbeat, SeenNow, Touch
<1>4. CASE SetTimeoutCallback
  BY <1>4 DEF SetTimeoutCallback
<1>5. CASE Tick
  BY <1>5 DEF Tick
<1>6. CASE Start
  BY <1>6 DEF Start
<1>7. CASE Stop
  BY <1>7 DEF Stop
<1>8. CASE StopJoins
  BY <1>8 DEF StopJoins
<1>9. CASE PollLoops
  BY <1>9 DEF PollLoops
<1>10. CASE PollWakes
  BY <1>10 DEF PollWakes
<1>11. CASE PollReadsClock
  BY <1>11 DEF PollReadsClock
<1>12. CASE PollCollects
  <2>1. TimedOut \subseteq Device
    BY DEF TimedOut
  <2>2. \A d \in TimedOut : [devices[d] EXCEPT !.timedOut = TRUE] \in Record
    <3>1. \A d \in TimedOut : devices[d] \in Record
      BY DEF TimedOut
    <3>2. QED
      BY <3>1 DEF Record
  <2>3. devices' \in [Device -> Record \cup {Absent}]
    BY <1>12, <2>2 DEF PollCollects
  <2>4. QED
    BY <1>12, <2>1, <2>3 DEF PollCollects
<1>13. CASE PollCallsBack
  BY <1>13 DEF PollCallsBack
<1>14. CASE PollRoundEnds
  BY <1>14 DEF PollRoundEnds
<1>15. CASE UNCHANGED vars
  BY <1>15 DEF vars
<1>16. QED
  BY <1>1, <1>2, <1>3, <1>4, <1>5, <1>6, <1>7, <1>8, <1>9, <1>10, <1>11, <1>12, <1>13, <1>14, <1>15
  DEF Next, PollStep

\* Every state of the monitor has its types; in particular only Register
\* makes a record (heartbeat_monitor.cpp:22-44).
THEOREM MonitorTypes == Spec => []TypeOK
<1>1. Init => TypeOK
  <2>1. 0 \in Seconds
    BY MaxTimeoutFacts DEF Seconds
  <2>2. QED
    BY <2>1 DEF Init, TypeOK
<1>2. QED
  BY <1>1, TypeStep, PTL DEF Spec

----------------------------------------------------------------------------
\* A call of another thread for d leaves the other devices as they were, and
\* enters d in touched if it is about to be reported.
LEMMA TouchStep ==
  ASSUME TypeOK, MonitorInv, NEW d \in Device, SeenNow(d), Touch(d),
         devices' \in [Device -> Record \cup {Absent}],
         \A e \in Device \ {d} : devices'[e] = devices[e],
         UNCHANGED <<running, poll, batch, owner>>
  PROVE  MonitorInv'
<1> USE DEF TypeOK, MonitorInv, Seconds
<1>1. ElapsedBehind'
  BY DEF ElapsedBehind, SeenNow
<1>2. ReportedIsSilent'
  <2> SUFFICES ASSUME NEW e \in batch' \ touched' PROVE (Silent(e) /\ devices[e].timedOut)'
    BY DEF ReportedIsSilent
  <2>1. e # d /\ e \in batch \ touched /\ e \in Device
    BY DEF Touch
  <2>2. Silent(e) /\ devices[e].timedOut
    BY <2>1 DEF ReportedIsSilent
  <2>3. devices'[e] = devices[e] /\ age'[e] = age[e]
    BY <2>1 DEF SeenNow
  <2>4. QED
    BY <2>2, <2>3 DEF Silent
<1>3. ToldIsMarked'
  BY DEF ToldIsMarked, Touch
<1>4. OncePerSilence'
  BY DEF OncePerSilence, Touch
<1>5. PollMatchesOwner'
  BY DEF PollMatchesOwner
<1>6. QED
  BY <1>1, <1>2, <1>3, <1>4, <1>5

LEMMA MonitorStep == ASSUME TypeOK, MonitorInv, [Next]_vars PROVE MonitorInv'
<1> USE DEF MonitorInv, tableVars, pollVars, history
<1>1. TypeOK'
  BY TypeStep
<1>2. devices' \in [Device -> Record \cup {Absent}]
  BY <1>1 DEF TypeOK
<1>3. ASSUME NEW d \in Device, NEW timeout \in Timeouts, Register(d, timeout) PROVE MonitorInv'
  BY <1>2, <1>3, TouchStep DEF Register, TypeOK
<1>4. ASSUME NEW d \in Device, Unregister(d) PROVE MonitorInv'
  BY <1>2, <1>4, TouchStep DEF Unregister, TypeOK
<1>5. ASSUME NEW d \in Device, RecordHeartbeat(d) PROVE MonitorInv'
  BY <1>2, <1>5, TouchStep DEF RecordHeartbeat, TypeOK
<1>6. CASE SetTimeoutCallback
  BY <1>6 DEF SetTimeoutCallback, ElapsedBehind, ReportedIsSilent, Silent, ToldIsMarked, OncePerSilence,
     PollMatchesOwner
<1>7. CASE Tick
  <2>1. \A d \in Device : age'[d] >= age[d] /\ age[d] \in Nat /\ age'[d] \in Nat /\ elapsed[d] \in Nat
    BY <1>7, MaxTimeoutFacts DEF Tick, TypeOK, Seconds
  <2>2. ElapsedBehind'
    BY <1>7, <2>1 DEF Tick, ElapsedBehind
  <2>3. ReportedIsSilent'
    <3> SUFFICES ASSUME NEW d \in batch \ touched PROVE Silent(d)' /\ devices'[d].timedOut
      BY <1>7 DEF Tick, ReportedIsSilent
    <3>1. Silent(d) /\ devices[d].timedOut /\ d \in Device
      BY DEF ReportedIsSilent, TypeOK
    <3>2. devices[d].timeout \in Nat
      BY <3>1, MaxTimeoutFacts DEF Silent, TypeOK, Record
    <3>3. QED
      BY <1>7, <2>1, <3>1, <3>2 DEF Tick, Silent
  <2>4. QED
    BY <1>7, <2>2, <2>3 DEF Tick, ToldIsMarked, OncePerSilence, PollMatchesOwner
<1>8. ASSUME UNCHANGED <<tableVars, elapsed, batch, history>>, PollMatchesOwner' PROVE MonitorInv'
  BY <1>8 DEF ElapsedBehind, ReportedIsSilent, Silent, ToldIsMarked, OncePerSilence
<1>9. CASE Start
  BY <1>8, <1>9 DEF Start, PollMatchesOwner
<1>10. CASE Stop
  BY <1>8, <1>10 DEF Stop, PollMatchesOwner
<1>11. CASE StopJoins
  BY <1>8, <1>11 DEF StopJoins, PollMatchesOwner
<1>12. CASE PollLoops
  BY <1>8, <1>12 DEF PollLoops, PollMatchesOwner
<1>13. CASE PollWakes
  BY <1>8, <1>13 DEF PollWakes, PollMatchesOwner
<1>14. CASE PollReadsClock
  <2>1. ElapsedBehind'
    BY <1>14 DEF PollReadsClock, ElapsedBehind, TypeOK, Seconds
  <2>2. QED
    BY <1>14, <2>1
    DEF PollReadsClock, ReportedIsSilent, Silent, ToldIsMarked, OncePerSilence, PollMatchesOwner
<1>15. CASE PollCollects
  <2>1. \A d \in Device : devices'[d] = IF d \in TimedOut THEN [devices[d] EXCEPT !.timedOut = TRUE]
                                                          ELSE devices[d]
    BY <1>15 DEF PollCollects
  <2>2. \A d \in TimedOut : /\ d \in Device /\ devices[d] \in Record
                            /\ age[d] >= devices[d].timeout /\ d \notin told
    <3> SUFFICES ASSUME NEW d \in TimedOut
                 PROVE  /\ d \in Device /\ devices[d] \in Record
                        /\ age[d] >= devices[d].timeout /\ d \notin told
      OBVIOUS
    <3>1. d \in Device /\ devices[d] \in Record /\ elapsed[d] >= devices[d].timeout /\ ~devices[d].timedOut
      BY DEF TimedOut, TypeOK
    <3>2. devices[d].timeout \in Nat
      BY <3>1, MaxTimeoutFacts DEF Record
    <3>3. age[d] \in Nat /\ elapsed[d] \in Nat
      BY <3>1, MaxTimeoutFacts DEF TypeOK, Seconds
    <3>4. QED
      BY <3>1, <3>2, <3>3 DEF ElapsedBehind, ToldIsMarked
  <2>3. \A d \in TimedOut : /\ devices'[d] \in Record /\ devices'[d].timedOut
                            /\ devices'[d].timeout = devices[d].timeout
    BY <2>1, <2>2 DEF Record
  <2>4. ReportedIsSilent'
    BY <1>15, <2>2, <2>3, RecordIsNotAbsent DEF PollCollects, ReportedIsSilent, Silent
  <2>5. ToldIsMarked'
    BY <1>15, <2>1, <2>2 DEF PollCollects, ToldIsMarked, TypeOK
  <2>6. OncePerSilence'
    BY <1>15, <2>2 DEF PollCollects, OncePerSilence
  <2>7. QED
    BY <1>15, <2>4, <2>5, <2>6 DEF PollCollects, ElapsedBehind, PollMatchesOwner
<1>16. CASE PollCallsBack
  <2>1. PICK d \in batch : /\ batch' = batch \ {d}
                           /\ told' = IF d \in touched THEN told ELSE told \cup {d}
                           /\ touched' = touched \ {d}
    BY <1>16 DEF PollCallsBack
  <2>2. ToldIsMarked'
    BY <1>16, <2>1 DEF PollCallsBack, ToldIsMarked, ReportedIsSilent, Silent
  <2>3. QED
    BY <1>16, <2>1, <2>2
    DEF PollCallsBack, ElapsedBehind, ReportedIsSilent, Silent, OncePerSilence, PollMatchesOwner
<1>17. CASE PollRoundEnds
  BY <1>8, <1>17 DEF PollRoundEnds, PollMatchesOwner
<1>18. CASE UNCHANGED vars
  BY <1>8, <1>18 DEF vars, PollMatchesOwner
<1>19. QED
  BY <1>3, <1>4, <1>5, <1>6, <1>7, <1>9, <1>10, <1>11, <1>12, <1>13, <1>14, <1>15, <1>16, <1>17, <1>18
  DEF Next, PollStep

LEMMA MonitorInvariant == Spec => []MonitorInv
<1>1. Init => MonitorInv
  BY DEF Init, MonitorInv, ElapsedBehind, ReportedIsSilent, ToldIsMarked, OncePerSilence, PollMatchesOwner
<1>2. QED
  BY <1>1, MonitorTypes, MonitorStep, PTL DEF Spec

\* heartbeat_monitor.hpp:26: whatever other threads do between the collection
\* and the call, a device whose record was left alone is silent when reported.
THEOREM ReportsSilentOnly == Spec => []ReportedIsSilent
<1>1. MonitorInv => ReportedIsSilent
  BY DEF MonitorInv
<1>2. QED
  BY <1>1, MonitorInvariant, PTL

\* heartbeat_monitor.hpp:28: the callback is fired once until the device comes
\* back, however often the poll thread goes round.
THEOREM ReportsOnce == Spec => []OncePerSilence
<1>1. MonitorInv => OncePerSilence
  BY DEF MonitorInv
<1>2. QED
  BY <1>1, MonitorInvariant, PTL

\* heartbeat_monitor.cpp:61: when Stop has returned, the poll thread has ended
\* and no callback is due.
THEOREM StopIsFinal == Spec => []QuietAfterStop
<1>1. MonitorInv => QuietAfterStop
  BY DEF MonitorInv, PollMatchesOwner, QuietAfterStop
<1>2. QED
  BY <1>1, MonitorInvariant, PTL
=============================================================================
