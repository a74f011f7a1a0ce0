-------------------------- MODULE HeartbeatMonitor --------------------------
(***************************************************************************)
(* HeartbeatMonitor: the table of monitored devices, which any thread may  *)
(* change under m_mutex, the poll thread, which collects the silent        *)
(* devices under the mutex and calls the callback for each without it, and *)
(* the owner, which starts and stops the poll thread.                      *)
(*                                                                         *)
(* Time is kept as the age of each device's m_lastSeen, in seconds, up to  *)
(* the longest timeout: beyond it no comparison tells two ages apart.      *)
(* The poll interval is left out: a sleeping thread wakes at any time.     *)
(***************************************************************************)
EXTENDS Naturals, FiniteSets

CONSTANTS
  Device,   \* device ids
  Timeouts  \* timeouts, in seconds, that devices are registered with

ASSUME HeartbeatAssumption ==
  /\ Timeouts \subseteq Nat /\ Timeouts # {}
  /\ \E t \in Timeouts : \A u \in Timeouts : u <= t

VARIABLES
  devices,     \* m_devices; m_lastSeen is kept in age
  age,         \* age[d]: seconds since m_lastSeen of d
  elapsed,     \* elapsed[d]: the poll thread's now minus m_lastSeen of d
  callbackSet, \* m_timeoutCallback is not empty
  running,     \* m_running
  poll,        \* where the poll thread is
  batch,       \* timedOut of PollLoop: collected, callback not yet called
  heard,       \* the poll thread's copy of the callback is not empty
  owner,       \* what the owner of the monitor is doing
  touched,     \* devices of batch changed since they were collected (history)
  told,        \* the callback was called in the present silence (history)
  unheard      \* collected when there was no callback (history)

tableVars == <<devices, age>>
pollVars == <<elapsed, poll, batch, heard>>
history == <<touched, told, unheard>>
vars == <<tableVars, callbackSet, running, pollVars, owner, history>>

MaxTimeout == CHOOSE t \in Timeouts : \A u \in Timeouts : u <= t
Seconds == 0..MaxTimeout
Absent == [timedOut |-> FALSE]
Record == [timeout : Timeouts, timedOut : BOOLEAN]

\* Type invariant: a device is absent or has a record with a timeout it was
\* registered with; nothing but Register makes a record.
TypeOK ==
  /\ devices \in [Device -> Record \cup {Absent}]
  /\ age \in [Device -> Seconds]
  /\ elapsed \in [Device -> Seconds]
  /\ callbackSet \in BOOLEAN
  /\ running \in BOOLEAN
  /\ poll \in {"none", "looping", "sleeping", "woken", "timed", "calling", "ended"}
  /\ batch \subseteq Device
  /\ heard \in BOOLEAN
  /\ owner \in {"idle", "joining"}
  /\ touched \subseteq Device /\ told \subseteq Device /\ unheard \subseteq Device

Init ==
  /\ devices = [d \in Device |-> Absent]
  /\ age = [d \in Device |-> 0]
  /\ elapsed = [d \in Device |-> 0]
  /\ callbackSet = FALSE
  /\ running = FALSE
  /\ poll = "none"
  /\ batch = {} /\ heard = FALSE
  /\ owner = "idle"
  /\ touched = {} /\ told = {} /\ unheard = {}

\* d is registered and its timeout has passed.
Silent(d) == devices[d] # Absent /\ age[d] >= devices[d].timeout

----------------------------------------------------------------------------
(* The table, changed by any thread *)

\* What every call that changes the record of d means for the history.
Touch(d) ==
  /\ touched' = IF d \in batch THEN touched \cup {d} ELSE touched
  /\ told' = told \ {d}
  /\ unheard' = unheard \ {d}

\* m_lastSeen of d becomes the present: not before the poll thread's now.
SeenNow(d) ==
  /\ age' = [age EXCEPT ![d] = 0]
  /\ elapsed' = [elapsed EXCEPT ![d] = 0]

Register(d, timeout) ==
  /\ devices' = [devices EXCEPT ![d] = [timeout |-> timeout, timedOut |-> FALSE]]
  /\ SeenNow(d)
  /\ Touch(d)
  /\ UNCHANGED <<callbackSet, running, poll, batch, heard, owner>>

Unregister(d) ==
  /\ devices[d] # Absent
  /\ devices' = [devices EXCEPT ![d] = Absent]
  /\ SeenNow(d)
  /\ Touch(d)
  /\ UNCHANGED <<callbackSet, running, poll, batch, heard, owner>>

\* Mutant of RecordHeartbeat: m_timedOut is not reset.
RecordHeartbeatNoReset(d) ==
  /\ devices[d] # Absent
  /\ SeenNow(d)
  /\ Touch(d)
  /\ UNCHANGED <<devices, callbackSet, running, poll, batch, heard, owner>>

\* Mutant of RecordHeartbeat: an unknown device gets an empty record.
RecordHeartbeatCreates(d) ==
  /\ devices' = [devices EXCEPT ![d] = IF @ = Absent THEN [timeout |-> 0, timedOut |-> FALSE]
                                                     ELSE [@ EXCEPT !.timedOut = FALSE]]
  /\ SeenNow(d)
  /\ Touch(d)
  /\ UNCHANGED <<callbackSet, running, poll, batch, heard, owner>>

\* A heartbeat of an unknown device is ignored.
RecordHeartbeat(d) ==
  /\ devices[d] # Absent
  /\ devices' = [devices EXCEPT ![d].timedOut = FALSE]
  /\ SeenNow(d)
  /\ Touch(d)
  /\ UNCHANGED <<callbackSet, running, poll, batch, heard, owner>>

SetTimeoutCallback ==
  /\ callbackSet' = TRUE
  /\ UNCHANGED <<tableVars, running, pollVars, owner, history>>

\* A second passes.
Tick ==
  /\ \E d \in Device : devices[d] # Absent /\ age[d] < MaxTimeout
  /\ age' = [d \in Device |-> IF devices[d] # Absent /\ age[d] < MaxTimeout
                                THEN age[d] + 1 ELSE age[d]]
  /\ UNCHANGED <<devices, callbackSet, running, pollVars, owner, history>>

----------------------------------------------------------------------------
(* Start and Stop, called by the owner, one after the other *)

\* A second Start has no effect.
Start ==
  /\ owner = "idle" /\ ~running
  /\ running' = TRUE
  /\ poll' = "looping"
  /\ UNCHANGED <<tableVars, callbackSet, elapsed, batch, heard, owner, history>>

\* Mutant of Stop: the poll thread is not joined.
StopNoJoin ==
  /\ owner = "idle" /\ running
  /\ running' = FALSE
  /\ UNCHANGED <<tableVars, callbackSet, pollVars, owner, history>>

\* Mutant of Stop: the thread is joined before m_running is reset.
StopJoinsFirst ==
  /\ owner = "idle" /\ running
  /\ owner' = "joining"
  /\ UNCHANGED <<tableVars, callbackSet, running, pollVars, history>>

\* Stop, and ~HeartbeatMonitor, up to the join.
Stop ==
  /\ owner = "idle" /\ running
  /\ running' = FALSE
  /\ owner' = "joining"
  /\ UNCHANGED <<tableVars, callbackSet, pollVars, history>>

StopJoins ==
  /\ owner = "joining" /\ poll = "ended"
  /\ poll' = "none"
  /\ owner' = "idle"
  /\ UNCHANGED <<tableVars, callbackSet, running, elapsed, batch, heard, history>>

----------------------------------------------------------------------------
(* PollLoop *)

PollLoops ==
  /\ poll = "looping"
  /\ poll' = IF running THEN "sleeping" ELSE "ended"
  /\ UNCHANGED <<tableVars, callbackSet, running, elapsed, batch, heard, owner, history>>

\* The sleep ends, early if m_running was reset.
PollWakes ==
  /\ poll = "sleeping"
  /\ poll' = IF running THEN "woken" ELSE "ended"
  /\ UNCHANGED <<tableVars, callbackSet, running, elapsed, batch, heard, owner, history>>

\* now is read before the mutex is taken.
PollReadsClock ==
  /\ poll = "woken"
  /\ elapsed' = age
  /\ poll' = "timed"
  /\ UNCHANGED <<tableVars, callbackSet, running, batch, heard, owner, history>>

\* Mutant of TimedOut: a device that was reported is reported again.
TimedOutAgain == {d \in Device : devices[d] # Absent /\ elapsed[d] >= devices[d].timeout}

\* Mutant of TimedOut: a device is reported a second too early.
TimedOutEarly ==
  {d \in Device : devices[d] # Absent /\ elapsed[d] + 1 >= devices[d].timeout /\ ~devices[d].timedOut}

TimedOut ==
  {d \in Device : devices[d] # Absent /\ elapsed[d] >= devices[d].timeout /\ ~devices[d].timedOut}

\* The loop under m_mutex.  The flag is set whether or not there is a callback.
PollCollects ==
  /\ poll = "timed"
  /\ devices' = [d \in Device |-> IF d \in TimedOut THEN [devices[d] EXCEPT !.timedOut = TRUE]
                                                    ELSE devices[d]]
  /\ heard' = callbackSet
  /\ batch' = IF callbackSet THEN TimedOut ELSE {}
  /\ unheard' = IF callbackSet THEN unheard ELSE unheard \cup TimedOut
  /\ touched' = {}
  /\ poll' = "calling"
  /\ UNCHANGED <<age, callbackSet, running, elapsed, owner, told>>

\* One call of the callback, outside the mutex.
PollCallsBack ==
  /\ poll = "calling" /\ heard
  /\ \E d \in batch :
       /\ batch' = batch \ {d}
       /\ told' = IF d \in touched THEN told ELSE told \cup {d}
       /\ touched' = touched \ {d}
  /\ UNCHANGED <<tableVars, callbackSet, running, elapsed, poll, heard, owner, unheard>>

PollRoundEnds ==
  /\ poll = "calling" /\ batch = {}
  /\ poll' = "looping"
  /\ UNCHANGED <<tableVars, callbackSet, running, elapsed, batch, heard, owner, history>>

----------------------------------------------------------------------------
PollStep ==
  \/ PollLoops \/ PollWakes \/ PollReadsClock \/ PollCollects \/ PollCallsBack \/ PollRoundEnds

Next ==
  \/ \E d \in Device :
       \/ \E timeout \in Timeouts : Register(d, timeout)
       \/ Unregister(d) \/ RecordHeartbeat(d)
  \/ SetTimeoutCallback \/ Tick
  \/ Start \/ Stop \/ StopJoins
  \/ PollStep

Spec == Init /\ [][Next]_vars

\* Sleeps end, callbacks return, time passes, and join returns when it may.
FairSpec == Spec /\ WF_vars(PollStep) /\ WF_vars(StopJoins)

----------------------------------------------------------------------------
(* Properties *)

\* heartbeat_monitor.hpp:26: a device about to be reported is silent, and has
\* been marked, unless a Register, Unregister or RecordHeartbeat fell between
\* the collection and the call.
ReportedIsSilent ==
  \A d \in batch \ touched : Silent(d) /\ devices[d].timedOut

\* A device is reported once in a silence: between two calls for it there is a
\* Register or a RecordHeartbeat.
OncePerSilence == batch \cap told \subseteq touched

\* Once Stop has returned no callback is under way or to come.
QuietAfterStop == ~running /\ owner = "idle" => poll = "none" /\ batch = {}

\* A silent device is reported, unless it is heard of first, there was no
\* callback when it was collected, or the monitor is stopped.
SilentIsReported ==
  \A d \in Device :
    (Silent(d) /\ running) ~> (d \in told \/ d \in unheard \/ ~Silent(d) \/ ~running)

\* Stop always returns, however long the table and whatever the other threads do.
StopReturns == owner = "joining" ~> owner = "idle"
=============================================================================
