----------------------------- MODULE RuleEngine -----------------------------
(***************************************************************************)
(* The automation rules: RuleRepository (a table under one mutex),         *)
(* RuleEngine, ConditionEvaluator, the routes of AutomationController, and *)
(* the sensor callback of Application that evaluates the rules on Paho's   *)
(* thread and sends the commands of those that fire.                       *)
(*                                                                         *)
(* A rule keeps its conditions and its switch; name, creator and commands  *)
(* go with the conditions, and are told apart by them.  A rule has one     *)
(* action, as more are only sent one after the other.                      *)
(***************************************************************************)
EXTENDS Naturals

CONSTANTS
  Rule,   \* rule ids
  Caller, \* threads that manage rules
  Sensor, \* sensor types
  Value,  \* values of readings, and thresholds
  Body    \* sets of conditions that rules are written with

Op == {">", "<", "==", "!=", ">=", "<="}
Condition == [sensor : Sensor, op : Op, threshold : Value]

\* A condition in JSON has any string as its operator.
ASSUME RuleAssumption ==
  /\ Value \subseteq Nat
  /\ \A b \in Body : b \subseteq [sensor : Sensor, op : STRING, threshold : Value]

VARIABLES
  rules,     \* m_rules
  calls,     \* EnableRule and DisableRule in progress: the copy each works on
  paho,      \* Paho's thread: "idle", "arrived", "sending"
  reading,   \* the reading it evaluates
  fired,     \* what Evaluate returned and is not sent yet
  sent,      \* rules whose command was sent for this reading (history)
  due,       \* rules, with conditions, that the reading met since it arrived (history)
  steady,    \* those that it has met all the time (history)
  written,   \* the conditions of the last AddRule or UpdateRule (history)
  overlapped \* written while an EnableRule or DisableRule had a copy (history)

tableVars == <<rules, calls, written, overlapped>>
pahoVars == <<paho, reading, fired, sent>>
dueVars == <<due, steady>>
vars == <<tableVars, pahoVars, dueVars>>

Absent == [absent |-> TRUE]
NoReading == [none |-> TRUE]
Content == [enabled : BOOLEAN, conditions : SUBSET Condition]
Reading == [sensor : Sensor, value : Value]
Idle == [busy |-> FALSE]
Call == [busy : {TRUE}, rule : Rule, on : BOOLEAN, copy : Content]

\* Type invariant: the table, the copies in work, the evaluation, history.
TypeOK ==
  /\ rules \in [Rule -> Content \cup {Absent}]
  /\ calls \in [Caller -> Call \cup {Idle}]
  /\ paho \in {"idle", "arrived", "sending"}
  /\ reading \in Reading \cup {NoReading}
  /\ fired \subseteq Rule \X Content
  /\ sent \subseteq Rule
  /\ due \subseteq Rule \X SUBSET Condition
  /\ steady \subseteq Rule
  /\ written \in [Rule -> SUBSET Condition]
  /\ overlapped \subseteq Rule

Init ==
  /\ rules = [r \in Rule |-> Absent]
  /\ calls = [c \in Caller |-> Idle]
  /\ paho = "idle" /\ reading = NoReading /\ fired = {} /\ sent = {}
  /\ due = {} /\ steady = {}
  /\ written = [r \in Rule |-> {}]
  /\ overlapped = {}

----------------------------------------------------------------------------
(* ConditionEvaluator *)

Compare(v, op, t) ==
  \/ op = ">" /\ v > t
  \/ op = "<" /\ v < t
  \/ op = "==" /\ v = t
  \/ op = "!=" /\ v # t
  \/ op = ">=" /\ v >= t
  \/ op = "<=" /\ v <= t

Evaluate(c, rd) == c.sensor = rd.sensor /\ Compare(rd.value, c.op, c.threshold)

\* A rule without conditions never fires.
EvaluateAll(conditions, rd) ==
  conditions # {} /\ \A c \in conditions : Evaluate(c, rd)

----------------------------------------------------------------------------
(* RuleRepository: each operation is one critical section *)

\* Whether a rule fires for a reading.
Met(content, rd) ==
  content # Absent /\ content.enabled /\ EvaluateAll(content.conditions, rd)

\* Every write of the table counts for the evaluation that is under way.
Store(r, content) ==
  /\ rules' = [rules EXCEPT ![r] = content]
  /\ IF paho # "idle" /\ Met(content, reading)
       THEN due' = due \cup {<<r, content.conditions>>} /\ UNCHANGED steady
       ELSE steady' = steady \ {r} /\ UNCHANGED due

Stored(r) == rules[r] # Absent

\* Mutant of GetEnabled: the switch is not looked at.
GetEnabledAll == {<<r, rules[r]>> : r \in {x \in Rule : Stored(x)}}

GetEnabled == {<<r, rules[r]>> : r \in {x \in Rule : Stored(x) /\ rules[x].enabled}}

----------------------------------------------------------------------------
(* RuleEngine and AutomationController *)

\* Mutant of OpFromString: a string is kept as it is.
OpFromStringRaw(s) == s

\* An operator that is not known counts as "==".
OpFromString(s) == IF s \in Op THEN s ELSE "=="

FromJson(body) == {[c EXCEPT !.op = OpFromString(@)] : c \in body}

Writes(r, body) ==
  /\ written' = [written EXCEPT ![r] = FromJson(body)]
  /\ overlapped' = IF \E c \in Caller : calls[c].busy /\ calls[c].rule = r
                     THEN overlapped \cup {r} ELSE overlapped \ {r}
  /\ UNCHANGED <<calls, pahoVars>>

\* AddRule, by POST /automation/rules.  An id that exists is refused.
AddRule(r, body, on) ==
  /\ ~Stored(r)
  /\ Store(r, [enabled |-> on, conditions |-> FromJson(body)])
  /\ Writes(r, body)

\* UpdateRule.  A rule that does not exist is not made.
UpdateRule(r, body, on) ==
  /\ Stored(r)
  /\ Store(r, [enabled |-> on, conditions |-> FromJson(body)])
  /\ Writes(r, body)

\* RemoveRule, by DELETE /automation/rules.
RemoveRule(r) ==
  /\ Stored(r)
  /\ Store(r, Absent)
  /\ written' = [written EXCEPT ![r] = {}]
  /\ UNCHANGED <<calls, overlapped, pahoVars>>

\* EnableRule and DisableRule copy the rule ...
FlagReads(c, r, on) ==
  /\ ~calls[c].busy
  /\ Stored(r)
  /\ calls' = [calls EXCEPT ![c] = [busy |-> TRUE, rule |-> r, on |-> on, copy |-> rules[r]]]
  /\ UNCHANGED <<rules, written, overlapped, pahoVars, dueVars>>

\* Mutant of Flagged: the conditions are moved out of the copy.
FlaggedMoved(call) == [enabled |-> call.on, conditions |-> {}]

Flagged(call) == [call.copy EXCEPT !.enabled = call.on]

\* ... and Update writes all of the copy back, if the rule is still there.
FlagWrites(c) ==
  /\ calls[c].busy
  /\ calls' = [calls EXCEPT ![c] = Idle]
  /\ IF Stored(calls[c].rule)
       THEN Store(calls[c].rule, Flagged(calls[c]))
       ELSE UNCHANGED <<rules, dueVars>>
  /\ UNCHANGED <<written, overlapped, pahoVars>>

----------------------------------------------------------------------------
(* The sensor callback, on Paho's thread *)

\* A reading comes in and is first sent to the WebSocket clients.
ReadingArrives(rd) ==
  /\ paho = "idle"
  /\ paho' = "arrived"
  /\ reading' = rd
  /\ steady' = {r \in Rule : Met(rules[r], rd)}
  /\ due' = {<<r, rules[r].conditions>> : r \in steady'}
  /\ UNCHANGED <<tableVars, fired, sent>>

\* RuleEngine::Evaluate works on a copy of the enabled rules.
EvaluateRules ==
  /\ paho = "arrived"
  /\ paho' = "sending"
  /\ fired' = {f \in GetEnabled : EvaluateAll(f[2].conditions, reading)}
  /\ UNCHANGED <<tableVars, reading, sent, dueVars>>

SendCommand(f) ==
  /\ paho = "sending"
  /\ f \in fired
  /\ fired' = fired \ {f}
  /\ sent' = sent \cup {f[1]}
  /\ UNCHANGED <<tableVars, paho, reading, dueVars>>

EvaluationEnds ==
  /\ paho = "sending" /\ fired = {}
  /\ paho' = "idle"
  /\ reading' = NoReading /\ sent' = {}
  /\ due' = {} /\ steady' = {}
  /\ UNCHANGED <<tableVars, fired>>

Next ==
  \/ \E r \in Rule, b \in Body, on \in BOOLEAN : AddRule(r, b, on) \/ UpdateRule(r, b, on)
  \/ \E r \in Rule : RemoveRule(r)
  \/ \E c \in Caller, r \in Rule, on \in BOOLEAN : FlagReads(c, r, on)
  \/ \E c \in Caller : FlagWrites(c)
  \/ \E rd \in Reading : ReadingArrives(rd)
  \/ EvaluateRules
  \/ \E f \in fired : SendCommand(f)
  \/ EvaluationEnds

Spec == Init /\ [][Next]_vars

----------------------------------------------------------------------------
(* Properties *)

\* A rule of which a command is still to be sent was enabled with these very
\* conditions, and they held, at some moment since the reading arrived: a rule
\* that was removed or disabled before fires no more.
FiredWasDue == \A f \in fired : f[2].enabled /\ <<f[1], f[2].conditions>> \in due

\* When the commands have been sent, every rule that was met by the reading all
\* the time is among them, whatever else was changed in the table meanwhile.
DueHasFired == paho = "sending" /\ fired = {} => steady \subseteq sent

\* The evaluation of a reading sends what is due, no more and no less.
EvaluationIsExact == FiredWasDue /\ DueHasFired

\* A rule has the conditions it was last written with, unless that was
\* done while an EnableRule or a DisableRule was at work on an older copy.
UpdatesKept ==
  \A r \in Rule \ overlapped : Stored(r) => rules[r].conditions = written[r]
=============================================================================
