-------------------------- MODULE RuleEngine_proofs --------------------------
(***************************************************************************)
(* Theorems about RuleEngine for any rules, callers, sensors, values and   *)
(* bodies, and any number of conditions in a rule.                         *)
(***************************************************************************)
EXTENDS RuleEngine, TLAPS

\* What is stored of a rule is never taken for an absent rule.
LEMMA ContentIsNotAbsent == \A x \in Content : x # Absent
<1> SUFFICES ASSUME NEW x \in Content, x = Absent PROVE FALSE
  OBVIOUS
<1>1. "enabled" \in DOMAIN x
  BY DEF Content
<1>2. "enabled" \notin DOMAIN Absent
  BY DEF Absent
<1>3. QED
  BY <1>1, <1>2

\* The conditions of a body are conditions once their operators have been read.
LEMMA FromJsonType == \A b \in Body : FromJson(b) \subseteq Condition
<1> SUFFICES ASSUME NEW b \in Body, NEW c \in b
             PROVE [c EXCEPT !.op = OpFromString(@)] \in Condition
  BY DEF FromJson
<1>1. c \in [sensor : Sensor, op : STRING, threshold : Value]
  BY RuleAssumption
<1>2. OpFromString(c.op) \in Op
  BY DEF OpFromString, Op
<1>3. QED
  BY <1>1, <1>2 DEF Condition

\* A write of the table is typed and keeps the records of what is due in order.
LEMMA StoreType ==
  ASSUME TypeOK, NEW r \in Rule, NEW content \in Content \cup {Absent}, Store(r, content)
  PROVE  /\ rules' \in [Rule -> Content \cup {Absent}]
         /\ due' \subseteq Rule \X SUBSET Condition
         /\ steady' \subseteq Rule
<1>1. CASE paho # "idle" /\ Met(content, reading)
  <2>1. content \in Content
    BY <1>1 DEF Met
  <2>2. <<r, content.conditions>> \in Rule \X SUBSET Condition
    BY <2>1 DEF Content
  <2>3. QED
    BY <1>1, <2>2 DEF Store, TypeOK
<1>2. CASE ~(paho # "idle" /\ Met(content, reading))
  BY <1>2 DEF Store, TypeOK
<1>3. QED
  BY <1>1, <1>2

\* A call that is at work is a call: it has a rule, a switch and a copy.
LEMMA BusyIsCall ==
  ASSUME TypeOK, NEW c \in Caller, calls[c].busy
  PROVE  /\ calls[c].rule \in Rule /\ calls[c].on \in BOOLEAN /\ calls[c].copy \in Content
         /\ Flagged(calls[c]) \in Content
         /\ Flagged(calls[c]).conditions = calls[c].copy.conditions
<1>1. calls[c] \in Call
  BY DEF TypeOK, Idle
<1>2. calls[c].rule \in Rule /\ calls[c].copy \in Content /\ calls[c].on \in BOOLEAN
  BY <1>1 DEF Call
<1>3. Flagged(calls[c]) \in Content /\ Flagged(calls[c]).conditions = calls[c].copy.conditions
  BY <1>2 DEF Flagged, Content
<1>4. QED
  BY <1>2, <1>3

\* The types are preserved by every step.
LEMMA TypeStep == ASSUME TypeOK, [Next]_vars PROVE TypeOK'
<1> USE DEF TypeOK, tableVars, pahoVars, dueVars
<1>1. ASSUME NEW r \in Rule, NEW b \in Body, NEW on \in BOOLEAN,
             AddRule(r, b, on) \/ UpdateRule(r, b, on)
      PROVE  TypeOK'
  <2>1. FromJson(b) \in SUBSET Condition
    BY FromJsonType
  <2>2. [enabled |-> on, conditions |-> FromJson(b)] \in Content
    BY <2>1 DEF Content
  <2>3. /\ rules' \in [Rule -> Content \cup {Absent}]
        /\ due' \subseteq Rule \X SUBSET Condition
        /\ steady' \subseteq Rule
    BY <1>1, <2>2, StoreType DEF AddRule, UpdateRule
  <2>4. Writes(r, b)
    BY <1>1 DEF AddRule, UpdateRule
  <2>5. written' \in [Rule -> SUBSET Condition] /\ overlapped' \subseteq Rule
    BY <2>1, <2>4 DEF Writes
  <2>6. UNCHANGED <<calls, paho, reading, fired, sent>>
    BY <2>4 DEF Writes
  <2>7. QED
    BY <2>3, <2>5, <2>6
<1>2. ASSUME NEW r \in Rule, RemoveRule(r) PROVE TypeOK'
  <2>1. /\ rules' \in [Rule -> Content \cup {Absent}]
        /\ due' \subseteq Rule \X SUBSET Condition
        /\ steady' \subseteq Rule
    BY <1>2, StoreType DEF RemoveRule
  <2>2. QED
    BY <1>2, <2>1 DEF RemoveRule
<1>3. ASSUME NEW c \in Caller, NEW r \in Rule, NEW on \in BOOLEAN, FlagReads(c, r, on)
      PROVE  TypeOK'
  <2>1. rules[r] \in Content
    BY <1>3 DEF FlagReads, Stored
  <2>2. [busy |-> TRUE, rule |-> r, on |-> on, copy |-> rules[r]] \in Call
    BY <2>1 DEF Call
  <2>3. QED
    BY <1>3, <2>2 DEF FlagReads
<1>4. ASSUME NEW c \in Caller, FlagWrites(c) PROVE TypeOK'
  <2>1. calls[c].rule \in Rule /\ Flagged(calls[c]) \in Content
    BY <1>4, BusyIsCall DEF FlagWrites
  <2>4. /\ rules' \in [Rule -> Content \cup {Absent}]
        /\ due' \subseteq Rule \X SUBSET Condition
        /\ steady' \subseteq Rule
    BY <1>4, <2>1, StoreType DEF FlagWrites
  <2>5. calls' \in [Caller -> Call \cup {Idle}]
    BY <1>4 DEF FlagWrites
  <2>6. UNCHANGED <<written, overlapped, paho, reading, fired, sent>>
    BY <1>4 DEF FlagWrites
  <2>7. QED
    BY <2>4, <2>5, <2>6
<1>5. ASSUME NEW rd \in Reading, ReadingArrives(rd) PROVE TypeOK'
  <2>1. \A r \in steady' : r \in Rule /\ rules[r] \in Content
    BY <1>5 DEF ReadingArrives, Met
  <2>2. \A r \in steady' : <<r, rules[r].conditions>> \in Rule \X SUBSET Condition
    BY <2>1 DEF Content
  <2>3. due' \subseteq Rule \X SUBSET Condition /\ steady' \subseteq Rule
    BY <1>5, <2>1, <2>2 DEF ReadingArrives
  <2>4. paho' \in {"idle", "arrived", "sending"} /\ reading' \in Reading \cup {NoReading}
    BY <1>5 DEF ReadingArrives
  <2>5. UNCHANGED <<rules, calls, written, overlapped, fired, sent>>
    BY <1>5 DEF ReadingArrives
  <2>6. QED
    BY <2>3, <2>4, <2>5
<1>6. CASE EvaluateRules
  <2>1. GetEnabled \subseteq Rule \X Content
    BY DEF GetEnabled, Stored
  <2>2. QED
    BY <1>6, <2>1 DEF EvaluateRules
<1>7. ASSUME NEW f \in fired, SendCommand(f) PROVE TypeOK'
  <2>1. f[1] \in Rule
    OBVIOUS
  <2>2. QED
    BY <1>7, <2>1 DEF SendCommand
<1>8. CASE EvaluationEnds
  BY <1>8 DEF EvaluationEnds
<1>9. CASE UNCHANGED vars
  BY <1>9 DEF vars
<1>10. QED
  BY <1>1, <1>2, <1>3, <1>4, <1>5, <1>6, <1>7, <1>8, <1>9 DEF Next

\* The type invariant of the rule table, the copies in work and the evaluation,
\* for any rules, callers, sensors, values and bodies.
THEOREM RuleTypes == Spec => []TypeOK
<1>1. Init => TypeOK
  BY DEF Init, TypeOK
<1>2. QED
  BY <1>1, TypeStep, PTL DEF Spec

----------------------------------------------------------------------------
(* What is due fires, and nothing else *)

\* While a reading is evaluated, every rule it meets now is due ...
MetIsDue ==
  paho # "idle" =>
    \A r \in Rule : Met(rules[r], reading) => <<r, rules[r].conditions>> \in due

\* ... a rule that is steady is met now ...
SteadyIsMet == paho # "idle" => \A r \in steady : Met(rules[r], reading)

\* ... and has been sent or is still to be sent.
SteadyIsSent == paho = "sending" => \A r \in steady : r \in sent \/ \E f \in fired : f[1] = r

FiredWhileSending == paho # "sending" => fired = {}

EvaluationInv == MetIsDue /\ SteadyIsMet /\ SteadyIsSent /\ FiredWhileSending /\ FiredWasDue

\* A write of the table keeps the invariant.
LEMMA StoreKeepsEvaluation ==
  ASSUME TypeOK, EvaluationInv, NEW r \in Rule, NEW content \in Content \cup {Absent},
         Store(r, content), UNCHANGED pahoVars
  PROVE  EvaluationInv'
<1> USE DEF pahoVars
<1>0. \A x \in Rule : rules'[x] = IF x = r THEN content ELSE rules[x]
  BY DEF Store, TypeOK
<1>1. due \subseteq due' /\ steady' \subseteq steady
  BY DEF Store
<1>2. MetIsDue'
  <2> SUFFICES ASSUME paho # "idle", NEW x \in Rule, Met(rules'[x], reading)
               PROVE  <<x, rules'[x].conditions>> \in due'
    BY DEF MetIsDue
  <2>1. CASE x = r
    BY <1>0, <2>1 DEF Store
  <2>2. CASE x # r
    BY <1>0, <1>1, <2>2 DEF EvaluationInv, MetIsDue
  <2>3. QED
    BY <2>1, <2>2
<1>3. SteadyIsMet'
  <2> SUFFICES ASSUME paho # "idle", NEW x \in steady' PROVE Met(rules'[x], reading)
    BY DEF SteadyIsMet
  <2>1. x \in Rule /\ x \in steady
    BY <1>1 DEF TypeOK
  <2>2. CASE x = r
    <3>1. Met(content, reading)
      BY <2>2 DEF Store
    <3>2. QED
      BY <1>0, <2>1, <2>2, <3>1
  <2>3. CASE x # r
    BY <1>0, <2>1, <2>3 DEF EvaluationInv, SteadyIsMet
  <2>4. QED
    BY <2>2, <2>3
<1>4. SteadyIsSent' /\ FiredWhileSending' /\ FiredWasDue'
  BY <1>1 DEF EvaluationInv, SteadyIsSent, FiredWhileSending, FiredWasDue
<1>5. QED
  BY <1>2, <1>3, <1>4 DEF EvaluationInv

LEMMA EvaluationStep == ASSUME TypeOK, TypeOK', EvaluationInv, [Next]_vars PROVE EvaluationInv'
<1> USE DEF tableVars, pahoVars, dueVars
<1>1. ASSUME NEW r \in Rule, NEW b \in Body, NEW on \in BOOLEAN,
             AddRule(r, b, on) \/ UpdateRule(r, b, on)
      PROVE  EvaluationInv'
  <2>1. [enabled |-> on, conditions |-> FromJson(b)] \in Content
    BY FromJsonType DEF Content
  <2>2. Store(r, [enabled |-> on, conditions |-> FromJson(b)]) /\ UNCHANGED pahoVars
    BY <1>1 DEF AddRule, UpdateRule, Writes
  <2>3. QED
    BY <2>1, <2>2, StoreKeepsEvaluation
<1>2. ASSUME NEW r \in Rule, RemoveRule(r) PROVE EvaluationInv'
  BY <1>2, StoreKeepsEvaluation DEF RemoveRule
<1>3. ASSUME NEW c \in Caller, NEW r \in Rule, NEW on \in BOOLEAN, FlagReads(c, r, on)
      PROVE  EvaluationInv'
  BY <1>3 DEF FlagReads, EvaluationInv, MetIsDue, SteadyIsMet, SteadyIsSent,
              FiredWhileSending, FiredWasDue
<1>4. ASSUME NEW c \in Caller, FlagWrites(c) PROVE EvaluationInv'
  <2>1. calls[c].rule \in Rule /\ Flagged(calls[c]) \in Content
    BY <1>4, BusyIsCall DEF FlagWrites
  <2>2. UNCHANGED pahoVars
    BY <1>4 DEF FlagWrites
  <2>3. CASE Stored(calls[c].rule)
    BY <1>4, <2>1, <2>2, <2>3, StoreKeepsEvaluation DEF FlagWrites
  <2>4. CASE ~Stored(calls[c].rule)
    BY <1>4, <2>2, <2>4 DEF FlagWrites, EvaluationInv, MetIsDue, SteadyIsMet, SteadyIsSent,
                            FiredWhileSending, FiredWasDue
  <2>5. QED
    BY <2>3, <2>4
<1>5. ASSUME NEW rd \in Reading, ReadingArrives(rd) PROVE EvaluationInv'
  <2>1. fired' = {}
    BY <1>5 DEF ReadingArrives, EvaluationInv, FiredWhileSending
  <2>2. QED
    BY <1>5, <2>1 DEF ReadingArrives, EvaluationInv, MetIsDue, SteadyIsMet, SteadyIsSent,
                      FiredWhileSending, FiredWasDue
<1>6. CASE EvaluateRules
  <2>1. MetIsDue' /\ SteadyIsMet' /\ FiredWhileSending'
    BY <1>6 DEF EvaluateRules, EvaluationInv, MetIsDue, SteadyIsMet, FiredWhileSending
  <2>2. ASSUME NEW r \in Rule, Met(rules[r], reading)
        PROVE  <<r, rules[r]>> \in fired'
    BY <1>6, <2>2 DEF EvaluateRules, GetEnabled, Met, Stored
  <2>3. SteadyIsSent'
    <3> SUFFICES ASSUME NEW r \in steady PROVE \E f \in fired' : f[1] = r
      BY <1>6 DEF EvaluateRules, SteadyIsSent
    <3>1. r \in Rule /\ Met(rules[r], reading)
      BY <1>6 DEF EvaluateRules, EvaluationInv, SteadyIsMet, TypeOK
    <3>2. <<r, rules[r]>> \in fired'
      BY <2>2, <3>1
    <3>3. QED
      BY <3>2
  <2>4. FiredWasDue'
    <3> SUFFICES ASSUME NEW f \in fired' PROVE f[2].enabled /\ <<f[1], f[2].conditions>> \in due
      BY <1>6 DEF EvaluateRules, FiredWasDue
    <3>1. PICK r \in Rule : f = <<r, rules[r]>> /\ Stored(r) /\ rules[r].enabled
                            /\ EvaluateAll(rules[r].conditions, reading)
      BY <1>6 DEF EvaluateRules, GetEnabled
    <3>2. Met(rules[r], reading)
      BY <3>1 DEF Met, Stored
    <3>3. <<r, rules[r].conditions>> \in due
      BY <1>6, <3>2 DEF EvaluateRules, EvaluationInv, MetIsDue
    <3>4. QED
      BY <3>1, <3>3
  <2>5. QED
    BY <2>1, <2>3, <2>4 DEF EvaluationInv
<1>7. ASSUME NEW f \in fired, SendCommand(f) PROVE EvaluationInv'
  BY <1>7 DEF SendCommand, EvaluationInv, MetIsDue, SteadyIsMet, SteadyIsSent,
              FiredWhileSending, FiredWasDue
<1>8. CASE EvaluationEnds
  BY <1>8 DEF EvaluationEnds, EvaluationInv, MetIsDue, SteadyIsMet, SteadyIsSent,
              FiredWhileSending, FiredWasDue
<1>9. CASE UNCHANGED vars
  BY <1>9 DEF vars, EvaluationInv, MetIsDue, SteadyIsMet, SteadyIsSent,
              FiredWhileSending, FiredWasDue
<1>10. QED
  BY <1>1, <1>2, <1>3, <1>4, <1>5, <1>6, <1>7, <1>8, <1>9 DEF Next

\* The evaluation of a reading sends the commands of every rule that it has met
\* all the time, and of no rule that it never met as it stood.
THEOREM EvaluatesExactly == Spec => []EvaluationIsExact
<1>1. Init => TypeOK /\ EvaluationInv
  BY DEF Init, TypeOK, EvaluationInv, MetIsDue, SteadyIsMet, SteadyIsSent,
         FiredWhileSending, FiredWasDue
<1>2. TypeOK /\ EvaluationInv /\ [Next]_vars => (TypeOK /\ EvaluationInv)'
  BY TypeStep, EvaluationStep
<1>3. EvaluationInv => EvaluationIsExact
  BY DEF EvaluationInv, EvaluationIsExact, FiredWasDue, DueHasFired, SteadyIsSent
<1>4. QED
  BY <1>1, <1>2, <1>3, PTL DEF Spec

----------------------------------------------------------------------------
(* Updates are kept *)

\* The copy an EnableRule or DisableRule works on has the conditions that were
\* written last, as long as nothing was written since.
CopyIsCurrent ==
  \A c \in Caller :
    calls[c].busy /\ Stored(calls[c].rule) /\ calls[c].rule \notin overlapped
      => calls[c].copy.conditions = written[calls[c].rule]

\* AddRule and UpdateRule: what is written is what is stored, and whoever has a
\* copy of the rule is known to overlap.
LEMMA WriteKeepsUpdates ==
  ASSUME TypeOK, TypeOK', UpdatesKept, CopyIsCurrent, NEW r \in Rule, NEW b \in Body,
         NEW on \in BOOLEAN, AddRule(r, b, on) \/ UpdateRule(r, b, on)
  PROVE  UpdatesKept' /\ CopyIsCurrent'
<1> DEFINE content == [enabled |-> on, conditions |-> FromJson(b)]
<1>1. Store(r, content) /\ Writes(r, b)
  BY DEF AddRule, UpdateRule
<1>2. \A x \in Rule : rules'[x] = IF x = r THEN content ELSE rules[x]
  BY <1>1 DEF Store, TypeOK
<1>3. \A x \in Rule : written'[x] = IF x = r THEN FromJson(b) ELSE written[x]
  BY <1>1 DEF Writes, TypeOK
<1>4. calls' = calls
  BY <1>1 DEF Writes
<1>5. \A x \in Rule : x # r => (x \in overlapped' <=> x \in overlapped)
  BY <1>1 DEF Writes
<1>6. UpdatesKept'
  <2> SUFFICES ASSUME NEW x \in Rule, x \notin overlapped', Stored(x)'
               PROVE  rules'[x].conditions = written'[x]
    BY DEF UpdatesKept
  <2>1. CASE x = r
    BY <1>2, <1>3, <2>1
  <2>2. CASE x # r
    BY <1>2, <1>3, <1>5, <2>2 DEF UpdatesKept, Stored
  <2>3. QED
    BY <2>1, <2>2
<1>7. CopyIsCurrent'
  <2> SUFFICES ASSUME NEW c \in Caller, calls[c].busy, rules'[calls[c].rule] # Absent,
                      calls[c].rule \notin overlapped'
               PROVE  calls[c].copy.conditions = written'[calls[c].rule]
    BY <1>4 DEF CopyIsCurrent, Stored
  <2>1. calls[c].rule \in Rule
    BY BusyIsCall
  <2>2. calls[c].rule # r
    BY <1>1 DEF Writes
  <2>3. rules[calls[c].rule] # Absent /\ calls[c].rule \notin overlapped
    BY <1>2, <1>5, <2>1, <2>2
  <2>4. QED
    BY <1>3, <2>1, <2>2, <2>3 DEF CopyIsCurrent, Stored
<1>8. QED
  BY <1>6, <1>7

LEMMA UpdatesStep ==
  ASSUME TypeOK, TypeOK', UpdatesKept, CopyIsCurrent, [Next]_vars
  PROVE  UpdatesKept' /\ CopyIsCurrent'
<1> USE DEF tableVars, pahoVars, dueVars
<1>1. ASSUME NEW r \in Rule, NEW b \in Body, NEW on \in BOOLEAN,
             AddRule(r, b, on) \/ UpdateRule(r, b, on)
      PROVE  UpdatesKept' /\ CopyIsCurrent'
  BY <1>1, WriteKeepsUpdates
<1>2. ASSUME NEW r \in Rule, RemoveRule(r) PROVE UpdatesKept' /\ CopyIsCurrent'
  <2>1. \A x \in Rule : rules'[x] = IF x = r THEN Absent ELSE rules[x]
    BY <1>2 DEF RemoveRule, Store, TypeOK
  <2>2. \A x \in Rule : x # r => written'[x] = written[x]
    BY <1>2 DEF RemoveRule, TypeOK
  <2>3. overlapped' = overlapped /\ calls' = calls
    BY <1>2 DEF RemoveRule
  <2>4. \A c \in Caller : calls[c].busy => calls[c].rule \in Rule
    BY BusyIsCall
  <2>5. QED
    BY <2>1, <2>2, <2>3, <2>4 DEF UpdatesKept, CopyIsCurrent, Stored
<1>3. ASSUME NEW c \in Caller, NEW r \in Rule, NEW on \in BOOLEAN, FlagReads(c, r, on)
      PROVE  UpdatesKept' /\ CopyIsCurrent'
  <2>1. UNCHANGED <<rules, written, overlapped>>
    BY <1>3 DEF FlagReads
  <2>2. \A x \in Caller : calls'[x] = IF x = c
            THEN [busy |-> TRUE, rule |-> r, on |-> on, copy |-> rules[r]] ELSE calls[x]
    BY <1>3 DEF FlagReads, TypeOK
  <2>3. Stored(r)
    BY <1>3 DEF FlagReads
  <2>4. UpdatesKept'
    BY <2>1 DEF UpdatesKept, Stored
  <2>5. CopyIsCurrent'
    <3> SUFFICES ASSUME NEW x \in Caller, calls'[x].busy,
                        rules'[calls'[x].rule] # Absent, calls'[x].rule \notin overlapped
                 PROVE  calls'[x].copy.conditions = written[calls'[x].rule]
      BY <2>1 DEF CopyIsCurrent, Stored
    <3>1. CASE x = c
      BY <2>2, <2>3, <3>1 DEF UpdatesKept
    <3>2. CASE x # c
      BY <2>1, <2>2, <3>2 DEF CopyIsCurrent, Stored
    <3>3. QED
      BY <3>1, <3>2
  <2>6. QED
    BY <2>4, <2>5
<1>4. ASSUME NEW c \in Caller, FlagWrites(c) PROVE UpdatesKept' /\ CopyIsCurrent'
  <2>1. calls[c].busy /\ calls[c].rule \in Rule /\ calls[c].copy \in Content
    BY <1>4, BusyIsCall DEF FlagWrites
  <2>2. UNCHANGED <<written, overlapped>>
    BY <1>4 DEF FlagWrites
  <2>3. \A x \in Caller : x # c => calls'[x] = calls[x]
    BY <1>4 DEF FlagWrites, TypeOK
  <2>4. ~calls'[c].busy
    BY <1>4 DEF FlagWrites, TypeOK, Idle
  <2>5. Flagged(calls[c]).conditions = calls[c].copy.conditions
    BY <2>1, BusyIsCall
  <2>6. \A x \in Rule : Stored(x)' => Stored(x)
    BY <1>4, <2>1 DEF FlagWrites, Store, Stored, TypeOK
  <2>7. \A x \in Rule : rules'[x] = rules[x] \/ (x = calls[c].rule /\ Stored(x)
                                                   /\ rules'[x] = Flagged(calls[c]))
    BY <1>4, <2>1 DEF FlagWrites, Store, TypeOK
  <2>8. UpdatesKept'
    <3> SUFFICES ASSUME NEW x \in Rule, x \notin overlapped, Stored(x)'
                 PROVE  rules'[x].conditions = written[x]
      BY <2>2 DEF UpdatesKept
    <3>1. CASE rules'[x] = rules[x]
      BY <2>6, <3>1 DEF UpdatesKept
    <3>2. CASE x = calls[c].rule /\ Stored(x) /\ rules'[x] = Flagged(calls[c])
      BY <2>1, <2>5, <3>2 DEF CopyIsCurrent
    <3>3. QED
      BY <2>7, <3>1, <3>2
  <2>9. CopyIsCurrent'
    <3> SUFFICES ASSUME NEW x \in Caller, calls'[x].busy,
                        rules'[calls'[x].rule] # Absent, calls'[x].rule \notin overlapped
                 PROVE  calls'[x].copy.conditions = written[calls'[x].rule]
      BY <2>2 DEF CopyIsCurrent, Stored
    <3>1. x # c
      BY <2>4
    <3>2. calls[x].rule \in Rule
      BY <2>3, <3>1, BusyIsCall
    <3>3. rules[calls[x].rule] # Absent /\ calls[x].busy
      BY <2>3, <2>6, <3>1, <3>2 DEF Stored
    <3>4. QED
      BY <2>3, <3>1, <3>3 DEF CopyIsCurrent, Stored
  <2>10. QED
    BY <2>8, <2>9
<1>5. ASSUME UNCHANGED <<rules, calls, written, overlapped>> PROVE UpdatesKept' /\ CopyIsCurrent'
  BY <1>5 DEF UpdatesKept, CopyIsCurrent, Stored
<1>6. ASSUME NEW rd \in Reading, ReadingArrives(rd) PROVE UpdatesKept' /\ CopyIsCurrent'
  BY <1>5, <1>6 DEF ReadingArrives
<1>7. CASE EvaluateRules
  BY <1>5, <1>7 DEF EvaluateRules
<1>8. ASSUME NEW f \in fired, SendCommand(f) PROVE UpdatesKept' /\ CopyIsCurrent'
  BY <1>5, <1>8 DEF SendCommand
<1>9. CASE EvaluationEnds
  BY <1>5, <1>9 DEF EvaluationEnds
<1>10. CASE UNCHANGED vars
  BY <1>5, <1>10 DEF vars
<1>11. QED
  BY <1>1, <1>2, <1>3, <1>4, <1>6, <1>7, <1>8, <1>9, <1>10 DEF Next

\* A rule has the conditions it was last written with, unless that was done while
\* an EnableRule or DisableRule was at work on it.
THEOREM UpdatesAreKept == Spec => []UpdatesKept
<1>1. Init => TypeOK /\ UpdatesKept /\ CopyIsCurrent
  BY DEF Init, TypeOK, UpdatesKept, CopyIsCurrent, Stored, Idle
<1>2. TypeOK /\ UpdatesKept /\ CopyIsCurrent /\ [Next]_vars => (TypeOK /\ UpdatesKept /\ CopyIsCurrent)'
  BY TypeStep, UpdatesStep
<1>3. QED
  BY <1>1, <1>2, PTL DEF Spec
=============================================================================
