-------------------------- MODULE HttpUpdateProofs --------------------------
(***************************************************************************)
(* The safety properties of HttpUpdate and of UpdateCode under it, what it *)
(* does with the writer, and that its updates and locks end: for any       *)
(* readers, callers, sources and operations, any number of attempts and    *)
(* any number of tasks that cannot be created.                             *)
(***************************************************************************)
EXTENDS HttpUpdate, TLAPS

----------------------------------------------------------------------------
(* The inductive invariant.                                                *)

Holders == [owner : {Http, Other, NoOwner}, op : Ops \cup {NoOp}]
Records == [owner : {Http, Other, NoOwner}, op : Ops \cup {NoOp},
            phase : Writer!Phases, result : Writer!Results]
Sources == [state : SourceStates, op : Ops \cup {NoOp}]
Replies == [op : Ops \cup {NoOp}, source : SourceStates, phase : Writer!Phases \cup {"none"}]
StartRecords == [Starters -> [at : StartStages, op : Ops \cup {NoOp}]]
Tables == [Ops -> TaskStages]

\* A code that rotates has its attempts back before it is shown.
CodeInv == CodeTypeOK /\ CodeOnPage /\ (code.state = "expired" => code.attempts < MaxAttempts)

\* The stages of a start that presented its operation to the writer, and those
\* of one that minted it.
Presenting == {"publish", "create", "unmade", "abort", "report"}
WithOp == Presenting \cup {"claim", "giveup"}

Shape ==
  /\ busy \in BOOLEAN /\ source \in Sources /\ start \in StartRecords
  /\ task \in Tables /\ reply \in Replies /\ faults \in 0..MaxFaults
  /\ \A s \in Starters : start[s].at \in WithOp => start[s].op \in Ops

\* The record is that of the holder of the writer, and closed when there is none.
WriterInv ==
  /\ holder \in Holders /\ record \in Records /\ claimed \subseteq Ops
  /\ holder # Writer!Free => record.owner = holder.owner /\ record.op = holder.op
  /\ holder = Writer!Free =>
       record.phase # "committed" /\ (record.owner # NoOwner => record.phase = "failed")
  /\ record.owner = Http => record.op \in claimed

\* Whatever names an operation names one that was presented to the writer.
Presented ==
  /\ source.op \in claimed \cup {NoOp} /\ reply.op \in claimed \cup {NoOp}
  /\ \A op \in Ops : task[op] # "none" => op \in claimed
  /\ \A s \in Starters : start[s].at \in Presenting => start[s].op \in claimed

\* One start or one task has s_http_busy.
OneUser ==
  /\ \A s \in Starters : start[s].at \in Using =>
       /\ busy /\ (\A t \in Starters : start[t].at \in Using => t = s)
       /\ \A op \in Ops : task[op] \notin Alive
  /\ \A op \in Ops : task[op] \in Alive =>
       busy /\ \A other \in Ops : task[other] \in Alive => other = op

\* What a source may say of an operation, from what the writer recorded of it.
Says(op, state) ==
  record.owner = Http /\ record.op = op =>
    /\ state = "failed" => record.phase = "failed"
    /\ state = "committed" => record.phase = "committed"
    /\ state = "applying" => record.phase # "idle"

Agreed ==
  /\ Says(source.op, source.state) /\ Says(reply.op, reply.source)
  /\ \A op \in Ops :
       /\ task[op] = "apply" => Says(op, "applying")
       /\ task[op] = "publish" => Says(op, "committed") /\ record.phase = "committed"
       /\ task[op] = "report" => Says(op, "failed")
  /\ \A s \in Starters : start[s].at = "report" => Says(start[s].op, "failed")
  /\ StatusConsistent

\* An accepted code is with its handler, and then with a task, until it fails.
Running ==
  /\ code.state = "consumed" => start[Trigger].at = "mark"
  /\ code.state = "running" =>
       \/ start[Trigger].at \notin {"idle", "status", "answer", "started"}
       \/ \E op \in Ops : task[op] \in Alive \ {"free"}
       \/ record.phase = "committed"

\* The source speaks of the operation that has a task, or is about to get one.
Retained ==
  faults = 0 =>
    /\ \A s \in Starters : start[s].at \notin {"unmade", "abort", "report"}
    /\ \A s \in Starters : start[s].at = "create" => source.op = start[s].op
    /\ \A op \in Ops : HasItsStatus(op)

HttpInv ==
  /\ CodeInv /\ Shape /\ WriterInv
  /\ Presented /\ OneUser /\ Agreed /\ Running /\ Retained

----------------------------------------------------------------------------
(* Constants, and what the helpers of the actions do.                      *)

LEMMA Constants ==
  /\ Trigger \in Readers /\ Trigger # Display /\ Trigger \in Starters /\ Display \in Readers
  /\ Http # Other /\ NoOwner # Http /\ NoOwner # Other /\ NoOp \notin Ops
  /\ MaxFaults \in Nat /\ MaxAttempts \in Nat /\ MaxAttempts > 0
BY CodeAssumption, HttpAssumption DEF Starters

LEMMA StartsDoes ==
  ASSUME NEW s \in Starters, NEW stage \in StartStages, start \in StartRecords, Starts(s, stage)
  PROVE  /\ start' \in StartRecords
         /\ start'[s].at = stage /\ start'[s].op = start[s].op
         /\ \A t \in Starters \ {s} : start'[t] = start[t]
BY DEF Starts, StartRecords

LEMMA TasksDoes ==
  ASSUME NEW op \in Ops, NEW stage \in TaskStages, task \in Tables, Tasks(op, stage)
  PROVE  /\ task' \in Tables /\ task'[op] = stage
         /\ \A other \in Ops \ {op} : task'[other] = task[other]
BY DEF Tasks, Tables

LEMMA PublishDoes ==
  ASSUME NEW state \in SourceStates, NEW op \in Ops, Publish(state, op)
  PROVE  source' \in Sources /\ source'.state = state /\ source'.op = op
BY DEF Publish, Sources

LEMMA FailureStepsDo ==
  /\ FailureSteps[1] = "abort" /\ AfterFailure("abort") = "report"
  /\ AfterFailure("report") = "mark" /\ AfterFailure("mark") = "free"
<1> DEFINE Is(stage, i) == i \in DOMAIN FailureSteps /\ FailureSteps[i] = stage
<1> DEFINE At(stage) == CHOOSE i \in DOMAIN FailureSteps : FailureSteps[i] = stage
<1>1. /\ DOMAIN FailureSteps = 1..4
      /\ FailureSteps[1] = "abort" /\ FailureSteps[2] = "report"
      /\ FailureSteps[3] = "mark" /\ FailureSteps[4] = "free"
  BY DEF FailureSteps
<1>2. ASSUME NEW stage, NEW i \in 1..4, FailureSteps[i] = stage PROVE Is(stage, At(stage))
  BY <1>1, <1>2
<1>3. At("abort") = 1 /\ At("report") = 2 /\ At("mark") = 3
  <2>1. Is("abort", At("abort")) /\ Is("report", At("report")) /\ Is("mark", At("mark"))
    BY <1>1, <1>2
  <2> HIDE DEF At
  <2> QED
    BY <1>1, <2>1
<1> QED
  BY <1>1, <1>3 DEF AfterFailure

\* What the writer recorded of an operation that was presented stays, or goes on.
RecordStays ==
  /\ claimed \subseteq claimed'
  /\ record.phase = "committed" => record'.phase = "committed"
  /\ \A op \in claimed \cup {NoOp} :
       record'.owner = Http /\ record'.op = op =>
         /\ record.owner = Http /\ record.op = op
         /\ record.phase = "failed" => record'.phase = "failed"
         /\ record.phase = "committed" => record'.phase = "committed"
         /\ record.phase # "idle" => record'.phase # "idle"

LEMMA WriterSame == ASSUME WriterInv, UNCHANGED writer PROVE WriterInv' /\ RecordStays
BY DEF WriterInv, RecordStays, writer, Writer!Free

LEMMA ClaimDoes ==
  ASSUME WriterInv, NEW s \in {Http, Other}, NEW op \in Ops, NEW phase \in {"idle", "prepared"},
         Writer!Claim(s, op, phase)
  PROVE  WriterInv' /\ RecordStays /\ claimed' = claimed \cup {op}
<1> USE Constants DEF Writer!Claim, Writer!Free
<1>1. holder' \in Holders /\ record' \in Records /\ claimed' \subseteq Ops
  BY DEF WriterInv, Holders, Records, Writer!Phases, Writer!Results
<1>2. /\ holder'.owner = s /\ holder'.op = op /\ record'.owner = s /\ record'.op = op
      /\ holder' # Writer!Free /\ claimed' = claimed \cup {op} /\ op \notin claimed
  BY SMT
<1>3. record.phase # "committed"
  BY DEF WriterInv
<1>4. WriterInv'
  BY <1>1, <1>2 DEF WriterInv
<1> QED
  BY <1>2, <1>3, <1>4 DEF RecordStays

LEMMA ReportDoes ==
  ASSUME WriterInv, NEW op \in Ops, NEW phase, Writer!Report(Http, op, phase)
  PROVE  /\ WriterInv' /\ RecordStays /\ claimed' = claimed
         /\ record.owner = Http /\ record.op = op /\ record'.owner = Http /\ record'.op = op
         /\ record'.phase = phase
<1> USE Constants DEF Writer!Report, Writer!Held, Writer!Free
<1>1. /\ phase \in Writer!Phases /\ phase # "idle"
      /\ record.phase # "committed" /\ record.phase # "failed"
  BY DEF Writer!Follows, Writer!Phases
<1>2. /\ record' \in Records /\ record'.phase = phase /\ record'.owner = record.owner
      /\ record'.op = record.op /\ holder' = holder /\ claimed' = claimed
  BY <1>1 DEF WriterInv, Records
<1>3. holder # Writer!Free /\ record.owner = Http /\ record.op = op
  BY DEF WriterInv
<1>4. WriterInv'
  BY <1>2, <1>3 DEF WriterInv
<1> QED
  BY <1>1, <1>2, <1>3, <1>4 DEF RecordStays

LEMMA ReleaseDoes ==
  ASSUME WriterInv, NEW s \in {Http, Other}, NEW op \in Ops, NEW result \in Writer!Results,
         Writer!Release(s, op, result)
  PROVE  /\ WriterInv' /\ RecordStays /\ claimed' = claimed
         /\ record'.owner = s /\ record'.op = op /\ record'.phase = "failed"
<1> USE Constants DEF Writer!Release, Writer!Held, Writer!Free
<1>1. /\ record' \in Records /\ record'.phase = "failed" /\ record'.owner = record.owner
      /\ record'.op = record.op /\ claimed' = claimed /\ holder' = Writer!Free
      /\ record.phase # "committed"
  BY DEF WriterInv, Records, Writer!Phases
<1>2. record.owner = s /\ record.op = op
  BY DEF WriterInv
<1>3. holder' \in Holders
  BY <1>1 DEF Holders
<1>4. WriterInv'
  BY <1>1, <1>2, <1>3 DEF WriterInv
<1> QED
  BY <1>1, <1>2, <1>4 DEF RecordStays

LEMMA RefuseDoes ==
  ASSUME WriterInv, NEW op \in Ops, Writer!Refuse(op)
  PROVE  WriterInv' /\ RecordStays
<1> USE Constants DEF Writer!Refuse, Writer!Free
<1>1. /\ record' \in Records /\ record'.phase = "failed" /\ record'.owner = record.owner
      /\ record'.op = record.op /\ claimed' = claimed \cup {op} /\ holder' = holder
      /\ record.phase # "committed"
  BY DEF WriterInv, Records, Writer!Phases, Writer!Results
<1>2. WriterInv'
  BY <1>1 DEF WriterInv
<1> QED
  BY <1>1, <1>2 DEF RecordStays

\* abort_update_owned closes the record of the operation it is called for.
LEMMA AbortDoes ==
  ASSUME WriterInv, NEW op \in Ops, AbortWriter(op)
  PROVE  /\ WriterInv' /\ RecordStays /\ claimed' = claimed
         /\ record'.owner = Http /\ record'.op = op => record'.phase = "failed"
<1>1. CASE Writer!Held(Http, op)
  <2>1. Writer!Release(Http, op, "aborted")
    BY <1>1 DEF AbortWriter
  <2> QED
    BY <2>1, ReleaseDoes DEF Writer!Results
<1>2. CASE ~Writer!Held(Http, op)
  <2>1. holder' = holder /\ record' = record /\ claimed' = claimed
    BY <1>2 DEF AbortWriter, writer
  <2>2. holder = [owner |-> holder.owner, op |-> holder.op]
    BY DEF WriterInv, Holders
  <2>3. record.owner = Http /\ record.op = op => holder = Writer!Free
    BY <1>2, <2>2 DEF Writer!Held, WriterInv
  <2>4. WriterInv' /\ RecordStays
    BY <2>1, WriterSame DEF writer
  <2> QED
    BY <2>1, <2>3, <2>4, Constants DEF WriterInv
<1> QED
  BY <1>1, <1>2

----------------------------------------------------------------------------
(* The display code.  What starts no code leaves Running alone.            *)

CodeRecords == [state : States, attempts : 0..MaxAttempts, timer : Timers]
Rotations == [Readers -> {"none", "current", "superseded"}]

\* The code is on its way to an update as before, or no longer.
CodeSettles == code'.state \in {"consumed", "running"} => code'.state = code.state

LEMMA CodeParts ==
  ASSUME CodeInv
  PROVE  code \in CodeRecords /\ rotation \in Rotations /\ page \in BOOLEAN
BY DEF CodeInv, CodeTypeOK, CodeRecords, Rotations

LEMMA CodeSame == ASSUME CodeInv, UNCHANGED codeVars PROVE CodeInv' /\ CodeSettles
BY DEF CodeInv, CodeTypeOK, CodeOnPage, CodeSettles, codeVars

LEMMA NextGenerationDoes ==
  ASSUME rotation \in Rotations
  PROVE  /\ NextGeneration \in Rotations
         /\ \A r \in Readers : [NextGeneration EXCEPT ![r] = "current"] \in Rotations
BY DEF NextGeneration, Rotations

LEMMA ElapseKeeps == ASSUME CodeInv, Elapse PROVE CodeInv' /\ CodeSettles
<1>1. /\ code' \in CodeRecords /\ code'.state = code.state /\ code'.attempts = code.attempts
      /\ code'.timer # "off" /\ rotation' = rotation /\ page' = page
  BY CodeParts DEF Elapse, CodeRecords, Timers
<1> QED
  BY <1>1 DEF CodeInv, CodeTypeOK, CodeOnPage, CodeRecords, CodeSettles

LEMMA RotateClaimKeeps ==
  ASSUME CodeInv, NEW r \in Readers, RotateClaim(r) PROVE CodeInv' /\ CodeSettles
<1>1. /\ code' \in CodeRecords /\ code'.state = "expired" /\ code'.attempts = 0
      /\ rotation' \in Rotations /\ page' = page
  <2>1. /\ code' = [state |-> "expired", attempts |-> 0, timer |-> "off"] /\ page' = page
        /\ rotation' = [NextGeneration EXCEPT ![r] = "current"]
    BY DEF RotateClaim
  <2>2. rotation' \in Rotations
    BY <2>1, CodeParts, NextGenerationDoes
  <2> QED
    BY <2>1, <2>2, Constants DEF CodeRecords, States, Timers
<1>2. code.state \in {"available", "locked"}
  BY DEF RotateClaim, IsDue
<1>3. CodeTypeOK'
  BY <1>1, CodeParts DEF CodeTypeOK, CodeRecords, Rotations
<1>4. page
  BY <1>2 DEF CodeInv, CodeOnPage
<1> QED
  BY <1>1, <1>3, <1>4, Constants DEF CodeInv, CodeOnPage, CodeSettles

LEMMA RotatePublishKeeps ==
  ASSUME CodeInv, NEW r \in Readers, RotatePublish(r) PROVE CodeInv' /\ CodeSettles
<1>1. rotation' \in Rotations /\ page' = page
  BY CodeParts DEF RotatePublish, Rotations
<1>2. CASE MayPublish(r)
  <2>1. code.state = "expired"
    BY <1>2 DEF MayPublish
  <2>2. /\ code' \in CodeRecords /\ code'.state = "available" /\ code'.timer = "ahead"
        /\ code'.attempts = code.attempts
    BY <1>2, CodeParts DEF RotatePublish, CodeRecords, States, Timers
  <2> QED
    BY <1>1, <2>1, <2>2
       DEF CodeInv, CodeTypeOK, CodeOnPage, CodeRecords, Rotations, CodeSettles
<1>3. CASE ~MayPublish(r)
  BY <1>1, <1>3 DEF RotatePublish, CodeInv, CodeTypeOK, CodeOnPage, Rotations, CodeSettles
<1> QED
  BY <1>2, <1>3

\* Generate with the page open, Cancel with the page closed.
LEMMA GenerateKeeps == ASSUME CodeInv, Generate, page' = TRUE PROVE CodeInv' /\ CodeSettles
<1>1. CASE InUse
  BY <1>1 DEF Generate, InUse, CodeInv, CodeTypeOK, CodeOnPage, CodeSettles
<1>2. CASE ~InUse
  <2>1. /\ code' = NewCode /\ NewCode \in CodeRecords /\ rotation' \in Rotations
    BY <1>2, CodeParts, NextGenerationDoes, Constants
       DEF Generate, NewCode, CodeRecords, States, Timers
  <2> QED
    BY <2>1, Constants
       DEF NewCode, CodeInv, CodeTypeOK, CodeOnPage, CodeRecords, Rotations, CodeSettles
<1> QED
  BY <1>1, <1>2

LEMMA CancelKeeps == ASSUME CodeInv, Cancel, page' = FALSE PROVE CodeInv' /\ CodeSettles
<1>1. CASE InUse
  BY <1>1 DEF Cancel, InUse, CodeInv, CodeTypeOK, CodeOnPage, CodeSettles
<1>2. CASE ~InUse
  <2>1. /\ code' = Disabled /\ Disabled \in CodeRecords /\ rotation' \in Rotations
    BY <1>2, CodeParts, NextGenerationDoes, Constants
       DEF Cancel, Disabled, CodeRecords, States, Timers
  <2> QED
    BY <2>1, Constants
       DEF Disabled, CodeInv, CodeTypeOK, CodeOnPage, CodeRecords, Rotations, CodeSettles
<1> QED
  BY <1>1, <1>2

LEMMA AcceptKeeps ==
  ASSUME CodeInv, NEW r \in Readers, Accept(r) PROVE CodeInv' /\ code'.state = "consumed"
<1>1. /\ code' \in CodeRecords /\ code'.state = "consumed" /\ code'.attempts = code.attempts
      /\ rotation' \in Rotations /\ page' = page
  BY CodeParts, NextGenerationDoes DEF Accept, CodeRecords, States, Timers
<1> QED
  BY <1>1 DEF CodeInv, CodeTypeOK, CodeOnPage, CodeRecords, Rotations

LEMMA RejectKeeps ==
  ASSUME CodeInv, NEW r \in Readers, Reject(r) PROVE CodeInv' /\ CodeSettles
<1>1. code.state = "available" /\ code.attempts \in 0..MaxAttempts /\ code.attempts < MaxAttempts
  BY CodeParts DEF Reject, CodeInv, CodeTypeOK, CodeRecords
<1>2. /\ code' \in CodeRecords /\ code'.attempts = code.attempts + 1 /\ code'.timer = code.timer
      /\ code'.state = IF code.attempts + 1 >= MaxAttempts THEN "locked" ELSE "available"
  <2>1. /\ code.attempts + 1 \in 0..MaxAttempts
        /\ (IF code.attempts + 1 >= MaxAttempts THEN "locked" ELSE code.state) \in States
    BY <1>1, Constants DEF States
  <2>2. code' = [code EXCEPT !.attempts = code.attempts + 1,
                   !.state = IF code.attempts + 1 >= MaxAttempts THEN "locked" ELSE code.state]
    BY DEF Reject
  <2>3. code \in CodeRecords
    BY CodeParts
  <2> HIDE DEF Reject
  <2> QED
    BY <1>1, <2>1, <2>2, <2>3 DEF CodeRecords
<1>3. rotation' = rotation /\ page' = page
  BY DEF Reject
<1> QED
  BY <1>1, <1>2, <1>3, Constants
     DEF CodeInv, CodeTypeOK, CodeOnPage, CodeRecords, CodeSettles

\* The marks end a code that was accepted, or move it from the one to the other.
LEMMA MarkKeeps ==
  ASSUME CodeInv, page' = page,
         NEW state \in {"running", "start_failed"}, code.state \in {"consumed", "running"},
         code' = [code EXCEPT !.state = state], rotation' = NextGeneration
  PROVE  CodeInv' /\ code'.state = state
<1>1. /\ code' \in CodeRecords /\ code'.state = state /\ code'.attempts = code.attempts
      /\ rotation' \in Rotations
  BY CodeParts, NextGenerationDoes DEF CodeRecords, States
<1>2. CodeTypeOK'
  BY <1>1, CodeParts DEF CodeTypeOK, CodeRecords, Rotations
<1> QED
  BY <1>1, <1>2 DEF CodeInv, CodeOnPage

LEMMA MarkRunningKeeps ==
  ASSUME CodeInv, MarkRunning, page' = page PROVE CodeInv' /\ code'.state # "consumed"
<1>1. CASE code.state = "consumed"
  BY <1>1, MarkKeeps DEF MarkRunning
<1>2. CASE code.state # "consumed"
  BY <1>2, CodeSame DEF MarkRunning, codeVars
<1> QED
  BY <1>1, <1>2

LEMMA MarkStartFailedKeeps ==
  ASSUME CodeInv, MarkStartFailed, page' = page
  PROVE  CodeInv' /\ code'.state \notin {"consumed", "running"}
<1>1. CASE code.state \in Startable
  BY <1>1, MarkKeeps DEF MarkStartFailed, Startable
<1>2. CASE code.state \notin Startable
  BY <1>2, CodeSame DEF MarkStartFailed, Startable, codeVars
<1> QED
  BY <1>1, <1>2

LEMMA MarkUpdateFailedKeeps ==
  ASSUME CodeInv, MarkUpdateFailed, page' = page
  PROVE  CodeInv' /\ CodeSettles /\ code'.state # "running"
<1>1. CASE code.state = "running"
  BY <1>1, MarkKeeps DEF MarkUpdateFailed, CodeSettles
<1>2. CASE code.state # "running"
  BY <1>2, CodeSame DEF MarkUpdateFailed, codeVars
<1> QED
  BY <1>1, <1>2

----------------------------------------------------------------------------
(* One lemma for each action.                                              *)

LEMMA TakeCodeKeeps == HttpInv /\ TakeCode => HttpInv'
<1> SUFFICES ASSUME HttpInv, TakeCode PROVE HttpInv'
  OBVIOUS
<1>1. /\ CodeInv /\ Shape /\ WriterInv
      /\ Presented /\ OneUser /\ Agreed /\ Running /\ Retained
  BY DEF HttpInv
<1>2. /\ start[Trigger].at = "idle"
      /\ holder' = holder /\ record' = record /\ claimed' = claimed /\ busy' = busy
      /\ source' = source /\ task' = task /\ reply' = reply /\ faults' = faults
  BY DEF TakeCode, StartAt, writer
<1>3. CASE Accept(Trigger) /\ Starts(Trigger, "mark")
  <2>1. /\ start' \in StartRecords /\ start'[Trigger].at = "mark" /\ start'[Trigger].op = start[Trigger].op
        /\ \A t \in Starters \ {Trigger} : start'[t] = start[t]
    BY <1>1, <1>2, <1>3, StartsDoes, Constants DEF Shape, StartStages
  <2>2. CodeInv' /\ code'.state = "consumed"
    BY <1>1, <1>2, <1>3, <2>1, AcceptKeeps, Constants
  <2>3. WriterInv' /\ RecordStays
    BY <1>1, <1>2, <1>3, <2>1, WriterSame DEF writer
  <2>4. Shape'
    BY <1>1, <1>2, <1>3, <2>1 DEF Shape, WithOp, Presenting
  <2>5. Presented'
    BY <1>1, <1>2, <1>3, <2>1, <2>3 DEF Presented, Presenting, RecordStays
  <2>6. OneUser'
    BY <1>1, <1>2, <1>3, <2>1 DEF OneUser, Using, Alive
  <2>7. Agreed'
    BY <1>1, <1>2, <1>3, <2>1, <2>3 DEF Agreed, Says, StatusConsistent, RecordStays
  <2>8. Running'
    BY <1>1, <1>2, <1>3, <2>1, <2>2, <2>3 DEF Running, RecordStays, CodeSettles, Alive
  <2>9. Retained'
    BY <1>1, <1>2, <1>3, <2>1 DEF Retained, HasItsStatus, Alive
  <2> QED
    BY <2>2, <2>3, <2>4, <2>5, <2>6, <2>7, <2>8, <2>9 DEF HttpInv
<1>4. CASE Reject(Trigger) /\ UNCHANGED start
  <2>1. CodeInv' /\ CodeSettles
    BY <1>1, <1>2, <1>4, RejectKeeps, Constants
  <2>2. WriterInv' /\ RecordStays
    BY <1>1, <1>2, <1>4, WriterSame DEF writer
  <2>3. Shape'
    BY <1>1, <1>2, <1>4 DEF Shape, WithOp, Presenting
  <2>4. Presented'
    BY <1>1, <1>2, <1>4, <2>2 DEF Presented, Presenting, RecordStays
  <2>5. OneUser'
    BY <1>1, <1>2, <1>4 DEF OneUser, Using, Alive
  <2>6. Agreed'
    BY <1>1, <1>2, <1>4, <2>2 DEF Agreed, Says, StatusConsistent, RecordStays
  <2>7. Running'
    BY <1>1, <1>2, <1>4, <2>1, <2>2 DEF Running, RecordStays, CodeSettles, Alive
  <2>8. Retained'
    BY <1>1, <1>2, <1>4 DEF Retained, HasItsStatus, Alive
  <2> QED
    BY <2>1, <2>2, <2>3, <2>4, <2>5, <2>6, <2>7, <2>8 DEF HttpInv
<1> QED
  BY <1>3, <1>4 DEF TakeCode

LEMMA HandlerMarksKeeps == HttpInv /\ HandlerMarks => HttpInv'
<1> SUFFICES ASSUME HttpInv, HandlerMarks PROVE HttpInv'
  OBVIOUS
<1>1. /\ CodeInv /\ Shape /\ WriterInv
      /\ Presented /\ OneUser /\ Agreed /\ Running /\ Retained
  BY DEF HttpInv
<1>2. /\ start[Trigger].at = "mark" /\ Starts(Trigger, "parse")
      /\ page' = page /\ holder' = holder /\ record' = record /\ claimed' = claimed
      /\ busy' = busy /\ source' = source /\ task' = task /\ reply' = reply
      /\ faults' = faults
  BY DEF HandlerMarks, StartAt, writer, codeVars
<1>3. /\ start' \in StartRecords /\ start'[Trigger].at = "parse" /\ start'[Trigger].op = start[Trigger].op
      /\ \A t \in Starters \ {Trigger} : start'[t] = start[t]
  BY <1>1, <1>2, StartsDoes, Constants DEF Shape, StartStages
<1>4. CodeInv' /\ code'.state # "consumed"
  BY <1>1, <1>2, <1>3, MarkRunningKeeps DEF HandlerMarks
<1>5. WriterInv' /\ RecordStays
  BY <1>1, <1>2, <1>3, WriterSame DEF writer
<1>6. Shape'
  BY <1>1, <1>2, <1>3 DEF Shape, WithOp, Presenting
<1>7. Presented'
  BY <1>1, <1>2, <1>3, <1>5 DEF Presented, Presenting, RecordStays
<1>8. OneUser'
  BY <1>1, <1>2, <1>3 DEF OneUser, Using, Alive
<1>9. Agreed'
  BY <1>1, <1>2, <1>3, <1>5 DEF Agreed, Says, StatusConsistent, RecordStays
<1>10. Running'
  BY <1>1, <1>2, <1>3, <1>4, <1>5 DEF Running, RecordStays, CodeSettles, Alive
<1>11. Retained'
  BY <1>1, <1>2, <1>3 DEF Retained, HasItsStatus, Alive
<1> QED
  BY <1>4, <1>5, <1>6, <1>7, <1>8, <1>9, <1>10, <1>11 DEF HttpInv

LEMMA HandlerParsesKeeps == HttpInv /\ HandlerParses => HttpInv'
<1> SUFFICES ASSUME HttpInv, HandlerParses PROVE HttpInv'
  OBVIOUS
<1>1. /\ CodeInv /\ Shape /\ WriterInv
      /\ Presented /\ OneUser /\ Agreed /\ Running /\ Retained
  BY DEF HttpInv
<1>2. /\ start[Trigger].at = "parse"
      /\ code' = code /\ rotation' = rotation /\ page' = page /\ holder' = holder
      /\ record' = record /\ claimed' = claimed /\ busy' = busy /\ source' = source
      /\ task' = task /\ reply' = reply /\ faults' = faults
  BY DEF HandlerParses, StartAt, writer, codeVars
<1>3. CASE Starts(Trigger, "start")
  <2>1. /\ start' \in StartRecords /\ start'[Trigger].at = "start" /\ start'[Trigger].op = start[Trigger].op
        /\ \A t \in Starters \ {Trigger} : start'[t] = start[t]
    BY <1>1, <1>2, <1>3, StartsDoes, Constants DEF Shape, StartStages
  <2>2. CodeInv' /\ CodeSettles
    BY <1>1, <1>2, <1>3, <2>1, CodeSame DEF codeVars
  <2>3. WriterInv' /\ RecordStays
    BY <1>1, <1>2, <1>3, <2>1, WriterSame DEF writer
  <2>4. Shape'
    BY <1>1, <1>2, <1>3, <2>1 DEF Shape, WithOp, Presenting
  <2>5. Presented'
    BY <1>1, <1>2, <1>3, <2>1, <2>3 DEF Presented, Presenting, RecordStays
  <2>6. OneUser'
    BY <1>1, <1>2, <1>3, <2>1 DEF OneUser, Using, Alive
  <2>7. Agreed'
    BY <1>1, <1>2, <1>3, <2>1, <2>3 DEF Agreed, Says, StatusConsistent, RecordStays
  <2>8. Running'
    BY <1>1, <1>2, <1>3, <2>1, <2>2, <2>3 DEF Running, RecordStays, CodeSettles, Alive
  <2>9. Retained'
    BY <1>1, <1>2, <1>3, <2>1 DEF Retained, HasItsStatus, Alive
  <2> QED
    BY <2>2, <2>3, <2>4, <2>5, <2>6, <2>7, <2>8, <2>9 DEF HttpInv
<1>4. CASE Starts(Trigger, "refused")
  <2>1. /\ start' \in StartRecords /\ start'[Trigger].at = "refused" /\ start'[Trigger].op = start[Trigger].op
        /\ \A t \in Starters \ {Trigger} : start'[t] = start[t]
    BY <1>1, <1>2, <1>4, StartsDoes, Constants DEF Shape, StartStages
  <2>2. CodeInv' /\ CodeSettles
    BY <1>1, <1>2, <1>4, <2>1, CodeSame DEF codeVars
  <2>3. WriterInv' /\ RecordStays
    BY <1>1, <1>2, <1>4, <2>1, WriterSame DEF writer
  <2>4. Shape'
    BY <1>1, <1>2, <1>4, <2>1 DEF Shape, WithOp, Presenting
  <2>5. Presented'
    BY <1>1, <1>2, <1>4, <2>1, <2>3 DEF Presented, Presenting, RecordStays
  <2>6. OneUser'
    BY <1>1, <1>2, <1>4, <2>1 DEF OneUser, Using, Alive
  <2>7. Agreed'
    BY <1>1, <1>2, <1>4, <2>1, <2>3 DEF Agreed, Says, StatusConsistent, RecordStays
  <2>8. Running'
    BY <1>1, <1>2, <1>4, <2>1, <2>2, <2>3 DEF Running, RecordStays, CodeSettles, Alive
  <2>9. Retained'
    BY <1>1, <1>2, <1>4, <2>1 DEF Retained, HasItsStatus, Alive
  <2> QED
    BY <2>2, <2>3, <2>4, <2>5, <2>6, <2>7, <2>8, <2>9 DEF HttpInv
<1> QED
  BY <1>3, <1>4 DEF HandlerParses

LEMMA HandlerRefusedKeeps == HttpInv /\ HandlerRefused => HttpInv'
<1> SUFFICES ASSUME HttpInv, HandlerRefused PROVE HttpInv'
  OBVIOUS
<1>1. /\ CodeInv /\ Shape /\ WriterInv
      /\ Presented /\ OneUser /\ Agreed /\ Running /\ Retained
  BY DEF HttpInv
<1>2. /\ start[Trigger].at = "refused" /\ Starts(Trigger, "idle")
      /\ page' = page /\ holder' = holder /\ record' = record /\ claimed' = claimed
      /\ busy' = busy /\ source' = source /\ task' = task /\ reply' = reply
      /\ faults' = faults
  BY DEF HandlerRefused, StartAt, writer, codeVars
<1>3. /\ start' \in StartRecords /\ start'[Trigger].at = "idle" /\ start'[Trigger].op = start[Trigger].op
      /\ \A t \in Starters \ {Trigger} : start'[t] = start[t]
  BY <1>1, <1>2, StartsDoes, Constants DEF Shape, StartStages
<1>4. CodeInv' /\ code'.state \notin {"consumed", "running"}
  BY <1>1, <1>2, <1>3, MarkStartFailedKeeps DEF HandlerRefused
<1>5. WriterInv' /\ RecordStays
  BY <1>1, <1>2, <1>3, WriterSame DEF writer
<1>6. Shape'
  BY <1>1, <1>2, <1>3 DEF Shape, WithOp, Presenting
<1>7. Presented'
  BY <1>1, <1>2, <1>3, <1>5 DEF Presented, Presenting, RecordStays
<1>8. OneUser'
  BY <1>1, <1>2, <1>3 DEF OneUser, Using, Alive
<1>9. Agreed'
  BY <1>1, <1>2, <1>3, <1>5 DEF Agreed, Says, StatusConsistent, RecordStays
<1>10. Running'
  BY <1>1, <1>2, <1>3, <1>4, <1>5 DEF Running, RecordStays, CodeSettles, Alive
<1>11. Retained'
  BY <1>1, <1>2, <1>3 DEF Retained, HasItsStatus, Alive
<1> QED
  BY <1>4, <1>5, <1>6, <1>7, <1>8, <1>9, <1>10, <1>11 DEF HttpInv

LEMMA ReturnKeeps == ASSUME NEW s \in Starters PROVE HttpInv /\ Return(s) => HttpInv'
<1> SUFFICES ASSUME HttpInv, Return(s) PROVE HttpInv'
  OBVIOUS
<1>1. /\ CodeInv /\ Shape /\ WriterInv
      /\ Presented /\ OneUser /\ Agreed /\ Running /\ Retained
  BY DEF HttpInv
<1>2. /\ start[s].at \in {"started", "answer", "refused"} /\ (start[s].at = "refused" => s # Trigger)
      /\ Starts(s, "idle")
      /\ code' = code /\ rotation' = rotation /\ page' = page /\ holder' = holder
      /\ record' = record /\ claimed' = claimed /\ busy' = busy /\ source' = source
      /\ task' = task /\ faults' = faults
  BY DEF Return, StartAt, writer, codeVars
<1>3. /\ start' \in StartRecords /\ start'[s].at = "idle" /\ start'[s].op = start[s].op
      /\ \A t \in Starters \ {s} : start'[t] = start[t]
  BY <1>1, <1>2, StartsDoes, Constants DEF Shape, StartStages
<1>4. reply' \in Replies /\ (reply' = reply \/ reply' = NoReply)
  BY <1>1, <1>2 DEF Return, Shape, Replies, NoReply, SourceStates
<1>5. CodeInv' /\ CodeSettles
  BY <1>1, <1>2, <1>3, <1>4, CodeSame DEF codeVars
<1>6. WriterInv' /\ RecordStays
  BY <1>1, <1>2, <1>3, <1>4, WriterSame DEF writer
<1>7. Shape'
  BY <1>1, <1>2, <1>3, <1>4 DEF Shape, WithOp, Presenting
<1>8. Presented'
  BY <1>1, <1>2, <1>3, <1>4, <1>6 DEF Presented, Presenting, RecordStays, NoReply
<1>9. OneUser'
  BY <1>1, <1>2, <1>3, <1>4 DEF OneUser, Using, Alive
<1>10. Agreed'
  BY <1>1, <1>2, <1>3, <1>4, <1>6, Constants DEF Agreed, Says, StatusConsistent, RecordStays,
     NoReply, WriterInv
<1>11. Running'
  BY <1>1, <1>2, <1>3, <1>4, <1>5, <1>6, Constants DEF Running, RecordStays, CodeSettles, Alive
<1>12. Retained'
  BY <1>1, <1>2, <1>3, <1>4 DEF Retained, HasItsStatus, Alive
<1> QED
  BY <1>5, <1>6, <1>7, <1>8, <1>9, <1>10, <1>11, <1>12 DEF HttpInv

LEMMA TakeBusyKeeps == ASSUME NEW s \in Starters PROVE HttpInv /\ TakeBusy(s) => HttpInv'
<1> SUFFICES ASSUME HttpInv, TakeBusy(s) PROVE HttpInv'
  OBVIOUS
<1>1. /\ CodeInv /\ Shape /\ WriterInv
      /\ Presented /\ OneUser /\ Agreed /\ Running /\ Retained
  BY DEF HttpInv
<1>2. /\ start[s].at = IF s = Trigger THEN "start" ELSE "idle"
      /\ code' = code /\ rotation' = rotation /\ page' = page /\ holder' = holder
      /\ record' = record /\ claimed' = claimed /\ source' = source /\ task' = task
      /\ reply' = reply /\ faults' = faults
  BY DEF TakeBusy, StartAt, writer, codeVars
<1>3. CASE /\ ~busy /\ busy' = TRUE
           /\ \E op \in Ops : start' = [start EXCEPT ![s] = [at |-> "claim", op |-> op]]
  <2>1. /\ start' \in StartRecords /\ start'[s].at = "claim" /\ start'[s].op \in Ops
        /\ \A t \in Starters \ {s} : start'[t] = start[t]
    BY <1>1, <1>2, <1>3 DEF Shape, StartRecords, StartStages
  <2>2. CodeInv' /\ CodeSettles
    BY <1>1, <1>2, <1>3, <2>1, CodeSame DEF codeVars
  <2>3. WriterInv' /\ RecordStays
    BY <1>1, <1>2, <1>3, <2>1, WriterSame DEF writer
  <2>4. Shape'
    BY <1>1, <1>2, <1>3, <2>1 DEF Shape, WithOp, Presenting
  <2>5. Presented'
    BY <1>1, <1>2, <1>3, <2>1, <2>3 DEF Presented, Presenting, RecordStays
  <2>6. OneUser'
    BY <1>1, <1>2, <1>3, <2>1 DEF OneUser, Using, Alive
  <2>7. Agreed'
    BY <1>1, <1>2, <1>3, <2>1, <2>3 DEF Agreed, Says, StatusConsistent, RecordStays
  <2>8. Running'
    BY <1>1, <1>2, <1>3, <2>1, <2>2, <2>3, Constants DEF Running, RecordStays, CodeSettles, Alive
  <2>9. Retained'
    BY <1>1, <1>2, <1>3, <2>1 DEF Retained, HasItsStatus, Alive
  <2> QED
    BY <2>2, <2>3, <2>4, <2>5, <2>6, <2>7, <2>8, <2>9 DEF HttpInv
<1>4. CASE Starts(s, "refused") /\ busy' = busy
  <2>1. /\ start' \in StartRecords /\ start'[s].at = "refused" /\ start'[s].op = start[s].op
        /\ \A t \in Starters \ {s} : start'[t] = start[t]
    BY <1>1, <1>2, <1>4, StartsDoes, Constants DEF Shape, StartStages
  <2>2. CodeInv' /\ CodeSettles
    BY <1>1, <1>2, <1>4, <2>1, CodeSame DEF codeVars
  <2>3. WriterInv' /\ RecordStays
    BY <1>1, <1>2, <1>4, <2>1, WriterSame DEF writer
  <2>4. Shape'
    BY <1>1, <1>2, <1>4, <2>1 DEF Shape, WithOp, Presenting
  <2>5. Presented'
    BY <1>1, <1>2, <1>4, <2>1, <2>3 DEF Presented, Presenting, RecordStays
  <2>6. OneUser'
    BY <1>1, <1>2, <1>4, <2>1 DEF OneUser, Using, Alive
  <2>7. Agreed'
    BY <1>1, <1>2, <1>4, <2>1, <2>3 DEF Agreed, Says, StatusConsistent, RecordStays
  <2>8. Running'
    BY <1>1, <1>2, <1>4, <2>1, <2>2, <2>3, Constants DEF Running, RecordStays, CodeSettles, Alive
  <2>9. Retained'
    BY <1>1, <1>2, <1>4, <2>1 DEF Retained, HasItsStatus, Alive
  <2> QED
    BY <2>2, <2>3, <2>4, <2>5, <2>6, <2>7, <2>8, <2>9 DEF HttpInv
<1> QED
  BY <1>3, <1>4 DEF TakeBusy, NotBusy, writer

LEMMA ClaimWriterKeeps == ASSUME NEW s \in Starters PROVE HttpInv /\ ClaimWriter(s) => HttpInv'
<1> SUFFICES ASSUME HttpInv, ClaimWriter(s) PROVE HttpInv'
  OBVIOUS
<1>1. /\ CodeInv /\ Shape /\ WriterInv
      /\ Presented /\ OneUser /\ Agreed /\ Running /\ Retained
  BY DEF HttpInv
<1>2. /\ start[s].at = "claim" /\ start[s].op \in Ops
      /\ code' = code /\ rotation' = rotation /\ page' = page /\ busy' = busy
      /\ source' = source /\ task' = task /\ reply' = reply /\ faults' = faults
  BY DEF ClaimWriter, StartAt, codeVars, HttpInv, Shape, WithOp, Presenting
<1>3. CASE Writer!Claim(Http, start[s].op, "idle") /\ Starts(s, "publish")
  <2>1. /\ start' \in StartRecords /\ start'[s].at = "publish" /\ start'[s].op = start[s].op
        /\ \A t \in Starters \ {s} : start'[t] = start[t]
    BY <1>1, <1>2, <1>3, StartsDoes, Constants DEF Shape, StartStages
  <2>2. WriterInv' /\ RecordStays /\ claimed' = claimed \cup {start[s].op}
    BY <1>1, <1>2, <1>3, ClaimDoes
  <2>3. CodeInv' /\ CodeSettles
    BY <1>1, <1>2, <1>3, <2>1, <2>2, CodeSame DEF codeVars
  <2>4. WriterInv' /\ RecordStays
    BY <1>1, <1>2, <1>3, <2>1, <2>2
  <2>5. Shape'
    BY <1>1, <1>2, <1>3, <2>1, <2>2 DEF Shape, WithOp, Presenting
  <2>6. Presented'
    BY <1>1, <1>2, <1>3, <2>1, <2>2, <2>4 DEF Presented, Presenting, RecordStays
  <2>7. OneUser'
    BY <1>1, <1>2, <1>3, <2>1, <2>2 DEF OneUser, Using, Alive
  <2>8. Agreed'
    <3>1. Says(source.op, source.state)' /\ Says(reply.op, reply.source)'
      BY <1>1, <1>2, <1>3, <2>1, <2>2, <2>4 DEF Agreed, Says, RecordStays, Presented
    <3>2. \A o \in Ops :
            /\ task'[o] = "apply" => Says(o, "applying")'
            /\ task'[o] = "publish" => Says(o, "committed")' /\ record'.phase = "committed"
            /\ task'[o] = "report" => Says(o, "failed")'
      BY <1>1, <1>2, <1>3, <2>1, <2>2, <2>4 DEF Agreed, Says, RecordStays, Presented
    <3>3. \A t \in Starters : start'[t].at = "report" => Says(start[t].op, "failed")'
      BY <1>1, <1>2, <1>3, <2>1, <2>2, <2>4 DEF Agreed, Says, RecordStays, Presented, Presenting
    <3>4. StatusConsistent'
      BY <1>1, <1>2, <1>3, <2>1, <2>2, <2>4 DEF Agreed, StatusConsistent
    <3> QED
      BY <3>1, <3>2, <3>3, <3>4 DEF Agreed
  <2>9. Running'
    BY <1>1, <1>2, <1>3, <2>1, <2>2, <2>3, <2>4, Constants DEF Running, RecordStays, CodeSettles,
       Alive
  <2>10. Retained'
    BY <1>1, <1>2, <1>3, <2>1, <2>2 DEF Retained, HasItsStatus, Alive
  <2> QED
    BY <2>3, <2>4, <2>5, <2>6, <2>7, <2>8, <2>9, <2>10 DEF HttpInv
<1>4. CASE Starts(s, "giveup") /\ UNCHANGED writer
  <2>1. /\ start' \in StartRecords /\ start'[s].at = "giveup" /\ start'[s].op = start[s].op
        /\ \A t \in Starters \ {s} : start'[t] = start[t]
    BY <1>1, <1>2, <1>4, StartsDoes, Constants DEF Shape, StartStages
  <2>2. /\ holder' = holder /\ record' = record /\ claimed' = claimed
    BY <1>1, <1>2, <1>4 DEF writer
  <2>3. CodeInv' /\ CodeSettles
    BY <1>1, <1>2, <1>4, <2>1, <2>2, CodeSame DEF codeVars
  <2>4. WriterInv' /\ RecordStays
    BY <1>1, <1>2, <1>4, <2>1, <2>2, WriterSame DEF writer
  <2>5. Shape'
    BY <1>1, <1>2, <1>4, <2>1, <2>2 DEF Shape, WithOp, Presenting
  <2>6. Presented'
    BY <1>1, <1>2, <1>4, <2>1, <2>2, <2>4 DEF Presented, Presenting, RecordStays
  <2>7. OneUser'
    BY <1>1, <1>2, <1>4, <2>1, <2>2 DEF OneUser, Using, Alive
  <2>8. Agreed'
    BY <1>1, <1>2, <1>4, <2>1, <2>2, <2>4 DEF Agreed, Says, StatusConsistent, RecordStays
  <2>9. Running'
    BY <1>1, <1>2, <1>4, <2>1, <2>2, <2>3, <2>4, Constants DEF Running, RecordStays, CodeSettles,
       Alive
  <2>10. Retained'
    BY <1>1, <1>2, <1>4, <2>1, <2>2 DEF Retained, HasItsStatus, Alive
  <2> QED
    BY <2>3, <2>4, <2>5, <2>6, <2>7, <2>8, <2>9, <2>10 DEF HttpInv
<1> QED
  BY <1>3, <1>4 DEF ClaimWriter

LEMMA GiveUpKeeps == ASSUME NEW s \in Starters PROVE HttpInv /\ GiveUp(s) => HttpInv'
<1> SUFFICES ASSUME HttpInv, GiveUp(s) PROVE HttpInv'
  OBVIOUS
<1>1. /\ CodeInv /\ Shape /\ WriterInv
      /\ Presented /\ OneUser /\ Agreed /\ Running /\ Retained
  BY DEF HttpInv
<1>2. /\ start[s].at = "giveup" /\ start[s].op \in Ops /\ Starts(s, "refused")
      /\ busy' = FALSE
      /\ code' = code /\ rotation' = rotation /\ page' = page /\ holder' = holder
      /\ record' = record /\ claimed' = claimed /\ source' = source /\ task' = task
      /\ reply' = reply /\ faults' = faults
  BY DEF GiveUp, StartAt, writer, codeVars, HttpInv, Shape, WithOp, Presenting
<1>3. /\ start' \in StartRecords /\ start'[s].at = "refused" /\ start'[s].op = start[s].op
      /\ \A t \in Starters \ {s} : start'[t] = start[t]
  BY <1>1, <1>2, StartsDoes, Constants DEF Shape, StartStages
<1>4. CodeInv' /\ CodeSettles
  BY <1>1, <1>2, <1>3, CodeSame DEF codeVars
<1>5. WriterInv' /\ RecordStays
  BY <1>1, <1>2, <1>3, WriterSame DEF writer
<1>6. Shape'
  BY <1>1, <1>2, <1>3 DEF Shape, WithOp, Presenting
<1>7. Presented'
  BY <1>1, <1>2, <1>3, <1>5 DEF Presented, Presenting, RecordStays
<1>8. OneUser'
  BY <1>1, <1>2, <1>3 DEF OneUser, Using, Alive
<1>9. Agreed'
  BY <1>1, <1>2, <1>3, <1>5 DEF Agreed, Says, StatusConsistent, RecordStays
<1>10. Running'
  BY <1>1, <1>2, <1>3, <1>4, <1>5, Constants DEF Running, RecordStays, CodeSettles, Alive
<1>11. Retained'
  BY <1>1, <1>2, <1>3 DEF Retained, HasItsStatus, Alive
<1> QED
  BY <1>4, <1>5, <1>6, <1>7, <1>8, <1>9, <1>10, <1>11 DEF HttpInv

LEMMA PublishWaitingKeeps == ASSUME NEW s \in Starters PROVE HttpInv /\ PublishWaiting(s) => HttpInv'
<1> SUFFICES ASSUME HttpInv, PublishWaiting(s) PROVE HttpInv'
  OBVIOUS
<1>1. /\ CodeInv /\ Shape /\ WriterInv
      /\ Presented /\ OneUser /\ Agreed /\ Running /\ Retained
  BY DEF HttpInv
<1>2. /\ start[s].at = "publish" /\ start[s].op \in Ops /\ Starts(s, "create")
      /\ Publish("waiting", start[s].op)
      /\ code' = code /\ rotation' = rotation /\ page' = page /\ holder' = holder
      /\ record' = record /\ claimed' = claimed /\ busy' = busy /\ task' = task
      /\ reply' = reply /\ faults' = faults
  BY DEF PublishWaiting, StartAt, writer, codeVars, HttpInv, Shape, WithOp, Presenting
<1>3. /\ start' \in StartRecords /\ start'[s].at = "create" /\ start'[s].op = start[s].op
      /\ \A t \in Starters \ {s} : start'[t] = start[t]
  BY <1>1, <1>2, StartsDoes, Constants DEF Shape, StartStages
<1>4. source' \in Sources /\ source'.state = "waiting" /\ source'.op = start[s].op
  BY <1>1, <1>2, PublishDoes DEF SourceStates
<1>5. CodeInv' /\ CodeSettles
  BY <1>1, <1>2, <1>3, <1>4, CodeSame DEF codeVars
<1>6. WriterInv' /\ RecordStays
  BY <1>1, <1>2, <1>3, <1>4, WriterSame DEF writer
<1>7. Shape'
  BY <1>1, <1>2, <1>3, <1>4 DEF Shape, WithOp, Presenting
<1>8. Presented'
  BY <1>1, <1>2, <1>3, <1>4, <1>6 DEF Presented, Presenting, RecordStays
<1>9. OneUser'
  BY <1>1, <1>2, <1>3, <1>4 DEF OneUser, Using, Alive
<1>10. Agreed'
  BY <1>1, <1>2, <1>3, <1>4, <1>6 DEF Agreed, Says, StatusConsistent, RecordStays
<1>11. Running'
  BY <1>1, <1>2, <1>3, <1>4, <1>5, <1>6, Constants DEF Running, RecordStays, CodeSettles, Alive
<1>12. Retained'
  BY <1>1, <1>2, <1>3, <1>4 DEF Retained, HasItsStatus, Alive, OneUser, Using
<1> QED
  BY <1>5, <1>6, <1>7, <1>8, <1>9, <1>10, <1>11, <1>12 DEF HttpInv

LEMMA UnmadeKeeps == ASSUME NEW s \in Starters PROVE HttpInv /\ Unmade(s) => HttpInv'
<1> SUFFICES ASSUME HttpInv, Unmade(s) PROVE HttpInv'
  OBVIOUS
<1>1. /\ CodeInv /\ Shape /\ WriterInv
      /\ Presented /\ OneUser /\ Agreed /\ Running /\ Retained
  BY DEF HttpInv
<1>2. /\ start[s].at = "unmade" /\ start[s].op \in Ops /\ Starts(s, "abort")
      /\ busy' = FALSE
      /\ code' = code /\ rotation' = rotation /\ page' = page /\ holder' = holder
      /\ record' = record /\ claimed' = claimed /\ source' = source /\ task' = task
      /\ reply' = reply /\ faults' = faults
  BY DEF Unmade, StartAt, writer, codeVars, HttpInv, Shape, WithOp, Presenting
<1>3. /\ start' \in StartRecords /\ start'[s].at = "abort" /\ start'[s].op = start[s].op
      /\ \A t \in Starters \ {s} : start'[t] = start[t]
  BY <1>1, <1>2, StartsDoes, Constants DEF Shape, StartStages
<1>4. CodeInv' /\ CodeSettles
  BY <1>1, <1>2, <1>3, CodeSame DEF codeVars
<1>5. WriterInv' /\ RecordStays
  BY <1>1, <1>2, <1>3, WriterSame DEF writer
<1>6. Shape'
  BY <1>1, <1>2, <1>3 DEF Shape, WithOp, Presenting
<1>7. Presented'
  BY <1>1, <1>2, <1>3, <1>5 DEF Presented, Presenting, RecordStays
<1>8. OneUser'
  BY <1>1, <1>2, <1>3 DEF OneUser, Using, Alive
<1>9. Agreed'
  BY <1>1, <1>2, <1>3, <1>5 DEF Agreed, Says, StatusConsistent, RecordStays
<1>10. Running'
  BY <1>1, <1>2, <1>3, <1>4, <1>5, Constants DEF Running, RecordStays, CodeSettles, Alive
<1>11. Retained'
  BY <1>1, <1>2, <1>3 DEF Retained, HasItsStatus, Alive
<1> QED
  BY <1>4, <1>5, <1>6, <1>7, <1>8, <1>9, <1>10, <1>11 DEF HttpInv

LEMMA UnmadeReportKeeps == ASSUME NEW s \in Starters PROVE HttpInv /\ UnmadeReport(s) => HttpInv'
<1> SUFFICES ASSUME HttpInv, UnmadeReport(s) PROVE HttpInv'
  OBVIOUS
<1>1. /\ CodeInv /\ Shape /\ WriterInv
      /\ Presented /\ OneUser /\ Agreed /\ Running /\ Retained
  BY DEF HttpInv
<1>2. /\ start[s].at = "report" /\ start[s].op \in Ops /\ Starts(s, "refused")
      /\ Publish("failed", start[s].op)
      /\ code' = code /\ rotation' = rotation /\ page' = page /\ holder' = holder
      /\ record' = record /\ claimed' = claimed /\ busy' = busy /\ task' = task
      /\ reply' = reply /\ faults' = faults
  BY DEF UnmadeReport, StartAt, writer, codeVars, HttpInv, Shape, WithOp, Presenting
<1>3. /\ start' \in StartRecords /\ start'[s].at = "refused" /\ start'[s].op = start[s].op
      /\ \A t \in Starters \ {s} : start'[t] = start[t]
  BY <1>1, <1>2, StartsDoes, Constants DEF Shape, StartStages
<1>4. source' \in Sources /\ source'.state = "failed" /\ source'.op = start[s].op
  BY <1>1, <1>2, PublishDoes DEF SourceStates
<1>5. CodeInv' /\ CodeSettles
  BY <1>1, <1>2, <1>3, <1>4, CodeSame DEF codeVars
<1>6. WriterInv' /\ RecordStays
  BY <1>1, <1>2, <1>3, <1>4, WriterSame DEF writer
<1>7. Shape'
  BY <1>1, <1>2, <1>3, <1>4 DEF Shape, WithOp, Presenting
<1>8. Presented'
  BY <1>1, <1>2, <1>3, <1>4, <1>6 DEF Presented, Presenting, RecordStays
<1>9. OneUser'
  BY <1>1, <1>2, <1>3, <1>4 DEF OneUser, Using, Alive
<1>10. Agreed'
  BY <1>1, <1>2, <1>3, <1>4, <1>6 DEF Agreed, Says, StatusConsistent, RecordStays
<1>11. Running'
  BY <1>1, <1>2, <1>3, <1>4, <1>5, <1>6, Constants DEF Running, RecordStays, CodeSettles, Alive
<1>12. Retained'
  BY <1>1, <1>2, <1>3, <1>4 DEF Retained, HasItsStatus, Alive
<1> QED
  BY <1>5, <1>6, <1>7, <1>8, <1>9, <1>10, <1>11, <1>12 DEF HttpInv

LEMMA UnmadeAbortKeeps == ASSUME NEW s \in Starters PROVE HttpInv /\ UnmadeAbort(s) => HttpInv'
<1> SUFFICES ASSUME HttpInv, UnmadeAbort(s) PROVE HttpInv'
  OBVIOUS
<1>1. /\ CodeInv /\ Shape /\ WriterInv
      /\ Presented /\ OneUser /\ Agreed /\ Running /\ Retained
  BY DEF HttpInv
<1>2. /\ start[s].at = "abort" /\ start[s].op \in Ops /\ Starts(s, "report")
      /\ AbortWriter(start[s].op)
      /\ code' = code /\ rotation' = rotation /\ page' = page /\ busy' = busy
      /\ source' = source /\ task' = task /\ reply' = reply /\ faults' = faults
  BY DEF UnmadeAbort, StartAt, codeVars, HttpInv, Shape, WithOp, Presenting
<1>3. /\ start' \in StartRecords /\ start'[s].at = "report" /\ start'[s].op = start[s].op
      /\ \A t \in Starters \ {s} : start'[t] = start[t]
  BY <1>1, <1>2, StartsDoes, Constants DEF Shape, StartStages
<1>4. /\ WriterInv' /\ RecordStays /\ claimed' = claimed
      /\ record'.owner = Http /\ record'.op = start[s].op => record'.phase = "failed"
  BY <1>1, <1>2, AbortDoes
<1>5. CodeInv' /\ CodeSettles
  BY <1>1, <1>2, <1>3, <1>4, CodeSame DEF codeVars
<1>6. WriterInv' /\ RecordStays
  BY <1>1, <1>2, <1>3, <1>4
<1>7. Shape'
  BY <1>1, <1>2, <1>3, <1>4 DEF Shape, WithOp, Presenting
<1>8. Presented'
  BY <1>1, <1>2, <1>3, <1>4, <1>6 DEF Presented, Presenting, RecordStays
<1>9. OneUser'
  BY <1>1, <1>2, <1>3, <1>4 DEF OneUser, Using, Alive
<1>10. Agreed'
  <2>1. Says(source.op, source.state)' /\ Says(reply.op, reply.source)'
    BY <1>1, <1>2, <1>3, <1>4, <1>6 DEF Agreed, Says, RecordStays, Presented
  <2>2. \A o \in Ops :
          /\ task'[o] = "apply" => Says(o, "applying")'
          /\ task'[o] = "publish" => Says(o, "committed")' /\ record'.phase = "committed"
          /\ task'[o] = "report" => Says(o, "failed")'
    BY <1>1, <1>2, <1>3, <1>4, <1>6 DEF Agreed, Says, RecordStays, Presented
  <2>3. \A t \in Starters : start'[t].at = "report" => Says(start[t].op, "failed")'
    BY <1>1, <1>2, <1>3, <1>4, <1>6 DEF Agreed, Says, RecordStays, Presented, Presenting
  <2>4. StatusConsistent'
    BY <1>1, <1>2, <1>3, <1>4, <1>6 DEF Agreed, StatusConsistent
  <2> QED
    BY <2>1, <2>2, <2>3, <2>4 DEF Agreed
<1>11. Running'
  BY <1>1, <1>2, <1>3, <1>4, <1>5, <1>6, Constants DEF Running, RecordStays, CodeSettles, Alive
<1>12. Retained'
  BY <1>1, <1>2, <1>3, <1>4 DEF Retained, HasItsStatus, Alive
<1> QED
  BY <1>5, <1>6, <1>7, <1>8, <1>9, <1>10, <1>11, <1>12 DEF HttpInv

LEMMA CreateTaskKeeps == ASSUME NEW s \in Starters PROVE HttpInv /\ CreateTask(s) => HttpInv'
<1> SUFFICES ASSUME HttpInv, CreateTask(s) PROVE HttpInv'
  OBVIOUS
<1>1. /\ CodeInv /\ Shape /\ WriterInv
      /\ Presented /\ OneUser /\ Agreed /\ Running /\ Retained
  BY DEF HttpInv
<1>2. /\ start[s].at = "create" /\ start[s].op \in Ops
      /\ code' = code /\ rotation' = rotation /\ page' = page /\ holder' = holder
      /\ record' = record /\ claimed' = claimed /\ busy' = busy /\ source' = source
      /\ reply' = reply
  BY DEF CreateTask, StartAt, writer, codeVars, HttpInv, Shape, WithOp, Presenting
<1>3. CASE Tasks(start[s].op, "wait") /\ Starts(s, "started") /\ UNCHANGED faults
  <2>1. /\ start' \in StartRecords /\ start'[s].at = "started" /\ start'[s].op = start[s].op
        /\ \A t \in Starters \ {s} : start'[t] = start[t]
    BY <1>1, <1>2, <1>3, StartsDoes, Constants DEF Shape, StartStages
  <2>2. /\ task' \in Tables /\ task'[start[s].op] = "wait"
        /\ \A other \in Ops \ {start[s].op} : task'[other] = task[other]
    BY <1>1, <1>2, <1>3, TasksDoes, FailureStepsDo DEF Shape, TaskStages
  <2>3. CodeInv' /\ CodeSettles
    BY <1>1, <1>2, <1>3, <2>1, <2>2, CodeSame DEF codeVars
  <2>4. WriterInv' /\ RecordStays
    BY <1>1, <1>2, <1>3, <2>1, <2>2, WriterSame DEF writer
  <2>5. Shape'
    BY <1>1, <1>2, <1>3, <2>1, <2>2 DEF Shape, WithOp, Presenting
  <2>6. Presented'
    BY <1>1, <1>2, <1>3, <2>1, <2>2, <2>4 DEF Presented, Presenting, RecordStays
  <2>7. OneUser'
    BY <1>1, <1>2, <1>3, <2>1, <2>2 DEF OneUser, Using, Alive
  <2>8. Agreed'
    BY <1>1, <1>2, <1>3, <2>1, <2>2, <2>4 DEF Agreed, Says, StatusConsistent, RecordStays
  <2>9. Running'
    BY <1>1, <1>2, <1>3, <2>1, <2>2, <2>3, <2>4, Constants DEF Running, RecordStays, CodeSettles,
       Alive
  <2>10. Retained'
    BY <1>1, <1>2, <1>3, <2>1, <2>2 DEF Retained, HasItsStatus, Alive
  <2> QED
    BY <2>3, <2>4, <2>5, <2>6, <2>7, <2>8, <2>9, <2>10 DEF HttpInv
<1>4. CASE /\ faults < MaxFaults /\ faults' = faults + 1
           /\ Starts(s, "unmade") /\ UNCHANGED task
  <2>1. /\ start' \in StartRecords /\ start'[s].at = "unmade" /\ start'[s].op = start[s].op
        /\ \A t \in Starters \ {s} : start'[t] = start[t]
    BY <1>1, <1>2, <1>4, StartsDoes, Constants DEF Shape, StartStages
  <2>2. faults' \in 0..MaxFaults /\ faults' # 0
    BY <1>1, <1>2, <1>4, Constants DEF Shape
  <2>3. CodeInv' /\ CodeSettles
    BY <1>1, <1>2, <1>4, <2>1, <2>2, CodeSame DEF codeVars
  <2>4. WriterInv' /\ RecordStays
    BY <1>1, <1>2, <1>4, <2>1, <2>2, WriterSame DEF writer
  <2>5. Shape'
    BY <1>1, <1>2, <1>4, <2>1, <2>2 DEF Shape, WithOp, Presenting
  <2>6. Presented'
    BY <1>1, <1>2, <1>4, <2>1, <2>2, <2>4 DEF Presented, Presenting, RecordStays
  <2>7. OneUser'
    BY <1>1, <1>2, <1>4, <2>1, <2>2 DEF OneUser, Using, Alive
  <2>8. Agreed'
    BY <1>1, <1>2, <1>4, <2>1, <2>2, <2>4 DEF Agreed, Says, StatusConsistent, RecordStays
  <2>9. Running'
    BY <1>1, <1>2, <1>4, <2>1, <2>2, <2>3, <2>4, Constants DEF Running, RecordStays, CodeSettles,
       Alive
  <2>10. Retained'
    BY <1>1, <1>2, <1>4, <2>1, <2>2 DEF Retained, HasItsStatus, Alive
  <2> QED
    BY <2>3, <2>4, <2>5, <2>6, <2>7, <2>8, <2>9, <2>10 DEF HttpInv
<1> QED
  BY <1>3, <1>4 DEF CreateTask

LEMMA TaskFetchesKeeps == ASSUME NEW op \in Ops PROVE HttpInv /\ TaskFetches(op) => HttpInv'
<1> SUFFICES ASSUME HttpInv, TaskFetches(op) PROVE HttpInv'
  OBVIOUS
<1>1. /\ CodeInv /\ Shape /\ WriterInv
      /\ Presented /\ OneUser /\ Agreed /\ Running /\ Retained
  BY DEF HttpInv
<1>2. /\ task[op] = "wait" /\ Tasks(op, "fetch") /\ Publish("fetching", op)
      /\ code' = code /\ rotation' = rotation /\ page' = page /\ holder' = holder
      /\ record' = record /\ claimed' = claimed /\ busy' = busy /\ start' = start
      /\ reply' = reply /\ faults' = faults
  BY DEF TaskFetches, TaskAt, writer, codeVars
<1>3. /\ task' \in Tables /\ task'[op] = "fetch"
      /\ \A other \in Ops \ {op} : task'[other] = task[other]
  BY <1>1, <1>2, TasksDoes, FailureStepsDo DEF Shape, TaskStages
<1>4. source' \in Sources /\ source'.state = "fetching" /\ source'.op = op
  BY <1>1, <1>2, PublishDoes DEF SourceStates
<1>5. CodeInv' /\ CodeSettles
  BY <1>1, <1>2, <1>3, <1>4, CodeSame DEF codeVars
<1>6. WriterInv' /\ RecordStays
  BY <1>1, <1>2, <1>3, <1>4, WriterSame DEF writer
<1>7. Shape'
  BY <1>1, <1>2, <1>3, <1>4 DEF Shape, WithOp, Presenting
<1>8. Presented'
  BY <1>1, <1>2, <1>3, <1>4, <1>6 DEF Presented, Presenting, RecordStays
<1>9. OneUser'
  BY <1>1, <1>2, <1>3, <1>4 DEF OneUser, Using, Alive
<1>10. Agreed'
  BY <1>1, <1>2, <1>3, <1>4, <1>6 DEF Agreed, Says, StatusConsistent, RecordStays
<1>11. Running'
  BY <1>1, <1>2, <1>3, <1>4, <1>5, <1>6 DEF Running, RecordStays, CodeSettles, Alive
<1>12. Retained'
  BY <1>1, <1>2, <1>3, <1>4 DEF Retained, HasItsStatus, Alive
<1> QED
  BY <1>5, <1>6, <1>7, <1>8, <1>9, <1>10, <1>11, <1>12 DEF HttpInv

LEMMA TaskPreparesKeeps == ASSUME NEW op \in Ops PROVE HttpInv /\ TaskPrepares(op) => HttpInv'
<1> SUFFICES ASSUME HttpInv, TaskPrepares(op) PROVE HttpInv'
  OBVIOUS
<1>1. /\ CodeInv /\ Shape /\ WriterInv
      /\ Presented /\ OneUser /\ Agreed /\ Running /\ Retained
  BY DEF HttpInv
<1>2. /\ task[op] = "fetch"
      /\ code' = code /\ rotation' = rotation /\ page' = page /\ busy' = busy
      /\ source' = source /\ start' = start /\ reply' = reply /\ faults' = faults
  BY DEF TaskPrepares, TaskAt, codeVars
<1>3. CASE Writer!Report(Http, op, "prepared") /\ Tasks(op, "apply")
  <2>1. /\ task' \in Tables /\ task'[op] = "apply"
        /\ \A other \in Ops \ {op} : task'[other] = task[other]
    BY <1>1, <1>2, <1>3, TasksDoes, FailureStepsDo DEF Shape, TaskStages
  <2>2. /\ WriterInv' /\ RecordStays /\ claimed' = claimed
        /\ record'.owner = Http /\ record'.op = op /\ record'.phase = "prepared"
    BY <1>1, <1>2, <1>3, ReportDoes
  <2>3. CodeInv' /\ CodeSettles
    BY <1>1, <1>2, <1>3, <2>1, <2>2, CodeSame DEF codeVars
  <2>4. WriterInv' /\ RecordStays
    BY <1>1, <1>2, <1>3, <2>1, <2>2
  <2>5. Shape'
    BY <1>1, <1>2, <1>3, <2>1, <2>2 DEF Shape, WithOp, Presenting
  <2>6. Presented'
    BY <1>1, <1>2, <1>3, <2>1, <2>2, <2>4 DEF Presented, Presenting, RecordStays
  <2>7. OneUser'
    BY <1>1, <1>2, <1>3, <2>1, <2>2 DEF OneUser, Using, Alive
  <2>8. Agreed'
    <3>1. Says(source.op, source.state)' /\ Says(reply.op, reply.source)'
      BY <1>1, <1>2, <1>3, <2>1, <2>2, <2>4 DEF Agreed, Says, RecordStays, Presented
    <3>2. \A o \in Ops :
            /\ task'[o] = "apply" => Says(o, "applying")'
            /\ task'[o] = "publish" => Says(o, "committed")' /\ record'.phase = "committed"
            /\ task'[o] = "report" => Says(o, "failed")'
      BY <1>1, <1>2, <1>3, <2>1, <2>2, <2>4 DEF Agreed, Says, RecordStays, Presented
    <3>3. \A t \in Starters : start'[t].at = "report" => Says(start[t].op, "failed")'
      BY <1>1, <1>2, <1>3, <2>1, <2>2, <2>4 DEF Agreed, Says, RecordStays, Presented, Presenting
    <3>4. StatusConsistent'
      BY <1>1, <1>2, <1>3, <2>1, <2>2, <2>4 DEF Agreed, StatusConsistent
    <3> QED
      BY <3>1, <3>2, <3>3, <3>4 DEF Agreed
  <2>9. Running'
    BY <1>1, <1>2, <1>3, <2>1, <2>2, <2>3, <2>4 DEF Running, RecordStays, CodeSettles, Alive
  <2>10. Retained'
    BY <1>1, <1>2, <1>3, <2>1, <2>2 DEF Retained, HasItsStatus, Alive
  <2> QED
    BY <2>3, <2>4, <2>5, <2>6, <2>7, <2>8, <2>9, <2>10 DEF HttpInv
<1>4. CASE Writer!Release(Http, op, "refused") /\ Tasks(op, FailureSteps[1])
  <2>1. /\ task' \in Tables /\ task'[op] = "abort"
        /\ \A other \in Ops \ {op} : task'[other] = task[other]
    BY <1>1, <1>2, <1>4, TasksDoes, FailureStepsDo DEF Shape, TaskStages
  <2>2. /\ WriterInv' /\ RecordStays /\ claimed' = claimed
        /\ record'.owner = Http /\ record'.op = op /\ record'.phase = "failed"
    BY <1>1, <1>2, <1>4, ReleaseDoes DEF Writer!Results
  <2>3. CodeInv' /\ CodeSettles
    BY <1>1, <1>2, <1>4, <2>1, <2>2, CodeSame DEF codeVars
  <2>4. WriterInv' /\ RecordStays
    BY <1>1, <1>2, <1>4, <2>1, <2>2
  <2>5. Shape'
    BY <1>1, <1>2, <1>4, <2>1, <2>2 DEF Shape, WithOp, Presenting
  <2>6. Presented'
    BY <1>1, <1>2, <1>4, <2>1, <2>2, <2>4 DEF Presented, Presenting, RecordStays
  <2>7. OneUser'
    BY <1>1, <1>2, <1>4, <2>1, <2>2 DEF OneUser, Using, Alive
  <2>8. Agreed'
    <3>1. Says(source.op, source.state)' /\ Says(reply.op, reply.source)'
      BY <1>1, <1>2, <1>4, <2>1, <2>2, <2>4 DEF Agreed, Says, RecordStays, Presented
    <3>2. \A o \in Ops :
            /\ task'[o] = "apply" => Says(o, "applying")'
            /\ task'[o] = "publish" => Says(o, "committed")' /\ record'.phase = "committed"
            /\ task'[o] = "report" => Says(o, "failed")'
      BY <1>1, <1>2, <1>4, <2>1, <2>2, <2>4 DEF Agreed, Says, RecordStays, Presented
    <3>3. \A t \in Starters : start'[t].at = "report" => Says(start[t].op, "failed")'
      BY <1>1, <1>2, <1>4, <2>1, <2>2, <2>4 DEF Agreed, Says, RecordStays, Presented, Presenting
    <3>4. StatusConsistent'
      BY <1>1, <1>2, <1>4, <2>1, <2>2, <2>4 DEF Agreed, StatusConsistent
    <3> QED
      BY <3>1, <3>2, <3>3, <3>4 DEF Agreed
  <2>9. Running'
    BY <1>1, <1>2, <1>4, <2>1, <2>2, <2>3, <2>4 DEF Running, RecordStays, CodeSettles, Alive
  <2>10. Retained'
    BY <1>1, <1>2, <1>4, <2>1, <2>2 DEF Retained, HasItsStatus, Alive
  <2> QED
    BY <2>3, <2>4, <2>5, <2>6, <2>7, <2>8, <2>9, <2>10 DEF HttpInv
<1> QED
  BY <1>3, <1>4 DEF TaskPrepares

LEMMA TaskAppliesKeeps == ASSUME NEW op \in Ops PROVE HttpInv /\ TaskApplies(op) => HttpInv'
<1> SUFFICES ASSUME HttpInv, TaskApplies(op) PROVE HttpInv'
  OBVIOUS
<1>1. /\ CodeInv /\ Shape /\ WriterInv
      /\ Presented /\ OneUser /\ Agreed /\ Running /\ Retained
  BY DEF HttpInv
<1>2. /\ task[op] = "apply" /\ Tasks(op, "stream") /\ Publish("applying", op)
      /\ code' = code /\ rotation' = rotation /\ page' = page /\ holder' = holder
      /\ record' = record /\ claimed' = claimed /\ busy' = busy /\ start' = start
      /\ reply' = reply /\ faults' = faults
  BY DEF TaskApplies, TaskAt, writer, codeVars
<1>3. /\ task' \in Tables /\ task'[op] = "stream"
      /\ \A other \in Ops \ {op} : task'[other] = task[other]
  BY <1>1, <1>2, TasksDoes, FailureStepsDo DEF Shape, TaskStages
<1>4. source' \in Sources /\ source'.state = "applying" /\ source'.op = op
  BY <1>1, <1>2, PublishDoes DEF SourceStates
<1>5. CodeInv' /\ CodeSettles
  BY <1>1, <1>2, <1>3, <1>4, CodeSame DEF codeVars
<1>6. WriterInv' /\ RecordStays
  BY <1>1, <1>2, <1>3, <1>4, WriterSame DEF writer
<1>7. Shape'
  BY <1>1, <1>2, <1>3, <1>4 DEF Shape, WithOp, Presenting
<1>8. Presented'
  BY <1>1, <1>2, <1>3, <1>4, <1>6 DEF Presented, Presenting, RecordStays
<1>9. OneUser'
  BY <1>1, <1>2, <1>3, <1>4 DEF OneUser, Using, Alive
<1>10. Agreed'
  BY <1>1, <1>2, <1>3, <1>4, <1>6 DEF Agreed, Says, StatusConsistent, RecordStays
<1>11. Running'
  BY <1>1, <1>2, <1>3, <1>4, <1>5, <1>6 DEF Running, RecordStays, CodeSettles, Alive
<1>12. Retained'
  BY <1>1, <1>2, <1>3, <1>4 DEF Retained, HasItsStatus, Alive
<1> QED
  BY <1>5, <1>6, <1>7, <1>8, <1>9, <1>10, <1>11, <1>12 DEF HttpInv

LEMMA TaskStreamsKeeps == ASSUME NEW op \in Ops PROVE HttpInv /\ TaskStreams(op) => HttpInv'
<1> SUFFICES ASSUME HttpInv, TaskStreams(op) PROVE HttpInv'
  OBVIOUS
<1>1. /\ CodeInv /\ Shape /\ WriterInv
      /\ Presented /\ OneUser /\ Agreed /\ Running /\ Retained
  BY DEF HttpInv
<1>2. /\ \E phase \in {"receiving", "verified", "committing"} : Writer!Report(Http, op, phase)
      /\ code' = code /\ rotation' = rotation /\ page' = page /\ busy' = busy
      /\ source' = source /\ start' = start /\ task' = task /\ reply' = reply
      /\ faults' = faults
  BY DEF TaskStreams, codeVars
<1>3. WriterInv' /\ RecordStays /\ claimed' = claimed
  BY <1>1, <1>2, ReportDoes
<1>4. CodeInv' /\ CodeSettles
  BY <1>1, <1>2, <1>3, CodeSame DEF codeVars
<1>5. WriterInv' /\ RecordStays
  BY <1>1, <1>2, <1>3
<1>6. Shape'
  BY <1>1, <1>2, <1>3 DEF Shape, WithOp, Presenting
<1>7. Presented'
  BY <1>1, <1>2, <1>3, <1>5 DEF Presented, Presenting, RecordStays
<1>8. OneUser'
  BY <1>1, <1>2, <1>3 DEF OneUser, Using, Alive
<1>9. Agreed'
  <2>1. Says(source.op, source.state)' /\ Says(reply.op, reply.source)'
    BY <1>1, <1>2, <1>3, <1>5 DEF Agreed, Says, RecordStays, Presented
  <2>2. \A o \in Ops :
          /\ task'[o] = "apply" => Says(o, "applying")'
          /\ task'[o] = "publish" => Says(o, "committed")' /\ record'.phase = "committed"
          /\ task'[o] = "report" => Says(o, "failed")'
    BY <1>1, <1>2, <1>3, <1>5 DEF Agreed, Says, RecordStays, Presented
  <2>3. \A t \in Starters : start'[t].at = "report" => Says(start[t].op, "failed")'
    BY <1>1, <1>2, <1>3, <1>5 DEF Agreed, Says, RecordStays, Presented, Presenting
  <2>4. StatusConsistent'
    BY <1>1, <1>2, <1>3, <1>5 DEF Agreed, StatusConsistent
  <2> QED
    BY <2>1, <2>2, <2>3, <2>4 DEF Agreed
<1>10. Running'
  BY <1>1, <1>2, <1>3, <1>4, <1>5 DEF Running, RecordStays, CodeSettles, Alive
<1>11. Retained'
  BY <1>1, <1>2, <1>3 DEF Retained, HasItsStatus, Alive
<1> QED
  BY <1>4, <1>5, <1>6, <1>7, <1>8, <1>9, <1>10, <1>11 DEF HttpInv

LEMMA TaskCommitsKeeps == ASSUME NEW op \in Ops PROVE HttpInv /\ TaskCommits(op) => HttpInv'
<1> SUFFICES ASSUME HttpInv, TaskCommits(op) PROVE HttpInv'
  OBVIOUS
<1>1. /\ CodeInv /\ Shape /\ WriterInv
      /\ Presented /\ OneUser /\ Agreed /\ Running /\ Retained
  BY DEF HttpInv
<1>2. /\ task[op] = "stream" /\ Writer!Report(Http, op, "committed") /\ Tasks(op, "publish")
      /\ code' = code /\ rotation' = rotation /\ page' = page /\ busy' = busy
      /\ source' = source /\ start' = start /\ reply' = reply /\ faults' = faults
  BY DEF TaskCommits, TaskAt, codeVars
<1>3. /\ task' \in Tables /\ task'[op] = "publish"
      /\ \A other \in Ops \ {op} : task'[other] = task[other]
  BY <1>1, <1>2, TasksDoes, FailureStepsDo DEF Shape, TaskStages
<1>4. /\ WriterInv' /\ RecordStays /\ claimed' = claimed
      /\ record'.owner = Http /\ record'.op = op /\ record'.phase = "committed"
  BY <1>1, <1>2, ReportDoes
<1>5. CodeInv' /\ CodeSettles
  BY <1>1, <1>2, <1>3, <1>4, CodeSame DEF codeVars
<1>6. WriterInv' /\ RecordStays
  BY <1>1, <1>2, <1>3, <1>4
<1>7. Shape'
  BY <1>1, <1>2, <1>3, <1>4 DEF Shape, WithOp, Presenting
<1>8. Presented'
  BY <1>1, <1>2, <1>3, <1>4, <1>6 DEF Presented, Presenting, RecordStays
<1>9. OneUser'
  BY <1>1, <1>2, <1>3, <1>4 DEF OneUser, Using, Alive
<1>10. Agreed'
  <2>1. Says(source.op, source.state)' /\ Says(reply.op, reply.source)'
    BY <1>1, <1>2, <1>3, <1>4, <1>6 DEF Agreed, Says, RecordStays, Presented
  <2>2. \A o \in Ops :
          /\ task'[o] = "apply" => Says(o, "applying")'
          /\ task'[o] = "publish" => Says(o, "committed")' /\ record'.phase = "committed"
          /\ task'[o] = "report" => Says(o, "failed")'
    BY <1>1, <1>2, <1>3, <1>4, <1>6 DEF Agreed, Says, RecordStays, Presented
  <2>3. \A t \in Starters : start'[t].at = "report" => Says(start[t].op, "failed")'
    BY <1>1, <1>2, <1>3, <1>4, <1>6 DEF Agreed, Says, RecordStays, Presented, Presenting
  <2>4. StatusConsistent'
    BY <1>1, <1>2, <1>3, <1>4, <1>6 DEF Agreed, StatusConsistent
  <2> QED
    BY <2>1, <2>2, <2>3, <2>4 DEF Agreed
<1>11. Running'
  BY <1>1, <1>2, <1>3, <1>4, <1>5, <1>6 DEF Running, RecordStays, CodeSettles, Alive
<1>12. Retained'
  BY <1>1, <1>2, <1>3, <1>4 DEF Retained, HasItsStatus, Alive
<1> QED
  BY <1>5, <1>6, <1>7, <1>8, <1>9, <1>10, <1>11, <1>12 DEF HttpInv

LEMMA TaskFailsKeeps == ASSUME NEW op \in Ops PROVE HttpInv /\ TaskFails(op) => HttpInv'
<1> SUFFICES ASSUME HttpInv, TaskFails(op) PROVE HttpInv'
  OBVIOUS
<1>1. /\ CodeInv /\ Shape /\ WriterInv
      /\ Presented /\ OneUser /\ Agreed /\ Running /\ Retained
  BY DEF HttpInv
<1>2. /\ task[op] \in {"wait", "fetch", "stream"} /\ Tasks(op, FailureSteps[1])
      /\ code' = code /\ rotation' = rotation /\ page' = page /\ holder' = holder
      /\ record' = record /\ claimed' = claimed /\ busy' = busy /\ source' = source
      /\ start' = start /\ reply' = reply /\ faults' = faults
  BY DEF TaskFails, TaskAt, writer, codeVars
<1>3. /\ task' \in Tables /\ task'[op] = "abort"
      /\ \A other \in Ops \ {op} : task'[other] = task[other]
  BY <1>1, <1>2, TasksDoes, FailureStepsDo DEF Shape, TaskStages
<1>4. CodeInv' /\ CodeSettles
  BY <1>1, <1>2, <1>3, CodeSame DEF codeVars
<1>5. WriterInv' /\ RecordStays
  BY <1>1, <1>2, <1>3, WriterSame DEF writer
<1>6. Shape'
  BY <1>1, <1>2, <1>3 DEF Shape, WithOp, Presenting
<1>7. Presented'
  BY <1>1, <1>2, <1>3, <1>5 DEF Presented, Presenting, RecordStays
<1>8. OneUser'
  BY <1>1, <1>2, <1>3 DEF OneUser, Using, Alive
<1>9. Agreed'
  BY <1>1, <1>2, <1>3, <1>5 DEF Agreed, Says, StatusConsistent, RecordStays
<1>10. Running'
  BY <1>1, <1>2, <1>3, <1>4, <1>5 DEF Running, RecordStays, CodeSettles, Alive
<1>11. Retained'
  BY <1>1, <1>2, <1>3 DEF Retained, HasItsStatus, Alive
<1> QED
  BY <1>4, <1>5, <1>6, <1>7, <1>8, <1>9, <1>10, <1>11 DEF HttpInv

LEMMA TaskAbortsKeeps == ASSUME NEW op \in Ops PROVE HttpInv /\ TaskAborts(op) => HttpInv'
<1> SUFFICES ASSUME HttpInv, TaskAborts(op) PROVE HttpInv'
  OBVIOUS
<1>1. /\ CodeInv /\ Shape /\ WriterInv
      /\ Presented /\ OneUser /\ Agreed /\ Running /\ Retained
  BY DEF HttpInv
<1>2. /\ task[op] = "abort" /\ Tasks(op, AfterFailure("abort")) /\ AbortWriter(op)
      /\ code' = code /\ rotation' = rotation /\ page' = page /\ busy' = busy
      /\ source' = source /\ start' = start /\ reply' = reply /\ faults' = faults
  BY DEF TaskAborts, TaskAt, codeVars
<1>3. /\ task' \in Tables /\ task'[op] = "report"
      /\ \A other \in Ops \ {op} : task'[other] = task[other]
  BY <1>1, <1>2, TasksDoes, FailureStepsDo DEF Shape, TaskStages
<1>4. /\ WriterInv' /\ RecordStays /\ claimed' = claimed
      /\ record'.owner = Http /\ record'.op = op => record'.phase = "failed"
  BY <1>1, <1>2, AbortDoes
<1>5. CodeInv' /\ CodeSettles
  BY <1>1, <1>2, <1>3, <1>4, CodeSame DEF codeVars
<1>6. WriterInv' /\ RecordStays
  BY <1>1, <1>2, <1>3, <1>4
<1>7. Shape'
  BY <1>1, <1>2, <1>3, <1>4 DEF Shape, WithOp, Presenting
<1>8. Presented'
  BY <1>1, <1>2, <1>3, <1>4, <1>6 DEF Presented, Presenting, RecordStays
<1>9. OneUser'
  BY <1>1, <1>2, <1>3, <1>4 DEF OneUser, Using, Alive
<1>10. Agreed'
  <2>1. Says(source.op, source.state)' /\ Says(reply.op, reply.source)'
    BY <1>1, <1>2, <1>3, <1>4, <1>6 DEF Agreed, Says, RecordStays, Presented
  <2>2. \A o \in Ops :
          /\ task'[o] = "apply" => Says(o, "applying")'
          /\ task'[o] = "publish" => Says(o, "committed")' /\ record'.phase = "committed"
          /\ task'[o] = "report" => Says(o, "failed")'
    BY <1>1, <1>2, <1>3, <1>4, <1>6 DEF Agreed, Says, RecordStays, Presented
  <2>3. \A t \in Starters : start'[t].at = "report" => Says(start[t].op, "failed")'
    BY <1>1, <1>2, <1>3, <1>4, <1>6 DEF Agreed, Says, RecordStays, Presented, Presenting
  <2>4. StatusConsistent'
    BY <1>1, <1>2, <1>3, <1>4, <1>6 DEF Agreed, StatusConsistent
  <2> QED
    BY <2>1, <2>2, <2>3, <2>4 DEF Agreed
<1>11. Running'
  BY <1>1, <1>2, <1>3, <1>4, <1>5, <1>6 DEF Running, RecordStays, CodeSettles, Alive
<1>12. Retained'
  BY <1>1, <1>2, <1>3, <1>4 DEF Retained, HasItsStatus, Alive
<1> QED
  BY <1>5, <1>6, <1>7, <1>8, <1>9, <1>10, <1>11, <1>12 DEF HttpInv

LEMMA TaskReportsKeeps == ASSUME NEW op \in Ops PROVE HttpInv /\ TaskReports(op) => HttpInv'
<1> SUFFICES ASSUME HttpInv, TaskReports(op) PROVE HttpInv'
  OBVIOUS
<1>1. /\ CodeInv /\ Shape /\ WriterInv
      /\ Presented /\ OneUser /\ Agreed /\ Running /\ Retained
  BY DEF HttpInv
<1>2. /\ task[op] = "report" /\ Tasks(op, AfterFailure("report")) /\ Publish("failed", op)
      /\ code' = code /\ rotation' = rotation /\ page' = page /\ holder' = holder
      /\ record' = record /\ claimed' = claimed /\ busy' = busy /\ start' = start
      /\ reply' = reply /\ faults' = faults
  BY DEF TaskReports, TaskAt, writer, codeVars
<1>3. /\ task' \in Tables /\ task'[op] = "mark"
      /\ \A other \in Ops \ {op} : task'[other] = task[other]
  BY <1>1, <1>2, TasksDoes, FailureStepsDo DEF Shape, TaskStages
<1>4. source' \in Sources /\ source'.state = "failed" /\ source'.op = op
  BY <1>1, <1>2, PublishDoes DEF SourceStates
<1>5. CodeInv' /\ CodeSettles
  BY <1>1, <1>2, <1>3, <1>4, CodeSame DEF codeVars
<1>6. WriterInv' /\ RecordStays
  BY <1>1, <1>2, <1>3, <1>4, WriterSame DEF writer
<1>7. Shape'
  BY <1>1, <1>2, <1>3, <1>4 DEF Shape, WithOp, Presenting
<1>8. Presented'
  BY <1>1, <1>2, <1>3, <1>4, <1>6 DEF Presented, Presenting, RecordStays
<1>9. OneUser'
  BY <1>1, <1>2, <1>3, <1>4 DEF OneUser, Using, Alive
<1>10. Agreed'
  BY <1>1, <1>2, <1>3, <1>4, <1>6 DEF Agreed, Says, StatusConsistent, RecordStays
<1>11. Running'
  BY <1>1, <1>2, <1>3, <1>4, <1>5, <1>6 DEF Running, RecordStays, CodeSettles, Alive
<1>12. Retained'
  BY <1>1, <1>2, <1>3, <1>4 DEF Retained, HasItsStatus, Alive
<1> QED
  BY <1>5, <1>6, <1>7, <1>8, <1>9, <1>10, <1>11, <1>12 DEF HttpInv

LEMMA TaskMarksKeeps == ASSUME NEW op \in Ops PROVE HttpInv /\ TaskMarks(op) => HttpInv'
<1> SUFFICES ASSUME HttpInv, TaskMarks(op) PROVE HttpInv'
  OBVIOUS
<1>1. /\ CodeInv /\ Shape /\ WriterInv
      /\ Presented /\ OneUser /\ Agreed /\ Running /\ Retained
  BY DEF HttpInv
<1>2. /\ task[op] = "mark" /\ Tasks(op, AfterFailure("mark"))
      /\ page' = page /\ holder' = holder /\ record' = record /\ claimed' = claimed
      /\ busy' = busy /\ source' = source /\ start' = start /\ reply' = reply
      /\ faults' = faults
  BY DEF TaskMarks, TaskAt, writer, codeVars
<1>3. /\ task' \in Tables /\ task'[op] = "free"
      /\ \A other \in Ops \ {op} : task'[other] = task[other]
  BY <1>1, <1>2, TasksDoes, FailureStepsDo DEF Shape, TaskStages
<1>4. CodeInv' /\ CodeSettles /\ code'.state # "running"
  BY <1>1, <1>2, <1>3, MarkUpdateFailedKeeps DEF TaskMarks
<1>5. WriterInv' /\ RecordStays
  BY <1>1, <1>2, <1>3, WriterSame DEF writer
<1>6. Shape'
  BY <1>1, <1>2, <1>3 DEF Shape, WithOp, Presenting
<1>7. Presented'
  BY <1>1, <1>2, <1>3, <1>5 DEF Presented, Presenting, RecordStays
<1>8. OneUser'
  BY <1>1, <1>2, <1>3 DEF OneUser, Using, Alive
<1>9. Agreed'
  BY <1>1, <1>2, <1>3, <1>5 DEF Agreed, Says, StatusConsistent, RecordStays
<1>10. Running'
  BY <1>1, <1>2, <1>3, <1>4, <1>5 DEF Running, RecordStays, CodeSettles, Alive
<1>11. Retained'
  BY <1>1, <1>2, <1>3 DEF Retained, HasItsStatus, Alive
<1> QED
  BY <1>4, <1>5, <1>6, <1>7, <1>8, <1>9, <1>10, <1>11 DEF HttpInv

LEMMA TaskPublishesKeeps == ASSUME NEW op \in Ops PROVE HttpInv /\ TaskPublishes(op) => HttpInv'
<1> SUFFICES ASSUME HttpInv, TaskPublishes(op) PROVE HttpInv'
  OBVIOUS
<1>1. /\ CodeInv /\ Shape /\ WriterInv
      /\ Presented /\ OneUser /\ Agreed /\ Running /\ Retained
  BY DEF HttpInv
<1>2. /\ task[op] = "publish" /\ Tasks(op, "free") /\ Publish("committed", op)
      /\ code' = code /\ rotation' = rotation /\ page' = page /\ holder' = holder
      /\ record' = record /\ claimed' = claimed /\ busy' = busy /\ start' = start
      /\ reply' = reply /\ faults' = faults
  BY DEF TaskPublishes, TaskAt, writer, codeVars
<1>3. /\ task' \in Tables /\ task'[op] = "free"
      /\ \A other \in Ops \ {op} : task'[other] = task[other]
  BY <1>1, <1>2, TasksDoes, FailureStepsDo DEF Shape, TaskStages
<1>4. source' \in Sources /\ source'.state = "committed" /\ source'.op = op
  BY <1>1, <1>2, PublishDoes DEF SourceStates
<1>5. CodeInv' /\ CodeSettles
  BY <1>1, <1>2, <1>3, <1>4, CodeSame DEF codeVars
<1>6. WriterInv' /\ RecordStays
  BY <1>1, <1>2, <1>3, <1>4, WriterSame DEF writer
<1>7. Shape'
  BY <1>1, <1>2, <1>3, <1>4 DEF Shape, WithOp, Presenting
<1>8. Presented'
  BY <1>1, <1>2, <1>3, <1>4, <1>6 DEF Presented, Presenting, RecordStays
<1>9. OneUser'
  BY <1>1, <1>2, <1>3, <1>4 DEF OneUser, Using, Alive
<1>10. Agreed'
  BY <1>1, <1>2, <1>3, <1>4, <1>6 DEF Agreed, Says, StatusConsistent, RecordStays
<1>11. Running'
  BY <1>1, <1>2, <1>3, <1>4, <1>5, <1>6 DEF Running, RecordStays, CodeSettles, Alive, Agreed
<1>12. Retained'
  BY <1>1, <1>2, <1>3, <1>4 DEF Retained, HasItsStatus, Alive
<1> QED
  BY <1>5, <1>6, <1>7, <1>8, <1>9, <1>10, <1>11, <1>12 DEF HttpInv

LEMMA TaskFreesKeeps == ASSUME NEW op \in Ops PROVE HttpInv /\ TaskFrees(op) => HttpInv'
<1> SUFFICES ASSUME HttpInv, TaskFrees(op) PROVE HttpInv'
  OBVIOUS
<1>1. /\ CodeInv /\ Shape /\ WriterInv
      /\ Presented /\ OneUser /\ Agreed /\ Running /\ Retained
  BY DEF HttpInv
<1>2. /\ task[op] = "free" /\ Tasks(op, "gone") /\ busy' = FALSE
      /\ code' = code /\ rotation' = rotation /\ page' = page /\ holder' = holder
      /\ record' = record /\ claimed' = claimed /\ source' = source /\ start' = start
      /\ reply' = reply /\ faults' = faults
  BY DEF TaskFrees, TaskAt, writer, codeVars
<1>3. /\ task' \in Tables /\ task'[op] = "gone"
      /\ \A other \in Ops \ {op} : task'[other] = task[other]
  BY <1>1, <1>2, TasksDoes, FailureStepsDo DEF Shape, TaskStages
<1>4. CodeInv' /\ CodeSettles
  BY <1>1, <1>2, <1>3, CodeSame DEF codeVars
<1>5. WriterInv' /\ RecordStays
  BY <1>1, <1>2, <1>3, WriterSame DEF writer
<1>6. Shape'
  BY <1>1, <1>2, <1>3 DEF Shape, WithOp, Presenting
<1>7. Presented'
  BY <1>1, <1>2, <1>3, <1>5 DEF Presented, Presenting, RecordStays
<1>8. OneUser'
  BY <1>1, <1>2, <1>3 DEF OneUser, Using, Alive
<1>9. Agreed'
  BY <1>1, <1>2, <1>3, <1>5 DEF Agreed, Says, StatusConsistent, RecordStays
<1>10. Running'
  BY <1>1, <1>2, <1>3, <1>4, <1>5 DEF Running, RecordStays, CodeSettles, Alive
<1>11. Retained'
  BY <1>1, <1>2, <1>3 DEF Retained, HasItsStatus, Alive
<1> QED
  BY <1>4, <1>5, <1>6, <1>7, <1>8, <1>9, <1>10, <1>11 DEF HttpInv

LEMMA ReadSourceKeeps == HttpInv /\ ReadSource => HttpInv'
<1> SUFFICES ASSUME HttpInv, ReadSource PROVE HttpInv'
  OBVIOUS
<1>1. /\ CodeInv /\ Shape /\ WriterInv
      /\ Presented /\ OneUser /\ Agreed /\ Running /\ Retained
  BY DEF HttpInv
<1>2. /\ start[Trigger].at = "idle" /\ Starts(Trigger, "status")
      /\ code' = code /\ rotation' = rotation /\ page' = page /\ holder' = holder
      /\ record' = record /\ claimed' = claimed /\ busy' = busy /\ source' = source
      /\ task' = task /\ faults' = faults
  BY DEF ReadSource, StartAt, writer, codeVars
<1>3. /\ start' \in StartRecords /\ start'[Trigger].at = "status" /\ start'[Trigger].op = start[Trigger].op
      /\ \A t \in Starters \ {Trigger} : start'[t] = start[t]
  BY <1>1, <1>2, StartsDoes, Constants DEF Shape, StartStages
<1>4. /\ reply' \in Replies /\ reply'.op = source.op /\ reply'.source = source.state
      /\ reply'.phase = "none"
  BY <1>1, <1>2 DEF ReadSource, Shape, Sources, Replies
<1>5. CodeInv' /\ CodeSettles
  BY <1>1, <1>2, <1>3, <1>4, CodeSame DEF codeVars
<1>6. WriterInv' /\ RecordStays
  BY <1>1, <1>2, <1>3, <1>4, WriterSame DEF writer
<1>7. Shape'
  BY <1>1, <1>2, <1>3, <1>4 DEF Shape, WithOp, Presenting
<1>8. Presented'
  BY <1>1, <1>2, <1>3, <1>4, <1>6 DEF Presented, Presenting, RecordStays
<1>9. OneUser'
  BY <1>1, <1>2, <1>3, <1>4 DEF OneUser, Using, Alive
<1>10. Agreed'
  BY <1>1, <1>2, <1>3, <1>4, <1>6 DEF Agreed, Says, StatusConsistent, RecordStays
<1>11. Running'
  BY <1>1, <1>2, <1>3, <1>4, <1>5, <1>6, Constants DEF Running, RecordStays, CodeSettles, Alive
<1>12. Retained'
  BY <1>1, <1>2, <1>3, <1>4 DEF Retained, HasItsStatus, Alive
<1> QED
  BY <1>5, <1>6, <1>7, <1>8, <1>9, <1>10, <1>11, <1>12 DEF HttpInv

LEMMA ReadBackendKeeps == HttpInv /\ ReadBackend => HttpInv'
<1> SUFFICES ASSUME HttpInv, ReadBackend PROVE HttpInv'
  OBVIOUS
<1>1. /\ CodeInv /\ Shape /\ WriterInv
      /\ Presented /\ OneUser /\ Agreed /\ Running /\ Retained
  BY DEF HttpInv
<1>2. /\ start[Trigger].at = "status" /\ Starts(Trigger, "answer")
      /\ code' = code /\ rotation' = rotation /\ page' = page /\ holder' = holder
      /\ record' = record /\ claimed' = claimed /\ busy' = busy /\ source' = source
      /\ task' = task /\ faults' = faults
  BY DEF ReadBackend, StartAt, writer, codeVars
<1>3. /\ start' \in StartRecords /\ start'[Trigger].at = "answer" /\ start'[Trigger].op = start[Trigger].op
      /\ \A t \in Starters \ {Trigger} : start'[t] = start[t]
  BY <1>1, <1>2, StartsDoes, Constants DEF Shape, StartStages
<1>4. /\ reply' \in Replies /\ reply'.op = reply.op /\ reply'.source = reply.source
      /\ \/ reply'.phase = reply.phase
         \/ record.owner = Http /\ record.op = reply.op /\ reply'.phase = record.phase
  BY <1>1, <1>2 DEF ReadBackend, BackendMatches, Shape, WriterInv, Records, Replies
<1>5. CodeInv' /\ CodeSettles
  BY <1>1, <1>2, <1>3, <1>4, CodeSame DEF codeVars
<1>6. WriterInv' /\ RecordStays
  BY <1>1, <1>2, <1>3, <1>4, WriterSame DEF writer
<1>7. Shape'
  BY <1>1, <1>2, <1>3, <1>4 DEF Shape, WithOp, Presenting
<1>8. Presented'
  BY <1>1, <1>2, <1>3, <1>4, <1>6 DEF Presented, Presenting, RecordStays
<1>9. OneUser'
  BY <1>1, <1>2, <1>3, <1>4 DEF OneUser, Using, Alive
<1>10. Agreed'
  BY <1>1, <1>2, <1>3, <1>4, <1>6 DEF Agreed, Says, StatusConsistent, RecordStays
<1>11. Running'
  BY <1>1, <1>2, <1>3, <1>4, <1>5, <1>6, Constants DEF Running, RecordStays, CodeSettles, Alive
<1>12. Retained'
  BY <1>1, <1>2, <1>3, <1>4 DEF Retained, HasItsStatus, Alive
<1> QED
  BY <1>5, <1>6, <1>7, <1>8, <1>9, <1>10, <1>11, <1>12 DEF HttpInv

LEMMA CodeStepKeeps == HttpInv /\ CodeStep => HttpInv'
<1> SUFFICES ASSUME HttpInv, CodeStep PROVE HttpInv'
  OBVIOUS
<1>1. /\ CodeInv /\ Shape /\ WriterInv
      /\ Presented /\ OneUser /\ Agreed /\ Running /\ Retained
  BY DEF HttpInv
<1>2. /\ holder' = holder /\ record' = record /\ claimed' = claimed /\ busy' = busy
      /\ source' = source /\ start' = start /\ task' = task /\ reply' = reply
      /\ faults' = faults
  BY DEF CodeStep, writer
<1>3. CodeInv' /\ CodeSettles
  BY <1>1, <1>2, ElapseKeeps, GenerateKeeps, CancelKeeps, RotatePublishKeeps DEF CodeStep,
     OpenPage, ClosePage, GenerateAgain
<1>4. WriterInv' /\ RecordStays
  BY <1>1, <1>2, WriterSame DEF writer
<1>5. Shape'
  BY <1>1, <1>2 DEF Shape, WithOp, Presenting
<1>6. Presented'
  BY <1>1, <1>2, <1>4 DEF Presented, Presenting, RecordStays
<1>7. OneUser'
  BY <1>1, <1>2 DEF OneUser, Using, Alive
<1>8. Agreed'
  BY <1>1, <1>2, <1>4 DEF Agreed, Says, StatusConsistent, RecordStays
<1>9. Running'
  BY <1>1, <1>2, <1>3, <1>4 DEF Running, RecordStays, CodeSettles, Alive
<1>10. Retained'
  BY <1>1, <1>2 DEF Retained, HasItsStatus, Alive
<1> QED
  BY <1>3, <1>4, <1>5, <1>6, <1>7, <1>8, <1>9, <1>10 DEF HttpInv

LEMMA RotateKeeps == ASSUME NEW r \in Readers PROVE HttpInv /\ Rotate(r) => HttpInv'
<1> SUFFICES ASSUME HttpInv, Rotate(r) PROVE HttpInv'
  OBVIOUS
<1>1. /\ CodeInv /\ Shape /\ WriterInv
      /\ Presented /\ OneUser /\ Agreed /\ Running /\ Retained
  BY DEF HttpInv
<1>2. /\ holder' = holder /\ record' = record /\ claimed' = claimed /\ busy' = busy
      /\ source' = source /\ start' = start /\ task' = task /\ reply' = reply
      /\ faults' = faults
  BY DEF Rotate, writer
<1>3. CodeInv' /\ CodeSettles
  BY <1>1, <1>2, RotateClaimKeeps DEF Rotate
<1>4. WriterInv' /\ RecordStays
  BY <1>1, <1>2, WriterSame DEF writer
<1>5. Shape'
  BY <1>1, <1>2 DEF Shape, WithOp, Presenting
<1>6. Presented'
  BY <1>1, <1>2, <1>4 DEF Presented, Presenting, RecordStays
<1>7. OneUser'
  BY <1>1, <1>2 DEF OneUser, Using, Alive
<1>8. Agreed'
  BY <1>1, <1>2, <1>4 DEF Agreed, Says, StatusConsistent, RecordStays
<1>9. Running'
  BY <1>1, <1>2, <1>3, <1>4 DEF Running, RecordStays, CodeSettles, Alive
<1>10. Retained'
  BY <1>1, <1>2 DEF Retained, HasItsStatus, Alive
<1> QED
  BY <1>3, <1>4, <1>5, <1>6, <1>7, <1>8, <1>9, <1>10 DEF HttpInv

LEMMA OtherStepKeeps == HttpInv /\ OtherStep => HttpInv'
<1> SUFFICES ASSUME HttpInv, OtherStep PROVE HttpInv'
  OBVIOUS
<1>1. /\ CodeInv /\ Shape /\ WriterInv
      /\ Presented /\ OneUser /\ Agreed /\ Running /\ Retained
  BY DEF HttpInv
<1>2. /\ code' = code /\ rotation' = rotation /\ page' = page /\ busy' = busy
      /\ source' = source /\ start' = start /\ task' = task /\ reply' = reply
      /\ faults' = faults
  BY DEF OtherStep, codeVars
<1>3. CodeInv' /\ CodeSettles
  BY <1>1, <1>2, CodeSame DEF codeVars
<1>4. WriterInv' /\ RecordStays
  BY <1>1, <1>2, ClaimDoes, ReleaseDoes, RefuseDoes DEF OtherStep, Writer!Results
<1>5. Shape'
  BY <1>1, <1>2 DEF Shape, WithOp, Presenting
<1>6. Presented'
  BY <1>1, <1>2, <1>4 DEF Presented, Presenting, RecordStays
<1>7. OneUser'
  BY <1>1, <1>2 DEF OneUser, Using, Alive
<1>8. Agreed'
  <2>1. Says(source.op, source.state)' /\ Says(reply.op, reply.source)'
    BY <1>1, <1>2, <1>4 DEF Agreed, Says, RecordStays, Presented
  <2>2. \A o \in Ops :
          /\ task'[o] = "apply" => Says(o, "applying")'
          /\ task'[o] = "publish" => Says(o, "committed")' /\ record'.phase = "committed"
          /\ task'[o] = "report" => Says(o, "failed")'
    BY <1>1, <1>2, <1>4 DEF Agreed, Says, RecordStays, Presented
  <2>3. \A t \in Starters : start'[t].at = "report" => Says(start[t].op, "failed")'
    BY <1>1, <1>2, <1>4 DEF Agreed, Says, RecordStays, Presented, Presenting
  <2>4. StatusConsistent'
    BY <1>1, <1>2, <1>4 DEF Agreed, StatusConsistent
  <2> QED
    BY <2>1, <2>2, <2>3, <2>4 DEF Agreed
<1>9. Running'
  BY <1>1, <1>2, <1>3, <1>4 DEF Running, RecordStays, CodeSettles, Alive
<1>10. Retained'
  BY <1>1, <1>2 DEF Retained, HasItsStatus, Alive
<1> QED
  BY <1>3, <1>4, <1>5, <1>6, <1>7, <1>8, <1>9, <1>10 DEF HttpInv

LEMMA DisabledIs == Disabled \in CodeRecords /\ Disabled.state = "disabled"
BY Constants DEF Disabled, CodeRecords, States, Timers

LEMMA DisabledKeeps ==
  ASSUME code' = Disabled, rotation' = [r \in Readers |-> "none"], page' = FALSE PROVE CodeInv'
<1>1. rotation' \in Rotations
  BY DEF Rotations
<1> QED
  BY <1>1, DisabledIs DEF CodeInv, CodeTypeOK, CodeOnPage, CodeRecords, Rotations

\* The restart leaves nothing but the operations that were presented.
LEMMA RestartKeeps == HttpInv /\ Restart => HttpInv'
<1> SUFFICES ASSUME HttpInv, Restart PROVE HttpInv'
  OBVIOUS
<1> USE Constants DEF Restart, Writer!Reset, Writer!Free, Writer!NoRecord
<1>1. CodeInv /\ Shape /\ WriterInv /\ Retained
  BY DEF HttpInv
<1>2. CodeInv'
  <2>1. code' = Disabled /\ rotation' = [r \in Readers |-> "none"] /\ page' = FALSE
    OBVIOUS
  <2> QED
    BY <2>1, DisabledKeeps
<1>3. start' = NoStart /\ NoStart \in StartRecords /\ \A s \in Starters : start'[s].at = "idle"
  BY DEF NoStart, StartRecords, StartStages
<1>4. task' = NoTask /\ NoTask \in Tables /\ \A op \in Ops : task'[op] = "none"
  BY DEF NoTask, Tables, TaskStages
<1>5. /\ source' = NoSource /\ NoSource \in Sources /\ source'.op = NoOp /\ source'.state = "idle"
      /\ reply' = NoReply /\ NoReply \in Replies /\ reply'.op = NoOp
      /\ reply'.source = "idle" /\ reply'.phase = "none"
  BY DEF NoSource, NoReply, Sources, Replies, SourceStates
<1>6. Shape'
  BY <1>1, <1>3, <1>4, <1>5 DEF Shape, WithOp, Presenting
<1>7. WriterInv'
  BY <1>1 DEF WriterInv, Holders, Records, Writer!Phases, Writer!Results
<1>8. Presented'
  BY <1>3, <1>4, <1>5 DEF Presented, Presenting
<1>9. OneUser'
  BY <1>3, <1>4 DEF OneUser, Using, Alive
<1>10. Agreed'
  BY <1>3, <1>4, <1>5 DEF Agreed, Says, StatusConsistent
<1>11. Running' /\ Retained'
  BY <1>3, <1>4 DEF Running, Retained, HasItsStatus, Alive, Disabled
<1> QED
  BY <1>2, <1>6, <1>7, <1>8, <1>9, <1>10, <1>11 DEF HttpInv

LEMMA InitKeeps == Init => HttpInv
<1> SUFFICES ASSUME Init PROVE HttpInv
  OBVIOUS
<1> USE Constants DEF Init, CodeInit, Writer!Init, Writer!Free, Writer!NoRecord
<1>1. CodeInv
  <2>1. /\ Disabled \in CodeRecords /\ Disabled.state = "disabled"
        /\ rotation \in Rotations /\ page = FALSE
    BY DisabledIs DEF Rotations
  <2> QED
    BY <2>1 DEF CodeInv, CodeTypeOK, CodeOnPage, CodeRecords, Rotations
<1>2. NoStart \in StartRecords /\ \A s \in Starters : start[s].at = "idle"
  BY DEF NoStart, StartRecords, StartStages
<1>3. NoTask \in Tables /\ \A op \in Ops : task[op] = "none"
  BY DEF NoTask, Tables, TaskStages
<1>4. /\ NoSource \in Sources /\ source.op = NoOp /\ source.state = "idle"
      /\ NoReply \in Replies /\ reply.op = NoOp /\ reply.source = "idle" /\ reply.phase = "none"
  BY DEF NoSource, NoReply, Sources, Replies, SourceStates
<1>5. Shape
  <2>1. 0 \in 0..MaxFaults
    OBVIOUS
  <2>2. \A s \in Starters : start[s].at \notin WithOp
    BY <1>2 DEF WithOp, Presenting
  <2> QED
    BY <1>2, <1>3, <1>4, <2>1, <2>2 DEF Shape
<1>6. WriterInv
  BY DEF WriterInv, Holders, Records, Writer!Phases, Writer!Results
<1>7. Presented /\ OneUser
  BY <1>2, <1>3, <1>4 DEF Presented, Presenting, OneUser, Using, Alive
<1>8. Agreed
  BY <1>2, <1>3, <1>4 DEF Agreed, Says, StatusConsistent
<1>9. Running /\ Retained
  BY <1>2, <1>3 DEF Running, Retained, HasItsStatus, Alive, Disabled
<1> QED
  BY <1>1, <1>5, <1>6, <1>7, <1>8, <1>9 DEF HttpInv

LEMMA NextKeeps == HttpInv /\ [Next]_vars => HttpInv'
<1> SUFFICES ASSUME HttpInv, [Next]_vars PROVE HttpInv'
  OBVIOUS
<1>1. CASE TakeCode \/ HandlerMarks \/ HandlerParses \/ HandlerRefused \/ ReadSource \/ ReadBackend
  BY <1>1, TakeCodeKeeps, HandlerMarksKeeps, HandlerParsesKeeps, HandlerRefusedKeeps,
     ReadSourceKeeps, ReadBackendKeeps
<1>2. ASSUME NEW s \in Starters, TakeBusy(s) \/ StartStep(s) PROVE HttpInv'
  BY <1>2, TakeBusyKeeps, ClaimWriterKeeps, GiveUpKeeps, PublishWaitingKeeps, CreateTaskKeeps,
     UnmadeKeeps, UnmadeAbortKeeps, UnmadeReportKeeps, ReturnKeeps DEF StartStep
<1>3. ASSUME NEW op \in Ops, TaskStep(op) PROVE HttpInv'
  BY <1>3, TaskFetchesKeeps, TaskPreparesKeeps, TaskAppliesKeeps, TaskStreamsKeeps,
     TaskCommitsKeeps, TaskFailsKeeps, TaskAbortsKeeps, TaskReportsKeeps, TaskMarksKeeps,
     TaskPublishesKeeps, TaskFreesKeeps DEF TaskStep
<1>4. ASSUME NEW r \in Readers, Rotate(r) PROVE HttpInv'
  BY <1>4, RotateKeeps
<1>5. CASE CodeStep \/ OtherStep \/ Restart
  BY <1>5, CodeStepKeeps, OtherStepKeeps, RestartKeeps
<1>6. CASE UNCHANGED vars
  <2>1. /\ UNCHANGED codeVars /\ UNCHANGED writer
        /\ busy' = busy /\ source' = source /\ start' = start /\ task' = task
        /\ reply' = reply /\ faults' = faults
    BY <1>6 DEF vars, codeVars, writer
  <2>2. /\ CodeInv /\ Shape /\ WriterInv
        /\ Presented /\ OneUser /\ Agreed /\ Running /\ Retained
    BY DEF HttpInv
  <2>3. CodeInv' /\ WriterInv'
    BY <2>1, <2>2, CodeSame, WriterSame
  <2>4. code' = code /\ record' = record /\ claimed' = claimed
    BY <2>1 DEF codeVars, writer
  <2>5. Shape' /\ Presented' /\ OneUser'
    BY <2>1, <2>2, <2>4 DEF Shape, Presented, OneUser
  <2>6. Agreed' /\ Running' /\ Retained'
    BY <2>1, <2>2, <2>4 DEF Agreed, Says, StatusConsistent, Running, Retained, HasItsStatus
  <2> QED
    BY <2>3, <2>5, <2>6 DEF HttpInv
<1> QED
  BY <1>1, <1>2, <1>3, <1>4, <1>5, <1>6 DEF Next

----------------------------------------------------------------------------
(* The theorems.                                                           *)

\* HttpInv holds in every reachable state.
THEOREM HttpInvariance == Spec => []HttpInv
BY InitKeeps, NextKeeps, PTL DEF Spec

\* The types; and the display code always has an attempt left when it is shown.
THEOREM HttpTypeCorrect == Spec => []TypeOK
<1>1. HttpInv => TypeOK
  BY DEF HttpInv, CodeInv, Shape, Sources, Replies, StartRecords, Tables, TypeOK
<1> QED
  BY <1>1, HttpInvariance, PTL

\* No code is valid, locked or rotating unless its page is open, whichever
\* rotation was under way when the page closed.
THEOREM CodeStaysOnPage == Spec => []CodeOnPage
<1>1. HttpInv => CodeOnPage
  BY DEF HttpInv, CodeInv
<1> QED
  BY <1>1, HttpInvariance, PTL

\* A code that was accepted is on its way to an update, or has one.
THEOREM RunningCodeHasUpdate == Spec => []RunningHasUpdate
<1>1. HttpInv => RunningHasUpdate
  BY DEF HttpInv, Running, RunningHasUpdate
<1> QED
  BY <1>1, HttpInvariance, PTL

\* s_http_busy admits one update at a time, whoever starts it.
THEOREM OneUpdateAtATime == Spec => []OneHttpUpdate
<1>1. HttpInv => OneHttpUpdate
  BY DEF HttpInv, OneUser, OneHttpUpdate
<1> QED
  BY <1>1, HttpInvariance, PTL

\* As long as every task can be created, the status retained is that of the
\* operation that runs.
THEOREM StatusIsRetained == Spec => []StatusRetained
<1>1. HttpInv => StatusRetained
  BY DEF HttpInv, Retained, LaterReplaces, StatusRetained
<1> QED
  BY <1>1, HttpInvariance, PTL

\* The two halves of a status answer, read at different times, agree.
THEOREM StatusAgrees == Spec => []StatusConsistent
<1>1. HttpInv => StatusConsistent
  BY DEF HttpInv, Agreed
<1> QED
  BY <1>1, HttpInvariance, PTL

----------------------------------------------------------------------------
(* Refinement: the writer moves only as UpdateWriter says it may.          *)

WriterStep == Writer!Next \/ UNCHANGED writer

LEMMA StartMovesWriter ==
  ASSUME HttpInv, NEW s \in Starters, TakeBusy(s) \/ StartStep(s)
  PROVE  WriterStep
<1>1. CASE ClaimWriter(s)
  <2>1. start[s].op \in Ops
    BY <1>1, Constants DEF HttpInv, Shape, WithOp, ClaimWriter, StartAt
  <2> QED
    BY <1>1, <2>1 DEF ClaimWriter, Writer!Next, Writer!Phases, WriterStep
<1>2. CASE UnmadeAbort(s)
  <2>1. start[s].op \in Ops
    BY <1>2, Constants DEF HttpInv, Shape, WithOp, Presenting, UnmadeAbort, StartAt
  <2> QED
    BY <1>2, <2>1 DEF UnmadeAbort, AbortWriter, Writer!Next, WriterStep
<1>3. CASE TakeBusy(s) \/ GiveUp(s) \/ PublishWaiting(s) \/ CreateTask(s) \/ Unmade(s) \/ UnmadeReport(s) \/ Return(s)
  BY <1>3 DEF TakeBusy, GiveUp, PublishWaiting, CreateTask, Unmade, UnmadeReport, Return, WriterStep
<1> QED
  BY <1>1, <1>2, <1>3 DEF StartStep

LEMMA TaskMovesWriter ==
  ASSUME NEW op \in Ops, TaskStep(op)
  PROVE  WriterStep
<1>1. CASE TaskPrepares(op) \/ TaskCommits(op)
  BY <1>1 DEF TaskPrepares, TaskCommits, Writer!Next, Writer!Phases, WriterStep
<1>2. CASE TaskStreams(op)
  BY <1>2 DEF TaskStreams, Writer!Next, Writer!Phases, WriterStep
<1>3. CASE TaskAborts(op)
  BY <1>3 DEF TaskAborts, AbortWriter, Writer!Next, WriterStep
<1>4. CASE TaskFetches(op) \/ TaskApplies(op) \/ TaskFails(op) \/ TaskReports(op) \/ TaskMarks(op)
           \/ TaskPublishes(op) \/ TaskFrees(op)
  BY <1>4 DEF TaskFetches, TaskApplies, TaskFails, TaskReports, TaskMarks, TaskPublishes, TaskFrees, WriterStep
<1> QED
  BY <1>1, <1>2, <1>3, <1>4 DEF TaskStep

\* The HTTP source and its server use the flash writer only as UpdateWriter
\* allows: they claim it when it is free, report of the operation that holds
\* it, and give it back.  SystemUpdate is proved to implement that same
\* specification.
THEOREM HttpUsesWriter == Spec => Writer!Spec
<1>1. Init => Writer!Init
  BY DEF Init
<1>2. HttpInv /\ [Next]_vars => [Writer!Next]_(Writer!writerVars)
  <2> SUFFICES ASSUME HttpInv, [Next]_vars PROVE WriterStep
    BY DEF WriterStep, writer, Writer!writerVars
  <2>1. CASE TakeCode \/ HandlerMarks \/ HandlerParses \/ HandlerRefused \/ ReadSource \/ ReadBackend
    BY <2>1 DEF TakeCode, HandlerMarks, HandlerParses, HandlerRefused, ReadSource, ReadBackend, WriterStep
  <2>2. ASSUME NEW s \in Starters, TakeBusy(s) \/ StartStep(s) PROVE WriterStep
    BY <2>2, StartMovesWriter
  <2>3. ASSUME NEW op \in Ops, TaskStep(op) PROVE WriterStep
    BY <2>3, TaskMovesWriter
  <2>4. ASSUME NEW r \in Readers, Rotate(r) PROVE WriterStep
    BY <2>4 DEF Rotate, WriterStep
  <2>5. CASE OtherStep
    BY <2>5 DEF OtherStep, Writer!Next, Writer!Phases, WriterStep
  <2>6. CASE CodeStep \/ Restart \/ UNCHANGED vars
    BY <2>6 DEF CodeStep, Restart, Writer!Next, vars, writer, WriterStep
  <2> QED
    BY <2>1, <2>2, <2>3, <2>4, <2>5, <2>6 DEF Next
<1> QED
  BY <1>1, <1>2, HttpInvariance, PTL DEF Spec, Writer!Spec

----------------------------------------------------------------------------
(* Liveness.  A task that lives has a rank, which no step of another actor  *)
(* raises and each step of its own lowers, until it gives s_http_busy back. *)

Ranked == [wait |-> 10, fetch |-> 9, apply |-> 8, abort |-> 3, report |-> 2, publish |-> 1,
           mark |-> 1, free |-> 0]
StreamRank(op) ==
  IF ~Writer!Held(Http, op) THEN 4
  ELSE CASE record.phase = "prepared"  -> 7
         [] record.phase = "receiving" -> 6
         [] record.phase = "verified"  -> 5
         [] OTHER                      -> 4
Rank(op) == IF TaskAt(op, "stream") THEN StreamRank(op) ELSE Ranked[task[op]]

\* The update of op is over, or has less than k steps ahead.
Within(op, k) == ~busy \/ (task[op] \in Alive /\ Rank(op) < k)

LEMMA RankIs ==
  ASSUME NEW op \in Ops, task[op] \in Alive
  PROVE  Rank(op) \in 0..10
BY DEF Rank, StreamRank, Ranked, Alive, TaskAt

\* What one's own steps do to the rank.
LEMMA TaskAdvances ==
  ASSUME HttpInv, NEW op \in Ops, task[op] \in Alive, TaskStep(op)
  PROVE  ~busy' \/ (task'[op] \in Alive /\ Rank(op)' < Rank(op))
<1> USE DEF Rank, Ranked, TaskAt, Alive
<1>1. task \in Tables
  BY DEF HttpInv, Shape
<1>2. CASE TaskFetches(op)
  BY <1>1, <1>2, TasksDoes DEF TaskFetches, TaskStages
<1>3. CASE TaskPrepares(op)
  <2>1. task[op] = "fetch" /\ (task'[op] = "apply" \/ task'[op] = "abort")
    BY <1>1, <1>3, TasksDoes, FailureStepsDo DEF TaskPrepares, TaskStages
  <2> QED
    BY <2>1
<1>4. CASE TaskApplies(op)
  <2>1. task[op] = "apply" /\ task'[op] = "stream"
    BY <1>1, <1>4, TasksDoes DEF TaskApplies, TaskStages
  <2> QED
    BY <2>1 DEF StreamRank
<1>5. CASE TaskStreams(op)
  <2>1. task[op] = "stream" /\ task'[op] = "stream" /\ Writer!Held(Http, op) /\ Writer!Held(Http, op)'
    BY <1>5 DEF TaskStreams, Writer!Report, Writer!Held
  <2>2. /\ record \in Records
        /\ \/ record.phase = "prepared" /\ record'.phase = "receiving"
           \/ record.phase = "receiving" /\ record'.phase = "verified"
           \/ record.phase = "verified" /\ record'.phase = "committing"
    BY <1>5 DEF TaskStreams, Writer!Report, Writer!Follows, HttpInv, WriterInv, Records, Writer!Phases
  <2> QED
    BY <2>1, <2>2 DEF StreamRank
<1>6. CASE TaskCommits(op)
  <2>1. task[op] = "stream" /\ task'[op] = "publish"
    BY <1>1, <1>6, TasksDoes DEF TaskCommits, TaskStages
  <2> QED
    BY <2>1 DEF StreamRank
<1>7. CASE TaskFails(op)
  <2>1. task[op] \in {"wait", "fetch", "stream"} /\ task'[op] = "abort"
    BY <1>1, <1>7, TasksDoes, FailureStepsDo DEF TaskFails, TaskStages
  <2> QED
    BY <2>1 DEF StreamRank
<1>8. CASE TaskAborts(op) \/ TaskReports(op) \/ TaskMarks(op) \/ TaskPublishes(op)
  <2>1. \/ task[op] = "abort" /\ task'[op] = "report"
        \/ task[op] = "report" /\ task'[op] = "mark"
        \/ task[op] \in {"mark", "publish"} /\ task'[op] = "free"
    BY <1>1, <1>8, TasksDoes, FailureStepsDo DEF TaskAborts, TaskReports, TaskMarks, TaskPublishes, TaskStages
  <2> QED
    BY <2>1
<1>9. CASE TaskFrees(op)
  BY <1>9 DEF TaskFrees
<1> QED
  BY <1>2, <1>3, <1>4, <1>5, <1>6, <1>7, <1>8, <1>9 DEF TaskStep

\* A task takes its steps only while it lives.
LEMMA OnlyTheLiveMove ==
  ASSUME NEW op \in Ops, TaskStep(op)
  PROVE  task[op] \in Alive
BY DEF TaskStep, TaskFetches, TaskPrepares, TaskApplies, TaskStreams, TaskCommits, TaskFails, TaskAborts,
       TaskReports, TaskMarks, TaskPublishes, TaskFrees, TaskAt, Alive

\* Nobody else reports of an operation that holds the writer, or lets it hold
\* it again.
Alone(op) ==
  /\ task'[op] = task[op]
  /\ Writer!Held(Http, op)' => Writer!Held(Http, op) /\ record' = record

LEMMA AloneKeepsRank ==
  ASSUME NEW op \in Ops, task[op] \in Alive, Alone(op)
  PROVE  task'[op] \in Alive /\ Rank(op)' <= Rank(op)
<1>1. CASE task[op] = "stream"
  <2>1. task'[op] = "stream"
    BY <1>1 DEF Alone
  <2>2. StreamRank(op) \in 4..7 /\ StreamRank(op)' \in 4..7
    BY DEF StreamRank
  <2>3. CASE Writer!Held(Http, op)'
    <3>1. Writer!Held(Http, op) /\ record' = record
      BY <2>3 DEF Alone
    <3>2. StreamRank(op)' = StreamRank(op)
      BY <2>3, <3>1 DEF StreamRank
    <3> QED
      BY <1>1, <2>1, <2>2, <3>2 DEF Rank, TaskAt, Alive
  <2>4. CASE ~(Writer!Held(Http, op)')
    <3>1. StreamRank(op)' = 4
      BY <2>4 DEF StreamRank
    <3> QED
      BY <1>1, <2>1, <2>2, <3>1 DEF Rank, TaskAt, Alive
  <2> QED
    BY <2>3, <2>4
<1>2. CASE task[op] # "stream"
  BY <1>2 DEF Alone, Rank, TaskAt, Ranked, Alive
<1> QED
  BY <1>1, <1>2

LEMMA StartsLeaveTasksAlone ==
  ASSUME HttpInv, NEW op \in Ops, task[op] \in Alive, NEW s \in Starters, TakeBusy(s) \/ StartStep(s)
  PROVE  Alone(op)
<1>1. CASE CreateTask(s)
  <2>1. start[s].at \in Using
    BY <1>1 DEF CreateTask, StartAt, Using
  <2> QED
    BY <2>1 DEF HttpInv, OneUser
<1>2. CASE ClaimWriter(s)
  <2>1. op \in claimed
    BY DEF HttpInv, Presented, Alive
  <2>2. task' = task
    BY <1>2 DEF ClaimWriter
  <2>3. Writer!Held(Http, op)' => holder' = holder /\ record' = record
    BY <1>2, <2>1 DEF ClaimWriter, Writer!Claim, Writer!Held, writer
  <2> QED
    BY <2>2, <2>3 DEF Alone, Writer!Held
<1>3. CASE UnmadeAbort(s)
  <2>1. task' = task
    BY <1>3 DEF UnmadeAbort
  <2>2. Writer!Held(Http, op)' => holder' = holder /\ record' = record
    BY <1>3, Constants DEF UnmadeAbort, AbortWriter, Writer!Release, Writer!Held, Writer!Free, writer
  <2> QED
    BY <2>1, <2>2 DEF Alone, Writer!Held
<1>4. CASE TakeBusy(s) \/ GiveUp(s) \/ PublishWaiting(s) \/ Unmade(s) \/ UnmadeReport(s) \/ Return(s)
  <2>1. task' = task /\ UNCHANGED writer
    BY <1>4 DEF TakeBusy, GiveUp, PublishWaiting, Unmade, UnmadeReport, Return
  <2> QED
    BY <2>1 DEF Alone, Writer!Held, writer
<1> QED
  BY <1>1, <1>2, <1>3, <1>4 DEF StartStep

\* What any step does to the rank.
LEMMA TaskStays ==
  ASSUME HttpInv, NEW op \in Ops, task[op] \in Alive, [Next]_vars
  PROVE  ~busy' \/ (task'[op] \in Alive /\ Rank(op)' <= Rank(op))
<1>1. ASSUME NEW s \in Starters, TakeBusy(s) \/ StartStep(s) PROVE Alone(op)
  BY <1>1, StartsLeaveTasksAlone
<1>2. ASSUME NEW other \in Ops, TaskStep(other) PROVE ~busy' \/ (task'[op] \in Alive /\ Rank(op)' <= Rank(op))
  <2>1. other = op
    BY <1>2, OnlyTheLiveMove DEF HttpInv, OneUser
  <2>2. Rank(op) \in 0..10
    BY RankIs
  <2>3. ASSUME task'[op] \in Alive PROVE Rank(op)' \in 0..10
    BY <2>3 DEF Rank, StreamRank, Ranked, Alive, TaskAt
  <2> QED
    BY <1>2, <2>1, <2>2, <2>3, TaskAdvances
<1>3. CASE TakeCode \/ HandlerMarks \/ HandlerParses \/ HandlerRefused \/ ReadSource \/ ReadBackend
           \/ CodeStep \/ UNCHANGED vars \/ \E r \in Readers : Rotate(r)
  <2>1. task' = task /\ UNCHANGED writer
    BY <1>3 DEF TakeCode, HandlerMarks, HandlerParses, HandlerRefused, ReadSource, ReadBackend, CodeStep, vars,
      writer, Rotate
  <2>2. Alone(op)
    BY <2>1 DEF Alone, Writer!Held, writer
  <2> QED
    BY <2>2, AloneKeepsRank
<1>4. CASE OtherStep
  <2>1. PICK other \in Ops \ MintedHere :
          Writer!Claim(Other, other, "prepared") \/ Writer!Release(Other, other, "aborted") \/ Writer!Refuse(other)
    BY <1>4 DEF OtherStep
  <2>2. ~(Writer!Held(Http, op)')
    BY <2>1, Constants DEF Writer!Claim, Writer!Release, Writer!Refuse, Writer!Held, Writer!Free
  <2>3. task' = task
    BY <1>4 DEF OtherStep
  <2>4. Alone(op)
    BY <2>2, <2>3 DEF Alone
  <2> QED
    BY <2>4, AloneKeepsRank
<1>5. CASE Restart
  BY <1>5 DEF Restart
<1> QED
  BY <1>1, <1>2, <1>3, <1>4, <1>5, AloneKeepsRank DEF Next

\* The same for a start: it ends with a task, or gives s_http_busy back.
SomeTask == \E op \in Ops : task[op] \in Alive
StartRanked == [claim |-> 3, publish |-> 2, create |-> 1, unmade |-> 0, giveup |-> 0]
StartRank(s) == StartRanked[start[s].at]
StartWithin(s, k) == ~busy \/ SomeTask \/ (start[s].at \in Using /\ StartRank(s) < k)

LEMMA StartRankIs ==
  ASSUME NEW s \in Starters, start[s].at \in Using
  PROVE  StartRank(s) \in 0..3
BY DEF StartRank, StartRanked, Using

LEMMA StartAdvances ==
  ASSUME HttpInv, NEW s \in Starters, start[s].at \in Using, StartStep(s)
  PROVE  ~busy' \/ SomeTask' \/ (start'[s].at \in Using /\ StartRank(s)' < StartRank(s))
<1> USE DEF StartRank, StartRanked, StartAt, Using
<1>1. start \in StartRecords /\ task \in Tables
  BY DEF HttpInv, Shape
<1>2. CASE ClaimWriter(s)
  <2>1. start[s].at = "claim" /\ start'[s].at \in {"publish", "giveup"}
    BY <1>1, <1>2, StartsDoes DEF ClaimWriter, StartStages
  <2> QED
    BY <2>1
<1>3. CASE PublishWaiting(s)
  <2>1. start[s].at = "publish" /\ start'[s].at = "create"
    BY <1>1, <1>3, StartsDoes DEF PublishWaiting, StartStages
  <2> QED
    BY <2>1
<1>4. CASE CreateTask(s)
  <2>1. start[s].op \in Ops /\ start[s].at = "create"
    BY <1>4 DEF CreateTask, HttpInv, Shape, WithOp, Presenting
  <2>2. CASE Tasks(start[s].op, "wait")
    <3>1. task'[start[s].op] = "wait"
      BY <1>1, <2>1, <2>2, TasksDoes DEF TaskStages
    <3> QED
      BY <2>1, <3>1 DEF SomeTask, Alive
  <2>3. CASE Starts(s, "unmade")
    <3>1. start'[s].at = "unmade"
      BY <1>1, <2>3, StartsDoes DEF StartStages
    <3> QED
      BY <2>1, <3>1
  <2> QED
    BY <1>4, <2>2, <2>3 DEF CreateTask
<1>5. CASE GiveUp(s) \/ Unmade(s)
  BY <1>5 DEF GiveUp, Unmade
<1>6. ~UnmadeAbort(s) /\ ~UnmadeReport(s) /\ ~Return(s)
  BY DEF UnmadeAbort, UnmadeReport, Return
<1> QED
  BY <1>2, <1>3, <1>4, <1>5, <1>6 DEF StartStep

LEMMA StartStays ==
  ASSUME HttpInv, NEW s \in Starters, start[s].at \in Using, [Next]_vars
  PROVE  ~busy' \/ SomeTask' \/ (start'[s].at \in Using /\ StartRank(s)' <= StartRank(s))
<1>1. start \in StartRecords
  BY DEF HttpInv, Shape
<1>2. ASSUME start'[s] = start[s] PROVE start'[s].at \in Using /\ StartRank(s)' <= StartRank(s)
  <2>1. StartRank(s)' = StartRank(s)
    BY <1>2 DEF StartRank
  <2> QED
    BY <1>2, <2>1, StartRankIs
<1>3. ASSUME NEW t \in Starters, TakeBusy(t) \/ StartStep(t), ~StartStep(s) PROVE start'[s] = start[s]
  <2>1. CASE t = s
    BY <1>3, <2>1 DEF TakeBusy, StartAt, Using
  <2>2. CASE t # s
    <3>1. \/ \E stage : Starts(t, stage)
          \/ \E op : start' = [start EXCEPT ![t] = [at |-> "claim", op |-> op]]
      BY <1>3 DEF StartStep, TakeBusy, ClaimWriter, GiveUp, PublishWaiting, CreateTask, Unmade, UnmadeAbort,
                  UnmadeReport, Return
    <3> QED
      BY <1>1, <2>2, <3>1 DEF Starts, StartRecords
  <2> QED
    BY <2>1, <2>2
<1>4. CASE StartStep(s)
  <2>1. StartRank(s) \in 0..3
    BY StartRankIs
  <2>2. ASSUME start'[s].at \in Using PROVE StartRank(s)' \in 0..3
    BY <2>2 DEF StartRank, StartRanked, Using
  <2> QED
    BY <1>4, <2>1, <2>2, StartAdvances
<1>5. ASSUME NEW op \in Ops, TaskStep(op) PROVE start' = start
  BY <1>5 DEF TaskStep, TaskFetches, TaskPrepares, TaskApplies, TaskStreams, TaskCommits, TaskFails, TaskAborts,
       TaskReports, TaskMarks, TaskPublishes, TaskFrees
<1>6. CASE TakeCode \/ HandlerMarks \/ HandlerParses \/ HandlerRefused \/ ReadSource \/ ReadBackend
  <2>1. start[Trigger].at \notin Using /\ (start' = start \/ \E stage : Starts(Trigger, stage))
    BY <1>6 DEF TakeCode, HandlerMarks, HandlerParses, HandlerRefused, ReadSource, ReadBackend, StartAt, Using
  <2>2. s # Trigger
    BY <2>1
  <2>3. start'[s] = start[s]
    BY <1>1, <2>1, <2>2 DEF Starts, StartRecords
  <2> QED
    BY <1>2, <2>3
<1>7. CASE CodeStep \/ OtherStep \/ UNCHANGED vars \/ \E r \in Readers : Rotate(r)
  <2>1. start' = start
    BY <1>7 DEF CodeStep, OtherStep, vars, Rotate
  <2> QED
    BY <1>2, <2>1
<1>8. CASE Restart
  BY <1>8 DEF Restart
<1>9. ASSUME NEW t \in Starters, TakeBusy(t) \/ StartStep(t), ~StartStep(s)
      PROVE  start'[s].at \in Using /\ StartRank(s)' <= StartRank(s)
  BY <1>2, <1>3, <1>9
<1> QED
  BY <1>2, <1>4, <1>5, <1>6, <1>7, <1>8, <1>9 DEF Next

\* s_http_busy is never left behind: a start or a task has it.
BusyHasUser == busy => SomeTask \/ \E s \in Starters : start[s].at \in Using

LEMMA BusyHasUserKept == HttpInv /\ BusyHasUser /\ [Next]_vars => BusyHasUser'
<1> SUFFICES ASSUME HttpInv, BusyHasUser, [Next]_vars, busy'
             PROVE  SomeTask' \/ \E s \in Starters : start'[s].at \in Using
  BY DEF BusyHasUser
<1>1. CASE SomeTask
  BY <1>1, TaskStays DEF SomeTask
<1>2. ASSUME NEW s \in Starters, start[s].at \in Using
      PROVE  SomeTask' \/ \E t \in Starters : start'[t].at \in Using
  BY <1>2, StartStays
<1>3. CASE ~busy
  <2>1. PICK s \in Starters : TakeBusy(s)
    <3>1. ~(TakeCode \/ HandlerMarks \/ HandlerParses \/ HandlerRefused \/ ReadSource \/ ReadBackend)
      BY <1>3 DEF TakeCode, HandlerMarks, HandlerParses, HandlerRefused, ReadSource, ReadBackend
    <3>2. \A s \in Starters : ~StartStep(s)
      BY <1>3 DEF StartStep, ClaimWriter, GiveUp, PublishWaiting, CreateTask, Unmade, UnmadeAbort, UnmadeReport,
                  Return
    <3>3. \A op \in Ops : ~TaskStep(op)
      BY <1>3 DEF TaskStep, TaskFetches, TaskPrepares, TaskApplies, TaskStreams, TaskCommits, TaskFails,
                  TaskAborts, TaskReports, TaskMarks, TaskPublishes, TaskFrees
    <3>4. ~CodeStep /\ ~OtherStep /\ ~Restart /\ ~UNCHANGED vars /\ \A r \in Readers : ~Rotate(r)
      BY <1>3 DEF CodeStep, OtherStep, Restart, vars, Rotate
    <3> QED
      BY <3>1, <3>2, <3>3, <3>4 DEF Next
  <2>2. start'[s].at = "claim"
    BY <1>3, <2>1 DEF TakeBusy, NotBusy, HttpInv, Shape, StartRecords
  <2> QED
    BY <2>2 DEF Using
<1> QED
  BY <1>1, <1>2, <1>3 DEF BusyHasUser

\* Whoever holds the writer for HTTP is before its abort, in its task or in the
\* start that could not create one, or has committed.
HttpGivesBack ==
  holder.owner = Http =>
    \/ record.phase = "committed"
    \/ task[holder.op] \in {"wait", "fetch", "apply", "stream", "abort"}
    \/ \E s \in Starters :
         start[s].op = holder.op /\ start[s].at \in {"publish", "create", "unmade", "abort"}

LEMMA HolderIs ==
  ASSUME HttpInv, holder.owner = Http
  PROVE  holder.op \in Ops /\ Writer!Held(Http, holder.op)
<1>1. WriterInv /\ holder # Writer!Free
  BY Constants DEF HttpInv, Writer!Free
<1> QED
  BY <1>1 DEF WriterInv, Holders, Writer!Held

\* A step that leaves the writer alone, and of the stages no more than those of
\* other operations.
LEMMA StillGivenBack ==
  ASSUME HttpInv, HttpGivesBack, holder' = holder, record' = record,
         holder.owner = Http /\ task[holder.op] \in {"wait", "fetch", "apply", "stream", "abort"} =>
           task'[holder.op] \in {"wait", "fetch", "apply", "stream", "abort"},
         \A s \in Starters : start[s].at \in {"publish", "create", "unmade", "abort"} => start'[s] = start[s]
  PROVE  HttpGivesBack'
BY DEF HttpGivesBack

LEMMA StartGivesBack ==
  ASSUME HttpInv, HttpGivesBack, NEW s \in Starters, TakeBusy(s) \/ StartStep(s)
  PROVE  HttpGivesBack'
<1> DEFINE Held == {"publish", "create", "unmade", "abort"}
<1>1. start \in StartRecords /\ task \in Tables
  BY DEF HttpInv, Shape
<1>2. CASE ClaimWriter(s)
  <2>1. CASE Starts(s, "giveup")
    <3>1. start[s].at = "claim" /\ holder' = holder /\ record' = record /\ task' = task
      BY <1>1, <1>2, <2>1, StartsDoes DEF ClaimWriter, StartAt, StartStages, writer
    <3>2. \A t \in Starters : start[t].at \in Held => start'[t] = start[t]
      BY <1>1, <2>1, <3>1, StartsDoes DEF StartStages
    <3> QED
      BY <3>1, <3>2, StillGivenBack
  <2>2. CASE Starts(s, "publish") /\ Writer!Claim(Http, start[s].op, "idle")
    <3>1. start'[s].at = "publish" /\ start'[s].op = start[s].op /\ holder'.op = start[s].op
      BY <1>1, <2>2, StartsDoes DEF StartStages, Writer!Claim
    <3> QED
      BY <3>1 DEF HttpGivesBack
  <2> QED
    BY <1>1, <1>2, <2>1, <2>2, StartsDoes DEF ClaimWriter, StartStages
<1>3. CASE UnmadeAbort(s)
  <2>1. start[s].op \in Ops /\ task' = task /\ Starts(s, "report") /\ AbortWriter(start[s].op)
    BY <1>3 DEF UnmadeAbort, StartAt, HttpInv, Shape, WithOp, Presenting
  <2>2. CASE Writer!Held(Http, start[s].op)
    <3>1. holder' = Writer!Free
      BY <2>1, <2>2 DEF AbortWriter, Writer!Release
    <3> QED
      BY <3>1, Constants DEF HttpGivesBack, Writer!Free
  <2>3. CASE ~Writer!Held(Http, start[s].op)
    <3>1. holder' = holder /\ record' = record
      BY <2>1, <2>3 DEF AbortWriter, writer
    <3>2. holder.owner = Http => start[s].op # holder.op
      BY <2>3, HolderIs
    <3>3. \A t \in Starters \ {s} : start'[t] = start[t]
      BY <1>1, <2>1, StartsDoes DEF StartStages
    <3> QED
      BY <2>1, <3>1, <3>2, <3>3 DEF HttpGivesBack
  <2> QED
    BY <2>2, <2>3
<1>4. CASE PublishWaiting(s) \/ Unmade(s)
  <2>1. PICK stage \in {"create", "abort"} : Starts(s, stage) /\ holder' = holder /\ record' = record /\ task' = task
    BY <1>4 DEF PublishWaiting, Unmade, writer
  <2>2. /\ start'[s].at \in Held /\ start'[s].op = start[s].op
        /\ \A t \in Starters \ {s} : start'[t] = start[t]
    BY <1>1, <2>1, StartsDoes DEF StartStages
  <2> QED
    BY <2>1, <2>2 DEF HttpGivesBack
<1>5. CASE CreateTask(s)
  <2>1. start[s].op \in Ops /\ holder' = holder /\ record' = record
    BY <1>5 DEF CreateTask, StartAt, HttpInv, Shape, WithOp, Presenting, writer
  <2>2. CASE Tasks(start[s].op, "wait") /\ Starts(s, "started")
    <3>1. /\ task'[start[s].op] = "wait"
          /\ \A op \in Ops \ {start[s].op} : task'[op] = task[op]
          /\ \A t \in Starters \ {s} : start'[t] = start[t]
      BY <1>1, <2>1, <2>2, TasksDoes, StartsDoes DEF TaskStages, StartStages
    <3> QED
      BY <2>1, <3>1, HolderIs DEF HttpGivesBack
  <2>3. CASE Starts(s, "unmade") /\ UNCHANGED task
    <3>1. start'[s].at = "unmade" /\ start'[s].op = start[s].op /\ \A t \in Starters \ {s} : start'[t] = start[t]
      BY <1>1, <2>3, StartsDoes DEF StartStages
    <3> QED
      BY <2>1, <2>3, <3>1 DEF HttpGivesBack
  <2> QED
    BY <1>5, <2>2, <2>3 DEF CreateTask
<1>6. CASE TakeBusy(s) \/ GiveUp(s) \/ UnmadeReport(s) \/ Return(s)
  <2>1. start[s].at \notin Held /\ holder' = holder /\ record' = record /\ task' = task
    BY <1>6 DEF TakeBusy, GiveUp, UnmadeReport, Return, StartAt, writer
  <2>2. \A t \in Starters \ {s} : start'[t] = start[t]
    BY <1>1, <1>6 DEF TakeBusy, GiveUp, UnmadeReport, Return, Starts, StartRecords
  <2> QED
    BY <2>1, <2>2, StillGivenBack
<1> QED
  BY <1>2, <1>3, <1>4, <1>5, <1>6 DEF StartStep

LEMMA TaskGivesBack ==
  ASSUME HttpInv, HttpGivesBack, NEW op \in Ops, TaskStep(op)
  PROVE  HttpGivesBack'
<1> DEFINE Held == {"wait", "fetch", "apply", "stream", "abort"}
<1>1. task \in Tables
  BY DEF HttpInv, Shape
<1>2. CASE TaskAborts(op)
  <2>1. start' = start /\ Tasks(op, "report") /\ AbortWriter(op)
    BY <1>2, FailureStepsDo DEF TaskAborts
  <2>2. CASE Writer!Held(Http, op)
    <3>1. holder' = Writer!Free
      BY <2>1, <2>2 DEF AbortWriter, Writer!Release
    <3> QED
      BY <3>1, Constants DEF HttpGivesBack, Writer!Free
  <2>3. CASE ~Writer!Held(Http, op)
    <3>1. holder' = holder /\ record' = record
      BY <2>1, <2>3 DEF AbortWriter, writer
    <3>2. holder.owner = Http => holder.op \in Ops \ {op}
      BY <2>3, HolderIs
    <3>3. \A other \in Ops \ {op} : task'[other] = task[other]
      BY <1>1, <2>1, TasksDoes DEF TaskStages
    <3> QED
      BY <2>1, <3>1, <3>2, <3>3 DEF HttpGivesBack
  <2> QED
    BY <2>2, <2>3
<1>3. CASE TaskPrepares(op)
  <2>1. start' = start
    BY <1>3 DEF TaskPrepares
  <2>2. CASE Writer!Release(Http, op, "refused")
    BY <2>2, Constants DEF Writer!Release, Writer!Free, HttpGivesBack
  <2>3. CASE Writer!Report(Http, op, "prepared") /\ Tasks(op, "apply")
    <3>1. task'[op] = "apply"
      BY <1>1, <2>3, TasksDoes DEF TaskStages
    <3>2. holder'.op = op
      BY <2>3 DEF Writer!Report, Writer!Held
    <3> QED
      BY <3>1, <3>2 DEF HttpGivesBack
  <2> QED
    BY <1>3, <2>2, <2>3 DEF TaskPrepares
<1>4. CASE TaskStreams(op)
  <2>1. task[op] = "stream" /\ task' = task /\ holder'.op = op
    BY <1>4 DEF TaskStreams, TaskAt, Writer!Report, Writer!Held
  <2> QED
    BY <2>1 DEF HttpGivesBack
<1>5. CASE TaskCommits(op)
  <2>1. record'.phase = "committed"
    BY <1>5, ReportDoes DEF TaskCommits, HttpInv
  <2> QED
    BY <2>1 DEF HttpGivesBack
<1>6. CASE TaskFetches(op) \/ TaskApplies(op) \/ TaskFails(op)
  <2>1. PICK stage \in {"fetch", "stream", "abort"} :
          Tasks(op, stage) /\ holder' = holder /\ record' = record /\ start' = start
    BY <1>6, FailureStepsDo DEF TaskFetches, TaskApplies, TaskFails, writer
  <2>2. task'[op] \in Held /\ \A other \in Ops \ {op} : task'[other] = task[other]
    BY <1>1, <2>1, TasksDoes DEF TaskStages
  <2> QED
    BY <2>1, <2>2, HolderIs, StillGivenBack
<1>7. CASE TaskReports(op) \/ TaskMarks(op) \/ TaskPublishes(op) \/ TaskFrees(op)
  <2>1. task[op] \notin Held /\ holder' = holder /\ record' = record /\ start' = start
    BY <1>7 DEF TaskReports, TaskMarks, TaskPublishes, TaskFrees, TaskAt, writer
  <2>2. \A other \in Ops \ {op} : task'[other] = task[other]
    BY <1>1, <1>7 DEF TaskReports, TaskMarks, TaskPublishes, TaskFrees, Tasks, Tables
  <2> QED
    BY <2>1, <2>2, HolderIs, StillGivenBack
<1> QED
  BY <1>2, <1>3, <1>4, <1>5, <1>6, <1>7 DEF TaskStep

LEMMA GivesBackKept == HttpInv /\ HttpGivesBack /\ [Next]_vars => HttpGivesBack'
<1> SUFFICES ASSUME HttpInv, HttpGivesBack, [Next]_vars PROVE HttpGivesBack'
  OBVIOUS
<1>1. CASE TakeCode \/ HandlerMarks \/ HandlerParses \/ HandlerRefused \/ ReadSource \/ ReadBackend
  <2>1. /\ start[Trigger].at \notin {"publish", "create", "unmade", "abort"}
        /\ start' = start \/ \E stage : Starts(Trigger, stage)
        /\ holder' = holder /\ record' = record /\ task' = task
    BY <1>1 DEF TakeCode, HandlerMarks, HandlerParses, HandlerRefused, ReadSource, ReadBackend, StartAt, writer
  <2>2. \A s \in Starters \ {Trigger} : start'[s] = start[s]
    BY <2>1 DEF Starts, HttpInv, Shape, StartRecords
  <2> QED
    BY <2>1, <2>2, StillGivenBack
<1>2. ASSUME NEW s \in Starters, TakeBusy(s) \/ StartStep(s) PROVE HttpGivesBack'
  BY <1>2, StartGivesBack
<1>3. ASSUME NEW op \in Ops, TaskStep(op) PROVE HttpGivesBack'
  BY <1>3, TaskGivesBack
<1>4. CASE CodeStep \/ UNCHANGED vars \/ \E r \in Readers : Rotate(r)
  BY <1>4, StillGivenBack DEF CodeStep, vars, Rotate, writer
<1>5. CASE OtherStep
  <2>1. task' = task /\ start' = start /\ holder'.owner # Http
    BY <1>5, Constants DEF OtherStep, Writer!Claim, Writer!Release, Writer!Refuse, Writer!Free
  <2> QED
    BY <2>1 DEF HttpGivesBack
<1>6. CASE Restart
  BY <1>6, Constants DEF Restart, Writer!Reset, Writer!Free, HttpGivesBack
<1> QED
  BY <1>1, <1>2, <1>3, <1>4, <1>5, <1>6 DEF Next

\* No path of the HTTP source, a task that cannot be created and a refused manifest
\* included, leaves the flash writer with an operation nobody will end.
THEOREM HttpReturnsWriter == Spec => []HttpGivesBack
<1>1. Init => HttpGivesBack
  BY Constants DEF Init, Writer!Init, Writer!Free, HttpGivesBack
<1> QED
  BY <1>1, GivesBackKept, HttpInvariance, PTL DEF Spec

\* What the liveness argument starts from.
Live == [][Next]_vars /\ []HttpInv /\ []BusyHasUser /\ []HttpGivesBack /\ []HttpReady /\ []Fairness

\* A task that lives takes its next step, and has a smaller rank, or is over.
TaskDescends(op, k, m) == Within(op, k) ~> Within(op, m)

LEMMA TaskGoesOn ==
  ASSUME NEW op \in Ops, NEW m \in Nat, NEW k, k = m + 1
  PROVE  Live => TaskDescends(op, k, m)
<1> DEFINE At == busy /\ task[op] \in Alive /\ Rank(op) = m
<1>1. Within(op, k) => At \/ Within(op, m)
  BY RankIs DEF Within
<1>2. HttpInv /\ At /\ [Next]_vars => At' \/ Within(op, m)'
  <2> SUFFICES ASSUME HttpInv, At, [Next]_vars PROVE At' \/ Within(op, m)'
    OBVIOUS
  <2>1. ~busy' \/ (task'[op] \in Alive /\ Rank(op)' <= Rank(op))
    BY TaskStays
  <2>2. ASSUME task'[op] \in Alive PROVE Rank(op)' \in 0..10
    BY <2>2 DEF Rank, StreamRank, Ranked, Alive, TaskAt
  <2>3. busy' \in BOOLEAN
    BY NextKeeps DEF HttpInv, Shape
  <2> QED
    BY <2>1, <2>2, <2>3 DEF Within
<1>3. HttpInv /\ At /\ <<TaskStep(op)>>_vars => Within(op, m)'
  <2> SUFFICES ASSUME HttpInv, At, TaskStep(op) PROVE Within(op, m)'
    OBVIOUS
  <2> QED
    BY TaskAdvances DEF Within
<1>4. HttpReady /\ At => ENABLED <<TaskStep(op)>>_vars
  BY DEF HttpReady, TaskReady
<1>5. Fairness => TaskRuns(op)
  BY DEF Fairness
<1> QED
  BY <1>1, <1>2, <1>3, <1>4, <1>5, PTL DEF Live, TaskRuns, TaskDescends

\* The same for a start.
StartDescends(s, k, m) == StartWithin(s, k) ~> StartWithin(s, m)

LEMMA SomeTaskStays == HttpInv /\ SomeTask /\ [Next]_vars => ~busy' \/ SomeTask'
BY TaskStays DEF SomeTask

LEMMA StartGoesOn ==
  ASSUME NEW s \in Starters, NEW m \in Nat, NEW k, k = m + 1
  PROVE  Live => StartDescends(s, k, m)
<1> DEFINE At == busy /\ start[s].at \in Using /\ StartRank(s) = m
<1>1. StartWithin(s, k) => At \/ StartWithin(s, m)
  BY StartRankIs DEF StartWithin
<1>2. HttpInv /\ At /\ [Next]_vars => At' \/ StartWithin(s, m)'
  <2> SUFFICES ASSUME HttpInv, At, [Next]_vars PROVE At' \/ StartWithin(s, m)'
    OBVIOUS
  <2>1. ~busy' \/ SomeTask' \/ (start'[s].at \in Using /\ StartRank(s)' <= StartRank(s))
    BY StartStays
  <2>2. ASSUME start'[s].at \in Using PROVE StartRank(s)' \in 0..3
    BY <2>2 DEF StartRank, StartRanked, Using
  <2>3. busy' \in BOOLEAN
    BY NextKeeps DEF HttpInv, Shape
  <2> QED
    BY <2>1, <2>2, <2>3 DEF StartWithin
<1>3. HttpInv /\ At /\ <<StartStep(s)>>_vars => StartWithin(s, m)'
  <2> SUFFICES ASSUME HttpInv, At, StartStep(s) PROVE StartWithin(s, m)'
    OBVIOUS
  <2> QED
    BY StartAdvances DEF StartWithin
<1>4. HttpReady /\ At => ENABLED <<StartStep(s)>>_vars
  BY DEF HttpReady, StartReady
<1>5. Fairness => StartRuns(s)
  BY DEF Fairness
<1> QED
  BY <1>1, <1>2, <1>3, <1>4, <1>5, PTL DEF Live, StartRuns, StartDescends

\* From its first step to its last, a task gives s_http_busy back.
TaskEnds(op) == task[op] \in Alive ~> ~busy

LEMMA TaskReturnsBusy == ASSUME NEW op \in Ops PROVE Live => TaskEnds(op)
<1>0. Live => TaskDescends(op, 1, 0)
  BY TaskGoesOn
<1>1. Live => TaskDescends(op, 2, 1)
  BY TaskGoesOn
<1>2. Live => TaskDescends(op, 3, 2)
  BY TaskGoesOn
<1>3. Live => TaskDescends(op, 4, 3)
  BY TaskGoesOn
<1>4. Live => TaskDescends(op, 5, 4)
  BY TaskGoesOn
<1>5. Live => TaskDescends(op, 6, 5)
  BY TaskGoesOn
<1>6. Live => TaskDescends(op, 7, 6)
  BY TaskGoesOn
<1>7. Live => TaskDescends(op, 8, 7)
  BY TaskGoesOn
<1>8. Live => TaskDescends(op, 9, 8)
  BY TaskGoesOn
<1>9. Live => TaskDescends(op, 10, 9)
  BY TaskGoesOn
<1>10. Live => TaskDescends(op, 11, 10)
  BY TaskGoesOn
<1>11. task[op] \in Alive => Within(op, 11)
  BY RankIs DEF Within
<1>12. Within(op, 0) => ~busy
  BY RankIs DEF Within
<1> QED
  BY <1>0, <1>1, <1>2, <1>3, <1>4, <1>5, <1>6, <1>7, <1>8, <1>9, <1>10, <1>11, <1>12, PTL DEF TaskDescends, TaskEnds

StartEnds(s) == start[s].at \in Using ~> (~busy \/ SomeTask)

LEMMA StartReturnsBusy == ASSUME NEW s \in Starters PROVE Live => StartEnds(s)
<1>0. Live => StartDescends(s, 1, 0)
  BY StartGoesOn
<1>1. Live => StartDescends(s, 2, 1)
  BY StartGoesOn
<1>2. Live => StartDescends(s, 3, 2)
  BY StartGoesOn
<1>3. Live => StartDescends(s, 4, 3)
  BY StartGoesOn
<1>4. start[s].at \in Using => StartWithin(s, 4)
  BY StartRankIs DEF StartWithin
<1>5. StartWithin(s, 0) => ~busy \/ SomeTask
  BY StartRankIs DEF StartWithin
<1> QED
  BY <1>0, <1>1, <1>2, <1>3, <1>4, <1>5, PTL DEF StartDescends, StartEnds

LEMMA LiveIs == Spec /\ []Fairness /\ []HttpReady => []Live
<1>1. Init => BusyHasUser
  BY DEF Init, BusyHasUser
<1> QED
  BY <1>1, BusyHasUserKept, HttpInvariance, HttpReturnsWriter, PTL DEF Spec, Live

LEMMA UsersReturnBusy == []Live => BusyEnds
<1>1. ASSUME []Live PROVE SomeTask => <>~busy
  <2>1. ASSUME NEW op \in Ops PROVE task[op] \in Alive => <>~busy
    <3>1. Live => TaskEnds(op)
      BY TaskReturnsBusy
    <3> QED
      BY <1>1, <3>1, PTL DEF TaskEnds
  <2> QED
    BY <2>1 DEF SomeTask
<1>2. ASSUME []Live PROVE (\E s \in Starters : start[s].at \in Using) => <>(~busy \/ SomeTask)
  <2>1. ASSUME NEW s \in Starters PROVE start[s].at \in Using => <>(~busy \/ SomeTask)
    <3>1. Live => StartEnds(s)
      BY StartReturnsBusy
    <3> QED
      BY <1>2, <3>1, PTL DEF StartEnds
  <2> QED
    BY <2>1
<1>3. BusyHasUser => (busy => SomeTask \/ \E s \in Starters : start[s].at \in Using)
  BY DEF BusyHasUser
<1> QED
  BY <1>1, <1>2, <1>3, PTL DEF Live, BusyEnds

\* s_http_busy is given back, whoever took it and whatever fails on the way:
\* the network, a download, the manifest, the writer, the task that cannot be
\* created.  HttpReady, that every step on the way can be taken, is the only
\* thing about ENABLED the proof asks for.
THEOREM BusyIsGivenBack == Spec /\ []Fairness /\ []HttpReady => BusyEnds
BY LiveIs, UsersReturnBusy, PTL

\* A start that failed to create its task, between giving s_http_busy back and
\* giving the writer back.
Aborting(s, op) == start[s].at = "abort" /\ start[s].op = op
AbortEnds(s, op) == Aborting(s, op) ~> ~Holds(op)

LEMMA StartAborts ==
  ASSUME NEW s \in Starters, NEW op \in Ops
  PROVE  Live => AbortEnds(s, op)
<1> DEFINE At == Aborting(s, op) /\ Holds(op)
<1>1. HttpInv /\ At /\ StartStep(s) => (~Holds(op))'
  BY Constants DEF Aborting, StartStep, ClaimWriter, GiveUp, PublishWaiting, CreateTask, Unmade, UnmadeAbort,
       UnmadeReport, Return, StartAt, AbortWriter, Holds, Writer!Held, Writer!Release, Writer!Free
<1>2. HttpInv /\ At /\ [Next]_vars => At' \/ (~Holds(op))'
  <2> SUFFICES ASSUME HttpInv, At, [Next]_vars, Holds(op)' PROVE start'[s] = start[s]
    BY DEF Aborting
  <2>1. start \in StartRecords /\ ~StartStep(s) /\ ~TakeBusy(s)
    BY <1>1 DEF HttpInv, Shape, TakeBusy, StartAt, Aborting
  <2>2. ASSUME NEW t \in Starters, TakeBusy(t) \/ StartStep(t) PROVE start'[s] = start[s]
    BY <2>1, <2>2 DEF StartStep, TakeBusy, ClaimWriter, GiveUp, PublishWaiting, CreateTask, Unmade, UnmadeAbort,
                      UnmadeReport, Return, Starts, StartRecords
  <2>3. ASSUME NEW other \in Ops, TaskStep(other) PROVE start' = start
    BY <2>3 DEF TaskStep, TaskFetches, TaskPrepares, TaskApplies, TaskStreams, TaskCommits, TaskFails, TaskAborts,
                TaskReports, TaskMarks, TaskPublishes, TaskFrees
  <2>4. CASE TakeCode \/ HandlerMarks \/ HandlerParses \/ HandlerRefused \/ ReadSource \/ ReadBackend
    <3>1. s # Trigger /\ (start' = start \/ \E stage : Starts(Trigger, stage))
      BY <2>4 DEF TakeCode, HandlerMarks, HandlerParses, HandlerRefused, ReadSource, ReadBackend, StartAt,
                  Aborting
    <3> QED
      BY <2>1, <3>1 DEF Starts, StartRecords
  <2>5. CASE CodeStep \/ OtherStep \/ UNCHANGED vars \/ \E r \in Readers : Rotate(r)
    BY <2>5 DEF CodeStep, OtherStep, vars, Rotate
  <2>6. ~Restart
    BY Constants DEF Restart, Writer!Reset, Writer!Free, Holds, Writer!Held
  <2> QED
    BY <2>2, <2>3, <2>4, <2>5, <2>6 DEF Next
<1>3. HttpInv /\ At /\ <<StartStep(s)>>_vars => (~Holds(op))'
  BY <1>1
<1>4. HttpReady /\ At => ENABLED <<StartStep(s)>>_vars
  BY DEF HttpReady, StartReady, Aborting
<1>5. Fairness => StartRuns(s)
  BY DEF Fairness
<1> QED
  BY <1>2, <1>3, <1>4, <1>5, PTL DEF Live, StartRuns, AbortEnds

\* Every HTTP update gives the flash writer back, or commits: when s_http_busy is
\* free again, only the start that could not create its task still has to.
THEOREM HttpWriterComesBack == Spec /\ []Fairness /\ []HttpReady => HttpWriterReturns
<1>1. ASSUME NEW op \in Ops, []Live PROVE Holds(op) ~> ~Holds(op)
  <2>1. HttpInv /\ HttpGivesBack /\ Holds(op) => busy \/ \E s \in Starters : Aborting(s, op)
    BY DEF HttpInv, HttpGivesBack, OneUser, Using, Alive, Holds, Writer!Held, Aborting
  <2>2. (\E s \in Starters : Aborting(s, op)) => <>~Holds(op)
    <3>1. ASSUME NEW s \in Starters PROVE Aborting(s, op) => <>~Holds(op)
      <4>1. Live => AbortEnds(s, op)
        BY StartAborts
      <4> QED
        BY <1>1, <4>1, PTL DEF AbortEnds
    <3> QED
      BY <3>1
  <2>3. []Live => BusyEnds
    BY UsersReturnBusy
  <2> QED
    BY <1>1, <2>1, <2>2, <2>3, PTL DEF Live, BusyEnds
<1>2. []Live => HttpWriterReturns
  BY <1>1 DEF HttpWriterReturns
<1> QED
  BY <1>2, LiveIs, PTL

----------------------------------------------------------------------------
(* A lock ends: its interval passes, a rotation of the display that is under *)
(* way ends, and the next poll of the display rotates the code.            *)

Locked == code.state = "locked"

LEMMA LockedMoves ==
  ASSUME HttpInv, Locked, [Next]_vars, Locked'
  PROVE  /\ page /\ page' /\ code.timer \in {"ahead", "due"} /\ code'.timer \in {code.timer, "due"}
         /\ rotation'[Display] \in {rotation[Display], "none"}
<1> DEFINE Kept == code' = code /\ rotation' = rotation /\ page' = page
<1> DEFINE Moves == code'.timer \in {code.timer, "due"} /\ rotation'[Display] \in {rotation[Display], "none"}
                      /\ page' = page
<1>1. /\ page = TRUE /\ code.timer \in {"ahead", "due"} /\ code \in CodeRecords /\ rotation \in Rotations
  BY DEF Locked, HttpInv, CodeInv, CodeOnPage, CodeTypeOK, CodeRecords, Rotations, Timers
<1>2. Kept => Moves
  OBVIOUS
<1> SUFFICES Moves
  BY <1>1
<1> USE DEF Locked
<1>3. ~TakeCode
  BY <1>1 DEF TakeCode, Accept, Reject
<1>4. CASE HandlerMarks \/ HandlerParses \/ HandlerRefused \/ ReadSource \/ ReadBackend
  BY <1>2, <1>4 DEF HandlerMarks, HandlerParses, HandlerRefused, ReadSource, ReadBackend, MarkRunning,
                    MarkStartFailed, Startable, codeVars
<1>5. ASSUME NEW s \in Starters, TakeBusy(s) \/ StartStep(s) PROVE Moves
  BY <1>2, <1>5 DEF TakeBusy, StartStep, ClaimWriter, GiveUp, PublishWaiting, CreateTask, Unmade, UnmadeAbort,
                    UnmadeReport, Return, codeVars
<1>6. ASSUME NEW op \in Ops, TaskStep(op) PROVE Moves
  BY <1>2, <1>6 DEF TaskStep, TaskFetches, TaskPrepares, TaskApplies, TaskStreams, TaskCommits, TaskFails,
                    TaskAborts, TaskReports, TaskMarks, MarkUpdateFailed, TaskPublishes, TaskFrees, codeVars
<1>7. \A r \in Readers : ~Rotate(r)
  BY DEF Rotate, RotateClaim
<1>8. CASE CodeStep
  <2>1. CASE Elapse
    BY <1>1, <2>1 DEF Elapse, CodeRecords
  <2>2. ASSUME NEW r \in Readers, RotatePublish(r) PROVE Moves
    BY <1>1, <2>2, Constants DEF RotatePublish, MayPublish, Rotations
  <2>3. ~OpenPage
    BY <1>1 DEF OpenPage
  <2>4. ~ClosePage /\ ~GenerateAgain
    BY DEF ClosePage, Cancel, GenerateAgain, Generate, InUse, Disabled, NewCode
  <2> QED
    BY <1>8, <2>1, <2>2, <2>3, <2>4 DEF CodeStep
<1>9. CASE OtherStep \/ UNCHANGED vars
  BY <1>2, <1>9 DEF OtherStep, vars, codeVars
<1>10. ~Restart
  BY DEF Restart, Disabled
<1> QED
  BY <1>1, <1>3, <1>4, <1>5, <1>6, <1>7, <1>8, <1>9, <1>10 DEF Next

\* The lock of the display code ends with its interval, while the page stays
\* open and the display polls: no order of rotations, requests and presses
\* keeps the device refusing codes.
THEOREM LockIsLifted == FairSpec /\ []HttpReady => LockLifts
<1> DEFINE Ahead == Locked /\ code.timer = "ahead"
           Rotating == Locked /\ code.timer = "due" /\ ~DisplayFree
           Due == Locked /\ IsDue /\ page /\ DisplayFree
<1> USE DEF DisplayFree, IsDue
<1>1. HttpInv /\ Locked => Ahead \/ Rotating \/ Due
  BY DEF Locked, HttpInv, CodeInv, CodeOnPage, CodeTypeOK, Timers
<1>2. HttpInv /\ Ahead /\ [Next]_vars => (Ahead \/ Rotating \/ Due \/ ~Locked)'
  BY LockedMoves DEF Locked
<1>3. HttpInv /\ Ahead /\ <<Elapses>>_vars => (Rotating \/ Due \/ ~Locked)'
  BY DEF Elapses, Elapse, Locked, HttpInv, CodeInv, CodeOnPage, CodeTypeOK
<1>4. HttpInv /\ Rotating /\ [Next]_vars => (Rotating \/ Due \/ ~Locked)'
  BY LockedMoves DEF Locked
<1>5. HttpInv /\ Rotating /\ <<PublishesCode(Display)>>_vars => (Due \/ ~Locked)'
  BY Constants DEF PublishesCode, RotatePublish, MayPublish, Locked, HttpInv, CodeInv, CodeOnPage, CodeTypeOK
<1>6. HttpInv /\ Due /\ [Next]_vars => (Due \/ ~Locked)'
  BY LockedMoves DEF Locked
<1>7. HttpInv /\ Due /\ <<Rotate(Display)>>_vars => ~Locked'
  BY DEF Rotate, RotateClaim, Locked
<1>8. /\ HttpReady /\ Ahead => ENABLED <<Elapses>>_vars
      /\ HttpReady /\ Rotating => ENABLED <<PublishesCode(Display)>>_vars
      /\ HttpReady /\ Due => ENABLED <<Rotate(Display)>>_vars
  BY DEF HttpReady, CodeReady
<1>9. Fairness => RotationEnds(Display) /\ DisplayPolls /\ IntervalsEnd
  BY Constants DEF Fairness
<1>10. (Locked <=> code.state = "locked") /\ (~Locked <=> code.state # "locked")
  BY DEF Locked
<1> HIDE DEF Ahead, Rotating, Due
<1> QED
  BY <1>1, <1>2, <1>3, <1>4, <1>5, <1>6, <1>7, <1>8, <1>9, <1>10, HttpInvariance, PTL
     DEF FairSpec, Spec, RotationEnds, DisplayPolls, IntervalsEnd, LockLifts

----------------------------------------------------------------------------
(* The guide says that no code is valid while an update runs, and of the   *)
(* update that the last accepted code started that is nearly so: what      *)
(* breaks it is another update whose task fails and marks a code it was    *)
(* not started by.                                                         *)

\* The update of the last accepted code is marked failed by its own task only.
MarksItsOwn == \A op \in Ops : TaskMarks(op) /\ code.state = "running" => op = start[Trigger].op

\* Where an update may still be marked failed, and where the httpd task has an
\* accepted code on its way to one.
Working == Alive \ {"free"}
Handling == WithOp \cup {"parse", "start", "refused"}
Own == start[Trigger].op

\* The code is running from the request that took it to the end of its update.
CodeFollows ==
  /\ start[Trigger].at = "mark" => code.state = "consumed"
  /\ start[Trigger].at \in Handling => code.state = "running"
  /\ Own \in Ops /\ start[Trigger].at \in Handling \cup {"mark"} => task[Own] \notin Working
  /\ Own \in Ops /\ task[Own] \in Working => code.state = "running"
  /\ \A s \in Starters \ {Trigger} : start[s].op \in Ops => start[s].op # Own

\* Steps that leave a code in use alone, and move neither the handler nor the
\* task of its operation into these stages.
LEMMA FollowKept ==
  ASSUME CodeFollows, code.state \in {"consumed", "running"} => code'.state = code.state,
         \A s \in Starters : start'[s].op = start[s].op,
         start'[Trigger].at \in Handling => start[Trigger].at \in Handling,
         start'[Trigger].at = "mark" => start[Trigger].at = "mark",
         \A op \in Ops : task'[op] \in Working => task[op] \in Working
  PROVE  CodeFollows'
BY Constants DEF CodeFollows, Own

\* The httpd task takes the code, and leads it on or lets it go.
LEMMA HandlerFollows ==
  ASSUME HttpInv, CodeFollows, TakeCode \/ HandlerMarks \/ HandlerParses \/ HandlerRefused
  PROVE  CodeFollows'
<1>1. start \in StartRecords /\ code \in CodeRecords /\ task' = task
  BY DEF HttpInv, Shape, CodeInv, CodeTypeOK, CodeRecords, TakeCode, HandlerMarks, HandlerParses,
         HandlerRefused
<1> USE Constants DEF StartAt, Own, Handling, WithOp, Presenting
<1>2. CASE TakeCode
  <2>1. CASE Accept(Trigger) /\ Starts(Trigger, "mark")
    <3>1. /\ start'[Trigger].at = "mark" /\ \A s \in Starters : start'[s].op = start[s].op
          /\ code.state = "available" /\ code'.state = "consumed"
      BY <1>1, <2>1, StartsDoes DEF Accept, CodeRecords, StartStages
    <3> QED
      BY <1>1, <3>1 DEF CodeFollows
  <2>2. CASE Reject(Trigger) /\ UNCHANGED start
    BY <1>1, <2>2, FollowKept DEF Reject
  <2> QED
    BY <1>2, <2>1, <2>2 DEF TakeCode
<1>3. CASE HandlerMarks
  <2>1. start[Trigger].at = "mark" /\ MarkRunning /\ Starts(Trigger, "parse")
    BY <1>3 DEF HandlerMarks
  <2>2. /\ start'[Trigger].at = "parse" /\ \A s \in Starters : start'[s].op = start[s].op
    BY <1>1, <2>1, StartsDoes DEF StartStages
  <2>3. code'.state = "running"
    BY <1>1, <2>1 DEF MarkRunning, CodeFollows, CodeRecords
  <2> QED
    BY <1>1, <2>1, <2>2, <2>3 DEF CodeFollows
<1>4. CASE HandlerParses
  <2>1. /\ start'[Trigger].at \in {"start", "refused"} /\ start[Trigger].at = "parse"
        /\ \A s \in Starters : start'[s].op = start[s].op
        /\ code' = code
    BY <1>1, <1>4, StartsDoes DEF HandlerParses, StartStages, codeVars
  <2> QED
    BY <1>1, <2>1, FollowKept
<1>5. CASE HandlerRefused
  <2>1. /\ start'[Trigger].at = "idle" /\ start[Trigger].at = "refused"
        /\ \A s \in Starters : start'[s].op = start[s].op
    BY <1>1, <1>5, StartsDoes DEF HandlerRefused, StartStages
  <2> QED
    BY <1>1, <2>1 DEF CodeFollows
<1> QED
  BY <1>2, <1>3, <1>4, <1>5

\* A start mints an operation of its own, and its task begins with it.
LEMMA StartFollows ==
  ASSUME HttpInv, CodeFollows, NEW s \in Starters, TakeBusy(s) \/ StartStep(s)
  PROVE  CodeFollows'
<1>1. start \in StartRecords /\ task \in Tables /\ code' = code
  BY DEF HttpInv, Shape, TakeBusy, StartStep, ClaimWriter, GiveUp, PublishWaiting, CreateTask,
         Unmade, UnmadeAbort, UnmadeReport, Return, codeVars
<1> USE Constants DEF StartAt, Own, Handling, WithOp, Presenting
<1>2. CASE TakeBusy(s)
  <2>1. CASE \E op \in Ops \ (claimed \cup MintedHere) :
               start' = [start EXCEPT ![s] = [at |-> "claim", op |-> op]]
    <3>1. PICK op \in Ops \ (claimed \cup MintedHere) :
                 start' = [start EXCEPT ![s] = [at |-> "claim", op |-> op]]
      BY <2>1
    <3>2. /\ start'[s].at = "claim" /\ start'[s].op = op /\ task' = task
          /\ \A t \in Starters \ {s} : start'[t] = start[t] /\ start[t].op # op
          /\ task[op] = "none" /\ (s = Trigger => start[s].at = "start")
      BY <1>1, <1>2, <3>1 DEF StartRecords, MintedHere, HttpInv, Presented, TakeBusy
    <3> QED
      BY <1>1, <3>1, <3>2 DEF CodeFollows, Working, Alive
  <2>2. CASE Starts(s, "refused")
    <3>1. /\ \A t \in Starters : start'[t].op = start[t].op
          /\ start'[s].at = "refused" /\ \A t \in Starters \ {s} : start'[t] = start[t]
          /\ task' = task /\ (s = Trigger => start[s].at = "start")
      BY <1>1, <1>2, <2>2, StartsDoes DEF TakeBusy, StartStages
    <3> QED
      BY <1>1, <3>1, FollowKept
  <2> QED
    BY <1>2, <2>1, <2>2 DEF TakeBusy
<1>3. CASE CreateTask(s) /\ Tasks(start[s].op, "wait")
  <2>1. start[s].at = "create" /\ start[s].op \in Ops /\ Starts(s, "started")
    <3>1. start[s].at = "create" /\ start[s].op \in Ops
      BY <1>3 DEF CreateTask, HttpInv, Shape
    <3>2. task[start[s].op] # "wait"
      BY <3>1 DEF HttpInv, OneUser, Using, Alive
    <3>3. task' # task
      BY <1>1, <1>3, <3>1, <3>2, TasksDoes DEF TaskStages
    <3> QED
      BY <1>3, <3>1, <3>3 DEF CreateTask
  <2>2. /\ start'[s].at = "started" /\ \A t \in Starters : start'[t].op = start[t].op
        /\ \A t \in Starters \ {s} : start'[t] = start[t]
        /\ task'[start[s].op] = "wait"
        /\ \A other \in Ops \ {start[s].op} : task'[other] = task[other]
    BY <1>1, <1>3, <2>1, StartsDoes, TasksDoes DEF StartStages, TaskStages
  <2> QED
    BY <1>1, <2>1, <2>2 DEF CodeFollows
<1>4. CASE StartStep(s) /\ task' = task
  <2>1. \E stage \in StartStages : Starts(s, stage)
               /\ (stage \in Handling => start[s].at \in Handling) /\ stage # "mark"
    BY <1>4 DEF StartStep, ClaimWriter, GiveUp, PublishWaiting, CreateTask, Unmade, UnmadeAbort,
       UnmadeReport, Return, StartStages
  <2>2. /\ \A t \in Starters : start'[t].op = start[t].op
        /\ \A t \in Starters \ {s} : start'[t] = start[t]
        /\ start'[s].at # "mark" /\ (start'[s].at \in Handling => start[s].at \in Handling)
    BY <1>1, <2>1, StartsDoes
  <2> QED
    BY <1>1, <1>4, <2>2, FollowKept
<1> QED
  BY <1>2, <1>3, <1>4
     DEF StartStep, ClaimWriter, GiveUp, PublishWaiting, CreateTask, Unmade, UnmadeAbort,
         UnmadeReport, Return

\* A task leaves the code alone until it marks it, and then it is at its end.
LEMMA TaskFollows ==
  ASSUME HttpInv, CodeFollows, NEW op \in Ops, TaskStep(op),
         TaskMarks(op) /\ code.state = "running" => op = Own
  PROVE  CodeFollows'
<1>1. start' = start /\ task \in Tables
  BY DEF HttpInv, Shape, TaskStep, TaskFetches, TaskPrepares, TaskApplies, TaskStreams, TaskCommits,
         TaskFails, TaskAborts, TaskReports, TaskMarks, TaskPublishes, TaskFrees
<1>2. \E stage \in TaskStages : task' = task \/ (Tasks(op, stage) /\ task[op] \in Working \cup {"free"}
                                                 /\ (task[op] = "free" => stage = "gone"))
  BY FailureStepsDo
     DEF TaskStep, TaskFetches, TaskPrepares, TaskApplies, TaskStreams, TaskCommits, TaskFails,
         TaskAborts, TaskReports, TaskMarks, TaskPublishes, TaskFrees, TaskAt, TaskStages, Working, Alive
<1>3. \A other \in Ops : task'[other] \in Working => task[other] \in Working
  BY <1>1, <1>2, TasksDoes DEF Working, Alive
<1>4. CASE TaskMarks(op)
  <2>1. task[op] = "mark" /\ task'[op] = "free" /\ MarkUpdateFailed
        /\ \A other \in Ops \ {op} : task'[other] = task[other]
    BY <1>1, <1>4, TasksDoes, FailureStepsDo DEF TaskMarks, TaskAt, TaskStages
  <2>2. CASE code.state = "running"
    <3>1. op = Own
      BY <1>4, <2>2
    <3>2. start[Trigger].at \notin Handling \cup {"mark"}
      BY <2>1, <3>1 DEF CodeFollows, Working, Alive
    <3> QED
      BY <1>1, <2>1, <3>1, <3>2 DEF CodeFollows, Own, Working
  <2>3. CASE code.state # "running"
    BY <1>1, <1>3, <2>1, <2>3, FollowKept DEF MarkUpdateFailed
  <2> QED
    BY <2>2, <2>3
<1>5. CASE ~TaskMarks(op)
  <2>1. code' = code
    BY <1>5 DEF TaskStep, TaskFetches, TaskPrepares, TaskApplies, TaskStreams, TaskCommits, TaskFails,
       TaskAborts, TaskReports, TaskPublishes, TaskFrees, codeVars
  <2> QED
    BY <1>1, <1>3, <2>1, FollowKept
<1> QED
  BY <1>4, <1>5

\* Nobody else touches a code in use.
LEMMA OthersFollow ==
  ASSUME HttpInv, CodeFollows,
         ReadSource \/ ReadBackend \/ (\E r \in Readers : Rotate(r)) \/ CodeStep \/ OtherStep
  PROVE  CodeFollows'
<1>1. start \in StartRecords /\ code \in CodeRecords /\ task' = task
  BY DEF HttpInv, Shape, CodeInv, CodeTypeOK, CodeRecords, ReadSource, ReadBackend, Rotate, CodeStep,
         OtherStep
<1>2. CASE ReadSource \/ ReadBackend
  <2>1. /\ code' = code /\ start'[Trigger].at \in {"status", "answer"}
        /\ \A s \in Starters : start'[s].op = start[s].op
    BY <1>1, <1>2, StartsDoes, Constants DEF ReadSource, ReadBackend, codeVars, StartStages
  <2> QED
    BY <1>1, <2>1, FollowKept DEF Handling, WithOp, Presenting
<1>3. CASE (\E r \in Readers : Rotate(r)) \/ CodeStep \/ OtherStep
  <2>1. start' = start
    BY <1>3 DEF Rotate, CodeStep, OtherStep
  <2>2. code.state \in {"consumed", "running"} => code'.state = code.state
    BY <1>1, <1>3
       DEF Rotate, RotateClaim, IsDue, CodeStep, Elapse, OpenPage, ClosePage, GenerateAgain, Generate,
           Cancel, InUse, RotatePublish, MayPublish, OtherStep, codeVars, CodeRecords
  <2> QED
    BY <1>1, <2>1, <2>2, FollowKept
<1> QED
  BY <1>2, <1>3

LEMMA StepFollows ==
  ASSUME HttpInv, CodeFollows, [Next]_vars, [MarksItsOwn]_vars
  PROVE  CodeFollows'
<1>1. ASSUME NEW op \in Ops, TaskStep(op) PROVE CodeFollows'
  <2>1. CASE UNCHANGED vars
    BY <2>1, FollowKept DEF vars
  <2>2. CASE MarksItsOwn
    BY <1>1, <2>2, TaskFollows DEF MarksItsOwn, Own
  <2> QED
    BY <2>1, <2>2
<1>2. CASE Restart
  BY <1>2, Constants
     DEF Restart, CodeFollows, Own, NoStart, NoTask, Handling, WithOp, Presenting, Working, Alive
<1>3. CASE UNCHANGED vars
  BY <1>3, FollowKept DEF vars
<1> QED
  BY <1>1, <1>2, <1>3, HandlerFollows, StartFollows, OthersFollow DEF Next

\* mark_update_failed asks only whether a code is running, not whose: that is
\* the one reason why a code can be shown while the update it would have to
\* wait for runs.  If no other task marks it, there is none, whatever the
\* other updates, the display and the requests do.
THEOREM NoCodeUnlessMarked == Spec /\ [][MarksItsOwn]_vars => []NoCodeWhileRunning
<1>1. Init => CodeFollows
  BY Constants
     DEF Init, CodeFollows, Own, NoStart, NoTask, Handling, WithOp, Presenting, Working, Alive
<1>2. HttpInv /\ CodeFollows /\ [Next]_vars /\ [MarksItsOwn]_vars => CodeFollows'
  BY StepFollows
<1>3. CodeFollows => NoCodeWhileRunning
  BY DEF CodeFollows, NoCodeWhileRunning, Own, Working, Alive
<1> QED
  BY <1>1, <1>2, <1>3, HttpInvariance, PTL DEF Spec
=============================================================================
