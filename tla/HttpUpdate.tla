----------------------------- MODULE HttpUpdate -----------------------------
(***************************************************************************)
(* The HTTP update source and the trigger server in front of it            *)
(* (factory_http_update.c, factory_http_trigger_server.c), with the        *)
(* display code of UpdateCode and the shared flash writer as UpdateWriter  *)
(* describes it.  The httpd task serves one request at a time; an RPC or   *)
(* the boot configuration may start an update without a code; each update  *)
(* runs in a task of its own; ESP-Iris and the NAND reader use the writer  *)
(* at any time.                                                            *)
(***************************************************************************)
EXTENDS UpdateCode, Sequences

CONSTANTS
  Http, Other,     \* the sources of the writer: HTTP, and the rest
  NoOwner, Ops, NoOp,
  Trigger,         \* the httpd task, one of Readers
  Callers,         \* the other callers of start_http_with_id
  MaxFaults        \* bound: tasks that cannot be created

ASSUME HttpAssumption ==
  /\ Trigger \in Readers \ {Display} /\ Trigger \notin Callers
  /\ Http # Other /\ NoOwner \notin {Http, Other} /\ NoOp \notin Ops
  /\ MaxFaults \in Nat

VARIABLES
  holder, record, claimed,  \* the writer, see UpdateWriter
  busy,     \* s_http_busy
  source,   \* s_http_snapshot, its state and operation id
  start,    \* where each caller stands, and the operation it minted
  task,     \* where the task of each operation stands
  reply,    \* the last answer of the status endpoint
  faults

Writer == INSTANCE UpdateWriter WITH Sources <- {Http, Other}
writer == <<holder, record, claimed>>
vars == <<code, rotation, page, holder, record, claimed, busy, source, start, task,
          reply, faults>>

Starters == Callers \cup {Trigger}
SourceStates == {"idle", "waiting", "fetching", "applying", "committed", "failed"}
StartStages == {"idle", "mark", "parse", "start", "claim", "publish", "create",
                "unmade", "abort", "report", "giveup", "refused", "started", "status",
                "answer"}
TaskStages == {"none", "wait", "fetch", "apply", "stream", "publish", "abort", "report",
               "mark", "free", "gone"}
NoReply == [op |-> NoOp, source |-> "idle", phase |-> "none"]

NoSource == [state |-> "idle", op |-> NoOp]
NoStart == [s \in Starters |-> [at |-> "idle", op |-> NoOp]]
NoTask == [op \in Ops |-> "none"]

Init ==
  /\ CodeInit /\ Writer!Init
  /\ busy = FALSE /\ source = NoSource /\ start = NoStart /\ task = NoTask
  /\ reply = NoReply /\ faults = 0

StartAt(s, stage) == start[s].at = stage
Starts(s, stage) == start' = [start EXCEPT ![s].at = stage]
TaskAt(op, stage) == task[op] = stage
Tasks(op, stage) == task' = [task EXCEPT ![op] = stage]
Publish(state, op) == source' = [state |-> state, op |-> op]

----------------------------------------------------------------------------
(* update_handler, up to and after the start of the update.                *)

\* require_update_code.  A request whose code is wrong, or that comes while
\* no code is shown, is answered 401.
TakeCode ==
  /\ StartAt(Trigger, "idle")
  /\ \/ Accept(Trigger) /\ Starts(Trigger, "mark")
     \/ Reject(Trigger) /\ UNCHANGED start
  /\ UNCHANGED <<writer, busy, source, task, reply, faults>>

HandlerMarks ==
  /\ StartAt(Trigger, "mark")
  /\ MarkRunning /\ Starts(Trigger, "parse")
  /\ UNCHANGED <<page, writer, busy, source, task, reply, faults>>

\* parse_manifest_url, and the checks of the URL in start_http_with_id.
HandlerParses ==
  /\ StartAt(Trigger, "parse")
  /\ Starts(Trigger, "start") \/ Starts(Trigger, "refused")
  /\ UNCHANGED <<codeVars, writer, busy, source, task, reply, faults>>

HandlerRefused ==
  /\ StartAt(Trigger, "refused")
  /\ MarkStartFailed /\ Starts(Trigger, "idle")
  /\ UNCHANGED <<page, writer, busy, source, task, reply, faults>>

\* The answer 202 or a status, or the return to a caller that has no code to
\* account for.
Return(s) ==
  /\ start[s].at \in {"started", "answer"} \/ (s # Trigger /\ StartAt(s, "refused"))
  /\ Starts(s, "idle") /\ reply' = IF s = Trigger THEN NoReply ELSE reply
  /\ UNCHANGED <<codeVars, writer, busy, source, task, faults>>

----------------------------------------------------------------------------
(* factory_system_update_start_http_with_id                                *)

\* The test of s_http_busy, and one that is always passed.
NotBusyEver == TRUE
NotBusy == ~busy

MintedHere == {start[s].op : s \in Starters}

TakeBusy(s) ==
  /\ StartAt(s, IF s = Trigger THEN "start" ELSE "idle")
  /\ IF NotBusy
     THEN /\ busy' = TRUE
          /\ \E op \in Ops \ (claimed \cup MintedHere) :
               start' = [start EXCEPT ![s] = [at |-> "claim", op |-> op]]
     ELSE Starts(s, "refused") /\ UNCHANGED busy
  /\ UNCHANGED <<codeVars, writer, source, task, reply, faults>>

ClaimWriter(s) ==
  /\ StartAt(s, "claim")
  /\ \/ Writer!Claim(Http, start[s].op, "idle") /\ Starts(s, "publish")
     \/ holder # Writer!Free /\ Starts(s, "giveup") /\ UNCHANGED writer
  /\ UNCHANGED <<codeVars, busy, source, task, reply, faults>>

GiveUp(s) ==
  /\ StartAt(s, "giveup")
  /\ busy' = FALSE /\ Starts(s, "refused")
  /\ UNCHANGED <<codeVars, writer, source, task, reply, faults>>

PublishWaiting(s) ==
  /\ StartAt(s, "publish")
  /\ Publish("waiting", start[s].op) /\ Starts(s, "create")
  /\ UNCHANGED <<codeVars, writer, busy, task, reply, faults>>

CreateTask(s) ==
  /\ StartAt(s, "create")
  /\ \/ Tasks(start[s].op, "wait") /\ Starts(s, "started") /\ UNCHANGED faults
     \/ /\ faults < MaxFaults /\ faults' = faults + 1
        /\ Starts(s, "unmade") /\ UNCHANGED task
  /\ UNCHANGED <<codeVars, writer, busy, source, reply>>

\* xTaskCreate failed: the busy flag, the writer and the source status are
\* given back in this order.
Unmade(s) ==
  /\ StartAt(s, "unmade")
  /\ busy' = FALSE /\ Starts(s, "abort")
  /\ UNCHANGED <<codeVars, writer, source, task, reply, faults>>

\* abort_update_owned, for whoever calls it
AbortWriter(op) ==
  IF Writer!Held(Http, op) THEN Writer!Release(Http, op, "aborted") ELSE UNCHANGED writer

UnmadeAbort(s) ==
  /\ StartAt(s, "abort")
  /\ AbortWriter(start[s].op) /\ Starts(s, "report")
  /\ UNCHANGED <<codeVars, busy, source, task, reply, faults>>

UnmadeReport(s) ==
  /\ StartAt(s, "report")
  /\ Publish("failed", start[s].op) /\ Starts(s, "refused")
  /\ UNCHANGED <<codeVars, writer, busy, task, reply, faults>>

----------------------------------------------------------------------------
(* http_update_task                                                        *)

\* What the task does with an error, in order; and two wrong ways.
FailureReportsFirst == <<"report", "abort", "mark", "free">>
FailureForgetsBusy == <<"abort", "report", "mark", "gone">>
FailureSteps == <<"abort", "report", "mark", "free">>
AfterFailure(stage) ==
  FailureSteps[1 + CHOOSE i \in DOMAIN FailureSteps : FailureSteps[i] = stage]

TaskFetches(op) ==
  /\ TaskAt(op, "wait")
  /\ Publish("fetching", op) /\ Tasks(op, "fetch")
  /\ UNCHANGED <<codeVars, writer, busy, start, reply, faults>>

TaskPrepares(op) ==
  /\ TaskAt(op, "fetch")
  /\ \/ Writer!Report(Http, op, "prepared") /\ Tasks(op, "apply")
     \/ Writer!Release(Http, op, "refused") /\ Tasks(op, FailureSteps[1])
  /\ UNCHANGED <<codeVars, busy, source, start, reply, faults>>

TaskApplies(op) ==
  /\ TaskAt(op, "apply")
  /\ Publish("applying", op) /\ Tasks(op, "stream")
  /\ UNCHANGED <<codeVars, writer, busy, start, reply, faults>>

\* The components, as one that is received and verified, and the commit.
TaskStreams(op) ==
  /\ TaskAt(op, "stream")
  /\ \E phase \in {"receiving", "verified", "committing"} :
       /\ record.phase = "prepared" => phase = "receiving"
       /\ record.phase = "verified" => phase = "committing"
       /\ record.phase # phase
       /\ Writer!Report(Http, op, phase)
  /\ UNCHANGED <<codeVars, busy, source, start, task, reply, faults>>

TaskCommits(op) ==
  /\ TaskAt(op, "stream")
  /\ Writer!Report(Http, op, "committed") /\ Tasks(op, "publish")
  /\ UNCHANGED <<codeVars, busy, source, start, reply, faults>>

\* The network does not come, a download breaks off, a call is refused.
TaskFails(op) ==
  /\ task[op] \in {"wait", "fetch", "stream"}
  /\ Tasks(op, FailureSteps[1])
  /\ UNCHANGED <<codeVars, writer, busy, source, start, reply, faults>>

TaskAborts(op) ==
  /\ TaskAt(op, "abort")
  /\ AbortWriter(op) /\ Tasks(op, AfterFailure("abort"))
  /\ UNCHANGED <<codeVars, busy, source, start, reply, faults>>

TaskReports(op) ==
  /\ TaskAt(op, "report")
  /\ Publish("failed", op) /\ Tasks(op, AfterFailure("report"))
  /\ UNCHANGED <<codeVars, writer, busy, start, reply, faults>>

TaskMarks(op) ==
  /\ TaskAt(op, "mark")
  /\ MarkUpdateFailed /\ Tasks(op, AfterFailure("mark"))
  /\ UNCHANGED <<page, writer, busy, source, start, reply, faults>>

TaskPublishes(op) ==
  /\ TaskAt(op, "publish")
  /\ Publish("committed", op) /\ Tasks(op, "free")
  /\ UNCHANGED <<codeVars, writer, busy, start, reply, faults>>

TaskFrees(op) ==
  /\ TaskAt(op, "free")
  /\ busy' = FALSE /\ Tasks(op, "gone")
  /\ UNCHANGED <<codeVars, writer, source, start, reply, faults>>

----------------------------------------------------------------------------
(* status_handler: the source is read first, the backend after it.  An     *)
(* operation that is not the source's is answered 404.                     *)

ReadSource ==
  /\ StartAt(Trigger, "idle") /\ rotation[Trigger] = "none" /\ source.op # NoOp
  /\ reply' = [op |-> source.op, source |-> source.state, phase |-> "none"]
  /\ Starts(Trigger, "status")
  /\ UNCHANGED <<codeVars, writer, busy, source, task, faults>>

\* backend_matches, and a comparison of the operation id left out
IsBackendOwner(op) == record.owner = Http
BackendMatches(op) == record.owner = Http /\ record.op = op

ReadBackend ==
  /\ StartAt(Trigger, "status")
  /\ reply' = IF BackendMatches(reply.op) THEN [reply EXCEPT !.phase = record.phase] ELSE reply
  /\ Starts(Trigger, "answer")
  /\ UNCHANGED <<codeVars, writer, busy, source, task, faults>>

----------------------------------------------------------------------------
(* The rest of the device.                                                 *)

CodeStep ==
  /\ Elapse \/ OpenPage \/ ClosePage \/ GenerateAgain \/ \E r \in Readers : RotatePublish(r)
  /\ UNCHANGED <<writer, busy, source, start, task, reply, faults>>

\* httpd rotates a due code when a request comes, the display every 250 ms.
Rotate(r) ==
  /\ r = Trigger => StartAt(Trigger, "idle")
  /\ RotateClaim(r)
  /\ UNCHANGED <<writer, busy, source, start, task, reply, faults>>

\* The other sources of the writer.  Nothing here looks at the phases they
\* report, so they report none.
OtherStep ==
  /\ \E op \in Ops \ MintedHere :
       Writer!Claim(Other, op, "prepared") \/ Writer!Release(Other, op, "aborted") \/ Writer!Refuse(op)
  /\ UNCHANGED <<codeVars, busy, source, start, task, reply, faults>>

\* restart_task, after a commit; everything here is RAM.
Restart ==
  /\ record.phase = "committed"
  /\ code' = Disabled /\ rotation' = [r \in Readers |-> "none"] /\ page' = FALSE
  /\ Writer!Reset
  /\ busy' = FALSE /\ source' = NoSource /\ start' = NoStart /\ task' = NoTask
  /\ reply' = NoReply /\ UNCHANGED faults

StartStep(s) ==
  \/ ClaimWriter(s) \/ GiveUp(s) \/ PublishWaiting(s) \/ CreateTask(s)
  \/ Unmade(s) \/ UnmadeAbort(s) \/ UnmadeReport(s) \/ Return(s)

TaskStep(op) ==
  \/ TaskFetches(op) \/ TaskPrepares(op) \/ TaskApplies(op) \/ TaskStreams(op)
  \/ TaskCommits(op) \/ TaskFails(op) \/ TaskAborts(op) \/ TaskReports(op)
  \/ TaskMarks(op) \/ TaskPublishes(op) \/ TaskFrees(op)

Next ==
  \/ TakeCode \/ HandlerMarks \/ HandlerParses \/ HandlerRefused
  \/ ReadSource \/ ReadBackend
  \/ \E s \in Starters : TakeBusy(s) \/ StartStep(s)
  \/ \E op \in Ops : TaskStep(op)
  \/ \E r \in Readers : Rotate(r)
  \/ CodeStep \/ OtherStep \/ Restart

Spec == Init /\ [][Next]_vars

\* The tasks run, intervals end, and the display task polls the code every
\* 250 ms while the page is open.  Requests, presses and other sources owe
\* nothing.
Elapses == Elapse /\ UNCHANGED <<writer, busy, source, start, task, reply, faults>>
PublishesCode(r) == RotatePublish(r) /\ UNCHANGED <<writer, busy, source, start, task, reply, faults>>

StartRuns(s) == WF_vars(StartStep(s))
HandlerRuns ==
  WF_vars(HandlerMarks \/ HandlerParses \/ HandlerRefused \/ ReadBackend \/ TakeBusy(Trigger))
TaskRuns(op) == WF_vars(TaskStep(op))
RotationEnds(r) == WF_vars(PublishesCode(r))
DisplayPolls == WF_vars(Rotate(Display))
IntervalsEnd == WF_vars(Elapses)

Fairness ==
  /\ HandlerRuns /\ DisplayPolls /\ IntervalsEnd
  /\ \A s \in Starters : StartRuns(s)
  /\ \A op \in Ops : TaskRuns(op)
  /\ \A r \in Readers : RotationEnds(r)

FairSpec == Spec /\ Fairness

----------------------------------------------------------------------------
(* What the source and the server promise.                                 *)

Alive == {"wait", "fetch", "apply", "stream", "publish", "abort", "report", "mark", "free"}

TypeOK ==
  /\ CodeTypeOK
  /\ busy \in BOOLEAN
  /\ source \in [state : SourceStates, op : Ops \cup {NoOp}]
  /\ start \in [Starters -> [at : StartStages, op : Ops \cup {NoOp}]]
  /\ task \in [Ops -> TaskStages]
  /\ reply \in [op : Ops \cup {NoOp}, source : SourceStates, phase : Writer!Phases \cup {"none"}]
  /\ faults \in 0..MaxFaults

\* A code that was accepted is on its way to an update or has one: the state
\* UPDATE_RUNNING, in which no new code can be made, never outlives the
\* handler and the task that would end it.
RunningHasUpdate ==
  code.state \in {"consumed", "running"} =>
    \/ start[Trigger].at \notin {"idle", "status", "answer"}
    \/ \E op \in Ops : task[op] \in Alive \ {"free"}
    \/ record.phase = "committed"

\* s_http_busy: one HTTP update at a time, from the claim of the writer to the
\* last word of the task, so that none speaks after the next has begun.
OneHttpUpdate ==
  /\ \A op1, op2 \in Ops : task[op1] \in Alive /\ task[op2] \in Alive => op1 = op2
  /\ (\E op \in Ops : task[op] \in Alive) => busy

\* The status of the operation that holds the writer is the one retained:
\* "a later HTTP operation replaces it" (docs/recovery-http-trigger.md:67-68).
HasItsStatus(op) ==
  task[op] \in Alive => source.op = op
LaterReplaces == \A op \in Ops : HasItsStatus(op)

\* The same, as long as every task can be created.
StatusRetained == faults = 0 => LaterReplaces

\* The two halves of a status answer are read at different times; what they
\* say together is still true of the one operation: a source that says it
\* failed or committed comes with a backend that does.
StatusConsistent ==
  reply.phase # "none" =>
    /\ reply.source = "failed" => reply.phase = "failed"
    /\ reply.source = "committed" => reply.phase = "committed"
    /\ reply.source = "applying" => reply.phase # "idle"

\* docs/recovery-http-trigger.md:28, "No code remains valid while an update
\* runs": none while the update that the last accepted code started runs.
NoCodeWhileRunning ==
  /\ start[Trigger].at \in {"idle", "status", "answer"} /\ start[Trigger].op \in Ops
  /\ task[start[Trigger].op] \in {"wait", "fetch", "apply", "stream"}
  => code.state # "available"

\* Every update gives s_http_busy back.
BusyEnds == busy ~> ~busy

\* The flash writer too comes back from every update, unless a commit keeps it
\* until the restart.
Holds(op) == Writer!Held(Http, op) /\ record.phase # "committed"
HttpWriterReturns == \A op \in Ops : Holds(op) ~> ~Holds(op)

\* Wherever a start or a task stands while it has s_http_busy or the writer, it
\* can go on, and so can the display while a lock counts down: nothing waits
\* for what another actor would have to do.
Using == {"claim", "giveup", "publish", "create", "unmade"}
TaskReady(op) == task[op] \in Alive => ENABLED <<TaskStep(op)>>_vars
StartReady(s) == start[s].at \in Using \cup {"abort"} => ENABLED <<StartStep(s)>>_vars
CodeReady ==
  /\ code.timer = "ahead" => ENABLED <<Elapses>>_vars
  /\ ~DisplayFree => ENABLED <<PublishesCode(Display)>>_vars
  /\ IsDue /\ page /\ DisplayFree => ENABLED <<Rotate(Display)>>_vars
HttpReady ==
  (\A op \in Ops : TaskReady(op)) /\ (\A s \in Starters : StartReady(s)) /\ CodeReady
=============================================================================
