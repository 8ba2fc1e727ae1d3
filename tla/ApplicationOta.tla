--------------------------- MODULE ApplicationOta ---------------------------
(***************************************************************************)
(* An application OTA from end to end: the host that submits it once and   *)
(* waits (tools/mosaico_cli/gateway.py, run_ota), the operation record of  *)
(* the Gateway, the writer of ESP-Iris in the Recovery, and the choice of  *)
(* a slot and the metadata the Recovery keeps for it                       *)
(* (firmware/recovery/main/recovery_ota_support.c).  Gateway and writer    *)
(* are external: they appear as the host and the Recovery use them.        *)
(***************************************************************************)
EXTENDS Naturals, FiniteSets

CONSTANTS
  Slots, NoSlot,        \* the ota_N partitions; what 0 stands for in the metadata
  Old, New,             \* an application that works, the one to install
  MaxRuns,              \* bound: runs of the installer
  MaxFaults, MaxLosses  \* bounds: metadata or flash that fails; power losses

ASSUME OtaAssumption ==
  /\ Slots # {} /\ {NoSlot, "recovery"} \cap Slots = {} /\ Old # New
  /\ {Old, New} \cap {"blank", "torn"} = {}
  /\ MaxRuns \in Nat /\ MaxFaults \in Nat /\ MaxLosses \in Nat

VARIABLES
  slot,      \* what each slot holds
  boot,      \* the slot otadata selects
  up,        \* what the device runs: the Recovery or a slot
  meta,      \* the namespace iris_ota_demo: last_good and target
  job,       \* the writer: where it stands, the slot, last_good as it was read,
             \* and the run of the installer it works for
  host,      \* where the installer stands, or what it reported
  due,       \* the timeout of this run is over
  operation, \* the status the Gateway keeps
  runs, faults, losses,
  guessed,   \* history: reported as a failure without knowing of an end
  good,      \* history: what the application that reported itself healthy was
  misread    \* history: last_good could not be read since

device == <<slot, boot, up, meta, job, good, misread>>
installer == <<host, due, guessed>>
bounds == <<runs, faults, losses>>
vars == <<device, installer, operation, bounds>>

Images == {Old, New}
Nobody == [at |-> "none", slot |-> NoSlot, read |-> NoSlot, run |-> 0]
Writing == {"prepare", "last_good", "target", "erase", "write", "select"}
Reports == {"succeeded", "failed", "unknown", "unavailable"}
Open == {"requested", "running"}
Closed == {"succeeded", "failed", "cancelled", "outcome_unknown"}

Init ==
  /\ \E s \in Slots :
       slot = [t \in Slots |-> IF t = s THEN Old ELSE "blank"] /\ boot = s
       /\ \E known \in {s, NoSlot} : meta = [last_good |-> known, target |-> NoSlot]
  /\ up = "recovery" /\ job = Nobody /\ host = "idle" /\ operation = "none"
  /\ runs = 0 /\ faults = 0 /\ losses = 0
  /\ good = IF meta.last_good = NoSlot THEN "blank" ELSE Old
  /\ due = FALSE /\ guessed = FALSE /\ misread = FALSE

Fault == faults < MaxFaults /\ faults' = faults + 1 /\ UNCHANGED <<runs, losses>>
JobAt(stage) == job.at = stage
JobGoes(stage) == job' = [job EXCEPT !.at = stage]
HostAt(stage) == host = stage

----------------------------------------------------------------------------
(* The Recovery.                                                           *)

\* recovery_read_u32: a read that fails looks like a key that is not there.
Reads(value) ==
  /\ \/ value = meta.last_good /\ UNCHANGED bounds
     \/ meta.last_good # NoSlot /\ value = NoSlot /\ Fault
  /\ misread' = (misread \/ value # meta.last_good)

\* esp_iris_platform_select_ota_target: the slot the writer proposes, unless it
\* holds the last good application and there is another.  And a version that
\* takes what is proposed, and one that returns the slot it should avoid.
Proposed(default, last_good) == default
Avoided(default, last_good) == IF default = last_good THEN default ELSE last_good
Target(default, last_good) ==
  IF default # last_good \/ Slots = {last_good} THEN default
  ELSE CHOOSE s \in Slots : s # last_good

\* The writer begins, from the Recovery alone.
SelectTarget ==
  /\ JobAt("begin") /\ up = "recovery"
  /\ \E default \in Slots, value \in Slots \cup {NoSlot} :
       /\ Reads(value)
       /\ job' = [job EXCEPT !.at = "prepare", !.slot = Target(default, value)]
  /\ UNCHANGED <<slot, boot, up, meta, installer, operation, good>>

\* esp_iris_platform_prepare_ota: last_good is read, and recovery_write writes
\* it back, then the target.
Prepare ==
  /\ JobAt("prepare")
  /\ \E value \in Slots \cup {NoSlot} :
       /\ Reads(value)
       /\ job' = [job EXCEPT !.at = "last_good", !.read = value]
  /\ UNCHANGED <<slot, boot, up, meta, installer, operation, good>>

RecoveryWrite ==
  /\ \/ JobAt("last_good") /\ meta' = [meta EXCEPT !.last_good = job.read] /\ JobGoes("target")
     \/ JobAt("target") /\ meta' = [meta EXCEPT !.target = job.slot] /\ JobGoes("erase")
  /\ UNCHANGED <<slot, boot, up, installer, operation, bounds, good, misread>>

----------------------------------------------------------------------------
(* The writer of ESP-Iris, its device and its application.                 *)

WriterStep ==
  /\ \/ /\ JobAt("erase") /\ slot' = [slot EXCEPT ![job.slot] = "torn"] /\ JobGoes("write")
        /\ UNCHANGED boot
     \/ /\ JobAt("write") /\ slot' = [slot EXCEPT ![job.slot] = New] /\ JobGoes("select")
        /\ UNCHANGED boot
     \/ JobAt("select") /\ boot' = job.slot /\ JobGoes("restart") /\ UNCHANGED slot
  /\ UNCHANGED <<up, meta, installer, operation, bounds, good, misread>>

\* The bootloader takes the slot selected when it holds an application.
Boots == IF slot[boot] \in Images THEN boot ELSE "recovery"

JobRestarts ==
  /\ JobAt("restart") /\ up' = Boots /\ JobGoes("verify")
  /\ UNCHANGED <<slot, boot, meta, installer, operation, bounds, good, misread>>

\* The application reports itself healthy.
Healthy ==
  /\ up \in Slots /\ meta.last_good # up
  /\ meta' = [meta EXCEPT !.last_good = up] /\ good' = slot[up] /\ misread' = FALSE
  /\ UNCHANGED <<slot, boot, up, job, installer, operation, bounds>>

\* The operator or an RPC brings the retained Recovery up again.
EnterRecovery ==
  /\ up # "recovery" /\ job.at \in {"none", "verify"} /\ up' = "recovery"
  /\ UNCHANGED <<slot, boot, meta, job, installer, operation, bounds, good, misread>>

JobFails ==
  /\ job.at \in {"begin"} \cup Writing /\ Fault /\ job' = Nobody
  /\ operation' = IF operation = "running" THEN "failed" ELSE operation
  /\ UNCHANGED <<slot, boot, up, meta, installer, good, misread>>

PowerLoss ==
  /\ losses < MaxLosses /\ losses' = losses + 1
  /\ up' = Boots /\ job' = Nobody
  /\ UNCHANGED <<slot, boot, meta, installer, operation, runs, faults, good, misread>>

----------------------------------------------------------------------------
(* The Gateway.                                                            *)

\* A request reaches the Recovery while the installer waits for its answer, or
\* after it gave up; or it comes to nothing.
Accept ==
  /\ operation = "requested" /\ operation' = "running"
  /\ JobAt("none") /\ up = "recovery" /\ job' = [Nobody EXCEPT !.at = "begin", !.run = runs]
  /\ UNCHANGED <<slot, boot, up, meta, installer, bounds, good, misread>>

Refuse ==
  /\ operation = "requested" /\ operation' = "cancelled"
  /\ UNCHANGED <<device, installer, bounds>>

\* It knows the end from the device, or that it lost it on the way.
Conclude ==
  /\ operation = "running"
  /\ \/ /\ JobAt("verify") /\ up = job.slot /\ slot[up] = New
        /\ operation' = "succeeded" /\ job' = Nobody
     \/ JobAt("verify") /\ up = "recovery" /\ operation' = "failed" /\ job' = Nobody
     \/ operation' = "outcome_unknown" /\ UNCHANGED job
     \/ JobAt("none") /\ operation' = "failed" /\ UNCHANGED job
  /\ UNCHANGED <<slot, boot, up, meta, installer, bounds, good, misread>>

\* Nobody follows a job whose outcome is unknown.
Forsake ==
  /\ operation # "running" /\ JobAt("verify") /\ job' = Nobody
  /\ UNCHANGED <<slot, boot, up, meta, installer, operation, bounds, good, misread>>

----------------------------------------------------------------------------
(* run_ota and _wait_gateway_operation.                                    *)

HostSays(report, guess) ==
  host' = report /\ guessed' = guess /\ UNCHANGED <<device, due, operation, bounds>>

\* A run, by hand; another one when the record of the one before is closed,
\* whether or not its job is over.
Submit ==
  /\ \/ HostAt("idle")
     \/ host \in Reports /\ operation \notin Open
  /\ runs < MaxRuns /\ runs' = runs + 1 /\ up = "recovery"
  /\ host' = "submit" /\ due' = FALSE /\ guessed' = FALSE /\ operation' = "requested"
  /\ UNCHANGED <<device, faults, losses>>

\* The timeout of the run passes while it waits; and a version that does not
\* look at it between two polls.
Waiting == host \in {"submit", "poll"}
Deadline ==
  /\ Waiting /\ ~due /\ due' = TRUE
  /\ UNCHANGED <<device, host, guessed, operation, bounds>>
LateNever == FALSE
Late == due

\* What the installer reports when the answer does not say how the operation
\* stands, or none comes in time.  And a version that calls it a failure.
SilenceFails == "failed"
Silence == "unknown"

\* What a status means: nothing yet while the operation goes on.  And a version
\* that takes every end but a failure for a success.
Ended(status) == status \notin Open
MeaningLoose(status) == IF status = "failed" THEN "failed" ELSE "succeeded"
Meaning(status) == IF status = "succeeded" THEN "succeeded" ELSE "failed"

\* A status that was polled, outcome_unknown among them, is a success or a
\* failure.
Concludes == HostSays(Meaning(operation), operation = "outcome_unknown")

\* The command that submits is answered with the operation as it stands; or it
\* fails and prints a status, whichever it is; or it does not say how the
\* operation stands.
Submitted ==
  /\ HostAt("submit")
  /\ \/ operation = "outcome_unknown" /\ HostSays(Silence, FALSE)
     \/ operation # "outcome_unknown" /\ Ended(operation) /\ Concludes
     \/ ~Ended(operation) /\ HostSays("poll", FALSE)

CommandFails ==
  /\ HostAt("submit") /\ operation # "outcome_unknown"
  /\ HostSays("failed", operation \in Open)

Unanswered == HostAt("submit") /\ HostSays(Silence, FALSE)

\* A request for the status fails; its answer is no JSON, which is a failure
\* too; or it has no status.
PollFails ==
  /\ HostAt("poll")
  /\ HostSays("unavailable", FALSE) \/ HostSays("failed", TRUE) \/ HostSays(Silence, FALSE)

\* What ends the wait in any case: the timeout of the command that submits, the
\* end of the operation, or the timeout between two polls.
TimedOut == HostAt("submit") /\ due /\ HostSays(Silence, FALSE)
PollEnds == HostAt("poll") /\ Ended(operation) /\ Concludes
PollLate == HostAt("poll") /\ ~Ended(operation) /\ Late /\ HostSays(Silence, FALSE)

HostEnds == TimedOut \/ PollEnds \/ PollLate
HostWaits == Submitted \/ CommandFails \/ Unanswered \/ PollFails \/ HostEnds

----------------------------------------------------------------------------
JobStep == SelectTarget \/ Prepare \/ RecoveryWrite \/ WriterStep \/ JobRestarts

Next ==
  \/ JobStep \/ Healthy \/ EnterRecovery \/ JobFails \/ PowerLoss
  \/ Accept \/ Refuse \/ Conclude \/ Forsake
  \/ Submit \/ Deadline \/ HostWaits

\* The clock of the host runs and the installer looks at it: every request it
\* waits for has a limit of its own.  Nothing is asked of the device and the
\* Gateway, nor that a request fails.
Fairness == WF_vars(Deadline) /\ WF_vars(HostEnds)

Spec == Init /\ [][Next]_vars
FairSpec == Spec /\ Fairness

----------------------------------------------------------------------------
\* Types.  The writer holds a slot from its choice to its end.
TypeOK ==
  /\ slot \in [Slots -> Images \cup {"blank", "torn"}] /\ boot \in Slots
  /\ up \in Slots \cup {"recovery"}
  /\ meta \in [last_good : Slots \cup {NoSlot}, target : Slots \cup {NoSlot}]
  /\ job \in [at : {"none", "begin", "restart", "verify"} \cup Writing,
              slot : Slots \cup {NoSlot}, read : Slots \cup {NoSlot}, run : 0..MaxRuns]
  /\ job.at \in Writing => job.slot \in Slots
  /\ host \in Reports \cup {"idle", "submit", "poll"}
  /\ due \in BOOLEAN /\ guessed \in BOOLEAN /\ operation \in {"none"} \cup Open \cup Closed
  /\ runs \in 0..MaxRuns /\ faults \in 0..MaxFaults /\ losses \in 0..MaxLosses
  /\ good \in Images \cup {"blank"} /\ misread \in BOOLEAN

\* With two slots or more, and a last_good that could be read, an OTA spares
\* the last application that reported itself healthy: whatever fails, and
\* wherever the power goes, that slot holds what it held.
LastGoodSpared ==
  Cardinality(Slots) > 1 /\ ~misread /\ meta.last_good # NoSlot => slot[meta.last_good] = good

\* What the installer reports as installed is in the slot that boots.
SuccessIsInstalled == host = "succeeded" => slot[boot] = New

\* What the installer reports as failed is over, so that it may be tried again:
\* neither does the writer work for its request, nor can the Gateway still start
\* it.  Three reports are guesses, and are left out: a polled outcome_unknown, a
\* polled answer that is no JSON, and a command that fails with a status of an
\* operation under way.
FailureIsOver ==
  host = "failed" /\ ~guessed =>
    operation \notin Open /\ (JobAt("none") \/ job.run # runs)

\* The installer comes back, whatever became of the device and the Gateway.
InstallerReturns == Waiting ~> host \in Reports
=============================================================================
