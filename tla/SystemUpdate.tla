---------------------------- MODULE SystemUpdate ----------------------------
(***************************************************************************)
(* The System Update backend of the recovery firmware                      *)
(* (firmware/recovery/main/factory_system_update.c): one flash writer,     *)
(* shared by ESP-Iris over USB, the HTTP downloader and the NAND reader.   *)
(* A source claims the writer, has a manifest accepted, streams the        *)
(* components of the plan, and either commits (bootloader, recovery image, *)
(* partition table, boot selection, result record, restart, in this order) *)
(* or aborts.  Power can fail between any two steps.                       *)
(*                                                                         *)
(* Flash is a function from regions to contents.  A region is the offset   *)
(* of a partition, or one of the two raw areas "bootloader" and "ptable";  *)
(* a content is an image (its digest), Blank (erased, or written in part)  *)
(* or Torn (bytes that are no image).  A partition-table image stands for  *)
(* the layout it holds: Table[image][region].                              *)
(***************************************************************************)
EXTENDS Naturals, Sequences

CONSTANTS
  LocalSources,   \* the sources of source_reserve: HTTP and NAND
  Iris,           \* the source behind the callbacks given to ESP-Iris
  NoOwner,        \* FACTORY_SYSTEM_UPDATE_OWNER_NONE
  Ops,            \* 128-bit operation ids, each minted at random and used once
  NoOp,           \* the all-zero operation id
  Bundles,        \* the manifests a source may present
  Images,         \* digests of component images
  BootImages,     \* the images esp_image_verify accepts
  TableImages,    \* the images esp_partition_table_verify accepts
  Table,          \* the layout in a partition-table image
  Regions,        \* flash regions
  FixedRegions,   \* s_immutable_partitions
  FactoryFlash,   \* flash as delivered
  MaxFaults,      \* bound: failures of hardware and allocation calls
  MaxCrashes      \* bound: power losses

Sources == LocalSources \cup {Iris}

Kinds == {"bootloader", "partition_table", "application", "recovery", "data"}
StagedKinds == {"bootloader", "partition_table", "recovery"}

Blank == "blank"
Torn == "torn"
Content == Images \cup {Blank, Torn}

PartKinds == {"none", "ota_0", "data", "readonly", "fixed"}

Component == [id : Nat, kind : Kinds, at : Regions, size : Nat \ {0}, img : Images]
Bundle == [form : {"unparsable", "refused", "sound"}, layout : Images,
           plan : Seq(Component)]

ASSUME SourceAssumption ==
  /\ Iris \notin LocalSources
  /\ NoOwner \notin Sources
  /\ NoOp \notin Ops

ASSUME BundleAssumption == Bundles \subseteq Bundle

ASSUME ImageAssumption ==
  /\ {Blank, Torn} \cap Images = {}
  /\ BootImages \subseteq Images
  /\ TableImages \subseteq Images

\* The tables esp_partition_table_verify accepts place no partition on the
\* bootloader or on the table itself.
ASSUME TableAssumption ==
  /\ {"bootloader", "ptable", "factory"} \subseteq Regions
  /\ FixedRegions \subseteq Regions \ {"bootloader", "ptable"}
  /\ "factory" \in FixedRegions
  /\ Table \in [TableImages -> [Regions -> [kind : PartKinds, size : Nat]]]
  /\ \A t \in TableImages, r \in {"bootloader", "ptable"} : Table[t][r].kind = "none"

ASSUME FlashAssumption ==
  /\ FactoryFlash \in [Regions -> Content]
  /\ FactoryFlash["bootloader"] \in BootImages
  /\ FactoryFlash["factory"] \in BootImages
  /\ FactoryFlash["ptable"] \in TableImages

ASSUME BoundAssumption == MaxFaults \in Nat /\ MaxCrashes \in Nat

VARIABLES
  owner,       \* s_owner
  status,      \* s_status
  upd,         \* s_update
  flash,
  protection,  \* the dangerous-write protection of the flash driver
  boot,        \* the slot otadata selects
  lastResult,  \* the last_result record in the sysmeta partition
  job,         \* what each source is doing, and for which operation
  commitStep,  \* where commit_update stands
  restart,     \* restart_task is counting down
  power,       \* what runs: recovery, the application, or nothing that boots
  used,        \* operation ids already minted
  faults, crashes

vars == <<owner, status, upd, flash, protection, boot, lastResult, job,
          commitStep, restart, power, used, faults, crashes>>

Stages == {"idle", "admitted", "open", "commit", "failed", "persist", "sealed"}
CommitSteps == {"bootloader", "recovery", "partition_table", "select",
                "persist", "schedule"}
Phases == {"idle", "prepared", "receiving", "verified", "committing",
           "committed", "failed"}
Results == {"ok", "refused", "aborted"}

Status == [owner : Sources \cup {NoOwner}, op : Ops \cup {NoOp},
           phase : Phases, result : Results]
Update == [prepared : BOOLEAN, op : Ops \cup {NoOp}, plan : Seq(Component),
           completed : SUBSET Nat, active : Nat, received : Nat, match : BOOLEAN,
           layoutValid : BOOLEAN, staged : [StagedKinds -> Content]]

ResetUpdate == [prepared |-> FALSE, op |-> NoOp, plan |-> << >>,
                completed |-> {}, active |-> 0, received |-> 0, match |-> TRUE,
                layoutValid |-> FALSE, staged |-> [k \in StagedKinds |-> Blank]]

NoStatus == [owner |-> NoOwner, op |-> NoOp, phase |-> "idle", result |-> "ok"]
NoResult == [op |-> NoOp, result |-> "ok"]
NoJob == [op |-> NoOp, at |-> "idle"]

----------------------------------------------------------------------------
(* The plan.                                                               *)

Of(k) == {i \in DOMAIN upd.plan : upd.plan[i].kind = k}
\* plan_for_kind; k is in the plan
For(k) == upd.plan[CHOOSE i \in Of(k) : TRUE]

\* The completeness check of commit_update, and a version that looks at one
\* component only.
SomeCompleted == upd.completed # {}
AllCompleted == upd.completed = DOMAIN upd.plan

\* authorize_component_target: where a component of each kind may go.
Authorized(c) ==
  CASE c.kind = "bootloader"      -> c.at = "bootloader"
    [] c.kind = "partition_table" -> c.at = "ptable"
    [] c.kind = "recovery"        -> c.at = "factory"
    [] OTHER                      -> TRUE

\* parse_manifest_json.  The schema, chip, flash-size, version and syntax
\* checks are one flag of the bundle; the rules on the plan are spelt out.
ManifestAccepted(b) ==
  LET plan == b.plan
      has(k) == \E i \in DOMAIN plan : plan[i].kind = k
  IN /\ b.form = "sound"
     /\ plan # << >>
     /\ \A i \in DOMAIN plan : Authorized(plan[i])
     /\ \A i, j \in DOMAIN plan : i # j =>
          /\ plan[i].id # plan[j].id
          /\ plan[i].at # plan[j].at
          /\ plan[i].kind = plan[j].kind => plan[i].kind = "data"
     /\ \A i \in DOMAIN plan :
          plan[i].kind = "partition_table" => plan[i].img = b.layout
     /\ \/ has("recovery") /\ Len(plan) = 1 /\ flash["ptable"] = b.layout
        \/ ~has("recovery") /\ plan[1].kind = "partition_table"

\* require_immutable_contract
KeepsContract(t) == \A r \in FixedRegions : Table[t][r].kind = "fixed"

\* resolve_component_targets for one component.  A partition with flags is
\* "readonly", one of the contract is "fixed".  The first version forgets
\* partition_entry_is_immutable.
ResolvesAnyData(c, t) ==
  /\ c.kind = "application" => Table[t][c.at].kind = "ota_0"
  /\ c.kind = "data" => Table[t][c.at].kind \in {"data", "fixed"}
  /\ c.kind \in {"application", "data"} => c.size <= Table[t][c.at].size
Resolves(c, t) ==
  /\ c.kind = "application" => Table[t][c.at].kind = "ota_0"
  /\ c.kind = "data" => Table[t][c.at].kind = "data"
  /\ c.kind \in {"application", "data"} => c.size <= Table[t][c.at].size

\* validate_partition_table
ValidTable(t) ==
  /\ t \in TableImages /\ KeepsContract(t)
  /\ flash["ptable"] \in TableImages /\ KeepsContract(flash["ptable"])
  /\ \A i \in DOMAIN upd.plan : Resolves(upd.plan[i], t)

----------------------------------------------------------------------------
(* Helpers of the actions.                                                 *)

At(s, stages) == power = "recovery" /\ job[s].at \in stages
Goes(s, stage) == job' = [job EXCEPT ![s].at = stage]
Report(phase, result) == status' = [status EXCEPT !.phase = phase, !.result = result]
Fault == faults < MaxFaults /\ faults' = faults + 1
NoFault == UNCHANGED faults

writer == <<owner, status, upd>>
device == <<flash, protection, boot, lastResult>>
world == <<restart, power, used, crashes>>

Init ==
  /\ owner = NoOwner
  /\ status = NoStatus
  /\ upd = ResetUpdate
  /\ flash = FactoryFlash
  /\ protection = "on"
  /\ boot = "factory"
  /\ lastResult = NoResult
  /\ job = [s \in Sources |-> NoJob]
  /\ commitStep = "bootloader"
  /\ restart = FALSE
  /\ power = "recovery"
  /\ used = {}
  /\ faults = 0
  /\ crashes = 0

----------------------------------------------------------------------------
(* Claiming the writer and having a manifest accepted.                     *)

\* The check of update_owner_claim, and one that gives away a reservation whose
\* manifest has not come yet.
Unprepared == ~upd.prepared
Unclaimed == owner = NoOwner

\* factory_system_update_source_reserve, called by start_http_with_id and
\* start_nand before their task exists.
Reserve(s, op) ==
  /\ At(s, {"idle"}) /\ op \notin used
  /\ Unclaimed
  /\ owner' = s
  /\ upd' = [ResetUpdate EXCEPT !.op = op]
  /\ status' = [owner |-> s, op |-> op, phase |-> "idle", result |-> "ok"]
  /\ job' = [job EXCEPT ![s] = [op |-> op, at |-> "admitted"]]
  /\ used' = used \cup {op}
  /\ UNCHANGED <<device, commitStep, restart, power, faults, crashes>>

\* What prepare_update_owned does once it holds the writer.
Accept(s, op, b) ==
  /\ ManifestAccepted(b)
  /\ owner' = s
  /\ upd' = [ResetUpdate EXCEPT !.op = op, !.prepared = TRUE, !.plan = b.plan,
                                !.layoutValid = (b.plan[1].kind = "recovery")]
  /\ status' = [owner |-> s, op |-> op, phase |-> "prepared", result |-> "ok"]

\* update_status_finish writes phase and result alone: the record keeps the
\* owner and the operation it had.
Refuse(b) ==
  /\ ~ManifestAccepted(b)
  /\ owner' = NoOwner
  /\ upd' = ResetUpdate
  /\ Report("failed", "refused")

\* factory_system_update_source_prepare.  A manifest without a component
\* array is refused before the writer is touched.
PrepareLocal(s, b) ==
  /\ At(s, {"admitted"})
  /\ \/ b.form = "unparsable" /\ UNCHANGED writer /\ Goes(s, "failed")
     \/ /\ b.form # "unparsable"
        /\ owner = s /\ ~upd.prepared /\ upd.op = job[s].op
        /\ \/ Accept(s, upd.op, b) /\ Goes(s, "open")
           \/ Refuse(b) /\ Goes(s, "failed")
  /\ UNCHANGED <<device, commitStep, world, faults>>

\* prepare_update, the callback: the claim is part of it.  The framework
\* calls the other callbacks only between a prepare that succeeded and the
\* commit or abort of that operation.
PrepareIris(op, b) ==
  /\ At(Iris, {"idle"}) /\ op \notin used
  /\ Unclaimed
  /\ \/ Accept(Iris, op, b) /\ job' = [job EXCEPT ![Iris] = [op |-> op, at |-> "open"]]
     \/ Refuse(b) /\ UNCHANGED job
  /\ used' = used \cup {op}
  /\ UNCHANGED <<device, commitStep, restart, power, faults, crashes>>

----------------------------------------------------------------------------
(* Streaming one component.  A call whose guard fails returns an error and *)
(* changes nothing; the source then gives up, which is Fail(s).            *)

\* The guard of begin_component, and one that would receive a component twice.
MayBeginAgain(i) == upd.prepared /\ upd.active = 0 /\ i \in DOMAIN upd.plan
MayBegin(i) == upd.prepared /\ upd.active = 0 /\ i \in DOMAIN upd.plan \ upd.completed

\* begin_component: an application or data target is erased here, a
\* protected component gets a buffer in PSRAM.
Begin(s, i) ==
  LET c == upd.plan[i] IN
  /\ At(s, {"open"})
  /\ s \in LocalSources => owner = s
  /\ MayBegin(i)
  /\ \/ /\ c.kind \notin StagedKinds /\ upd.layoutValid
        /\ \/ /\ NoFault
              /\ flash' = [flash EXCEPT ![c.at] = Blank]
              /\ upd' = [upd EXCEPT !.active = i, !.received = 0, !.match = TRUE]
              /\ Report("receiving", status.result)
              /\ UNCHANGED job
           \/ /\ Fault
              /\ flash' = [flash EXCEPT ![c.at] = Torn]
              /\ Goes(s, "failed") /\ UNCHANGED <<upd, status>>
     \/ /\ c.kind \in StagedKinds
        /\ \/ /\ NoFault
              /\ upd' = [upd EXCEPT !.active = i, !.received = 0, !.match = TRUE,
                                    !.staged[c.kind] = Blank]
              /\ Report("receiving", status.result)
              /\ UNCHANGED job
           \/ /\ Fault
              /\ upd' = [upd EXCEPT !.staged[c.kind] = Blank]
              /\ Goes(s, "failed") /\ UNCHANGED status
        /\ UNCHANGED flash
  /\ UNCHANGED <<owner, protection, boot, lastResult, commitStep, world>>

\* What the destination of the active component holds after one more chunk.
Filled(c, old, sound) ==
  IF ~sound \/ old = Torn THEN Torn
  ELSE IF upd.received + 1 = c.size THEN c.img ELSE Blank

\* The size check of write_component, and one that is off by one.
ChunkFitsLoosely(c) == upd.received <= c.size
ChunkFits(c) == upd.received < c.size

\* write_component, one chunk.  sound says whether the source delivered the
\* bytes of the image; a write may also fail, or leave other bytes in flash
\* without saying so.
Write(s, sound) ==
  LET c == upd.plan[upd.active] IN
  /\ At(s, {"open"})
  /\ s \in LocalSources => owner = s
  /\ upd.active # 0 /\ ChunkFits(c)
  /\ \/ /\ c.kind \notin StagedKinds
        /\ \/ /\ NoFault
              /\ flash' = [flash EXCEPT ![c.at] = Filled(c, @, sound)]
              /\ upd' = [upd EXCEPT !.received = @ + 1, !.match = @ /\ sound]
              /\ Report("receiving", status.result)
              /\ UNCHANGED job
           \/ /\ Fault
              /\ flash' = [flash EXCEPT ![c.at] = Torn]
              /\ \/ /\ upd' = [upd EXCEPT !.received = @ + 1, !.match = @ /\ sound]
                    /\ Report("receiving", status.result)
                    /\ UNCHANGED job
                 \/ Goes(s, "failed") /\ UNCHANGED <<upd, status>>
     \/ /\ c.kind \in StagedKinds /\ NoFault
        /\ upd' = [upd EXCEPT !.received = @ + 1, !.match = @ /\ sound,
                              !.staged[c.kind] = Filled(c, @, sound)]
        /\ Report("receiving", status.result)
        /\ UNCHANGED <<job, flash>>
  /\ UNCHANGED <<owner, protection, boot, lastResult, commitStep, world>>

\* end_component without validate_memory_image.
VerifiedByDigest(c) ==
  CASE c.kind = "application"     -> flash[c.at] = c.img /\ c.img \in BootImages
    [] c.kind = "data"            -> flash[c.at] = c.img
    [] c.kind = "partition_table" -> ValidTable(upd.staged[c.kind])
    [] OTHER                      -> TRUE

\* The checks of end_component after the digest of the stream.
Verified(c) ==
  CASE c.kind = "application"     -> flash[c.at] = c.img /\ c.img \in BootImages
    [] c.kind = "data"            -> flash[c.at] = c.img
    [] c.kind = "partition_table" -> ValidTable(upd.staged[c.kind])
    [] OTHER                      -> upd.staged[c.kind] \in BootImages

\* end_component.  A short component or a stream that does not match the
\* plan leaves it active: nothing but an abort can follow.
End(s) ==
  LET c == upd.plan[upd.active] IN
  /\ At(s, {"open"})
  /\ s \in LocalSources => owner = s
  /\ upd.active # 0
  /\ \/ /\ upd.received # c.size \/ ~upd.match
        /\ Goes(s, "failed") /\ UNCHANGED <<upd, status>>
     \/ /\ upd.received = c.size /\ upd.match /\ Verified(c)
        /\ upd' = [upd EXCEPT !.active = 0, !.received = 0,
                              !.completed = @ \cup {upd.active},
                              !.layoutValid = @ \/ c.kind = "partition_table"]
        /\ Report("verified", status.result)
        /\ UNCHANGED job
     \/ /\ upd.received = c.size /\ upd.match /\ ~Verified(c)
        /\ upd' = [upd EXCEPT !.active = 0, !.received = 0]
        /\ Goes(s, "failed") /\ UNCHANGED status
  /\ UNCHANGED <<owner, device, commitStep, world, faults>>

----------------------------------------------------------------------------
(* commit_update.  One step per point where power can fail with a          *)
(* different flash, or another task can see a different state.             *)

CommitStart(s) ==
  /\ At(s, {"open"})
  /\ s \in LocalSources => owner = s
  /\ upd.prepared /\ upd.active = 0 /\ upd.op = job[s].op
  /\ Report("committing", "ok")
  /\ \/ AllCompleted /\ Goes(s, "commit") /\ commitStep' = "bootloader"
     \/ ~AllCompleted /\ Goes(s, "failed") /\ UNCHANGED commitStep
  /\ UNCHANGED <<owner, upd, device, world, faults>>

\* The order of commit_update, and one that forgets to select the slot.
AfterUnselected(step) ==
  CASE step = "bootloader"      -> "recovery"
    [] step = "recovery"        -> "partition_table"
    [] step = "partition_table" -> "persist"
    [] step = "persist"         -> "schedule"

After(step) ==
  CASE step = "bootloader"      -> "recovery"
    [] step = "recovery"        -> "partition_table"
    [] step = "partition_table" -> "select"
    [] step = "select"          -> "persist"
    [] step = "persist"         -> "schedule"

CommitAt(s, steps) == At(s, {"commit"}) /\ commitStep \in steps

\* Nothing to write: the plan has no such component, or flash already holds it.
\* Then the hash can fail, and the check of the image that follows.
CommitSkip(s) ==
  /\ CommitAt(s, StagedKinds) /\ protection # "off"
  /\ Of(commitStep) # {} => flash[For(commitStep).at] = For(commitStep).img
  /\ \/ NoFault /\ commitStep' = After(commitStep) /\ UNCHANGED job
     \/ Of(commitStep) # {} /\ Fault /\ Goes(s, "failed") /\ UNCHANGED commitStep
  /\ UNCHANGED <<writer, device, world>>

\* The protection after esp_flash_set_dangerous_write_protection(true) on an
\* error path: "stuck" is one the driver would not restore.
NotRestored == {"off"}
Restored == {"on", "stuck"}

\* commit_protected_image up to the erase.  A failed erase still restores
\* the protection before the error is returned.  The last case is a failed hash or disable.
CommitErase(s) ==
  LET c == For(commitStep) IN
  /\ CommitAt(s, StagedKinds) /\ protection # "off"
  /\ Of(commitStep) # {} /\ flash[c.at] # c.img
  /\ \/ /\ NoFault
        /\ flash' = [flash EXCEPT ![c.at] = Blank] /\ protection' = "off"
        /\ UNCHANGED job
     \/ /\ Fault
        /\ flash' = [flash EXCEPT ![c.at] = Torn] /\ protection' \in Restored
        /\ Goes(s, "failed")
     \/ Fault /\ Goes(s, "failed") /\ UNCHANGED <<flash, protection>>
  /\ UNCHANGED <<writer, boot, lastResult, commitStep, world>>

\* commit_protected_image from the write on: write, protection restored,
\* readback and image check.
CommitWrite(s) ==
  LET c == For(commitStep)
      image == upd.staged[c.kind]
  IN /\ CommitAt(s, StagedKinds) /\ protection = "off"
     /\ \/ /\ NoFault
           /\ flash' = [flash EXCEPT ![c.at] = image] /\ protection' = "on"
           /\ IF image = c.img /\ (c.kind # "partition_table" => c.img \in BootImages)
              THEN commitStep' = After(commitStep) /\ UNCHANGED job
              ELSE Goes(s, "failed") /\ UNCHANGED commitStep
        \/ /\ Fault
           /\ \E left \in {Torn, image} : flash' = [flash EXCEPT ![c.at] = left]
           /\ protection' \in Restored
           /\ Goes(s, "failed") /\ UNCHANGED commitStep
     /\ UNCHANGED <<writer, boot, lastResult, world>>

Selected ==
  IF Of("application") # {} THEN "ota_0" ELSE IF Of("recovery") # {} THEN "factory" ELSE boot

\* crash_loop_reset, mark_planned_restart, the boot selection and its check; what
\* fails does so before or after the selection was changed.
CommitSelect(s) ==
  /\ CommitAt(s, {"select"})
  /\ \/ /\ NoFault /\ boot' = Selected
        /\ commitStep' = After(commitStep) /\ UNCHANGED job
     \/ /\ Of("application") \cup Of("recovery") # {}
        /\ Fault /\ boot' \in {boot, Selected}
        /\ Goes(s, "failed") /\ UNCHANGED commitStep
  /\ UNCHANGED <<writer, flash, protection, lastResult, world>>

\* persist_result(operation_id, ESP_OK)
CommitPersist(s) ==
  /\ CommitAt(s, {"persist"})
  /\ \/ /\ NoFault
        /\ lastResult' = [op |-> job[s].op, result |-> "ok"]
        /\ commitStep' = After(commitStep) /\ UNCHANGED job
     \/ Fault /\ Goes(s, "failed") /\ UNCHANGED <<lastResult, commitStep>>
  /\ UNCHANGED <<writer, flash, protection, boot, world>>

\* xTaskCreate(restart_task); the writer stays owned until the restart.
CommitSchedule(s) ==
  /\ CommitAt(s, {"schedule"})
  /\ \/ NoFault /\ restart' = TRUE /\ Report("committed", "ok") /\ Goes(s, "sealed")
     \/ Fault /\ Goes(s, "failed") /\ UNCHANGED <<restart, status>>
  /\ UNCHANGED <<owner, upd, device, commitStep, power, used, crashes>>

----------------------------------------------------------------------------
(* Giving up.                                                              *)

\* A download, a read or a refused call fails in the source; ESP-Iris sees
\* a cancel or a lost session.
Fail(s) ==
  /\ At(s, {"admitted", "open"})
  /\ Goes(s, "failed")
  /\ UNCHANGED <<writer, device, commitStep, world, faults>>

\* The two checks of abort_update_owned; the first of them alone; and a
\* version that only gives back what has been prepared.
AbortAcceptedOwner(s, op) == owner = s
AbortAcceptedPrepared(s, op) == owner = s /\ upd.op = op /\ upd.prepared
AbortAccepted(s, op) == owner = s /\ upd.op = op

\* abort_update_owned up to the release; the stage the source is left in
\* tells whether it has a result still to record.
AbortBody(s, op) ==
  \/ /\ AbortAccepted(s, op)
     /\ upd' = ResetUpdate /\ Report("failed", "aborted") /\ owner' = NoOwner
     /\ Goes(s, IF upd.prepared THEN "persist" ELSE "idle")
  \/ ~AbortAccepted(s, op) /\ Goes(s, "idle") /\ UNCHANGED writer

Abort(s) ==
  /\ At(s, {"failed"})
  /\ AbortBody(s, job[s].op)
  /\ UNCHANGED <<device, commitStep, world, faults>>

\* The rest of abort_update_owned: the failure is recorded after the writer
\* has been given back.
AbortPersist(s) ==
  /\ At(s, {"persist"})
  /\ \/ NoFault /\ lastResult' = [op |-> job[s].op, result |-> "aborted"]
     \/ Fault /\ UNCHANGED lastResult
  /\ Goes(s, "idle")
  /\ UNCHANGED <<writer, flash, protection, boot, commitStep, world>>

\* A late abort: a source aborts an operation it is no longer running.
LateAbort(s, op) ==
  /\ power = "recovery" /\ op \in used /\ op # job[s].op
  /\ IF AbortAccepted(s, op)
     THEN upd' = ResetUpdate /\ Report("failed", "aborted") /\ owner' = NoOwner
     ELSE UNCHANGED writer
  /\ UNCHANGED <<device, job, commitStep, world, faults>>

----------------------------------------------------------------------------
(* Restart and power loss.  The bootloader starts the slot otadata selects *)
(* if its image is whole, then the recovery image, then ota_0.             *)

OtaWhole(f) == \E r \in Regions : Table[f["ptable"]][r].kind = "ota_0" /\ f[r] \in BootImages

BootTarget(f, selected) ==
  IF f["bootloader"] \notin BootImages \/ f["ptable"] \notin TableImages THEN "dead"
  ELSE IF selected = "ota_0" /\ OtaWhole(f) THEN "app"
  ELSE IF f["factory"] \in BootImages THEN "recovery"
  ELSE IF OtaWhole(f) THEN "app" ELSE "dead"

Reset ==
  /\ owner' = NoOwner /\ status' = NoStatus /\ upd' = ResetUpdate
  /\ protection' = "on" /\ commitStep' = "bootloader" /\ restart' = FALSE
  /\ job' = [s \in Sources |-> NoJob]
  /\ power' = BootTarget(flash, boot)
  /\ UNCHANGED <<flash, boot, lastResult, used, faults>>

Restart == power = "recovery" /\ restart /\ Reset /\ UNCHANGED crashes

Crash ==
  /\ power # "dead" /\ crashes < MaxCrashes
  /\ crashes' = crashes + 1
  /\ Reset

\* GPIO held low at reset: the factory slot is booted, otadata is not changed.
EnterRecovery ==
  /\ power = "app" /\ flash["factory"] \in BootImages
  /\ power' = "recovery"
  /\ UNCHANGED <<writer, device, job, commitStep, restart, used, faults, crashes>>

----------------------------------------------------------------------------
SourceStep(s) ==
  \/ \E b \in Bundles : PrepareLocal(s, b)
  \/ \E i \in DOMAIN upd.plan : Begin(s, i)
  \/ \E sound \in BOOLEAN : Write(s, sound)
  \/ End(s)
  \/ CommitStart(s)
  \/ CommitSkip(s) \/ CommitErase(s) \/ CommitWrite(s)
  \/ CommitSelect(s) \/ CommitPersist(s) \/ CommitSchedule(s)
  \/ Fail(s) \/ Abort(s) \/ AbortPersist(s)

Next ==
  \/ \E s \in LocalSources, op \in Ops : Reserve(s, op)
  \/ \E op \in Ops, b \in Bundles : PrepareIris(op, b)
  \/ \E s \in Sources : SourceStep(s)
  \/ \E s \in Sources, op \in Ops : LateAbort(s, op)
  \/ Restart \/ Crash \/ EnterRecovery

Spec == Init /\ [][Next]_vars

\* A source that has begun goes on: the HTTP and NAND tasks by themselves,
\* every wait in them having a timeout; ESP-Iris by its session, which it
\* aborts when the host is gone.  A scheduled restart happens.
SourceRuns(s) == WF_vars(SourceStep(s))
RestartRuns == WF_vars(Restart)
Fairness == (\A s \in Sources : SourceRuns(s)) /\ RestartRuns

FairSpec == Spec /\ Fairness

----------------------------------------------------------------------------
(* What the backend promises.                                              *)

TypeOK ==
  /\ owner \in Sources \cup {NoOwner}
  /\ status \in Status
  /\ upd \in Update
  /\ upd.completed \subseteq DOMAIN upd.plan
  /\ upd.active \in 0..Len(upd.plan)
  /\ upd.active # 0 => upd.received <= upd.plan[upd.active].size
  /\ flash \in [Regions -> Content]
  /\ protection \in {"on", "off", "stuck"}
  /\ boot \in {"factory", "ota_0"}
  /\ lastResult \in [op : Ops \cup {NoOp}, result : Results]
  /\ job \in [Sources -> [op : Ops \cup {NoOp}, at : Stages]]
  /\ commitStep \in CommitSteps
  /\ restart \in BOOLEAN
  /\ power \in {"recovery", "app", "dead"}
  /\ used \subseteq Ops
  /\ faults \in Nat /\ crashes \in Nat

\* A source past its admission owns the writer, for its own operation, and a
\* writer that is owned has a source that will commit or give it back: no
\* abort of another source or of an earlier operation takes it away, and no
\* error path keeps it.
Holding == {"admitted", "open", "commit", "sealed"}
WriterExclusion ==
  /\ \A s \in Sources : job[s].at \in Holding => owner = s /\ upd.op = job[s].op
  /\ owner # NoOwner => job[owner].at \in Holding \cup {"failed"} /\ upd.op = job[owner].op

\* A component that passed end_component is, until the operation ends, in
\* flash (application, data) or in its buffer (protected images) as the plan
\* describes it: nothing a source can still send touches it.
VerifiedStays ==
  \A i \in upd.completed :
    LET c == upd.plan[i] IN
    IF c.kind \in StagedKinds THEN upd.staged[c.kind] = c.img
    ELSE flash[c.at] = c.img

\* The dangerous-write protection is off only between the erase and the write
\* of a protected image of the operation that is committing; every error path
\* of commit_protected_image puts it back (or the driver refused to).
ProtectionWindow ==
  protection = "off" =>
    /\ owner \in Sources /\ job[owner].at = "commit"
    /\ commitStep \in StagedKinds /\ Of(commitStep) # {}

\* A status that says COMMITTED is true: every component of the plan is in
\* flash, the slot of the new firmware is selected, and the restart is on.
CommittedIsInstalled ==
  status.phase = "committed" =>
    /\ restart
    /\ \A i \in DOMAIN upd.plan : flash[upd.plan[i].at] = upd.plan[i].img
    /\ Of("application") # {} => boot = "ota_0" /\ OtaWhole(flash)
    /\ Of("recovery") # {} => boot = "factory"

\* Bootloader, recovery image and partition table change only after every
\* component was verified, only if the plan has them, and the partition table
\* only after everything else is in flash.
BootChainOrder ==
  [][\A r \in {"bootloader", "ptable", "factory"} : flash'[r] # flash[r] =>
       /\ upd.plan # << >> /\ upd.completed = DOMAIN upd.plan
       /\ \E i \in DOMAIN upd.plan : upd.plan[i].at = r
       /\ r = "ptable" => \A i \in DOMAIN upd.plan :
            upd.plan[i].kind # "partition_table" => flash[upd.plan[i].at] = upd.plan[i].img
    ]_vars

\* No update writes one of the five immutable partitions, save a
\* recovery-only update the factory slot.
FixedRegionsKept ==
  [][\A r \in FixedRegions : flash'[r] # flash[r] =>
       r = "factory" /\ Len(upd.plan) = 1 /\ upd.plan[1].kind = "recovery"]_vars

\* Power lost at any moment leaves a device that boots, except inside the
\* window of a protected image (the documented single-copy policy) or after
\* a flash failure.
PowerLossSurvived ==
  [][power = "recovery" /\ power' = "dead" => protection = "off" \/ faults > 0]_vars

\* Whoever has the writer gives it back, by an abort or by the restart that
\* follows the commit: no error path of a source leaves the device refusing
\* every later update.
WriterReturns == owner # NoOwner ~> owner = NoOwner

\* Wherever the owner of the writer stands, it can go on, and a restart that
\* is scheduled can happen: nothing waits for another source.
SourceReady(s) ==
  owner = s => IF job[s].at = "sealed" THEN ENABLED <<Restart>>_vars
               ELSE ENABLED <<SourceStep(s)>>_vars
WriterReady == \A s \in Sources : SourceReady(s)

\* firmware/recovery/README.md, lines 155-157: the update namespace keeps the
\* result of the last system update.  An abort records its failure after it
\* has released the writer, so a later update can have committed by then.
RecordIsOfLastUpdate ==
  status.phase = "committed" => lastResult = [op |-> status.op, result |-> "ok"]

\* docs/recovery-http-trigger.md, lines 65-66: the status of an operation is
\* never substituted by that of another update.  The published record of an
\* operation changes only while the operation holds the writer.  A manifest the
\* callback refuses writes its own error into the record of an operation that
\* has already failed.
StatusOfItsOwn ==
  [][status' # status /\ status'.op = status.op /\ status.owner \in LocalSources =>
       owner = status.owner /\ upd.op = status.op]_vars

\* The claim and the published record, as UpdateWriter describes them: no
\* source takes the writer from another, phases only move forward, and only
\* the holder moves them (a manifest refused by the callback aside).
Writer == INSTANCE UpdateWriter WITH
  holder <- [owner |-> owner, op |-> upd.op], record <- status, claimed <- used

WriterContract == Writer!Spec

----------------------------------------------------------------------------
(* The inductive invariant the proofs of SystemUpdateProofs use.           *)

BootChain == {"bootloader", "ptable", "factory"}
Bootable(r, img) == IF r = "ptable" THEN img \in TableImages ELSE img \in BootImages

\* What parse_manifest_json leaves in s_update.
PlanShape ==
  /\ upd.prepared => upd.plan # << >>
  /\ \A i \in DOMAIN upd.plan :
       /\ Authorized(upd.plan[i])
       /\ upd.plan[i].kind = "recovery" => Len(upd.plan) = 1
  /\ \A i, j \in DOMAIN upd.plan : i # j =>
       /\ upd.plan[i].at # upd.plan[j].at
       /\ upd.plan[i].kind = upd.plan[j].kind => upd.plan[i].kind = "data"

\* A validated layout sends application and data to mutable partitions.
LayoutMeaning ==
  upd.layoutValid => \A i \in DOMAIN upd.plan :
    upd.plan[i].kind \notin StagedKinds =>
      upd.plan[i].at \notin BootChain \cup FixedRegions

\* The component being received, and the buffer of a protected one.
ActiveMeaning ==
  upd.active # 0 =>
    LET c == upd.plan[upd.active] IN
    /\ upd.prepared /\ upd.active \notin upd.completed
    /\ c.kind \notin StagedKinds => upd.layoutValid
    /\ c.kind \in StagedKinds /\ upd.match =>
         upd.staged[c.kind] = IF upd.received = c.size THEN c.img ELSE Blank

\* The images that passed end_component.
CompletedMeaning ==
  \A i \in upd.completed :
    LET c == upd.plan[i] IN
    /\ c.kind \in {"application", "bootloader", "recovery"} => c.img \in BootImages
    /\ c.kind = "partition_table" =>
         /\ c.img \in TableImages
         /\ \A j \in DOMAIN upd.plan : Resolves(upd.plan[j], c.img)

StepsDone ==
  CASE commitStep = "bootloader"      -> {}
    [] commitStep = "recovery"        -> {"bootloader"}
    [] commitStep = "partition_table" -> {"bootloader", "recovery"}
    [] OTHER                          -> StagedKinds

\* How far a commit has come, in flash and in the boot selection.
CommitMeaning ==
  \A s \in Sources : job[s].at \in {"commit", "sealed"} =>
    /\ upd.prepared /\ AllCompleted /\ upd.active = 0
    /\ \A i \in DOMAIN upd.plan :
         upd.plan[i].kind \in StepsDone => flash[upd.plan[i].at] = upd.plan[i].img
    /\ commitStep \in {"persist", "schedule"} =>
         /\ Of("application") # {} => boot = "ota_0"
         /\ Of("recovery") # {} => boot = "factory"
    /\ job[s].at = "sealed" => restart /\ commitStep = "schedule"

CommittedMeaning ==
  status.phase = "committed" => owner \in Sources /\ job[owner].at = "sealed"

\* A non-recovery plan has a partition table, which resolves its application.
TableInPlan ==
  upd.prepared /\ Of("recovery") = {} => Of("partition_table") # {}

\* Without flash faults the boot chain is whole, save for the image a commit
\* is rewriting at this moment.
BootChainWhole ==
  faults = 0 /\ power # "dead" =>
    \A r \in BootChain :
      \/ Bootable(r, flash[r])
      \/ r = "factory" /\ power = "app"
      \/ protection = "off" /\ \E i \in Of(commitStep) : upd.plan[i].at = r

IndInv ==
  /\ TypeOK /\ WriterExclusion /\ PlanShape /\ LayoutMeaning /\ ActiveMeaning
  /\ CompletedMeaning /\ VerifiedStays /\ ProtectionWindow /\ CommitMeaning
  /\ CommittedMeaning /\ TableInPlan /\ BootChainWhole
=============================================================================
