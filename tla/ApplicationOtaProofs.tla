------------------------ MODULE ApplicationOtaProofs ------------------------
(***************************************************************************)
(* The safety properties of ApplicationOta, for any slots and any number   *)
(* of runs, faults and power losses.                                       *)
(***************************************************************************)
EXTENDS ApplicationOta, FiniteSetTheorems, TLAPS

----------------------------------------------------------------------------
(* The inductive invariant.                                                *)

\* What runs is the Recovery or an application, and the writer runs in the
\* Recovery until it restarts into the slot it wrote.
UpInv ==
  /\ up \in Slots => slot[up] \in Images
  /\ job.at \in {"begin", "restart"} \cup Writing => up = "recovery"
  /\ job.at \in {"restart", "verify"} => boot = job.slot

\* What the writer is about to write is not the last good slot, unless there is
\* no other, and the metadata it writes back is what it read.
Spares ==
  ~misread =>
    /\ job.at \in Writing => job.slot # meta.last_good \/ Slots = {meta.last_good}
    /\ JobAt("last_good") => job.read = meta.last_good
    /\ meta.last_good \in Slots => slot[meta.last_good] = good \/ Slots = {meta.last_good}

\* Which reports go with which record of the Gateway, and which records with
\* the writer: nothing runs for a record that is over or not yet accepted.
RecordInv ==
  /\ operation \in {"none", "succeeded", "failed"} => JobAt("none")
  /\ operation \in {"requested", "cancelled"} => JobAt("none") \/ job.run # runs
  /\ job.run <= runs
  /\ operation = "succeeded" => slot[boot] = New
  /\ host = "succeeded" => operation = "succeeded"
  /\ FailureIsOver

OtaInv == TypeOK /\ UpInv /\ Spares /\ RecordInv

----------------------------------------------------------------------------
(* Types, and what the helpers of the actions do.                          *)

Slotted == [Slots -> Images \cup {"blank", "torn"}]
Metas == [last_good : Slots \cup {NoSlot}, target : Slots \cup {NoSlot}]
Jobs == [at : {"none", "begin", "restart", "verify"} \cup Writing,
         slot : Slots \cup {NoSlot}, read : Slots \cup {NoSlot}, run : 0..MaxRuns]

Types ==
  /\ slot \in Slotted /\ boot \in Slots /\ up \in Slots \cup {"recovery"}
  /\ meta \in Metas /\ job \in Jobs /\ (job.at \in Writing => job.slot \in Slots)
  /\ host \in Reports \cup {"idle", "submit", "poll"}
  /\ due \in BOOLEAN /\ guessed \in BOOLEAN /\ operation \in {"none"} \cup Open \cup Closed
  /\ runs \in 0..MaxRuns /\ faults \in 0..MaxFaults /\ losses \in 0..MaxLosses
  /\ good \in Images \cup {"blank"} /\ misread \in BOOLEAN

LEMMA TypesAre == (TypeOK <=> Types) /\ (TypeOK' <=> Types')
BY DEF TypeOK, Types, Slotted, Metas, Jobs

LEMMA Names ==
  /\ NoSlot \notin Slots /\ "recovery" \notin Slots
  /\ Old # New /\ New \in Images /\ "torn" \notin Images
BY OtaAssumption DEF Images

\* A read tells the truth, or is noted.
LEMMA ReadsDoes ==
  ASSUME Types, NEW value \in Slots \cup {NoSlot}, Reads(value)
  PROVE  /\ misread' \in BOOLEAN /\ (~misread' => ~misread /\ value = meta.last_good)
         /\ runs' = runs /\ faults' \in 0..MaxFaults /\ losses' = losses
<1>1. misread' \in BOOLEAN /\ (~misread' => ~misread /\ value = meta.last_good)
  BY DEF Reads, Types
<1>2. runs' = runs /\ faults' \in 0..MaxFaults /\ losses' = losses
  BY OtaAssumption DEF Reads, Fault, bounds, Types
<1> QED
  BY <1>1, <1>2

\* The slot selected is another one than the last good, where there is one.
LEMMA TargetDoes ==
  ASSUME NEW default \in Slots, NEW last_good
  PROVE  /\ Target(default, last_good) \in Slots
         /\ Target(default, last_good) # last_good \/ Slots = {last_good}
<1>1. CASE default # last_good \/ Slots = {last_good}
  BY <1>1 DEF Target
<1>2. CASE ~(default # last_good \/ Slots = {last_good})
  <2>1. \E s \in Slots : s # last_good
    BY <1>2
  <2>2. Target(default, last_good) = CHOOSE s \in Slots : s # last_good
    BY <1>2 DEF Target
  <2> QED
    BY <2>1, <2>2
<1> QED
  BY <1>1, <1>2

\* The bootloader starts an application or the Recovery.
LEMMA BootsDoes ==
  ASSUME Types
  PROVE  Boots \in Slots \cup {"recovery"} /\ (Boots # "recovery" => slot[Boots] \in Images)
BY DEF Boots, Types

----------------------------------------------------------------------------
(* One lemma for each action.                                              *)

LEMMA SelectTargetKeeps == OtaInv /\ SelectTarget => OtaInv'
<1> SUFFICES ASSUME OtaInv, SelectTarget PROVE OtaInv'
  OBVIOUS
<1>1. Types /\ UpInv /\ Spares /\ RecordInv
  BY TypesAre DEF OtaInv
<1>2. /\ slot' = slot /\ boot' = boot /\ up' = up /\ meta' = meta
      /\ good' = good /\ installer' = installer /\ operation' = operation
  BY DEF SelectTarget, device, installer, bounds
<1>3. PICK default \in Slots, value \in Slots \cup {NoSlot} :
        /\ Reads(value)
        /\ job' = [job EXCEPT !.at = "prepare", !.slot = Target(default, value)]
  BY DEF SelectTarget
<1>4. job.at = "begin" /\ up = "recovery"
  BY DEF SelectTarget, JobAt
<1>5. /\ misread' \in BOOLEAN /\ (~misread' => ~misread /\ value = meta.last_good)
      /\ runs' = runs /\ faults' \in 0..MaxFaults /\ losses' = losses
  BY <1>1, <1>3, ReadsDoes
<1>6. /\ Target(default, value) \in Slots
      /\ Target(default, value) # value \/ Slots = {value}
  BY TargetDoes
<1>7. /\ job' \in Jobs /\ job'.at = "prepare" /\ job'.slot \in Slots /\ job'.run = job.run
      /\ job'.slot # value \/ Slots = {value}
  BY <1>1, <1>3, <1>6 DEF Jobs, Writing, Types
<1>8. TypeOK'
  BY <1>1, <1>2, <1>3, <1>4, <1>5, <1>6, <1>7, TypesAre DEF Types, installer
<1>9. UpInv'
  BY <1>1, <1>2, <1>3, <1>4, <1>5, <1>6, <1>7 DEF UpInv
<1>10. Spares'
  BY <1>1, <1>2, <1>3, <1>4, <1>5, <1>6, <1>7 DEF Spares, JobAt
<1>11. RecordInv'
  BY <1>1, <1>2, <1>3, <1>4, <1>5, <1>6, <1>7
     DEF RecordInv, FailureIsOver, JobAt, installer, Types, Jobs, Open
<1> QED
  BY <1>8, <1>9, <1>10, <1>11 DEF OtaInv

LEMMA PrepareKeeps == OtaInv /\ Prepare => OtaInv'
<1> SUFFICES ASSUME OtaInv, Prepare PROVE OtaInv'
  OBVIOUS
<1>1. Types /\ UpInv /\ Spares /\ RecordInv
  BY TypesAre DEF OtaInv
<1>2. /\ slot' = slot /\ boot' = boot /\ up' = up /\ meta' = meta
      /\ good' = good /\ installer' = installer /\ operation' = operation
  BY DEF Prepare, device, installer, bounds
<1>3. PICK value \in Slots \cup {NoSlot} :
        /\ Reads(value)
        /\ job' = [job EXCEPT !.at = "last_good", !.read = value]
  BY DEF Prepare
<1>4. job.at = "prepare" /\ up = "recovery"
  BY <1>1 DEF Prepare, JobAt, UpInv, Writing
<1>5. /\ misread' \in BOOLEAN /\ (~misread' => ~misread /\ value = meta.last_good)
      /\ runs' = runs /\ faults' \in 0..MaxFaults /\ losses' = losses
  BY <1>1, <1>3, ReadsDoes
<1>6. /\ job' \in Jobs /\ job'.at = "last_good" /\ job'.slot = job.slot /\ job'.read = value
      /\ job'.run = job.run
  BY <1>1, <1>3 DEF Jobs, Writing, Types
<1>7. TypeOK'
  BY <1>1, <1>2, <1>3, <1>4, <1>5, <1>6, TypesAre DEF Types, installer, Writing
<1>8. UpInv'
  BY <1>1, <1>2, <1>3, <1>4, <1>5, <1>6 DEF UpInv
<1>9. Spares'
  BY <1>1, <1>2, <1>3, <1>4, <1>5, <1>6 DEF Spares, JobAt, Writing
<1>10. RecordInv'
  BY <1>1, <1>2, <1>3, <1>4, <1>5, <1>6
     DEF RecordInv, FailureIsOver, JobAt, installer, Types, Jobs, Open
<1> QED
  BY <1>7, <1>8, <1>9, <1>10 DEF OtaInv

LEMMA RecoveryWriteKeeps == OtaInv /\ RecoveryWrite => OtaInv'
<1> SUFFICES ASSUME OtaInv, RecoveryWrite PROVE OtaInv'
  OBVIOUS
<1>1. Types /\ UpInv /\ Spares /\ RecordInv
  BY TypesAre DEF OtaInv
<1>2. /\ slot' = slot /\ boot' = boot /\ up' = up /\ good' = good
      /\ misread' = misread /\ installer' = installer /\ operation' = operation /\ runs' = runs
      /\ faults' = faults /\ losses' = losses
  BY DEF RecoveryWrite, device, installer, bounds
<1>3. /\ job.at \in {"last_good", "target"} /\ job' \in Jobs /\ job'.slot = job.slot
      /\ job'.at \in {"target", "erase"} /\ job'.run = job.run /\ meta' \in Metas
  BY <1>1 DEF RecoveryWrite, JobAt, JobGoes, Jobs, Metas, Types, Writing
<1>4. meta'.last_good = IF job.at = "last_good" THEN job.read ELSE meta.last_good
  BY <1>1 DEF RecoveryWrite, JobAt, Metas, Types
<1>5. TypeOK'
  BY <1>1, <1>2, <1>3, <1>4, TypesAre DEF Types, installer, Writing
<1>6. UpInv'
  BY <1>1, <1>2, <1>3, <1>4 DEF UpInv, Writing
<1>7. Spares'
  BY <1>1, <1>2, <1>3, <1>4 DEF Spares, JobAt, Writing
<1>8. RecordInv'
  BY <1>1, <1>2, <1>3, <1>4 DEF RecordInv, FailureIsOver, JobAt, installer, Types, Jobs, Open
<1> QED
  BY <1>5, <1>6, <1>7, <1>8 DEF OtaInv

LEMMA WriterStepKeeps == OtaInv /\ WriterStep => OtaInv'
<1> SUFFICES ASSUME OtaInv, WriterStep PROVE OtaInv'
  OBVIOUS
<1>1. Types /\ UpInv /\ Spares /\ RecordInv
  BY TypesAre DEF OtaInv
<1>2. /\ up' = up /\ meta' = meta /\ good' = good /\ misread' = misread
      /\ installer' = installer /\ operation' = operation /\ runs' = runs /\ faults' = faults
      /\ losses' = losses
  BY DEF WriterStep, device, installer, bounds
<1>3. /\ job.at \in {"erase", "write", "select"} /\ job.slot \in Slots /\ up = "recovery"
      /\ job' \in Jobs /\ job'.slot = job.slot /\ job'.at \in {"write", "select", "restart"}
      /\ job'.run = job.run
  BY <1>1 DEF WriterStep, JobAt, JobGoes, Jobs, Types, Writing, UpInv
<1>4. /\ slot' \in Slotted /\ boot' \in Slots /\ \A s \in Slots \ {job.slot} : slot'[s] = slot[s]
      /\ job'.at = "restart" => boot' = job.slot
  BY <1>1, <1>3 DEF WriterStep, JobAt, JobGoes, Jobs, Slotted, Images, Types
<1>5. TypeOK'
  BY <1>1, <1>2, <1>3, <1>4, TypesAre DEF Types, installer, Writing
<1>6. UpInv'
  BY <1>1, <1>2, <1>3, <1>4, Names DEF UpInv, Writing
<1>7. Spares'
  BY <1>1, <1>2, <1>3, <1>4 DEF Spares, JobAt, Writing
<1>8. RecordInv'
  BY <1>1, <1>2, <1>3, <1>4 DEF RecordInv, FailureIsOver, JobAt, installer, Types, Jobs, Open
<1> QED
  BY <1>5, <1>6, <1>7, <1>8 DEF OtaInv

LEMMA JobRestartsKeeps == OtaInv /\ JobRestarts => OtaInv'
<1> SUFFICES ASSUME OtaInv, JobRestarts PROVE OtaInv'
  OBVIOUS
<1>1. Types /\ UpInv /\ Spares /\ RecordInv
  BY TypesAre DEF OtaInv
<1>2. /\ slot' = slot /\ boot' = boot /\ meta' = meta /\ good' = good
      /\ misread' = misread /\ installer' = installer /\ operation' = operation /\ runs' = runs
      /\ faults' = faults /\ losses' = losses
  BY DEF JobRestarts, device, installer, bounds
<1>3. /\ job.at = "restart" /\ job' \in Jobs /\ job'.slot = job.slot /\ job'.at = "verify"
      /\ job'.run = job.run
  BY <1>1 DEF JobRestarts, JobAt, JobGoes, Jobs, Types
<1>4. up' = Boots
  BY DEF JobRestarts
<1>5. up' \in Slots \cup {"recovery"} /\ (up' # "recovery" => slot[up'] \in Images)
  BY <1>1, <1>4, BootsDoes
<1>6. TypeOK'
  BY <1>1, <1>2, <1>3, <1>4, <1>5, TypesAre DEF Types, installer, Writing
<1>7. UpInv'
  BY <1>1, <1>2, <1>3, <1>4, <1>5, Names DEF UpInv, Writing
<1>8. Spares'
  BY <1>1, <1>2, <1>3, <1>4, <1>5 DEF Spares, JobAt, Writing
<1>9. RecordInv'
  BY <1>1, <1>2, <1>3, <1>4, <1>5 DEF RecordInv, FailureIsOver, JobAt, installer, Types, Jobs, Open
<1> QED
  BY <1>6, <1>7, <1>8, <1>9 DEF OtaInv

LEMMA HealthyKeeps == OtaInv /\ Healthy => OtaInv'
<1> SUFFICES ASSUME OtaInv, Healthy PROVE OtaInv'
  OBVIOUS
<1>1. Types /\ UpInv /\ Spares /\ RecordInv
  BY TypesAre DEF OtaInv
<1>2. /\ slot' = slot /\ boot' = boot /\ up' = up /\ job' = job
      /\ installer' = installer /\ operation' = operation /\ runs' = runs /\ faults' = faults
      /\ losses' = losses
  BY DEF Healthy, device, installer, bounds
<1>3. up \in Slots /\ meta' \in Metas /\ meta'.last_good = up /\ good' = slot[up] /\ misread' = FALSE
  BY <1>1 DEF Healthy, Metas, Types
<1>4. up # "recovery" /\ slot[up] \in Images
  BY <1>1, <1>3, Names DEF UpInv
<1>5. TypeOK'
  BY <1>1, <1>2, <1>3, <1>4, TypesAre DEF Types, installer, Images
<1>6. UpInv'
  BY <1>1, <1>2, <1>3, <1>4 DEF UpInv
<1>7. Spares'
  BY <1>1, <1>2, <1>3, <1>4 DEF Spares, JobAt, UpInv, Writing
<1>8. RecordInv'
  BY <1>1, <1>2, <1>3, <1>4 DEF RecordInv, FailureIsOver, JobAt, installer, Types, Jobs, Open
<1> QED
  BY <1>5, <1>6, <1>7, <1>8 DEF OtaInv

LEMMA EnterRecoveryKeeps == OtaInv /\ EnterRecovery => OtaInv'
<1> SUFFICES ASSUME OtaInv, EnterRecovery PROVE OtaInv'
  OBVIOUS
<1>1. Types /\ UpInv /\ Spares /\ RecordInv
  BY TypesAre DEF OtaInv
<1>2. /\ slot' = slot /\ boot' = boot /\ meta' = meta /\ job' = job
      /\ good' = good /\ misread' = misread /\ installer' = installer /\ operation' = operation
      /\ runs' = runs /\ faults' = faults /\ losses' = losses
  BY DEF EnterRecovery, device, installer, bounds
<1>3. job.at \in {"none", "verify"} /\ up' = "recovery"
  BY DEF EnterRecovery
<1>4. TypeOK'
  BY <1>1, <1>2, <1>3, TypesAre DEF Types, installer
<1>5. UpInv'
  BY <1>1, <1>2, <1>3, Names DEF UpInv, Writing
<1>6. Spares'
  BY <1>1, <1>2, <1>3 DEF Spares, JobAt
<1>7. RecordInv'
  BY <1>1, <1>2, <1>3 DEF RecordInv, FailureIsOver, JobAt, installer, Types, Jobs, Open
<1> QED
  BY <1>4, <1>5, <1>6, <1>7 DEF OtaInv

LEMMA JobFailsKeeps == OtaInv /\ JobFails => OtaInv'
<1> SUFFICES ASSUME OtaInv, JobFails PROVE OtaInv'
  OBVIOUS
<1>1. Types /\ UpInv /\ Spares /\ RecordInv
  BY TypesAre DEF OtaInv
<1>2. /\ slot' = slot /\ boot' = boot /\ up' = up /\ meta' = meta
      /\ good' = good /\ misread' = misread /\ installer' = installer
  BY DEF JobFails, device, installer, bounds
<1>3. /\ job.at \in {"begin"} \cup Writing /\ job' \in Jobs /\ job'.at = "none" /\ job'.run = 0
      /\ operation' = IF operation = "running" THEN "failed" ELSE operation
  BY OtaAssumption DEF JobFails, Nobody, Jobs
<1>4. runs' = runs /\ faults' \in 0..MaxFaults /\ losses' = losses
  BY <1>1, OtaAssumption DEF JobFails, Fault, Types
<1>5. TypeOK'
  BY <1>1, <1>2, <1>3, <1>4, TypesAre DEF Types, installer, Writing, Closed
<1>6. UpInv'
  BY <1>1, <1>2, <1>3, <1>4 DEF UpInv, Writing
<1>7. Spares'
  BY <1>1, <1>2, <1>3, <1>4 DEF Spares, JobAt, Writing
<1>8. RecordInv'
  BY <1>1, <1>2, <1>3, <1>4 DEF RecordInv, FailureIsOver, JobAt, installer, Types, Jobs, Open
<1> QED
  BY <1>5, <1>6, <1>7, <1>8 DEF OtaInv

LEMMA PowerLossKeeps == OtaInv /\ PowerLoss => OtaInv'
<1> SUFFICES ASSUME OtaInv, PowerLoss PROVE OtaInv'
  OBVIOUS
<1>1. Types /\ UpInv /\ Spares /\ RecordInv
  BY TypesAre DEF OtaInv
<1>2. /\ slot' = slot /\ boot' = boot /\ meta' = meta /\ good' = good
      /\ misread' = misread /\ installer' = installer /\ operation' = operation /\ runs' = runs
      /\ faults' = faults
  BY DEF PowerLoss, device, installer, bounds
<1>3. /\ job' \in Jobs /\ job'.at = "none" /\ job'.run = 0 /\ up' = Boots
  BY OtaAssumption DEF PowerLoss, Nobody, Jobs
<1>4. losses' \in 0..MaxLosses
  BY <1>1, OtaAssumption DEF PowerLoss, Types
<1>5. up' \in Slots \cup {"recovery"} /\ (up' # "recovery" => slot[up'] \in Images)
  BY <1>1, <1>3, BootsDoes
<1>6. TypeOK'
  BY <1>1, <1>2, <1>3, <1>4, <1>5, TypesAre DEF Types, installer, Writing
<1>7. UpInv'
  BY <1>1, <1>2, <1>3, <1>4, <1>5, Names DEF UpInv, Writing
<1>8. Spares'
  BY <1>1, <1>2, <1>3, <1>4, <1>5 DEF Spares, JobAt, Writing
<1>9. RecordInv'
  BY <1>1, <1>2, <1>3, <1>4, <1>5 DEF RecordInv, FailureIsOver, JobAt, installer, Types, Jobs, Open
<1> QED
  BY <1>6, <1>7, <1>8, <1>9 DEF OtaInv

LEMMA AcceptKeeps == OtaInv /\ Accept => OtaInv'
<1> SUFFICES ASSUME OtaInv, Accept PROVE OtaInv'
  OBVIOUS
<1>1. Types /\ UpInv /\ Spares /\ RecordInv
  BY TypesAre DEF OtaInv
<1>2. /\ slot' = slot /\ boot' = boot /\ up' = up /\ meta' = meta
      /\ good' = good /\ misread' = misread /\ installer' = installer /\ runs' = runs
      /\ faults' = faults /\ losses' = losses
  BY DEF Accept, device, installer, bounds
<1>3. /\ operation = "requested" /\ operation' = "running"
      /\ job.at = "none" /\ up = "recovery" /\ job' \in Jobs /\ job'.at = "begin"
      /\ job'.run = runs
  BY <1>1 DEF Accept, JobAt, Nobody, Jobs, Types
<1>4. TypeOK'
  BY <1>1, <1>2, <1>3, TypesAre DEF Types, installer, Writing, Open
<1>5. UpInv'
  BY <1>1, <1>2, <1>3, Names DEF UpInv
<1>6. Spares'
  BY <1>1, <1>2, <1>3 DEF Spares, JobAt, Writing
<1>7. RecordInv'
  BY <1>1, <1>2, <1>3 DEF RecordInv, FailureIsOver, JobAt, installer, Types, Jobs, Open
<1> QED
  BY <1>4, <1>5, <1>6, <1>7 DEF OtaInv

LEMMA ConcludeKeeps == OtaInv /\ Conclude => OtaInv'
<1> SUFFICES ASSUME OtaInv, Conclude PROVE OtaInv'
  OBVIOUS
<1>1. Types /\ UpInv /\ Spares /\ RecordInv
  BY TypesAre DEF OtaInv
<1>2. /\ slot' = slot /\ boot' = boot /\ up' = up /\ meta' = meta
      /\ good' = good /\ misread' = misread /\ installer' = installer /\ runs' = runs
      /\ faults' = faults /\ losses' = losses
  BY DEF Conclude, device, installer, bounds
<1>3. /\ operation = "running" /\ operation' \in {"succeeded", "failed", "outcome_unknown"}
      /\ job' = job \/ (job'.at = "none" /\ job'.run = 0)
      /\ operation' = "failed" => job'.at = "none"
      /\ job' \in Jobs
  BY <1>1, OtaAssumption DEF Conclude, Nobody, Jobs, Types, JobAt
<1>4. operation' = "succeeded" => /\ job.at = "verify" /\ up = job.slot /\ slot[up] = New
                                  /\ job'.at = "none"
  BY DEF Conclude, JobAt, Nobody
<1>5. TypeOK'
  BY <1>1, <1>2, <1>3, <1>4, TypesAre DEF Types, installer, Writing, Closed
<1>6. UpInv'
  BY <1>1, <1>2, <1>3, <1>4 DEF UpInv, Writing
<1>7. Spares'
  BY <1>1, <1>2, <1>3, <1>4 DEF Spares, JobAt, Writing
<1>8. RecordInv'
  BY <1>1, <1>2, <1>3, <1>4 DEF RecordInv, FailureIsOver, JobAt, installer, Types, Jobs, Open,
     UpInv
<1> QED
  BY <1>5, <1>6, <1>7, <1>8 DEF OtaInv

LEMMA ForsakeKeeps == OtaInv /\ Forsake => OtaInv'
<1> SUFFICES ASSUME OtaInv, Forsake PROVE OtaInv'
  OBVIOUS
<1>1. Types /\ UpInv /\ Spares /\ RecordInv
  BY TypesAre DEF OtaInv
<1>2. /\ slot' = slot /\ boot' = boot /\ up' = up /\ meta' = meta
      /\ good' = good /\ misread' = misread /\ installer' = installer /\ operation' = operation
      /\ runs' = runs /\ faults' = faults /\ losses' = losses
  BY DEF Forsake, device, installer, bounds
<1>3. job.at = "verify" /\ job' \in Jobs /\ job'.at = "none" /\ job'.run = 0
  BY OtaAssumption DEF Forsake, JobAt, Nobody, Jobs
<1>4. TypeOK'
  BY <1>1, <1>2, <1>3, TypesAre DEF Types, installer, Writing
<1>5. UpInv'
  BY <1>1, <1>2, <1>3 DEF UpInv, Writing
<1>6. Spares'
  BY <1>1, <1>2, <1>3 DEF Spares, JobAt, Writing
<1>7. RecordInv'
  BY <1>1, <1>2, <1>3 DEF RecordInv, FailureIsOver, JobAt, installer, Types, Jobs, Open
<1> QED
  BY <1>4, <1>5, <1>6, <1>7 DEF OtaInv

LEMMA SubmitKeeps == OtaInv /\ Submit => OtaInv'
<1> SUFFICES ASSUME OtaInv, Submit PROVE OtaInv'
  OBVIOUS
<1>1. Types /\ UpInv /\ Spares /\ RecordInv
  BY TypesAre DEF OtaInv
<1>2. /\ slot' = slot /\ boot' = boot /\ up' = up /\ meta' = meta
      /\ job' = job /\ good' = good /\ misread' = misread /\ faults' = faults
      /\ losses' = losses
  BY DEF Submit, device, installer, bounds
<1>3. /\ host' = "submit" /\ due' = FALSE /\ guessed' = FALSE /\ operation' = "requested"
      /\ runs' = runs + 1 /\ runs' \in 0..MaxRuns
  BY <1>1, OtaAssumption DEF Submit, Types
<1>4. TypeOK'
  BY <1>1, <1>2, <1>3, TypesAre DEF Types, installer, Reports, Open
<1>5. UpInv'
  BY <1>1, <1>2, <1>3 DEF UpInv
<1>6. Spares'
  BY <1>1, <1>2, <1>3 DEF Spares, JobAt
<1>7. RecordInv'
  BY <1>1, <1>2, <1>3 DEF RecordInv, FailureIsOver, JobAt, installer, Types, Jobs, Open
<1> QED
  BY <1>4, <1>5, <1>6, <1>7 DEF OtaInv

LEMMA RefuseKeeps == OtaInv /\ Refuse => OtaInv'
<1> SUFFICES ASSUME OtaInv, Refuse PROVE OtaInv'
  OBVIOUS
<1>1. Types /\ UpInv /\ Spares /\ RecordInv
  BY TypesAre DEF OtaInv
<1>2. operation = "requested" /\ operation' = "cancelled" /\ UNCHANGED <<device, installer, bounds>>
  BY DEF Refuse
<1>3. TypeOK'
  BY <1>1, <1>2, TypesAre DEF Types, device, installer, bounds, Closed
<1>4. UpInv' /\ Spares'
  BY <1>1, <1>2 DEF UpInv, Spares, JobAt, device
<1>5. RecordInv'
  BY <1>1, <1>2 DEF RecordInv, FailureIsOver, JobAt, device, installer, bounds, Open
<1> QED
  BY <1>3, <1>4, <1>5 DEF OtaInv

LEMMA DeadlineKeeps == OtaInv /\ Deadline => OtaInv'
<1> SUFFICES ASSUME OtaInv, Deadline PROVE OtaInv'
  OBVIOUS
<1>1. Types /\ UpInv /\ Spares /\ RecordInv
  BY TypesAre DEF OtaInv
<1>2. due' = TRUE /\ UNCHANGED <<device, host, guessed, operation, bounds>>
  BY DEF Deadline
<1>3. TypeOK'
  BY <1>1, <1>2, TypesAre DEF Types, device, bounds
<1>4. UpInv' /\ Spares'
  BY <1>1, <1>2 DEF UpInv, Spares, JobAt, device
<1>5. RecordInv'
  BY <1>1, <1>2 DEF RecordInv, FailureIsOver, JobAt, device, bounds
<1> QED
  BY <1>3, <1>4, <1>5 DEF OtaInv

\* What a step of the waiting installer reports, and from which record.
LEMMA HostWaitsDoes ==
  ASSUME HostWaits
  PROVE  /\ host' \in {"failed", "unknown", "poll", "succeeded", "unavailable"}
         /\ guessed' \in BOOLEAN /\ UNCHANGED <<device, due, operation, bounds>>
         /\ host' = "failed" /\ ~guessed' => operation \notin Open \cup {"outcome_unknown"}
         /\ host' = "succeeded" => operation = "succeeded"
<1> USE DEF HostSays, Silence, Ended, Meaning, Concludes
<1>1. CASE Submitted
  BY <1>1 DEF Submitted
<1>2. CASE CommandFails
  <2>1. operation # "outcome_unknown" /\ host' = "failed" /\ guessed' = (operation \in Open)
    BY <1>2 DEF CommandFails
  <2>2. guessed' \in BOOLEAN /\ (~guessed' => operation \notin Open)
    <3>1. CASE operation \in Open
      BY <2>1, <3>1
    <3>2. CASE operation \notin Open
      BY <2>1, <3>2
    <3> QED
      BY <3>1, <3>2
  <2>3. UNCHANGED <<device, due, operation, bounds>>
    BY <1>2 DEF CommandFails
  <2> QED
    BY <2>1, <2>2, <2>3
<1>3. CASE Unanswered \/ PollFails
  BY <1>3 DEF Unanswered, PollFails
<1>4. CASE HostEnds
  BY <1>4 DEF HostEnds, TimedOut, PollEnds, PollLate
<1> QED
  BY <1>1, <1>2, <1>3, <1>4 DEF HostWaits

LEMMA HostWaitsKeeps == OtaInv /\ HostWaits => OtaInv'
<1> SUFFICES ASSUME OtaInv, HostWaits PROVE OtaInv'
  OBVIOUS
<1>1. Types /\ UpInv /\ Spares /\ RecordInv
  BY TypesAre DEF OtaInv
<1>2. /\ host' \in {"failed", "unknown", "poll", "succeeded", "unavailable"}
      /\ guessed' \in BOOLEAN /\ UNCHANGED <<device, due, operation, bounds>>
      /\ host' = "failed" /\ ~guessed' => operation \notin Open \cup {"outcome_unknown"}
      /\ host' = "succeeded" => operation = "succeeded"
  BY HostWaitsDoes
<1>3. TypeOK'
  BY <1>1, <1>2, TypesAre DEF Types, Reports, device, bounds
<1>4. UpInv' /\ Spares'
  BY <1>1, <1>2 DEF UpInv, Spares, JobAt, device
<1>5. RecordInv'
  <2>1. host' = "failed" /\ ~guessed' =>
          operation' \notin Open /\ (JobAt("none")' \/ job'.run # runs')
    BY <1>1, <1>2 DEF Types, Closed, RecordInv, JobAt, device, bounds
  <2> QED
    BY <1>1, <1>2, <2>1 DEF RecordInv, FailureIsOver, JobAt, device, bounds
<1> QED
  BY <1>3, <1>4, <1>5 DEF OtaInv

----------------------------------------------------------------------------
(* The whole program, and the theorems.                                    *)

LEMMA InitOta == Init => OtaInv
<1> SUFFICES ASSUME Init PROVE OtaInv
  OBVIOUS
<1>1. PICK s \in Slots :
        /\ slot = [t \in Slots |-> IF t = s THEN Old ELSE "blank"] /\ boot = s
        /\ \E known \in {s, NoSlot} : meta = [last_good |-> known, target |-> NoSlot]
  BY DEF Init
<1>2. /\ up = "recovery" /\ job = Nobody /\ host = "idle" /\ operation = "none"
      /\ due = FALSE /\ guessed = FALSE
      /\ runs = 0 /\ faults = 0 /\ losses = 0 /\ misread = FALSE
      /\ good = IF meta.last_good = NoSlot THEN "blank" ELSE Old
  BY DEF Init
<1>3. slot \in Slotted /\ slot[s] = Old /\ meta \in Metas /\ meta.last_good \in {s, NoSlot}
  BY <1>1 DEF Slotted, Metas, Images
<1>4. job \in Jobs /\ job.at = "none" /\ job.run = 0
  BY <1>2, OtaAssumption DEF Jobs, Nobody
<1>5. TypeOK
  <2>1. runs \in 0..MaxRuns /\ faults \in 0..MaxFaults /\ losses \in 0..MaxLosses
    BY <1>2, OtaAssumption
  <2>2. good \in Images \cup {"blank"}
    BY <1>2 DEF Images
  <2> QED
    BY <1>1, <1>2, <1>3, <1>4, <2>1, <2>2, TypesAre DEF Types, installer, Writing
<1>6. UpInv
  BY <1>2, <1>4, Names DEF UpInv, Writing
<1>7. Spares
  BY <1>2, <1>3, <1>4, Names DEF Spares, JobAt, Writing
<1>8. RecordInv
  BY <1>2, <1>4 DEF RecordInv, FailureIsOver, JobAt
<1> QED
  BY <1>5, <1>6, <1>7, <1>8 DEF OtaInv

LEMMA NextKeeps == OtaInv /\ [Next]_vars => OtaInv'
<1> SUFFICES ASSUME OtaInv, [Next]_vars PROVE OtaInv'
  OBVIOUS
<1>1. CASE JobStep
  BY <1>1, SelectTargetKeeps, PrepareKeeps, RecoveryWriteKeeps, WriterStepKeeps, JobRestartsKeeps
     DEF JobStep
<1>2. CASE Healthy \/ EnterRecovery \/ JobFails \/ PowerLoss
  BY <1>2, HealthyKeeps, EnterRecoveryKeeps, JobFailsKeeps, PowerLossKeeps
<1>3. CASE Accept \/ Refuse \/ Conclude \/ Forsake
  BY <1>3, AcceptKeeps, RefuseKeeps, ConcludeKeeps, ForsakeKeeps
<1>4. CASE Submit \/ Deadline \/ HostWaits
  BY <1>4, SubmitKeeps, DeadlineKeeps, HostWaitsKeeps
<1>5. CASE UNCHANGED vars
  BY <1>5, TypesAre DEF vars, device, installer, bounds, OtaInv, Types, UpInv, Spares, RecordInv,
     FailureIsOver, JobAt
<1> QED
  BY <1>1, <1>2, <1>3, <1>4, <1>5 DEF Next

\* The slot under the writer, the metadata and the record of the operation
\* agree, through every run, fault and power loss.
THEOREM OtaInvariance == Spec => []OtaInv
<1>1. Init => OtaInv
  BY InitOta
<1>2. OtaInv /\ [Next]_vars => OtaInv'
  BY NextKeeps
<1> QED
  BY <1>1, <1>2, PTL DEF Spec

\* The variables keep their types, and the writer has a slot to write.
THEOREM OtaTypeCorrect == Spec => []TypeOK
<1>1. OtaInv => TypeOK
  BY DEF OtaInv
<1> QED
  BY <1>1, OtaInvariance, PTL

\* Where there are two slots, the last application that reported itself healthy
\* is still there whatever an OTA does, as long as last_good could be read.
THEOREM LastGoodIsSpared == Spec => []LastGoodSpared
<1>1. OtaInv => LastGoodSpared
  <2> SUFFICES ASSUME OtaInv, Cardinality(Slots) > 1, ~misread, meta.last_good # NoSlot
               PROVE  slot[meta.last_good] = good
    BY DEF LastGoodSpared
  <2>1. meta.last_good \in Slots
    BY TypesAre DEF OtaInv, Types, Metas
  <2>2. Cardinality({meta.last_good}) = 1
    BY FS_Singleton
  <2>3. Slots # {meta.last_good}
    BY <2>2
  <2> QED
    BY <2>1, <2>3 DEF OtaInv, Spares
<1> QED
  BY <1>1, OtaInvariance, PTL

\* An installer that reports success leaves the new application in the slot
\* that boots.
THEOREM SuccessInstalled == Spec => []SuccessIsInstalled
<1>1. OtaInv => SuccessIsInstalled
  BY DEF OtaInv, RecordInv, SuccessIsInstalled
<1> QED
  BY <1>1, OtaInvariance, PTL

\* An installer that reports failure, and does not guess, leaves no writer at work
\* for its request and no request that could still be accepted.
THEOREM FailureOver == Spec => []FailureIsOver
<1>1. OtaInv => FailureIsOver
  BY DEF OtaInv, RecordInv
<1> QED
  BY <1>1, OtaInvariance, PTL

----------------------------------------------------------------------------
(* The installer comes back.                                               *)

\* While the installer waits, its clock can pass the timeout, and when it has,
\* the wait can end: the one thing the argument takes from ENABLED.
HostReady ==
  /\ Waiting /\ ~due => ENABLED <<Deadline>>_vars
  /\ Waiting /\ due => ENABLED <<HostEnds>>_vars

\* While the installer waits nobody else moves it, and what is due stays due.
LEMMA HostStays ==
  ASSUME Waiting, [Next]_vars
  PROVE  UNCHANGED installer \/ Deadline \/ HostWaits
<1>1. CASE JobStep \/ Healthy \/ EnterRecovery \/ JobFails \/ PowerLoss
  BY <1>1 DEF JobStep, SelectTarget, Prepare, RecoveryWrite, WriterStep, JobRestarts, Healthy,
     EnterRecovery, JobFails, PowerLoss
<1>2. CASE Accept \/ Refuse \/ Conclude \/ Forsake
  BY <1>2 DEF Accept, Refuse, Conclude, Forsake
<1>3. ~Submit
  BY DEF Waiting, Submit, HostAt, Reports
<1>4. CASE UNCHANGED vars
  BY <1>4 DEF vars
<1> QED
  BY <1>1, <1>2, <1>3, <1>4 DEF Next

\* Its own steps lead to a report, or to the polls with the clock as it was; and
\* when the timeout is over the step that must come is a report.
LEMMA HostAdvances ==
  ASSUME Waiting
  PROVE  /\ HostWaits => host' \in Reports \/ (host' = "poll" /\ due' = due)
         /\ HostEnds => host' \in Reports
         /\ Deadline => Waiting' /\ due'
<1>1. HostWaits => host' \in Reports \/ (host' = "poll" /\ due' = due)
  BY HostWaitsDoes DEF Reports
<1>2. HostEnds => host' \in Reports
  BY DEF HostEnds, TimedOut, PollEnds, PollLate, Concludes, HostSays, Silence, Meaning, Reports
<1>3. Deadline => Waiting' /\ due'
  BY DEF Deadline, Waiting
<1> QED
  BY <1>1, <1>2, <1>3

\* An installer that waits reports, whatever becomes of the device and the
\* Gateway, and however often it is run: its timeout passes, and then the wait
\* ends.
THEOREM InstallerComesBack == FairSpec /\ []HostReady => InstallerReturns
<1> DEFINE Early == Waiting /\ ~due
           Overdue == Waiting /\ due
           Reported == host \in Reports
<1>1. Early /\ [Next]_vars => (Early \/ Overdue \/ Reported)'
  BY HostStays, HostAdvances DEF Waiting, installer
<1>2. Overdue /\ [Next]_vars => (Overdue \/ Reported)'
  BY HostStays, HostAdvances DEF Waiting, installer, Deadline
<1>3. Early /\ <<Deadline>>_vars => (Overdue \/ Reported)'
  BY HostAdvances
<1>4. Overdue /\ <<HostEnds>>_vars => Reported'
  BY HostAdvances
<1>5. (Waiting <=> Early \/ Overdue) /\ (Early => Waiting /\ ~due) /\ (Overdue => Waiting /\ due)
  OBVIOUS
<1> HIDE DEF Early, Overdue, Reported
<1>6. (Waiting ~> Reported) <=> InstallerReturns
  BY DEF InstallerReturns, Reported
<1> QED
  BY <1>1, <1>2, <1>3, <1>4, <1>5, <1>6, PTL DEF FairSpec, Spec, Fairness, HostReady
=============================================================================
