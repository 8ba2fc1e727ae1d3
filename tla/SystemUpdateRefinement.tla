----------------------- MODULE SystemUpdateRefinement -----------------------
(***************************************************************************)
(* SystemUpdate implements UpdateWriter: every step of the backend is a    *)
(* step of the abstract writer, or none, under the mapping                 *)
(* holder <- [owner, upd.op], record <- status, claimed <- used.           *)
(***************************************************************************)
EXTENDS SystemUpdateProofs

\* The phase in the record follows what the holder is doing.
RecordMeaning ==
  /\ owner = NoOwner => upd.op = NoOp
  /\ owner # NoOwner =>
       /\ status.owner = owner /\ status.op = upd.op /\ status.result = "ok"
       /\ status.phase # "failed" /\ upd.op \in used
       /\ job[owner].at = "admitted" => status.phase = "idle" /\ ~upd.prepared
       /\ job[owner].at = "open" =>
            /\ upd.active = 0 => status.phase \in {"prepared", "verified"}
            /\ upd.active # 0 => status.phase = "receiving"
       /\ job[owner].at = "commit" => status.phase = "committing"
       /\ job[owner].at = "failed" => status.phase # "committed"

\* What a step has to show.
Implements == RecordMeaning' /\ [Writer!Next]_(Writer!writerVars)

LEMMA InitImplements == Init => RecordMeaning /\ Writer!Init
BY DEF Init, RecordMeaning, Writer!Init, Writer!Free, Writer!NoRecord, NoStatus, ResetUpdate

\* Steps that touch neither the claim nor the record.
LEMMA QuietStep ==
  ASSUME RecordMeaning, owner' = owner, status' = status, used' = used,
         upd'.op = upd.op, upd'.prepared = upd.prepared,
         owner # NoOwner =>
           \/ job'[owner].at = job[owner].at /\ upd'.active = upd.active
           \/ job'[owner].at \in {"failed", "persist", "idle", "sealed"} /\ status.phase # "committed"
  PROVE  Implements
BY DEF Implements, RecordMeaning, Writer!writerVars

\* Steps that move the record of the holder forward.
LEMMA ReportStep ==
  ASSUME RecordMeaning, IndInv, NEW s \in Sources, owner = s, owner' = owner, used' = used,
         upd'.op = upd.op, NEW phase \in Writer!Follows(status.phase),
         Report(phase, status.result),
         job'[s].at \in {"open", "commit", "failed", "sealed"},
         job'[s].at = "open" => /\ upd'.active = 0 => phase \in {"prepared", "verified"}
                                /\ upd'.active # 0 => phase = "receiving",
         job'[s].at = "commit" => phase = "committing",
         job'[s].at = "failed" => phase # "committed"
  PROVE  Implements
<1>1. owner # NoOwner /\ status.result = "ok" /\ upd.op \in Ops /\ phase \in Phases \ {"failed"}
  BY SourceAssumption DEF RecordMeaning, IndInv, TypeOK, Sources, Writer!Follows, Phases
<1>2. status' = [status EXCEPT !.phase = phase]
  BY <1>1 DEF Report, IndInv, TypeOK, Status
<1>3. Writer!Report(s, upd.op, phase)
  BY <1>2 DEF Writer!Report, Writer!Held
<1>4. /\ status'.owner = status.owner /\ status'.op = status.op
      /\ status'.result = "ok" /\ status'.phase = phase
  BY <1>1, <1>2 DEF IndInv, TypeOK, Status
<1>5. RecordMeaning'
  BY <1>1, <1>4 DEF RecordMeaning
<1> QED
  BY <1>1, <1>3, <1>5 DEF Implements, Writer!Next, Writer!Phases, Phases

\* Steps that give the writer back.
LEMMA ReleaseStep ==
  ASSUME RecordMeaning, IndInv, NEW s \in Sources, owner = s, status.phase # "committed",
         owner' = NoOwner, upd' = ResetUpdate, used' = used,
         NEW result \in {"refused", "aborted"}, Report("failed", result)
  PROVE  Implements
<1>1. upd.op \in Ops
  BY SourceAssumption DEF RecordMeaning, IndInv, TypeOK, Sources
<1>2. status' = [status EXCEPT !.phase = "failed", !.result = result]
  BY DEF Report
<1>3. Writer!Release(s, upd.op, result)
  BY <1>2 DEF Writer!Release, Writer!Held, Writer!Free, ResetUpdate
<1>4. RecordMeaning'
  BY DEF RecordMeaning, ResetUpdate
<1> QED
  BY <1>1, <1>3, <1>4 DEF Implements, Writer!Next

\* Steps that take the writer.
LEMMA ClaimStep ==
  ASSUME RecordMeaning, IndInv, NEW s \in Sources, NEW op \in Ops, op \notin used, owner = NoOwner,
         owner' = s, upd'.op = op, used' = used \cup {op}, NEW phase \in {"idle", "prepared"},
         status' = [owner |-> s, op |-> op, phase |-> phase, result |-> "ok"],
         \/ phase = "idle" /\ job'[s].at = "admitted" /\ ~upd'.prepared
         \/ phase = "prepared" /\ job'[s].at = "open" /\ upd'.active = 0
  PROVE  Implements
<1>1. Writer!Claim(s, op, phase)
  BY DEF Writer!Claim, Writer!Free, RecordMeaning
<1>2. RecordMeaning'
  BY SourceAssumption DEF RecordMeaning, Sources
<1> QED
  BY <1>1, <1>2 DEF Implements, Writer!Next, Writer!Phases

----------------------------------------------------------------------------
(* One lemma per action, or per group of actions of the same kind.         *)

LEMMA ReserveImplements ==
  ASSUME RecordMeaning, IndInv, NEW s \in LocalSources, NEW op \in Ops, Reserve(s, op)
  PROVE  Implements
<1>1. s \in Sources /\ job'[s].at = "admitted"
  BY DEF Reserve, Sources, IndInv, TypeOK
<1>2. upd'.op = op /\ ~upd'.prepared
  BY DEF Reserve, ResetUpdate
<1> QED
  BY <1>1, <1>2, ClaimStep DEF Reserve, Unclaimed

LEMMA PrepareLocalImplements ==
  ASSUME RecordMeaning, IndInv, NEW s \in Sources, NEW b \in Bundles, PrepareLocal(s, b)
  PROVE  Implements
<1>1. /\ owner = s /\ owner # NoOwner /\ status.phase = "idle" /\ upd.op \in Ops
      /\ used' = used
  <2>1. job[s].at = "admitted" /\ used' = used
    BY DEF PrepareLocal, At, world
  <2> QED
    BY <2>1, Holder, SourceAssumption DEF RecordMeaning, Holding, Sources, IndInv, TypeOK
<1>2. CASE b.form = "unparsable" /\ UNCHANGED writer /\ Goes(s, "failed")
  BY <1>1, <1>2, QuietStep DEF writer, Goes, IndInv, TypeOK
<1>3. CASE Accept(s, upd.op, b) /\ Goes(s, "open")
  <2>1. status' = [status EXCEPT !.phase = "prepared"]
    BY <1>1, <1>3 DEF Accept, RecordMeaning, IndInv, TypeOK, Status
  <2>2. Report("prepared", status.result)
    BY <1>1, <2>1 DEF Report, IndInv, TypeOK, Status
  <2>3. upd'.op = upd.op /\ upd'.active = 0 /\ owner' = owner
    BY <1>1, <1>3 DEF Accept, ResetUpdate
  <2>4. job'[s].at = "open"
    BY <1>3 DEF Goes, IndInv, TypeOK
  <2> QED
    BY <1>1, <2>2, <2>3, <2>4, ReportStep DEF Writer!Follows
<1>4. CASE Refuse(b)
  BY <1>1, <1>4, ReleaseStep DEF Refuse
<1> QED
  BY <1>2, <1>3, <1>4 DEF PrepareLocal

LEMMA PrepareIrisImplements ==
  ASSUME RecordMeaning, IndInv, NEW op \in Ops, NEW b \in Bundles, PrepareIris(op, b)
  PROVE  Implements
<1>1. Iris \in Sources /\ op \notin used /\ owner = NoOwner /\ used' = used \cup {op}
  BY DEF PrepareIris, Unclaimed, Sources
<1>2. CASE Accept(Iris, op, b) /\ job' = [job EXCEPT ![Iris] = [op |-> op, at |-> "open"]]
  <2>1. job'[Iris].at = "open"
    BY <1>1, <1>2 DEF IndInv, TypeOK
  <2>2. upd'.op = op /\ upd'.active = 0
    BY <1>2 DEF Accept, ResetUpdate
  <2> QED
    BY <1>1, <1>2, <2>1, <2>2, ClaimStep DEF Accept
<1>3. CASE Refuse(b)
  <2>1. Writer!Refuse(op)
    BY <1>1, <1>3 DEF Refuse, Report, Writer!Refuse, Writer!Free, RecordMeaning, ResetUpdate
  <2>2. RecordMeaning'
    BY <1>3 DEF Refuse, RecordMeaning, ResetUpdate
  <2> QED
    BY <2>1, <2>2 DEF Implements, Writer!Next
<1> QED
  BY <1>2, <1>3 DEF PrepareIris

\* The holder, in the terms of the record.
LEMMA HolderRecord ==
  ASSUME RecordMeaning, IndInv, NEW s \in Sources, job[s].at \in Holding
  PROVE  /\ owner = s /\ owner # NoOwner
         /\ job \in [Sources -> [op : Ops \cup {NoOp}, at : Stages]]
         /\ status.phase = "committed" => job[s].at = "sealed"
         /\ job[s].at = "open" =>
              /\ upd.active = 0 => status.phase \in {"prepared", "verified"}
              /\ upd.active # 0 => status.phase = "receiving"
         /\ job[s].at = "commit" => status.phase = "committing"
BY Holder, SourceAssumption DEF RecordMeaning, IndInv, TypeOK, Sources, CommittedMeaning

\* Begin, Write and End either report, or change nothing the record shows, or
\* leave the source with a failure.
LEMMA StreamStep ==
  ASSUME RecordMeaning, IndInv, NEW s \in Sources, job[s].at = "open",
         owner' = owner, used' = used, upd'.op = upd.op, upd'.prepared = upd.prepared,
         \/ /\ job' = job
            /\ \/ Report("receiving", status.result) /\ upd'.active # 0
               \/ Report("verified", status.result) /\ upd'.active = 0 /\ upd.active # 0
         \/ Goes(s, "failed") /\ status' = status
  PROVE  Implements
<1>1. /\ owner = s /\ owner # NoOwner /\ status.phase # "committed"
      /\ job \in [Sources -> [op : Ops \cup {NoOp}, at : Stages]]
      /\ upd.active = 0 => status.phase \in {"prepared", "verified"}
      /\ upd.active # 0 => status.phase = "receiving"
  BY HolderRecord DEF Holding
<1>2. CASE job' = job /\ Report("receiving", status.result) /\ upd'.active # 0
  <2>1. "receiving" \in Writer!Follows(status.phase)
    BY <1>1 DEF Writer!Follows
  <2> QED
    BY <1>1, <1>2, <2>1, ReportStep
<1>3. CASE job' = job /\ Report("verified", status.result) /\ upd'.active = 0 /\ upd.active # 0
  <2>1. "verified" \in Writer!Follows(status.phase)
    BY <1>1, <1>3 DEF Writer!Follows
  <2> QED
    BY <1>1, <1>3, <2>1, ReportStep
<1>4. CASE Goes(s, "failed") /\ status' = status
  BY <1>1, <1>4, QuietStep DEF Goes
<1> QED
  BY <1>2, <1>3, <1>4

LEMMA BeginImplements ==
  ASSUME RecordMeaning, IndInv, NEW s \in Sources, NEW i \in DOMAIN upd.plan, Begin(s, i)
  PROVE  Implements
<1>1. job[s].at = "open" /\ owner' = owner /\ used' = used /\ upd \in Update /\ i # 0
  BY PlanFacts DEF Begin, At, world, IndInv, TypeOK
<1>2. \/ /\ job' = job /\ Report("receiving", status.result)
         /\ \/ upd' = [upd EXCEPT !.active = i, !.received = 0, !.match = TRUE]
            \/ upd' = [upd EXCEPT !.active = i, !.received = 0, !.match = TRUE,
                                  !.staged[upd.plan[i].kind] = Blank]
      \/ /\ Goes(s, "failed") /\ status' = status
         /\ upd' = upd \/ upd' = [upd EXCEPT !.staged[upd.plan[i].kind] = Blank]
  BY DEF Begin
<1>3. /\ upd'.op = upd.op /\ upd'.prepared = upd.prepared
      /\ \/ job' = job /\ Report("receiving", status.result) /\ upd'.active # 0
         \/ Goes(s, "failed") /\ status' = status
  BY <1>1, <1>2 DEF Update
<1> QED
  BY <1>1, <1>2, <1>3, StreamStep

LEMMA WriteImplements ==
  ASSUME RecordMeaning, IndInv, NEW s \in Sources, NEW sound \in BOOLEAN, Write(s, sound)
  PROVE  Implements
<1> DEFINE c == upd.plan[upd.active]
<1>1. /\ job[s].at = "open" /\ owner' = owner /\ used' = used /\ upd \in Update
      /\ upd.active # 0
  BY DEF Write, At, world, IndInv, TypeOK
<1>2. \/ /\ job' = job /\ Report("receiving", status.result)
         /\ \/ upd' = [upd EXCEPT !.received = @ + 1, !.match = @ /\ sound]
            \/ upd' = [upd EXCEPT !.received = @ + 1, !.match = @ /\ sound,
                                  !.staged[c.kind] = Filled(c, @, sound)]
      \/ Goes(s, "failed") /\ status' = status /\ upd' = upd
  BY DEF Write
<1>3. upd'.op = upd.op /\ upd'.prepared = upd.prepared /\ upd'.active = upd.active
  BY <1>1, <1>2 DEF Update
<1> QED
  BY <1>1, <1>2, <1>3, StreamStep

LEMMA EndImplements ==
  ASSUME RecordMeaning, IndInv, NEW s \in Sources, End(s)
  PROVE  Implements
<1> DEFINE c == upd.plan[upd.active]
<1>1. /\ job[s].at = "open" /\ owner' = owner /\ used' = used /\ upd \in Update
      /\ upd.active # 0
  BY DEF End, At, world, IndInv, TypeOK
<1>2. \/ /\ job' = job /\ Report("verified", status.result)
         /\ upd' = [upd EXCEPT !.active = 0, !.received = 0,
                               !.completed = @ \cup {upd.active},
                               !.layoutValid = @ \/ c.kind = "partition_table"]
      \/ /\ Goes(s, "failed") /\ status' = status
         /\ upd' = upd \/ upd' = [upd EXCEPT !.active = 0, !.received = 0]
  BY DEF End
<1>3. /\ upd'.op = upd.op /\ upd'.prepared = upd.prepared
      /\ upd'.active = 0 \/ (upd' = upd /\ Goes(s, "failed") /\ status' = status)
  BY <1>1, <1>2 DEF Update
<1> QED
  BY <1>1, <1>2, <1>3, StreamStep

LEMMA CommitStartImplements ==
  ASSUME RecordMeaning, IndInv, NEW s \in Sources, CommitStart(s)
  PROVE  Implements
<1>1. /\ job[s].at = "open" /\ owner' = owner /\ used' = used /\ upd' = upd
      /\ upd.active = 0 /\ Report("committing", "ok")
      /\ Goes(s, "commit") \/ Goes(s, "failed")
  BY DEF CommitStart, At, world
<1>2. /\ owner = s /\ status.result = "ok"
      /\ job \in [Sources -> [op : Ops \cup {NoOp}, at : Stages]]
      /\ status.phase \in {"prepared", "verified"}
  BY <1>1, HolderRecord DEF Holding, RecordMeaning
<1>3. "committing" \in Writer!Follows(status.phase) /\ Report("committing", status.result)
  BY <1>1, <1>2 DEF Writer!Follows
<1>4. job'[s].at \in {"commit", "failed"}
  BY <1>1, <1>2 DEF Goes
<1> QED
  BY <1>1, <1>2, <1>3, <1>4, ReportStep

\* The steps of commit_update up to the result record change flash and the
\* boot selection only.
LEMMA CommitImplements ==
  ASSUME RecordMeaning, IndInv, NEW s \in Sources,
         \/ CommitSkip(s) \/ CommitErase(s) \/ CommitWrite(s)
         \/ CommitSelect(s) \/ CommitPersist(s)
  PROVE  Implements
<1>1. job[s].at = "commit" /\ UNCHANGED <<owner, status, upd, used>>
      /\ (job' = job \/ Goes(s, "failed"))
  BY DEF CommitSkip, CommitErase, CommitWrite, CommitSelect, CommitPersist, CommitAt, At,
         writer, world, device
<1>2. /\ owner = s /\ status.phase = "committing"
      /\ job \in [Sources -> [op : Ops \cup {NoOp}, at : Stages]]
  BY <1>1, HolderRecord DEF Holding
<1> QED
  BY <1>1, <1>2, QuietStep DEF Goes

LEMMA CommitScheduleImplements ==
  ASSUME RecordMeaning, IndInv, NEW s \in Sources, CommitSchedule(s)
  PROVE  Implements
<1>1. /\ job[s].at = "commit" /\ owner' = owner /\ upd' = upd /\ used' = used
      /\ \/ Report("committed", "ok") /\ Goes(s, "sealed")
         \/ Goes(s, "failed") /\ status' = status
  BY DEF CommitSchedule, CommitAt, At
<1>2. /\ owner = s /\ status.phase = "committing" /\ status.result = "ok"
      /\ job \in [Sources -> [op : Ops \cup {NoOp}, at : Stages]]
  BY <1>1, HolderRecord DEF Holding, RecordMeaning
<1>3. CASE Report("committed", "ok") /\ Goes(s, "sealed")
  <2>1. job'[s].at = "sealed" /\ "committed" \in Writer!Follows(status.phase)
    BY <1>2, <1>3 DEF Goes, Writer!Follows
  <2> QED
    BY <1>1, <1>2, <1>3, <2>1, ReportStep
<1>4. CASE Goes(s, "failed") /\ status' = status
  BY <1>1, <1>2, <1>4, QuietStep DEF Goes
<1> QED
  BY <1>1, <1>3, <1>4

\* A source that fails keeps the writer and the record until it aborts.
LEMMA FailImplements ==
  ASSUME RecordMeaning, IndInv, NEW s \in Sources, Fail(s)
  PROVE  Implements
<1>1. /\ job[s].at \in {"admitted", "open"} /\ Goes(s, "failed")
      /\ UNCHANGED <<owner, status, upd, used>>
  BY DEF Fail, At, writer, world
<1>2. /\ owner = s /\ status.phase # "committed"
      /\ job \in [Sources -> [op : Ops \cup {NoOp}, at : Stages]]
  BY <1>1, HolderRecord DEF Holding
<1> QED
  BY <1>1, <1>2, QuietStep DEF Goes

LEMMA AbortImplements ==
  ASSUME RecordMeaning, IndInv, NEW s \in Sources, Abort(s)
  PROVE  Implements
<1>1. job[s].at = "failed" /\ AbortBody(s, job[s].op) /\ used' = used
  BY DEF Abort, At, world
<1>2. CASE AbortAccepted(s, job[s].op)
  <2>1. /\ owner = s /\ owner # NoOwner /\ status.phase # "committed"
        /\ upd' = ResetUpdate /\ Report("failed", "aborted") /\ owner' = NoOwner
    BY <1>1, <1>2, SourceAssumption DEF AbortBody, AbortAccepted, RecordMeaning, Sources
  <2> QED
    BY <1>1, <2>1, ReleaseStep
<1>3. CASE ~AbortAccepted(s, job[s].op)
  <2>1. Goes(s, "idle") /\ UNCHANGED writer
    BY <1>1, <1>3 DEF AbortBody
  <2>2. owner # s
    BY <1>1, <1>3, SourceAssumption DEF AbortAccepted, IndInv, WriterExclusion, Sources
  <2>3. owner # NoOwner => job'[owner].at = job[owner].at
    BY <2>1, <2>2 DEF Goes, IndInv, TypeOK
  <2> QED
    BY <1>1, <2>1, <2>3, QuietStep DEF writer
<1> QED
  BY <1>2, <1>3

LEMMA AbortPersistImplements ==
  ASSUME RecordMeaning, IndInv, NEW s \in Sources, AbortPersist(s)
  PROVE  Implements
<1>1. /\ job[s].at = "persist" /\ Goes(s, "idle")
      /\ UNCHANGED <<owner, status, upd, used>>
  BY DEF AbortPersist, At, writer, world
<1>2. owner # s
  BY <1>1, SourceAssumption DEF IndInv, WriterExclusion, Holding, Sources
<1>3. owner # NoOwner => job'[owner].at = job[owner].at
  BY <1>1, <1>2 DEF Goes, IndInv, TypeOK
<1> QED
  BY <1>1, <1>3, QuietStep

\* No late abort is accepted: the holder works on the operation of its job.
LEMMA LateAbortImplements ==
  ASSUME RecordMeaning, IndInv, NEW s \in Sources, NEW op \in Ops, LateAbort(s, op)
  PROVE  Implements
<1>1. ~AbortAccepted(s, op)
  BY SourceAssumption DEF LateAbort, AbortAccepted, IndInv, WriterExclusion, Sources
<1> QED
  BY <1>1, QuietStep DEF LateAbort, writer, world

LEMMA ResetImplements ==
  ASSUME Reset
  PROVE  Implements
<1>1. Writer!Reset
  BY DEF Reset, Writer!Reset, Writer!Free, Writer!NoRecord, NoStatus, ResetUpdate
<1>2. RecordMeaning'
  BY DEF Reset, RecordMeaning, ResetUpdate
<1> QED
  BY <1>1, <1>2 DEF Implements, Writer!Next

----------------------------------------------------------------------------
LEMMA StepImplements ==
  ASSUME RecordMeaning, IndInv, [Next]_vars
  PROVE  Implements
<1>1. ASSUME NEW s \in Sources, SourceStep(s) PROVE Implements
  <2>1. CASE \E b \in Bundles : PrepareLocal(s, b)
    BY <2>1, PrepareLocalImplements
  <2>2. CASE \E i \in DOMAIN upd.plan : Begin(s, i)
    BY <2>2, BeginImplements
  <2>3. CASE \E sound \in BOOLEAN : Write(s, sound)
    BY <2>3, WriteImplements
  <2>4. CASE End(s)
    BY <2>4, EndImplements
  <2>5. CASE CommitStart(s)
    BY <2>5, CommitStartImplements
  <2>6. CASE \/ CommitSkip(s) \/ CommitErase(s) \/ CommitWrite(s)
             \/ CommitSelect(s) \/ CommitPersist(s)
    BY <2>6, CommitImplements
  <2>7. CASE CommitSchedule(s)
    BY <2>7, CommitScheduleImplements
  <2>8. CASE Fail(s)
    BY <2>8, FailImplements
  <2>9. CASE Abort(s)
    BY <2>9, AbortImplements
  <2>10. CASE AbortPersist(s)
    BY <2>10, AbortPersistImplements
  <2> QED
    BY <1>1, <2>1, <2>2, <2>3, <2>4, <2>5, <2>6, <2>7, <2>8, <2>9, <2>10 DEF SourceStep
<1>2. CASE \E s \in LocalSources, op \in Ops : Reserve(s, op)
  BY <1>2, ReserveImplements
<1>3. CASE \E op \in Ops, b \in Bundles : PrepareIris(op, b)
  BY <1>3, PrepareIrisImplements
<1>4. CASE \E s \in Sources, op \in Ops : LateAbort(s, op)
  BY <1>4, LateAbortImplements
<1>5. CASE Restart \/ Crash
  BY <1>5, ResetImplements DEF Restart, Crash
<1>6. CASE EnterRecovery \/ UNCHANGED vars
  BY <1>6, QuietStep DEF EnterRecovery, writer, vars
<1> QED
  BY <1>1, <1>2, <1>3, <1>4, <1>5, <1>6 DEF Next

\* The backend implements the abstract writer (update_owner_claim,
\* update_owner_release and the update_status functions, whoever calls them).
THEOREM WriterImplemented == Spec => WriterContract
<1>1. Init => RecordMeaning /\ IndInv /\ Writer!Init
  BY InitImplements, InitInv
<1>2. RecordMeaning /\ IndInv /\ [Next]_vars =>
        RecordMeaning' /\ IndInv' /\ [Writer!Next]_(Writer!writerVars)
  BY StepImplements, NextInv DEF Implements
<1> QED
  BY <1>1, <1>2, PTL DEF Spec, WriterContract, Writer!Spec

\* update_status_reserve, update_status_start and the functions that follow
\* them: while the writer is held, the published record is that of the
\* operation that holds it, and says it is still going on.
THEOREM RecordFollowsHolder == Spec => []Writer!RecordOfHolder
<1>1. Init => RecordMeaning /\ IndInv
  BY InitImplements, InitInv
<1>2. RecordMeaning /\ IndInv /\ [Next]_vars => RecordMeaning' /\ IndInv'
  BY StepImplements, NextInv DEF Implements
<1>3. RecordMeaning => Writer!RecordOfHolder
  BY DEF RecordMeaning, Writer!RecordOfHolder, Writer!Free
<1> QED
  BY <1>1, <1>2, <1>3, PTL DEF Spec

\* update_owner_claim: no operation takes the writer from another one; there
\* is a release or a restart in between.
THEOREM WriterNotTakenOver == Spec => Writer!NoTakeover
<1>1. Init => RecordMeaning /\ IndInv
  BY InitImplements, InitInv
<1>2. RecordMeaning /\ IndInv /\ [Next]_vars =>
        RecordMeaning' /\ IndInv' /\ [Writer!Next]_(Writer!writerVars)
  BY StepImplements, NextInv DEF Implements
<1>3. [Writer!Next]_(Writer!writerVars) =>
        [[owner |-> owner, op |-> upd.op] # Writer!Free =>
           [owner |-> owner, op |-> upd.op]' \in {[owner |-> owner, op |-> upd.op], Writer!Free}
        ]_(Writer!writerVars)
  BY DEF Writer!Next, Writer!Claim, Writer!Refuse, Writer!Report, Writer!Release, Writer!Reset,
         Writer!writerVars
<1> QED
  BY <1>1, <1>2, <1>3, PTL DEF Spec, Writer!NoTakeover

----------------------------------------------------------------------------
(* Two things the repository says of the status and of the result record   *)
(* do not hold of every behaviour (RecordIsOfLastUpdate, StatusOfItsOwn).  *)
(* Here is that each has one cause: without the one kind of step that      *)
(* breaks it, it holds of every behaviour that is left.                    *)

\* From persist_result to the phase COMMITTED, and from there on, the record
\* in sysmeta is the success of the operation that holds the writer.
ResultKept ==
  /\ RecordIsOfLastUpdate
  /\ owner # NoOwner /\ job[owner].at = "commit" /\ commitStep = "schedule" =>
       lastResult = [op |-> job[owner].op, result |-> "ok"]

\* The failure of an aborted update is recorded before the writer has a new owner.
RecordsAlone == \A s \in Sources : AbortPersist(s) => owner = NoOwner

\* Steps that leave the record alone, and neither commit nor come to the
\* restart of a commit.
LEMMA ResultStays ==
  ASSUME ResultKept, lastResult' = lastResult,
         status'.phase = "committed" => status' = status,
         owner' # NoOwner /\ job'[owner'].at = "commit" /\ commitStep' = "schedule" =>
           owner' = owner /\ job'[owner'] = job[owner'] /\ commitStep' = commitStep
  PROVE  ResultKept'
BY DEF ResultKept, RecordIsOfLastUpdate

\* The holder on its way to the commit, or giving up.
LEMMA HolderKeepsResult ==
  ASSUME ResultKept, IndInv, NEW s \in Sources, job[s].at \in Holding \ {"sealed"},
         lastResult' = lastResult, owner' = s, status' = status \/ status'.phase # "committed",
         job'[s].at = "commit" => commitStep' # "schedule"
  PROVE  ResultKept'
BY Holder, ResultStays

\* A source that is given nothing any more.
LEMMA NoHolderKeepsResult ==
  ASSUME ResultKept, lastResult' = lastResult, owner' = NoOwner, status'.phase # "committed"
  PROVE  ResultKept'
BY ResultStays

\* The part of a job and of the record that Goes and Report write.
LEMMA GoesIs ==
  ASSUME TypeOK, NEW s \in Sources, NEW at, Goes(s, at)
  PROVE  job'[s].at = at /\ job'[s].op = job[s].op /\ \A r \in Sources : r # s => job'[r] = job[r]
BY DEF TypeOK, Goes

LEMMA ReportIs ==
  ASSUME TypeOK, NEW phase, NEW result, Report(phase, result)
  PROVE  status'.phase = phase /\ status'.op = status.op /\ status'.result = result
BY DEF TypeOK, Report, Status

LEMMA ClaimsKeepResult ==
  ASSUME ResultKept, IndInv,
         \/ \E s \in LocalSources, op \in Ops : Reserve(s, op)
         \/ \E op \in Ops, b \in Bundles : PrepareIris(op, b)
  PROVE  ResultKept'
<1>1. ASSUME NEW s \in LocalSources, NEW op \in Ops, Reserve(s, op) PROVE ResultKept'
  <2>1. job'[s].at = "admitted" /\ owner' = s /\ lastResult' = lastResult /\ status'.phase = "idle"
    BY <1>1 DEF Reserve, Sources, IndInv, TypeOK, device
  <2> QED
    BY <2>1, ResultStays
<1>2. ASSUME NEW op \in Ops, NEW b \in Bundles, PrepareIris(op, b) PROVE ResultKept'
  <2>1. lastResult' = lastResult /\ Iris \in Sources /\ TypeOK
    BY <1>2 DEF PrepareIris, device, Sources, IndInv
  <2>2. CASE Accept(Iris, op, b) /\ job' = [job EXCEPT ![Iris] = [op |-> op, at |-> "open"]]
    <3>1. job'[Iris].at = "open" /\ owner' = Iris /\ status'.phase = "prepared"
      BY <2>1, <2>2 DEF Accept, TypeOK
    <3> QED
      BY <2>1, <3>1, ResultStays
  <2>3. CASE Refuse(b)
    BY <2>1, <2>3, ReportIs, NoHolderKeepsResult DEF Refuse
  <2> QED
    BY <1>2, <2>2, <2>3 DEF PrepareIris
<1> QED
  BY <1>1, <1>2

LEMMA StreamingKeepsResult ==
  ASSUME ResultKept, IndInv, NEW s \in Sources,
         \/ \E b \in Bundles : PrepareLocal(s, b)
         \/ \E i \in DOMAIN upd.plan : Begin(s, i)
         \/ \E sound \in BOOLEAN : Write(s, sound)
         \/ End(s) \/ CommitStart(s) \/ Fail(s)
  PROVE  ResultKept'
<1>1. TypeOK /\ lastResult' = lastResult /\ job[s].at \in {"admitted", "open"}
  BY DEF IndInv, PrepareLocal, Begin, Write, End, CommitStart, Fail, At, device
<1>2. owner = s /\ job[s].at \in Holding \ {"sealed"}
  BY <1>1, Holder DEF Holding
<1>3. CASE \E b \in Bundles : PrepareLocal(s, b)
  <2>1. PICK b \in Bundles : PrepareLocal(s, b)
    BY <1>3
  <2>2. CASE b.form = "unparsable" /\ UNCHANGED writer /\ Goes(s, "failed")
    BY <1>1, <1>2, <2>2, GoesIs, HolderKeepsResult DEF writer
  <2>3. CASE Accept(s, upd.op, b) /\ Goes(s, "open")
    BY <1>1, <1>2, <2>3, GoesIs, HolderKeepsResult DEF Accept
  <2>4. CASE Refuse(b)
    BY <1>1, <2>4, ReportIs, NoHolderKeepsResult DEF Refuse
  <2> QED
    BY <2>1, <2>2, <2>3, <2>4 DEF PrepareLocal
<1>4. CASE \/ \E i \in DOMAIN upd.plan : Begin(s, i)
           \/ \E sound \in BOOLEAN : Write(s, sound)
           \/ End(s) \/ Fail(s)
  <2>1. /\ owner' = owner
        /\ (job' = job /\ job[s].at = "open") \/ Goes(s, "failed")
        /\ \/ status' = status \/ Report("receiving", status.result)
           \/ Report("verified", status.result)
    BY <1>1, <1>4 DEF Begin, Write, End, Fail, At, writer
  <2>2. status' = status \/ status'.phase # "committed"
    BY <1>1, <2>1, ReportIs
  <2>3. job'[s].at # "commit"
    BY <1>1, <2>1, GoesIs
  <2> QED
    BY <1>1, <1>2, <2>1, <2>2, <2>3, HolderKeepsResult
<1>5. CASE CommitStart(s)
  <2>1. /\ owner' = owner /\ Report("committing", "ok")
        /\ (Goes(s, "commit") /\ commitStep' = "bootloader") \/ Goes(s, "failed")
    BY <1>5 DEF CommitStart
  <2>2. status'.phase = "committing" /\ (job'[s].at = "commit" => commitStep' # "schedule")
    BY <1>1, <2>1, GoesIs, ReportIs
  <2> QED
    BY <1>1, <1>2, <2>1, <2>2, HolderKeepsResult
<1> QED
  BY <1>3, <1>4, <1>5

LEMMA CommittingKeepsResult ==
  ASSUME ResultKept, RecordMeaning, IndInv, NEW s \in Sources,
         \/ CommitSkip(s) \/ CommitErase(s) \/ CommitWrite(s)
         \/ CommitSelect(s) \/ CommitPersist(s) \/ CommitSchedule(s)
  PROVE  ResultKept'
<1>1. TypeOK /\ job[s].at = "commit"
  BY DEF IndInv, CommitSkip, CommitErase, CommitWrite, CommitSelect, CommitPersist,
         CommitSchedule, CommitAt, At
<1>2. /\ owner = s /\ owner # NoOwner /\ job[s].at \in Holding \ {"sealed"}
      /\ status.phase # "committed" /\ status.op = upd.op /\ upd.op = job[s].op
  BY <1>1, Holder, SourceAssumption DEF Holding, RecordMeaning, Sources
<1>3. CASE CommitSkip(s) \/ CommitErase(s) \/ CommitWrite(s) \/ CommitSelect(s)
  <2>1. /\ owner' = owner /\ status' = status /\ lastResult' = lastResult
        /\ \/ Goes(s, "failed")
           \/ commitStep \in StagedKinds \cup {"select"} /\ commitStep' \in {commitStep, After(commitStep)}
    BY <1>3 DEF CommitSkip, CommitErase, CommitWrite, CommitSelect, CommitAt, writer, device
  <2>2. commitStep \in StagedKinds \cup {"select"} =>
          commitStep # "schedule" /\ After(commitStep) # "schedule"
    BY DEF StagedKinds, After
  <2>3. job'[s].at = "commit" => commitStep' # "schedule"
    BY <1>1, <2>1, <2>2, GoesIs
  <2> QED
    BY <1>2, <2>1, <2>3, HolderKeepsResult
<1>4. CASE CommitPersist(s)
  <2>1. owner' = owner /\ status' = status
    BY <1>4 DEF CommitPersist, writer
  <2>2. CASE lastResult' = [op |-> job[s].op, result |-> "ok"] /\ job' = job
    BY <1>2, <2>1, <2>2 DEF ResultKept, RecordIsOfLastUpdate
  <2>3. CASE Goes(s, "failed") /\ lastResult' = lastResult
    <3>1. job'[s].at = "failed"
      BY <1>1, <2>3, GoesIs
    <3> QED
      BY <1>2, <2>1, <2>3, <3>1, HolderKeepsResult
  <2> QED
    BY <1>4, <2>2, <2>3 DEF CommitPersist
<1>5. CASE CommitSchedule(s)
  <2>1. owner' = owner /\ lastResult' = lastResult /\ commitStep = "schedule"
    BY <1>5 DEF CommitSchedule, CommitAt, device
  <2>2. CASE Report("committed", "ok") /\ Goes(s, "sealed")
    <3>1. job'[s].at = "sealed" /\ status'.op = job[s].op
      BY <1>1, <1>2, <2>2, GoesIs, ReportIs
    <3>2. lastResult' = [op |-> job[s].op, result |-> "ok"]
      BY <1>1, <1>2, <2>1 DEF ResultKept
    <3> QED
      BY <1>2, <2>1, <3>1, <3>2 DEF ResultKept, RecordIsOfLastUpdate
  <2>3. CASE Goes(s, "failed") /\ status' = status
    <3>1. job'[s].at = "failed"
      BY <1>1, <2>3, GoesIs
    <3> QED
      BY <1>2, <2>1, <2>3, <3>1, HolderKeepsResult
  <2> QED
    BY <1>5, <2>2, <2>3 DEF CommitSchedule
<1> QED
  BY <1>3, <1>4, <1>5

LEMMA AbortsKeepResult ==
  ASSUME ResultKept, IndInv, NEW s \in Sources,
         Abort(s) \/ \E op \in Ops : LateAbort(s, op)
  PROVE  ResultKept'
<1>1. TypeOK /\ lastResult' = lastResult /\ commitStep' = commitStep
  BY DEF IndInv, Abort, LateAbort, device
<1>2. CASE Abort(s)
  <2>1. AbortBody(s, job[s].op)
    BY <1>2 DEF Abort
  <2>2. CASE AbortAccepted(s, job[s].op)
    BY <1>1, <2>1, <2>2, ReportIs, NoHolderKeepsResult DEF AbortBody
  <2>3. CASE ~AbortAccepted(s, job[s].op)
    <3>1. Goes(s, "idle") /\ UNCHANGED <<owner, status>> /\ owner # s
      BY <2>1, <2>3, SourceAssumption
         DEF AbortBody, AbortAccepted, writer, IndInv, WriterExclusion, Sources
    <3>2. owner # NoOwner => job'[owner] = job[owner]
      BY <1>1, <3>1, GoesIs DEF TypeOK
    <3> QED
      BY <1>1, <3>1, <3>2, ResultStays
  <2> QED
    BY <2>2, <2>3
<1>3. CASE \E op \in Ops : LateAbort(s, op)
  <2>1. PICK op \in Ops : LateAbort(s, op)
    BY <1>3
  <2>2. ~AbortAccepted(s, op)
    BY <2>1, SourceAssumption DEF LateAbort, AbortAccepted, IndInv, WriterExclusion, Sources
  <2>3. UNCHANGED <<owner, status, job>>
    BY <2>1, <2>2 DEF LateAbort, writer
  <2> QED
    BY <1>1, <2>3, ResultStays
<1> QED
  BY <1>2, <1>3

LEMMA StepKeepsResult ==
  ASSUME ResultKept, RecordMeaning, IndInv, [Next]_vars, [RecordsAlone]_vars
  PROVE  ResultKept'
<1>1. ASSUME NEW s \in Sources, SourceStep(s) PROVE ResultKept'
  <2>1. CASE AbortPersist(s)
    <3>1. /\ UNCHANGED <<owner, status>> /\ TypeOK /\ Goes(s, "idle")
          /\ job[s].at = "persist"
      BY <2>1 DEF AbortPersist, writer, IndInv, At
    <3>2. job' # job
      BY <3>1, GoesIs
    <3>3. owner = NoOwner
      BY <2>1, <3>2 DEF RecordsAlone, vars
    <3>4. status.phase # "committed"
      BY <3>3, SourceAssumption DEF IndInv, CommittedMeaning, Sources
    <3> QED
      BY <3>1, <3>3, <3>4 DEF ResultKept, RecordIsOfLastUpdate
  <2> QED
    BY <1>1, <2>1, StreamingKeepsResult, CommittingKeepsResult, AbortsKeepResult DEF SourceStep
<1>2. CASE \/ \E s \in LocalSources, op \in Ops : Reserve(s, op)
           \/ \E op \in Ops, b \in Bundles : PrepareIris(op, b)
  BY <1>2, ClaimsKeepResult
<1>3. CASE \E s \in Sources, op \in Ops : LateAbort(s, op)
  BY <1>3, AbortsKeepResult
<1>4. CASE Restart \/ Crash
  <2>1. owner' = NoOwner /\ lastResult' = lastResult /\ status'.phase = "idle"
    BY <1>4 DEF Restart, Crash, Reset, NoStatus
  <2> QED
    BY <2>1, NoHolderKeepsResult
<1>5. CASE EnterRecovery \/ UNCHANGED vars
  BY <1>5, ResultStays DEF EnterRecovery, writer, device, vars
<1> QED
  BY <1>1, <1>2, <1>3, <1>4, <1>5 DEF Next

\* abort_update_owned releases the writer before it records the failure, and
\* that is the one reason why a committed update may miss its own record: if no
\* failure is recorded while somebody else has the writer, the record is that
\* of the committed update, across power losses and failed writes.
THEOREM RecordTrueWithoutOverlap == Spec /\ [][RecordsAlone]_vars => []RecordIsOfLastUpdate
<1>1. Init => RecordMeaning /\ IndInv /\ ResultKept
  BY InitImplements, InitInv DEF Init, ResultKept, RecordIsOfLastUpdate, NoStatus
<1>2. RecordMeaning /\ IndInv /\ ResultKept /\ [Next]_vars /\ [RecordsAlone]_vars =>
        RecordMeaning' /\ IndInv' /\ ResultKept'
  BY StepImplements, NextInv, StepKeepsResult DEF Implements
<1>3. ResultKept => RecordIsOfLastUpdate
  BY DEF ResultKept
<1> QED
  BY <1>1, <1>2, <1>3, PTL DEF Spec

----------------------------------------------------------------------------
\* Every manifest that comes by the callback is accepted.
CallbackAccepts == \A op \in Ops, b \in Bundles : PrepareIris(op, b) => ManifestAccepted(b)

\* The record names an operation that was presented.
StatusClaimed == status.owner # NoOwner => status.op \in used

\* A claim that moves the abstract writer nowhere is a refused callback.
LEMMA RefusalIsCallback ==
  ASSUME IndInv, [Next]_vars, [CallbackAccepts]_vars, NEW op \in Ops, Writer!Refuse(op)
  PROVE  FALSE
<1>1. op \notin used /\ used' = used \cup {op} /\ owner = NoOwner /\ owner' = NoOwner
  BY DEF Writer!Refuse, Writer!Free
<1>2. used' # used
  BY <1>1
<1>3. PICK o \in Ops, b \in Bundles : PrepareIris(o, b)
  <2>1. CASE \E s \in LocalSources, o \in Ops : Reserve(s, o)
    BY <1>1, <2>1, SourceAssumption DEF Reserve, Sources
  <2>2. ASSUME NEW s \in Sources, SourceStep(s) PROVE FALSE
    BY <1>2, <2>2 DEF SourceStep, PrepareLocal, Begin, Write, End, CommitStart, CommitSkip,
         CommitErase, CommitWrite, CommitSelect, CommitPersist, CommitSchedule, Fail, Abort,
         AbortPersist, world
  <2>3. ~(\E s \in Sources, o \in Ops : LateAbort(s, o))
    BY <1>2 DEF LateAbort, world
  <2>4. ~Restart /\ ~Crash /\ ~EnterRecovery /\ ~UNCHANGED vars
    BY <1>2 DEF Restart, Crash, Reset, EnterRecovery, vars
  <2> QED
    BY <2>1, <2>2, <2>3, <2>4 DEF Next
<1>4. ManifestAccepted(b)
  BY <1>2, <1>3 DEF CallbackAccepts, vars
<1>5. owner' = Iris
  BY <1>3, <1>4 DEF PrepareIris, Accept, Refuse
<1> QED
  BY <1>1, <1>5, SourceAssumption DEF Sources

LEMMA StepKeepsStatus ==
  ASSUME RecordMeaning, IndInv, StatusClaimed, [Next]_vars, [CallbackAccepts]_vars
  PROVE  /\ StatusClaimed'
         /\ status' # status /\ status'.op = status.op /\ status.owner \in LocalSources =>
              owner = status.owner /\ upd.op = status.op
<1>1. [Writer!Next]_(Writer!writerVars) /\ \A op \in Ops : ~Writer!Refuse(op)
  BY StepImplements, RefusalIsCallback DEF Implements
<1>2. status \in Status /\ NoOp \notin used /\ NoOwner \notin Sources
  BY SourceAssumption DEF IndInv, TypeOK
<1>3. CASE UNCHANGED Writer!writerVars
  BY <1>3 DEF Writer!writerVars, StatusClaimed
<1>4. ASSUME NEW s \in Sources, NEW op \in Ops, NEW phase, Writer!Claim(s, op, phase)
      PROVE  StatusClaimed' /\ (status.owner # NoOwner => status'.op # status.op)
  BY <1>4 DEF Writer!Claim, StatusClaimed
<1>5. ASSUME NEW s \in Sources, NEW op \in Ops,
             \/ \E phase \in Writer!Phases : Writer!Report(s, op, phase)
             \/ \E result \in {"refused", "aborted"} : Writer!Release(s, op, result)
      PROVE  StatusClaimed' /\ owner = status.owner /\ upd.op = status.op
  <2>1. owner = s /\ owner # NoOwner /\ upd.op \in used /\ used' = used
    BY <1>2, <1>5 DEF Writer!Report, Writer!Release, Writer!Held, RecordMeaning
  <2>2. status'.op = status.op
    BY <1>2, <1>5 DEF Writer!Report, Writer!Release, Status
  <2> QED
    BY <2>1, <2>2 DEF RecordMeaning, StatusClaimed
<1>6. Writer!Reset => StatusClaimed' /\ (status.owner # NoOwner => status'.op # status.op)
  BY <1>2 DEF Writer!Reset, Writer!NoRecord, StatusClaimed
<1>7. NoOwner \notin LocalSources
  BY <1>2 DEF Sources
<1> QED
  BY <1>1, <1>3, <1>4, <1>5, <1>6, <1>7 DEF Writer!Next, Writer!writerVars

\* update_status_finish leaves the operation id alone, so that the refusal of a
\* manifest nobody claimed the writer for puts its error into the record of the
\* operation before.  It is the only such step: if the callback accepts every manifest,
\* the status of an HTTP or NAND operation changes only while that operation
\* holds the writer.
THEOREM StatusIsItsOwn == Spec /\ [][CallbackAccepts]_vars => StatusOfItsOwn
<1>1. Init => RecordMeaning /\ IndInv /\ StatusClaimed
  BY InitImplements, InitInv DEF Init, StatusClaimed, NoStatus
<1>2. RecordMeaning /\ IndInv /\ StatusClaimed /\ [Next]_vars /\ [CallbackAccepts]_vars =>
        /\ RecordMeaning' /\ IndInv' /\ StatusClaimed'
        /\ [status' # status /\ status'.op = status.op /\ status.owner \in LocalSources =>
              owner = status.owner /\ upd.op = status.op]_vars
  BY StepImplements, NextInv, StepKeepsStatus DEF Implements
<1> QED
  BY <1>1, <1>2, PTL DEF Spec, StatusOfItsOwn
=============================================================================
