------------------------- MODULE SystemUpdateProofs -------------------------
(* Proofs about SystemUpdate for every set of sources, operations, bundles,*)
(* images and layouts.                                                     *)
EXTENDS SystemUpdate, TLAPS, FiniteSetTheorems

\* The update record after update_state_reset, with or without an operation.
LEMMA ResetOK ==
  /\ ResetUpdate \in Update
  /\ \A op \in Ops \cup {NoOp} : [ResetUpdate EXCEPT !.op = op] \in Update
  /\ ResetUpdate.plan = << >> /\ DOMAIN ResetUpdate.plan = {} /\ Len(ResetUpdate.plan) = 0
<1>1. << >> \in Seq(Component) /\ {} \in SUBSET Nat
  OBVIOUS
<1>2. [k \in StagedKinds |-> Blank] \in [StagedKinds -> Content]
  BY DEF Content
<1>3. ResetUpdate \in Update
  BY <1>1, <1>2 DEF ResetUpdate, Update
<1>4. \A op \in Ops \cup {NoOp} : [ResetUpdate EXCEPT !.op = op] \in Update
  BY <1>3 DEF Update
<1>5. ResetUpdate.plan = << >>
  BY DEF ResetUpdate
<1> QED
  BY <1>3, <1>4, <1>5

LEMMA InitInv == Init => IndInv
<1> SUFFICES ASSUME Init PROVE IndInv
  OBVIOUS
<1> USE SourceAssumption, TableAssumption, FlashAssumption, ImageAssumption DEF Init
<1>1. TypeOK
  <2>1. status \in Status
    BY DEF Status, NoStatus, Phases, Results
  <2>2. job \in [Sources -> [op : Ops \cup {NoOp}, at : Stages]]
    BY DEF NoJob, Stages
  <2>3. lastResult \in [op : Ops \cup {NoOp}, result : Results]
    BY DEF NoResult, Results
  <2>4. upd \in Update /\ upd.completed = {} /\ upd.active = 0 /\ upd.active \in 0..Len(upd.plan)
    BY ResetOK DEF ResetUpdate
  <2>5. commitStep \in CommitSteps
    BY DEF CommitSteps
  <2> QED
    BY <2>1, <2>2, <2>3, <2>4, <2>5 DEF TypeOK
<1>2. /\ WriterExclusion /\ PlanShape /\ LayoutMeaning /\ ActiveMeaning
      /\ CompletedMeaning /\ VerifiedStays /\ ProtectionWindow /\ TableInPlan
  BY DEF WriterExclusion, Holding, NoJob, ResetUpdate, PlanShape, LayoutMeaning, ActiveMeaning,
     CompletedMeaning, VerifiedStays, ProtectionWindow, TableInPlan
<1>3. CommitMeaning /\ CommittedMeaning
  BY DEF CommitMeaning, CommittedMeaning, NoJob, NoStatus
<1>4. BootChainWhole
  BY DEF BootChainWhole, BootChain, Bootable
<1> QED
  BY <1>1, <1>2, <1>3, <1>4 DEF IndInv

LEMMA ReserveInv ==
  ASSUME IndInv, NEW s \in LocalSources, NEW op \in Ops, Reserve(s, op)
  PROVE  IndInv'
<1> USE DEF IndInv, Reserve, Unclaimed, At, device
<1>1. TypeOK'
  <2>1. status' \in Status
    BY DEF Status, Sources, Phases, Results
  <2>2. job' \in [Sources -> [op : Ops \cup {NoOp}, at : Stages]]
    BY DEF TypeOK, Stages
  <2>3. upd' \in Update /\ upd'.completed = {} /\ upd'.active = 0
    BY ResetOK DEF ResetUpdate
  <2> QED
    BY <2>1, <2>2, <2>3 DEF TypeOK, Sources
<1>2. WriterExclusion'
  BY SourceAssumption DEF WriterExclusion, Holding, ResetUpdate, TypeOK, Sources
<1>3. /\ PlanShape' /\ LayoutMeaning' /\ ActiveMeaning' 
      /\ CompletedMeaning' /\ VerifiedStays' /\ TableInPlan'
  BY DEF ResetUpdate, PlanShape, LayoutMeaning, ActiveMeaning, CompletedMeaning, VerifiedStays, TableInPlan
<1>4. protection # "off"
  BY SourceAssumption DEF ProtectionWindow
<1>5. ProtectionWindow' /\ BootChainWhole'
  BY <1>4 DEF ProtectionWindow, BootChainWhole
<1>6. CommitMeaning' /\ CommittedMeaning'
  BY SourceAssumption DEF CommitMeaning, CommittedMeaning, WriterExclusion, Holding, TypeOK, Sources
<1> QED
  BY <1>1, <1>2, <1>3, <1>5, <1>6
\* Edits of the update record that keep its type.
LEMMA EditOK ==
  ASSUME NEW u \in Update, NEW a \in Nat, NEW n \in Nat, NEW m \in BOOLEAN
  PROVE  /\ [u EXCEPT !.active = a, !.received = n] \in Update
         /\ [u EXCEPT !.received = n, !.match = m] \in Update
         /\ [u EXCEPT !.active = a, !.received = n, !.match = m] \in Update
BY DEF Update

LEMMA StagedEditOK ==
  ASSUME NEW u \in Update, NEW a \in Nat, NEW n \in Nat, NEW m \in BOOLEAN,
         NEW k \in StagedKinds, NEW v \in Content
  PROVE  /\ [u EXCEPT !.staged[k] = v] \in Update
         /\ [u EXCEPT !.received = n, !.match = m, !.staged[k] = v] \in Update
         /\ [u EXCEPT !.active = a, !.received = n, !.match = m, !.staged[k] = v] \in Update
<1>1. u.staged \in [StagedKinds -> Content] /\ [u.staged EXCEPT ![k] = v] \in [StagedKinds -> Content]
  BY DEF Update
<1>2. [u EXCEPT !.staged[k] = v] \in Update
  BY <1>1 DEF Update
<1>3. [u EXCEPT !.received = n, !.match = m, !.staged[k] = v] \in Update
  BY <1>1 DEF Update
<1>4. [u EXCEPT !.active = a, !.received = n, !.match = m, !.staged[k] = v] \in Update
  BY <1>1 DEF Update
<1> QED
  BY <1>2, <1>3, <1>4

\* The components of the plan in hand.
LEMMA PlanFacts ==
  ASSUME TypeOK
  PROVE  /\ DOMAIN upd.plan = 1..Len(upd.plan) /\ Len(upd.plan) \in Nat
         /\ \A i \in DOMAIN upd.plan :
              /\ upd.plan[i] \in Component /\ upd.plan[i].kind \in Kinds
              /\ upd.plan[i].at \in Regions /\ upd.plan[i].img \in Images
              /\ upd.plan[i].size \in Nat \ {0}
<1>1. upd.plan \in Seq(Component)
  BY DEF TypeOK, Update
<1>2. /\ DOMAIN upd.plan = 1..Len(upd.plan) /\ Len(upd.plan) \in Nat
      /\ \A i \in DOMAIN upd.plan : upd.plan[i] \in Component
  BY <1>1
<1> QED
  BY <1>2 DEF Component

\* What a bundle that is accepted leaves in s_update.
LEMMA AcceptOK ==
  ASSUME NEW s \in Sources, NEW op \in Ops \cup {NoOp}, NEW b \in Bundles, Accept(s, op, b)
  PROVE  /\ upd' \in Update /\ status' \in Status /\ owner' = s
         /\ upd'.op = op /\ upd'.completed = {} /\ upd'.active = 0 /\ upd'.prepared
         /\ PlanShape' /\ LayoutMeaning' /\ TableInPlan'
<1>1. /\ b.plan \in Seq(Component) /\ DOMAIN b.plan = 1..Len(b.plan)
      /\ Len(b.plan) \in Nat /\ \A i \in DOMAIN b.plan : b.plan[i] \in Component
  BY BundleAssumption DEF Bundle
<1>2. /\ upd' = [ResetUpdate EXCEPT !.op = op, !.prepared = TRUE, !.plan = b.plan,
                                   !.layoutValid = (b.plan[1].kind = "recovery")]
      /\ ManifestAccepted(b)
  BY DEF Accept
<1>3. upd' \in Update
  BY ResetOK, <1>1, <1>2 DEF Update
<1>4. /\ upd'.op = op /\ upd'.completed = {} /\ upd'.active = 0 /\ upd'.prepared
      /\ upd'.plan = b.plan /\ upd'.layoutValid = (b.plan[1].kind = "recovery")
  BY <1>2 DEF ResetUpdate
<1>5. status' \in Status
  BY DEF Accept, Status, Phases, Results
<1>6. Len(b.plan) > 0
  BY <1>1, <1>2 DEF ManifestAccepted
<1>7. PlanShape'
  <2>1. \A i \in DOMAIN b.plan : b.plan[i].kind = "recovery" => Len(b.plan) = 1
    BY <1>2 DEF ManifestAccepted
  <2> QED
    BY <1>2, <1>4, <2>1 DEF PlanShape, ManifestAccepted
<1>8. LayoutMeaning'
  <2>1. b.plan[1].kind = "recovery" => Len(b.plan) = 1
    BY <1>1, <1>2, <1>6 DEF ManifestAccepted
  <2>2. upd'.layoutValid => b.plan[1].kind = "recovery"
    BY <1>4, Zenon
  <2>3. upd'.layoutValid => \A i \in DOMAIN b.plan : b.plan[i].kind = "recovery"
    BY <1>1, <2>1, <2>2
  <2> QED
    BY <1>4, <2>3 DEF LayoutMeaning, StagedKinds
<1>9. TableInPlan'
  BY <1>1, <1>2, <1>4, <1>6 DEF TableInPlan, ManifestAccepted, Of
<1> QED
  BY <1>3, <1>4, <1>5, <1>7, <1>8, <1>9 DEF Accept

----------------------------------------------------------------------------
(* Facts the steps share.                                                  *)

\* A source past its admission is alone in holding the writer, and what only
\* a commit does has not been done unless it is committing.
LEMMA Holder ==
  ASSUME IndInv, NEW s \in Sources, job[s].at \in Holding
  PROVE  /\ owner = s /\ upd.op = job[s].op
         /\ \A r \in Sources : r # s => job[r].at \notin Holding
         /\ job[s].at # "commit" => protection # "off"
         /\ job[s].at # "sealed" => status.phase # "committed"
BY DEF IndInv, WriterExclusion, ProtectionWindow, CommittedMeaning

\* A source that gives up keeps the writer, and no commit is under way.
LEMMA SourceFailed ==
  ASSUME IndInv, NEW s \in Sources, job[s].at \in Holding, job[s].at # "sealed",
         Goes(s, "failed"), owner' = owner, upd'.op = upd.op,
         status'.phase = "committed" => status'.phase = status.phase
  PROVE  /\ job' \in [Sources -> [op : Ops \cup {NoOp}, at : Stages]]
         /\ WriterExclusion' /\ CommitMeaning' /\ CommittedMeaning'
<1> USE Holder DEF IndInv, Goes
<1>1. job \in [Sources -> [op : Ops \cup {NoOp}, at : Stages]]
  BY DEF TypeOK
<1>2. job' \in [Sources -> [op : Ops \cup {NoOp}, at : Stages]]
  BY <1>1 DEF Stages
<1>3. job'[s].at = "failed" /\ job'[s].op = job[s].op /\ \A r \in Sources : r # s => job'[r] = job[r]
  BY <1>1
<1>4. WriterExclusion'
  BY <1>3 DEF WriterExclusion, Holding
<1>5. CommitMeaning'
  BY <1>3 DEF CommitMeaning, Holding
<1>6. CommittedMeaning'
  BY DEF CommittedMeaning
<1> QED
  BY <1>2, <1>4, <1>5, <1>6

\* A source that goes on streaming.
LEMMA SourceStays ==
  ASSUME IndInv, NEW s \in Sources, job[s].at = "open", job' = job, owner' = owner,
         upd'.op = upd.op, status'.phase # "committed"
  PROVE  WriterExclusion' /\ CommitMeaning' /\ CommittedMeaning'
BY Holder DEF IndInv, WriterExclusion, CommitMeaning, CommittedMeaning, Holding

\* Outside the window a step that leaves flash alone leaves the boot chain whole.
LEMMA ChainUntouched ==
  ASSUME IndInv, protection # "off", UNCHANGED <<flash, protection, power>>,
         faults' \in Nat, faults' = 0 => faults = 0
  PROVE  ProtectionWindow' /\ BootChainWhole'
BY DEF IndInv, ProtectionWindow, BootChainWhole, Bootable

LEMMA FaultCount ==
  ASSUME TypeOK, Fault \/ NoFault
  PROVE  faults' \in Nat /\ (faults' = 0 => faults = 0)
BY DEF TypeOK, Fault, NoFault

\* Streaming keeps the plan, and what it says of the completed components.
LEMMA PlanKept ==
  ASSUME IndInv, upd'.plan = upd.plan, upd'.prepared = upd.prepared
  PROVE  /\ PlanShape' /\ TableInPlan'
         /\ upd'.layoutValid = upd.layoutValid => LayoutMeaning'
         /\ upd'.completed = upd.completed => CompletedMeaning'
<1> USE DEF IndInv
<1>1. PlanShape'
  BY DEF PlanShape, Authorized
<1>2. TableInPlan'
  BY DEF TableInPlan, Of
<1>3. ASSUME upd'.layoutValid = upd.layoutValid PROVE LayoutMeaning'
  BY <1>3 DEF LayoutMeaning
<1>4. ASSUME upd'.completed = upd.completed PROVE CompletedMeaning'
  BY <1>4 DEF CompletedMeaning, Resolves
<1> QED
  BY <1>1, <1>2, <1>3, <1>4

----------------------------------------------------------------------------
(* Each step keeps the invariant.                                          *)

LEMMA FailInv ==
  ASSUME IndInv, NEW s \in Sources, At(s, {"admitted", "open"}), Goes(s, "failed"),
         UNCHANGED <<writer, device, commitStep, world, faults>>
  PROVE  IndInv'
<1> USE DEF IndInv, At, writer, device, world
<1>1. /\ job' \in [Sources -> [op : Ops \cup {NoOp}, at : Stages]]
      /\ WriterExclusion' /\ CommitMeaning' /\ CommittedMeaning'
  BY SourceFailed DEF Holding
<1>2. TypeOK'
  BY <1>1 DEF TypeOK
<1>3. /\ PlanShape' /\ LayoutMeaning' /\ ActiveMeaning' /\ CompletedMeaning'
      /\ VerifiedStays' /\ TableInPlan'
  BY PlanKept DEF ActiveMeaning, VerifiedStays
<1>4. protection # "off" /\ faults' \in Nat /\ (faults' = 0 => faults = 0)
  BY Holder DEF Holding, TypeOK
<1>5. ProtectionWindow' /\ BootChainWhole'
  BY <1>4, ChainUntouched
<1> QED
  BY <1>1, <1>2, <1>3, <1>5

\* What Accept and Refuse leave, whoever the source is.
LEMMA AcceptInv ==
  ASSUME IndInv, NEW s \in Sources, NEW op \in Ops \cup {NoOp}, NEW b \in Bundles, Accept(s, op, b),
         owner \in {s, NoOwner}, job[s].at \in {"idle", "admitted"}, protection # "off",
         job' = [job EXCEPT ![s] = [op |-> op, at |-> "open"]],
         used' \subseteq Ops, UNCHANGED <<device, commitStep, restart, power, faults, crashes>>
  PROVE  IndInv'
<1> USE DEF IndInv, device
<1>1. /\ upd' \in Update /\ status' \in Status /\ owner' = s
      /\ upd'.op = op /\ upd'.completed = {} /\ upd'.active = 0 /\ upd'.prepared
      /\ PlanShape' /\ LayoutMeaning' /\ TableInPlan'
  BY AcceptOK
<1>2. TypeOK'
  <2>1. job' \in [Sources -> [op : Ops \cup {NoOp}, at : Stages]]
    BY DEF TypeOK, Stages
  <2>2. upd'.active \in 0..Len(upd'.plan)
    BY <1>1 DEF Update
  <2> QED
    BY <1>1, <2>1, <2>2 DEF TypeOK
<1>3. \A r \in Sources : job[r].at \notin Holding \/ r = s
  BY SourceAssumption DEF WriterExclusion
<1>4. /\ job'[s] = [op |-> op, at |-> "open"]
      /\ \A r \in Sources : r # s => job'[r] = job[r]
  BY DEF TypeOK
<1>5. WriterExclusion' /\ CommitMeaning'
  BY <1>1, <1>3, <1>4 DEF WriterExclusion, CommitMeaning, Holding
<1>6. CommittedMeaning'
  BY DEF Accept, CommittedMeaning
<1>7. ActiveMeaning' /\ CompletedMeaning' /\ VerifiedStays'
  BY <1>1 DEF ActiveMeaning, CompletedMeaning, VerifiedStays
<1>8. ProtectionWindow' /\ BootChainWhole'
  BY ChainUntouched DEF TypeOK
<1> QED
  BY <1>1, <1>2, <1>5, <1>6, <1>7, <1>8

\* What update_state_reset and the release of the writer leave.
LEMMA ReleaseInv ==
  ASSUME IndInv, NEW s \in Sources, owner \in {s, NoOwner},
         owner' = NoOwner, upd' = ResetUpdate, status' \in Status, status'.phase = "failed",
         job' \in [Sources -> [op : Ops \cup {NoOp}, at : Stages]],
         job'[s].at \notin Holding, \A r \in Sources : r # s => job'[r] = job[r],
         protection # "off", used' \subseteq Ops,
         UNCHANGED <<device, commitStep, restart, power, faults, crashes>>
  PROVE  IndInv'
<1> USE DEF IndInv, device
<1>1. /\ upd' \in Update /\ upd'.completed = {} /\ upd'.active = 0 /\ ~upd'.prepared
      /\ upd'.plan = << >> /\ DOMAIN upd'.plan = {} /\ ~upd'.layoutValid
  BY ResetOK DEF ResetUpdate
<1>2. TypeOK'
  <2>1. upd'.active \in 0..Len(upd'.plan)
    BY <1>1, ResetOK
  <2> QED
    BY <1>1, <2>1 DEF TypeOK
<1>3. \A r \in Sources : job[r].at \notin Holding \/ r = s
  BY SourceAssumption DEF WriterExclusion
<1>4. WriterExclusion' /\ CommitMeaning'
  BY <1>3, SourceAssumption DEF WriterExclusion, CommitMeaning, Holding
<1>5. CommittedMeaning'
  BY DEF CommittedMeaning
<1>6. /\ PlanShape' /\ LayoutMeaning' /\ ActiveMeaning' /\ CompletedMeaning'
      /\ VerifiedStays' /\ TableInPlan'
  BY <1>1 DEF PlanShape, LayoutMeaning, ActiveMeaning, CompletedMeaning, VerifiedStays, TableInPlan
<1>7. ProtectionWindow' /\ BootChainWhole'
  BY ChainUntouched DEF TypeOK
<1> QED
  BY <1>2, <1>4, <1>5, <1>6, <1>7

LEMMA PrepareLocalInv ==
  ASSUME IndInv, NEW s \in Sources, NEW b \in Bundles, PrepareLocal(s, b)
  PROVE  IndInv'
<1> USE DEF IndInv, PrepareLocal, At, device, world
<1>1. /\ job \in [Sources -> [op : Ops \cup {NoOp}, at : Stages]]
      /\ status \in Status /\ used \subseteq Ops
  BY DEF TypeOK
<1>2. CASE b.form = "unparsable" /\ UNCHANGED writer /\ Goes(s, "failed")
  BY <1>2, FailInv
<1>3. CASE /\ owner = s /\ upd.op = job[s].op
           /\ \/ Accept(s, upd.op, b) /\ Goes(s, "open")
              \/ Refuse(b) /\ Goes(s, "failed")
  <2>1. job[s].at = "admitted" /\ protection # "off"
    BY Holder DEF Holding
  <2>2. CASE Accept(s, upd.op, b) /\ Goes(s, "open")
    <3>1. job' = [job EXCEPT ![s] = [op |-> upd.op, at |-> "open"]]
      BY <1>1, <1>3, <2>2 DEF Goes
    <3>2. upd.op \in Ops \cup {NoOp}
      BY DEF TypeOK, Update
    <3> QED
      BY <1>1, <1>3, <2>1, <2>2, <3>1, <3>2, AcceptInv
  <2>3. CASE Refuse(b) /\ Goes(s, "failed")
    <3>1. status' \in Status /\ status'.phase = "failed"
      BY <1>1, <2>3 DEF Refuse, Report, Status, Phases, Results
    <3>2. /\ job' \in [Sources -> [op : Ops \cup {NoOp}, at : Stages]]
          /\ job'[s].at \notin Holding /\ \A r \in Sources : r # s => job'[r] = job[r]
      BY <1>1, <2>3 DEF Goes, Holding, Stages
    <3> QED
      BY <1>1, <1>3, <2>1, <2>3, <3>1, <3>2, ReleaseInv DEF Refuse
  <2> QED
    BY <1>3, <2>2, <2>3
<1> HIDE DEF IndInv
<1> QED
  BY <1>2, <1>3

LEMMA PrepareIrisInv ==
  ASSUME IndInv, NEW op \in Ops, NEW b \in Bundles, PrepareIris(op, b)
  PROVE  IndInv'
<1> USE DEF IndInv, PrepareIris, Unclaimed, At, device
<1>1. Iris \in Sources /\ protection # "off"
  BY SourceAssumption DEF Sources, ProtectionWindow
<1>2. /\ job \in [Sources -> [op : Ops \cup {NoOp}, at : Stages]]
      /\ status \in Status /\ used' \subseteq Ops
  BY DEF TypeOK
<1>3. CASE Accept(Iris, op, b) /\ job' = [job EXCEPT ![Iris] = [op |-> op, at |-> "open"]]
  BY <1>1, <1>2, <1>3, AcceptInv
<1>4. CASE Refuse(b) /\ UNCHANGED job
  <2>1. status' \in Status /\ status'.phase = "failed"
    BY <1>2, <1>4 DEF Refuse, Report, Status, Phases, Results
  <2> QED
    BY <1>1, <1>2, <1>4, <2>1, ReleaseInv DEF Refuse, Holding
<1> QED
  BY <1>3, <1>4

\* The component a step of an open source works on, and where it writes:
\* application and data lie outside the boot chain, apart from one another.
LEMMA StreamFacts ==
  ASSUME IndInv, NEW s \in Sources, job[s].at = "open",
         NEW i \in DOMAIN upd.plan, i \notin upd.completed,
         upd.plan[i].kind \notin StagedKinds => upd.layoutValid,
         NEW v \in Content,
         UNCHANGED <<protection, power>>, upd'.plan = upd.plan, upd'.completed = upd.completed,
         \/ flash' = flash
         \/ flash' = [flash EXCEPT ![upd.plan[i].at] = v] /\ upd.plan[i].kind \notin StagedKinds,
         \A k \in StagedKinds : upd'.staged[k] = upd.staged[k] \/ k = upd.plan[i].kind,
         faults' \in Nat, faults' = 0 => faults = 0
  PROVE  /\ flash' \in [Regions -> Content]
         /\ VerifiedStays' /\ ProtectionWindow' /\ BootChainWhole'
<1> USE DEF IndInv
<1>1. /\ upd.plan[i].at \in Regions
      /\ \A j \in upd.completed : j \in DOMAIN upd.plan /\ j # i /\ upd.plan[j].at # upd.plan[i].at
  BY PlanFacts DEF PlanShape, TypeOK
<1>2. flash' \in [Regions -> Content]
  BY <1>1 DEF TypeOK
<1>3. \A r \in Regions : r # upd.plan[i].at => flash'[r] = flash[r]
  BY <1>1 DEF TypeOK
<1>4. VerifiedStays'
  <2>1. SUFFICES ASSUME NEW j \in upd.completed
                 PROVE  IF upd.plan[j].kind \in StagedKinds
                        THEN upd'.staged[upd.plan[j].kind] = upd.plan[j].img
                        ELSE flash'[upd.plan[j].at] = upd.plan[j].img
    BY DEF VerifiedStays
  <2>2. CASE upd.plan[j].kind \in StagedKinds
    <3>1. upd.plan[j].kind # upd.plan[i].kind
      BY <1>1, <2>2 DEF PlanShape, StagedKinds
    <3> QED
      BY <2>2, <3>1 DEF VerifiedStays
  <2>3. CASE upd.plan[j].kind \notin StagedKinds
    BY <1>1, <1>3, <2>3, PlanFacts DEF VerifiedStays
  <2> QED
    BY <2>2, <2>3
<1>5. protection # "off"
  BY Holder DEF Holding
<1>6. \A r \in BootChain : flash'[r] = flash[r]
  BY <1>3, TableAssumption DEF LayoutMeaning, BootChain
<1>7. ProtectionWindow' /\ BootChainWhole'
  BY <1>5, <1>6 DEF ProtectionWindow, BootChainWhole, BootChain, Bootable
<1> QED
  BY <1>2, <1>4, <1>7

LEMMA BeginInv ==
  ASSUME IndInv, NEW s \in Sources, NEW i \in DOMAIN upd.plan, Begin(s, i)
  PROVE  IndInv'
<1> DEFINE c == upd.plan[i]
<1> USE DEF IndInv, At, world
<1>1. /\ job[s].at = "open" /\ upd.prepared /\ upd.active = 0 /\ i \notin upd.completed
      /\ c.kind \notin StagedKinds => upd.layoutValid
      /\ UNCHANGED <<owner, protection, boot, lastResult, commitStep, restart, power, used, crashes>>
  BY DEF Begin, MayBegin
<1>2. \/ /\ job' = job /\ Report("receiving", status.result)
         /\ \/ upd' = [upd EXCEPT !.active = i, !.received = 0, !.match = TRUE] /\ c.kind \notin StagedKinds
            \/ /\ upd' = [upd EXCEPT !.active = i, !.received = 0, !.match = TRUE,
                                     !.staged[c.kind] = Blank]
               /\ c.kind \in StagedKinds
      \/ /\ Goes(s, "failed") /\ status' = status
         /\ \/ upd' = upd
            \/ upd' = [upd EXCEPT !.staged[c.kind] = Blank] /\ c.kind \in StagedKinds
  BY DEF Begin
<1>3. \E v \in Content : \/ flash' = flash
                         \/ flash' = [flash EXCEPT ![c.at] = v] /\ c.kind \notin StagedKinds
  BY DEF Begin, Content
<1>4. faults' \in Nat /\ (faults' = 0 => faults = 0)
  BY FaultCount DEF Begin
<1>5. /\ upd \in Update /\ job \in [Sources -> [op : Ops \cup {NoOp}, at : Stages]]
      /\ status \in Status /\ i \in 1..Len(upd.plan) /\ c.size \in Nat \ {0} /\ i # 0
  BY PlanFacts DEF TypeOK
<1>6. upd' \in Update /\ status' \in Status
  <2>1. status' \in Status
    BY <1>2, <1>5 DEF Report, Status, Phases
  <2>2. i \in Nat /\ 0 \in Nat /\ TRUE \in BOOLEAN /\ Blank \in Content
    BY <1>5 DEF Content
  <2>3. CASE upd' = [upd EXCEPT !.active = i, !.received = 0, !.match = TRUE]
    BY <1>5, <2>1, <2>2, <2>3, EditOK
  <2>4. CASE c.kind \in StagedKinds /\ upd' = [upd EXCEPT !.staged[c.kind] = Blank]
    BY <1>5, <2>1, <2>2, <2>4, StagedEditOK
  <2>5. CASE /\ c.kind \in StagedKinds
             /\ upd' = [upd EXCEPT !.active = i, !.received = 0, !.match = TRUE, !.staged[c.kind] = Blank]
    BY <1>5, <2>1, <2>2, <2>5, StagedEditOK
  <2> QED
    BY <1>2, <1>5, <2>1, <2>3, <2>4, <2>5
<1>7. /\ upd'.plan = upd.plan /\ upd'.completed = upd.completed /\ upd'.prepared = upd.prepared
      /\ upd'.layoutValid = upd.layoutValid /\ upd'.op = upd.op
      /\ \A k \in StagedKinds : upd'.staged[k] = upd.staged[k] \/ k = c.kind
      /\ upd'.active = 0 \/ (upd'.active = i /\ upd'.received = 0)
  BY <1>1, <1>2, <1>5 DEF Update
<1>8. /\ flash' \in [Regions -> Content]
      /\ VerifiedStays' /\ ProtectionWindow' /\ BootChainWhole'
  BY <1>1, <1>3, <1>4, <1>7, StreamFacts
<1>9. PlanShape' /\ TableInPlan' /\ LayoutMeaning' /\ CompletedMeaning'
  BY <1>7, PlanKept
<1>10. ActiveMeaning'
  <2>1. ASSUME c.kind \in StagedKinds, upd'.active # 0 PROVE upd'.staged[c.kind] = Blank
    <3>1. upd' = [upd EXCEPT !.active = i, !.received = 0, !.match = TRUE, !.staged[c.kind] = Blank]
      BY <1>1, <1>2, <1>5, <2>1 DEF Update
    <3> QED
      BY <1>5, <2>1, <3>1 DEF Update
  <2>2. CASE upd'.active = 0
    BY <2>2 DEF ActiveMeaning
  <2>3. CASE upd'.active = i /\ upd'.received = 0 /\ upd'.active # 0
    <3> HIDE DEF IndInv
    <3>1. upd'.plan[upd'.active] = c /\ 0 # c.size
      BY <1>5, <1>7, <2>3
    <3> QED
      BY <1>1, <1>7, <2>1, <2>3, <3>1 DEF ActiveMeaning
  <2> QED
    BY <1>7, <2>2, <2>3
<1>11. /\ job' \in [Sources -> [op : Ops \cup {NoOp}, at : Stages]]
       /\ WriterExclusion' /\ CommitMeaning' /\ CommittedMeaning'
  <2>1. CASE job' = job /\ Report("receiving", status.result)
    BY <1>1, <1>5, <1>7, <2>1, SourceStays DEF Report, Status
  <2>2. CASE Goes(s, "failed") /\ status' = status
    BY <1>1, <1>7, <2>2, SourceFailed DEF Holding
  <2> QED
    BY <1>2, <2>1, <2>2
<1>12. TypeOK'
  <2>1. upd'.active \in 0..Len(upd'.plan) /\ (upd'.active # 0 => upd'.received <= upd'.plan[upd'.active].size)
    BY <1>5, <1>7
  <2> QED
    BY <1>1, <1>4, <1>6, <1>7, <1>8, <1>11, <2>1 DEF TypeOK
<1> QED
  BY <1>8, <1>9, <1>10, <1>11, <1>12

LEMMA WriteInv ==
  ASSUME IndInv, NEW s \in Sources, NEW sound \in BOOLEAN, Write(s, sound)
  PROVE  IndInv'
<1> DEFINE i == upd.active
           c == upd.plan[i]
           n == upd.received + 1
           m == upd.match /\ sound
           into == Filled(c, upd.staged[c.kind], sound)
<1> USE DEF IndInv, At, world
<1>1. /\ job[s].at = "open" /\ i # 0 /\ upd.received < c.size
      /\ UNCHANGED <<owner, protection, boot, lastResult, commitStep, restart, power, used, crashes>>
  BY DEF Write, ChunkFits
<1>2. \/ /\ job' = job /\ Report("receiving", status.result) /\ c.kind \notin StagedKinds
         /\ upd' = [upd EXCEPT !.received = n, !.match = m]
      \/ /\ job' = job /\ Report("receiving", status.result) /\ c.kind \in StagedKinds
         /\ upd' = [upd EXCEPT !.received = n, !.match = m, !.staged[c.kind] = into]
      \/ Goes(s, "failed") /\ status' = status /\ upd' = upd /\ c.kind \notin StagedKinds
  BY DEF Write
<1>3. /\ upd \in Update /\ job \in [Sources -> [op : Ops \cup {NoOp}, at : Stages]]
      /\ status \in Status /\ flash \in [Regions -> Content]
      /\ i \in DOMAIN upd.plan /\ i \in 1..Len(upd.plan) /\ i \notin upd.completed
      /\ c.size \in Nat /\ c.img \in Images /\ c.at \in Regions /\ upd.prepared
      /\ upd.received \in Nat /\ n \in Nat /\ n <= c.size /\ upd.match \in BOOLEAN /\ m \in BOOLEAN
  BY <1>1, PlanFacts DEF TypeOK, Update, ActiveMeaning
<1>4. c.kind \notin StagedKinds => upd.layoutValid
  BY <1>1 DEF ActiveMeaning
<1>5. \A old \in Content : Filled(c, old, sound) \in Content
  BY <1>3 DEF Filled, Content
<1>6. \E v \in Content : \/ flash' = flash
                         \/ flash' = [flash EXCEPT ![c.at] = v] /\ c.kind \notin StagedKinds
  <2>1. flash[c.at] \in Content /\ Torn \in Content
    BY <1>3 DEF Content
  <2> QED
    BY <1>5, <2>1 DEF Write
<1>7. faults' \in Nat /\ (faults' = 0 => faults = 0)
  BY FaultCount DEF Write
<1>8. c.kind \in StagedKinds => into \in Content
  BY <1>3, <1>5 DEF Update
<1>9. status' \in Status
  BY <1>2, <1>3 DEF Report, Status, Phases
<1>10. upd' \in Update
  <2>1. CASE upd' = [upd EXCEPT !.received = n, !.match = m]
    BY <1>3, <2>1, EditOK
  <2>2. CASE /\ c.kind \in StagedKinds
             /\ upd' = [upd EXCEPT !.received = n, !.match = m, !.staged[c.kind] = into]
    <3> HIDE DEF into, n, m
    <3>1. [upd EXCEPT !.received = n, !.match = m, !.staged[c.kind] = into] \in Update
      BY <1>3, <1>8, <2>2, StagedEditOK
    <3> QED
      BY <2>2, <3>1, Zenon
  <2> QED
    BY <1>2, <1>3, <2>1, <2>2
<1>11. /\ upd'.plan = upd.plan /\ upd'.completed = upd.completed /\ upd'.prepared = upd.prepared
       /\ upd'.layoutValid = upd.layoutValid /\ upd'.op = upd.op /\ upd'.active = i
       /\ \A k \in StagedKinds : upd'.staged[k] = upd.staged[k] \/ k = c.kind
       /\ upd'.received \in Nat /\ upd'.received <= c.size
  <2> HIDE DEF into, n, m
  <2>1. upd'.received \in {n, upd.received}
    BY <1>2, <1>3 DEF Update
  <2>2. upd'.received \in Nat /\ upd'.received <= c.size
    BY <1>1, <1>3, <2>1
  <2>3. \A k \in StagedKinds : upd'.staged[k] = upd.staged[k] \/ k = c.kind
    BY <1>2, <1>3 DEF Update
  <2> QED
    BY <1>2, <1>3, <2>2, <2>3 DEF Update
<1>12. /\ flash' \in [Regions -> Content]
       /\ VerifiedStays' /\ ProtectionWindow' /\ BootChainWhole'
  BY <1>1, <1>3, <1>4, <1>6, <1>7, <1>11, StreamFacts
<1>13. PlanShape' /\ TableInPlan' /\ LayoutMeaning' /\ CompletedMeaning'
  BY <1>11, PlanKept
<1>14. ActiveMeaning'
  <2>1. ASSUME c.kind \in StagedKinds, upd'.match
        PROVE  upd'.staged[c.kind] = IF upd'.received = c.size THEN c.img ELSE Blank
    <3>1. /\ upd'.staged[c.kind] = into /\ upd'.received = n /\ upd'.match = m
      <4> HIDE DEF into, n, m
      <4>1. upd' = [upd EXCEPT !.received = n, !.match = m, !.staged[c.kind] = into]
        BY <1>2, <2>1
      <4> QED
        BY <1>3, <2>1, <4>1 DEF Update
    <3>2. upd.staged[c.kind] = Blank /\ sound
      BY <1>1, <1>3, <2>1, <3>1 DEF ActiveMeaning
    <3> QED
      BY <3>1, <3>2 DEF Filled, Blank, Torn
  <2> QED
    BY <1>1, <1>3, <1>4, <1>11, <2>1 DEF ActiveMeaning
<1>15. /\ job' \in [Sources -> [op : Ops \cup {NoOp}, at : Stages]]
       /\ WriterExclusion' /\ CommitMeaning' /\ CommittedMeaning'
  <2>1. CASE job' = job /\ Report("receiving", status.result)
    BY <1>1, <1>3, <1>11, <2>1, SourceStays DEF Report, Status
  <2>2. CASE Goes(s, "failed") /\ status' = status
    BY <1>1, <1>11, <2>2, SourceFailed DEF Holding
  <2> QED
    BY <1>2, <2>1, <2>2
<1>16. TypeOK'
  BY <1>1, <1>3, <1>7, <1>9, <1>10, <1>11, <1>12, <1>15 DEF TypeOK
<1> QED
  BY <1>12, <1>13, <1>14, <1>15, <1>16

\* What end_component has established when it marks component i as completed.
LEMMA VerifiedFacts ==
  ASSUME IndInv, upd.active # 0, upd.received = upd.plan[upd.active].size, upd.match,
         Verified(upd.plan[upd.active])
  PROVE  LET c == upd.plan[upd.active] IN
         /\ IF c.kind \in StagedKinds THEN upd.staged[c.kind] = c.img ELSE flash[c.at] = c.img
         /\ c.kind \in {"application", "bootloader", "recovery"} => c.img \in BootImages
         /\ c.kind = "partition_table" =>
              c.img \in TableImages /\ ValidTable(c.img)
<1> DEFINE c == upd.plan[upd.active]
<1>1. c.kind \in Kinds
  BY PlanFacts DEF IndInv, TypeOK
<1>2. c.kind \in StagedKinds => upd.staged[c.kind] = c.img
  BY DEF IndInv, ActiveMeaning
<1>3. CASE c.kind = "application"
  BY <1>3 DEF Verified, StagedKinds
<1>4. CASE c.kind = "data"
  BY <1>4 DEF Verified, StagedKinds
<1>5. CASE c.kind = "partition_table"
  BY <1>2, <1>5 DEF Verified, StagedKinds, ValidTable
<1>6. CASE c.kind \in {"bootloader", "recovery"}
  BY <1>2, <1>6 DEF Verified, StagedKinds
<1> QED
  BY <1>1, <1>3, <1>4, <1>5, <1>6 DEF Kinds

\* Under a layout that keeps the contract no component leaves its partition.
LEMMA LayoutFacts ==
  ASSUME IndInv, NEW t \in TableImages, ValidTable(t)
  PROVE  \A i \in DOMAIN upd.plan : upd.plan[i].kind \notin StagedKinds =>
           upd.plan[i].at \notin BootChain \cup FixedRegions
<1> SUFFICES ASSUME NEW i \in DOMAIN upd.plan, upd.plan[i].kind \notin StagedKinds
             PROVE  upd.plan[i].at \notin BootChain \cup FixedRegions
  OBVIOUS
<1>1. upd.plan[i].kind \in {"application", "data"}
  BY PlanFacts DEF IndInv, Kinds, StagedKinds
<1>2. Table[t][upd.plan[i].at].kind \in {"ota_0", "data"}
  BY <1>1 DEF ValidTable, Resolves
<1>3. \A r \in FixedRegions : Table[t][r].kind = "fixed"
  BY DEF ValidTable, KeepsContract
<1> QED
  BY <1>2, <1>3, TableAssumption DEF BootChain

LEMMA EndInv ==
  ASSUME IndInv, NEW s \in Sources, End(s)
  PROVE  IndInv'
<1> DEFINE i == upd.active
           c == upd.plan[i]
<1> USE DEF At, world, device
<1>1. /\ job[s].at = "open" /\ i # 0
      /\ UNCHANGED <<owner, flash, protection, boot, lastResult, commitStep, restart, power, used,
                     crashes, faults>>
  BY DEF End
<1>2. /\ upd \in Update /\ job \in [Sources -> [op : Ops \cup {NoOp}, at : Stages]]
      /\ status \in Status /\ i \in DOMAIN upd.plan /\ i \in Nat /\ faults \in Nat
      /\ upd.completed \subseteq DOMAIN upd.plan /\ protection # "off"
  BY <1>1, PlanFacts, Holder DEF IndInv, TypeOK, Update, Holding
<1>3. ProtectionWindow' /\ BootChainWhole'
  BY <1>1, <1>2, ChainUntouched
<1>4. CASE Goes(s, "failed") /\ UNCHANGED <<upd, status>>
  <2>1. UNCHANGED <<writer, device, commitStep, world, faults>> /\ At(s, {"admitted", "open"})
    BY <1>4 DEF End, writer
  <2> QED
    BY <1>4, <2>1, FailInv
<1>5. CASE /\ upd' = [upd EXCEPT !.active = 0, !.received = 0]
           /\ Goes(s, "failed") /\ UNCHANGED status
  <2>1. upd' \in Update
    BY <1>2, <1>5, EditOK
  <2>2. /\ upd'.plan = upd.plan /\ upd'.completed = upd.completed /\ upd'.prepared = upd.prepared
        /\ upd'.layoutValid = upd.layoutValid /\ upd'.op = upd.op /\ upd'.active = 0
        /\ upd'.staged = upd.staged
    BY <1>2, <1>5 DEF Update
  <2>3. PlanShape' /\ TableInPlan' /\ LayoutMeaning' /\ CompletedMeaning'
    BY <2>2, PlanKept
  <2>4. ActiveMeaning' /\ VerifiedStays'
    BY <1>1, <2>2 DEF IndInv, ActiveMeaning, VerifiedStays
  <2>5. /\ job' \in [Sources -> [op : Ops \cup {NoOp}, at : Stages]]
        /\ WriterExclusion' /\ CommitMeaning' /\ CommittedMeaning'
    BY <1>1, <1>5, <2>2, SourceFailed DEF Holding
  <2>6. upd'.active \in 0..Len(upd'.plan)
    BY <1>2, <2>2, PlanFacts DEF IndInv
  <2>7. TypeOK'
    BY <1>1, <1>2, <1>5, <2>1, <2>2, <2>5, <2>6 DEF IndInv, TypeOK
  <2> QED
    BY <1>3, <2>3, <2>4, <2>5, <2>7 DEF IndInv
<1>6. CASE /\ upd.received = c.size /\ upd.match /\ Verified(c)
           /\ upd' = [upd EXCEPT !.active = 0, !.received = 0,
                                 !.completed = upd.completed \cup {i},
                                 !.layoutValid = upd.layoutValid \/ c.kind = "partition_table"]
           /\ Report("verified", status.result) /\ UNCHANGED job
  <2>1. /\ upd'.plan = upd.plan /\ upd'.completed = upd.completed \cup {i}
        /\ upd'.prepared = upd.prepared /\ upd'.op = upd.op /\ upd'.active = 0
        /\ upd'.staged = upd.staged
        /\ upd'.layoutValid = (upd.layoutValid \/ c.kind = "partition_table")
    BY <1>2, <1>6 DEF Update
  <2>2. upd' \in Update
    <3>1. upd.completed \cup {i} \in SUBSET Nat
      BY <1>2 DEF Update
    <3> QED
      BY <1>2, <1>6, <3>1 DEF Update
  <2>3. /\ IF c.kind \in StagedKinds THEN upd.staged[c.kind] = c.img ELSE flash[c.at] = c.img
        /\ c.kind \in {"application", "bootloader", "recovery"} => c.img \in BootImages
        /\ c.kind = "partition_table" => c.img \in TableImages /\ ValidTable(c.img)
    BY <1>1, <1>6, VerifiedFacts
  <2>4. PlanShape' /\ TableInPlan'
    BY <2>1, PlanKept
  <2>5. VerifiedStays'
    BY <1>1, <2>1, <2>3 DEF IndInv, VerifiedStays
  <2>6. CompletedMeaning'
    <3>1. \A j \in upd.completed : upd.plan[j].kind = "partition_table" =>
            \A k \in DOMAIN upd.plan : Resolves(upd.plan[k], upd.plan[j].img)
      BY DEF IndInv, CompletedMeaning
    <3>2. c.kind = "partition_table" => \A k \in DOMAIN upd.plan : Resolves(upd.plan[k], c.img)
      BY <2>3 DEF ValidTable
    <3> QED
      BY <2>1, <2>3, <3>1, <3>2 DEF IndInv, CompletedMeaning
  <2>7. LayoutMeaning'
    <3>1. c.kind = "partition_table" => \A j \in DOMAIN upd.plan : upd.plan[j].kind \notin StagedKinds =>
            upd.plan[j].at \notin BootChain \cup FixedRegions
      BY <2>3, LayoutFacts
    <3>2. upd'.layoutValid => upd.layoutValid \/ c.kind = "partition_table"
      BY <2>1, Zenon
    <3> QED
      BY <2>1, <3>1, <3>2 DEF IndInv, LayoutMeaning
  <2>8. ActiveMeaning'
    BY <2>1 DEF ActiveMeaning
  <2>9. status' \in Status /\ status'.phase = "verified"
    BY <1>2, <1>6 DEF Report, Status, Phases
  <2>10. WriterExclusion' /\ CommitMeaning' /\ CommittedMeaning'
    BY <1>1, <1>6, <2>1, <2>9, SourceStays
  <2>11. upd'.active \in 0..Len(upd'.plan) /\ upd'.completed \subseteq DOMAIN upd'.plan
    BY <1>2, <2>1, PlanFacts DEF IndInv
  <2>12. TypeOK'
    BY <1>1, <1>2, <1>6, <2>1, <2>2, <2>9, <2>11 DEF IndInv, TypeOK
  <2> QED
    BY <1>3, <2>4, <2>5, <2>6, <2>7, <2>8, <2>10, <2>12 DEF IndInv
<1> QED
  BY <1>4, <1>5, <1>6 DEF End

----------------------------------------------------------------------------
(* The commit.                                                             *)

\* The component a protected step of the commit is about.
LEMMA StepFacts ==
  ASSUME IndInv, commitStep \in StagedKinds, Of(commitStep) # {}
  PROVE  \E i \in DOMAIN upd.plan :
           /\ For(commitStep) = upd.plan[i] /\ upd.plan[i].kind = commitStep
           /\ Of(commitStep) = {i} /\ upd.plan[i].at \in BootChain /\ upd.plan[i].at \in Regions
           /\ \A j \in DOMAIN upd.plan : j # i =>
                upd.plan[j].kind # commitStep /\ upd.plan[j].at # upd.plan[i].at
<1> DEFINE i == CHOOSE j \in Of(commitStep) : TRUE
<1>1. i \in Of(commitStep)
  OBVIOUS
<1>2. i \in DOMAIN upd.plan /\ upd.plan[i].kind = commitStep /\ For(commitStep) = upd.plan[i]
  BY <1>1 DEF Of, For
<1> HIDE DEF i
<1>3. \A j \in DOMAIN upd.plan : j # i =>
        upd.plan[j].kind # commitStep /\ upd.plan[j].at # upd.plan[i].at
  BY <1>2 DEF IndInv, PlanShape, StagedKinds
<1>4. Of(commitStep) = {i}
  BY <1>2, <1>3 DEF Of
<1>5. upd.plan[i].at \in BootChain /\ upd.plan[i].at \in Regions
  BY <1>2, PlanFacts DEF IndInv, PlanShape, Authorized, BootChain, StagedKinds
<1> QED
  BY <1>2, <1>3, <1>4, <1>5

\* A source that commits holds a plan that is complete, and is alone in it.
LEMMA CommitFacts ==
  ASSUME IndInv, NEW s \in Sources, job[s].at = "commit"
  PROVE  /\ owner = s /\ upd.prepared /\ upd.active = 0 /\ upd.completed = DOMAIN upd.plan
         /\ status.phase # "committed"
         /\ \A r \in Sources : r # s => job[r].at \notin Holding
BY Holder DEF Holding, IndInv, CommitMeaning, AllCompleted

\* A commit that stops leaves the writer with its source, and flash as the
\* fault left it.
LEMMA CommitStops ==
  ASSUME IndInv, NEW s \in Sources, job[s].at = "commit", Goes(s, "failed"), Fault,
         UNCHANGED <<owner, status, upd, commitStep, restart, power, used, crashes>>,
         flash' \in [Regions -> Content], VerifiedStays', protection' \in {"on", "stuck"},
         boot' \in {"factory", "ota_0"}, lastResult' \in [op : Ops \cup {NoOp}, result : Results]
  PROVE  IndInv'
<1>1. /\ job' \in [Sources -> [op : Ops \cup {NoOp}, at : Stages]]
      /\ WriterExclusion' /\ CommitMeaning' /\ CommittedMeaning'
  BY SourceFailed DEF Holding
<1>2. PlanShape' /\ TableInPlan' /\ LayoutMeaning' /\ CompletedMeaning'
  BY PlanKept
<1>3. ActiveMeaning'
  BY DEF IndInv, ActiveMeaning
<1>4. faults' \in Nat /\ faults' # 0
  BY DEF IndInv, TypeOK, Fault
<1>5. ProtectionWindow' /\ BootChainWhole'
  BY <1>4 DEF ProtectionWindow, BootChainWhole
<1>6. TypeOK'
  BY <1>1, <1>4 DEF IndInv, TypeOK
<1> QED
  BY <1>1, <1>2, <1>3, <1>5, <1>6 DEF IndInv

\* A commit that goes on: what is left to show of a step that keeps job.
LEMMA CommitGoesOn ==
  ASSUME IndInv, NEW s \in Sources, job[s].at = "commit", job' = job, NoFault,
         UNCHANGED <<owner, status, upd, restart, power, used, crashes>>,
         flash' \in [Regions -> Content], VerifiedStays', protection' \in {"on", "off", "stuck"},
         boot' \in {"factory", "ota_0"}, lastResult' \in [op : Ops \cup {NoOp}, result : Results],
         commitStep' \in CommitSteps, CommitMeaning', ProtectionWindow', BootChainWhole'
  PROVE  IndInv'
<1>1. WriterExclusion' /\ CommittedMeaning'
  BY DEF IndInv, WriterExclusion, CommittedMeaning
<1>2. PlanShape' /\ TableInPlan' /\ LayoutMeaning' /\ CompletedMeaning'
  BY PlanKept
<1>3. ActiveMeaning'
  BY DEF IndInv, ActiveMeaning
<1>4. TypeOK'
  BY DEF IndInv, TypeOK, NoFault
<1> QED
  BY <1>1, <1>2, <1>3, <1>4 DEF IndInv

\* After a protected step: its component is in flash.
LEMMA StepDone ==
  ASSUME IndInv, NEW s \in Sources, job[s].at = "commit", job' = job, upd' = upd, restart' = restart,
         commitStep \in StagedKinds, commitStep' = After(commitStep),
         \A i \in DOMAIN upd.plan : upd.plan[i].kind \in StepsDone \cup {commitStep} =>
           flash'[upd.plan[i].at] = upd.plan[i].img
  PROVE  CommitMeaning' /\ commitStep' \in CommitSteps /\ commitStep' \notin {"persist", "schedule"}
<1>1. /\ commitStep' \in CommitSteps /\ commitStep' \notin {"persist", "schedule"}
      /\ StepsDone' = StepsDone \cup {commitStep}
  BY DEF StagedKinds, After, CommitSteps, StepsDone
<1>2. \A r \in Sources : job[r].at \in {"commit", "sealed"} => r = s
  BY CommitFacts DEF Holding
<1> QED
  BY <1>1, <1>2 DEF CommitMeaning, IndInv, AllCompleted

LEMMA CommitSkipInv ==
  ASSUME IndInv, NEW s \in Sources, CommitSkip(s)
  PROVE  IndInv'
<1> USE DEF CommitAt, At, writer, device, world
<1>1. /\ job[s].at = "commit" /\ commitStep \in StagedKinds /\ protection # "off"
      /\ Of(commitStep) # {} => flash[For(commitStep).at] = For(commitStep).img
      /\ UNCHANGED <<owner, status, upd, flash, protection, boot, lastResult,
                     restart, power, used, crashes>>
  BY DEF CommitSkip
<1>2. \A i \in DOMAIN upd.plan : upd.plan[i].kind = commitStep =>
        flash[upd.plan[i].at] = upd.plan[i].img
  <2>1. SUFFICES ASSUME NEW j \in DOMAIN upd.plan, upd.plan[j].kind = commitStep
                 PROVE  flash[upd.plan[j].at] = upd.plan[j].img
    OBVIOUS
  <2>2. j \in Of(commitStep)
    BY <2>1 DEF Of
  <2>3. For(commitStep) = upd.plan[j]
    BY <1>1, <2>2, StepFacts
  <2> QED
    BY <1>1, <2>2, <2>3
<1>3. VerifiedStays'
  BY <1>1 DEF IndInv, VerifiedStays
<1>4. /\ flash' \in [Regions -> Content] /\ protection' \in {"on", "stuck"}
      /\ boot' \in {"factory", "ota_0"} /\ lastResult' \in [op : Ops \cup {NoOp}, result : Results]
  BY <1>1 DEF IndInv, TypeOK
<1>5. CASE NoFault /\ commitStep' = After(commitStep) /\ UNCHANGED job
  <2>1. \A i \in DOMAIN upd.plan : upd.plan[i].kind \in StepsDone =>
          flash[upd.plan[i].at] = upd.plan[i].img
    BY <1>1 DEF IndInv, CommitMeaning
  <2>2. CommitMeaning' /\ commitStep' \in CommitSteps
    BY <1>1, <1>2, <1>5, <2>1, StepDone
  <2>3. ProtectionWindow' /\ BootChainWhole'
    BY <1>1, <1>5 DEF IndInv, ProtectionWindow, BootChainWhole, Bootable, NoFault
  <2> QED
    BY <1>1, <1>3, <1>4, <1>5, <2>2, <2>3, CommitGoesOn
<1>6. CASE Fault /\ Goes(s, "failed") /\ UNCHANGED commitStep
  BY <1>1, <1>3, <1>4, <1>6, CommitStops
<1> QED
  BY <1>5, <1>6 DEF CommitSkip

\* Writing the region of the protected component leaves the others alone.
LEMMA StepWrites ==
  ASSUME IndInv, NEW s \in Sources, job[s].at = "commit", commitStep \in StagedKinds,
         NEW i \in DOMAIN upd.plan, upd.plan[i].kind = commitStep, NEW v \in Content,
         flash' = [flash EXCEPT ![upd.plan[i].at] = v], upd' = upd
  PROVE  /\ flash' \in [Regions -> Content] /\ flash'[upd.plan[i].at] = v
         /\ \A r \in Regions : r # upd.plan[i].at => flash'[r] = flash[r]
         /\ \A j \in DOMAIN upd.plan : j # i => flash'[upd.plan[j].at] = flash[upd.plan[j].at]
         /\ VerifiedStays'
<1>1. flash \in [Regions -> Content] /\ upd.plan[i].at \in Regions
  BY PlanFacts DEF IndInv, TypeOK
<1>2. /\ flash' \in [Regions -> Content] /\ flash'[upd.plan[i].at] = v
      /\ \A r \in Regions : r # upd.plan[i].at => flash'[r] = flash[r]
  BY <1>1
<1>3. \A j \in DOMAIN upd.plan : j # i => upd.plan[j].at # upd.plan[i].at /\ upd.plan[j].at \in Regions
  BY PlanFacts DEF IndInv, TypeOK, PlanShape
<1>4. \A j \in DOMAIN upd.plan : j # i => flash'[upd.plan[j].at] = flash[upd.plan[j].at]
  BY <1>2, <1>3
<1>5. VerifiedStays'
  BY <1>4 DEF IndInv, VerifiedStays, TypeOK
<1> QED
  BY <1>2, <1>4, <1>5

LEMMA CommitEraseInv ==
  ASSUME IndInv, NEW s \in Sources, CommitErase(s)
  PROVE  IndInv'
<1> USE DEF CommitAt, At, writer, world
<1>1. /\ job[s].at = "commit" /\ commitStep \in StagedKinds /\ Of(commitStep) # {} /\ protection # "off"
      /\ UNCHANGED <<owner, status, upd, boot, lastResult, commitStep, restart, power, used, crashes>>
  BY DEF CommitErase
<1>2. PICK i \in DOMAIN upd.plan :
         /\ For(commitStep) = upd.plan[i] /\ upd.plan[i].kind = commitStep /\ Of(commitStep) = {i}
         /\ \A j \in DOMAIN upd.plan : j # i =>
              upd.plan[j].kind # commitStep /\ upd.plan[j].at # upd.plan[i].at
  BY <1>1, StepFacts
<1>3. /\ flash \in [Regions -> Content] /\ protection \in {"on", "stuck"}
      /\ boot' \in {"factory", "ota_0"} /\ lastResult' \in [op : Ops \cup {NoOp}, result : Results]
      /\ Blank \in Content /\ Torn \in Content /\ commitStep \in CommitSteps
  BY <1>1 DEF IndInv, TypeOK, Content
<1>4. CASE NoFault /\ flash' = [flash EXCEPT ![upd.plan[i].at] = Blank] /\ protection' = "off" /\ job' = job
  <2>1. /\ flash' \in [Regions -> Content] /\ VerifiedStays'
        /\ \A r \in Regions : r # upd.plan[i].at => flash'[r] = flash[r]
        /\ \A j \in DOMAIN upd.plan : j # i => flash'[upd.plan[j].at] = flash[upd.plan[j].at]
    BY <1>1, <1>2, <1>3, <1>4, StepWrites
  <2>2. /\ upd.plan[i].kind \notin StepsDone
        /\ commitStep \notin {"persist", "schedule"}
    BY <1>1, <1>2 DEF StepsDone, StagedKinds
  <2>3. \A r \in Sources : job[r].at \in {"commit", "sealed"} => r = s
    BY <1>1, CommitFacts DEF Holding
  <2>4. \A j \in DOMAIN upd.plan : upd.plan[j].kind \in StepsDone =>
          flash'[upd.plan[j].at] = upd.plan[j].img
    BY <1>1, <2>1, <2>2 DEF IndInv, CommitMeaning
  <2>5. StepsDone' = StepsDone /\ AllCompleted' = AllCompleted
    BY <1>1 DEF StepsDone, AllCompleted
  <2>6. CommitMeaning'
    BY <1>1, <1>4, <2>2, <2>3, <2>4, <2>5 DEF IndInv, CommitMeaning
  <2>7. Of(commitStep)' = {i}
    BY <1>1, <1>2 DEF Of
  <2>8. ProtectionWindow'
    BY <1>1, <1>4, <2>7, CommitFacts DEF ProtectionWindow
  <2>9. BootChainWhole'
    <3>1. BootChain \subseteq Regions
      BY TableAssumption DEF BootChain
    <3> QED
      BY <1>1, <1>4, <2>1, <2>7, <3>1 DEF IndInv, BootChainWhole, Bootable, NoFault
  <2> QED
    BY <1>1, <1>3, <1>4, <2>1, <2>6, <2>8, <2>9, CommitGoesOn
<1>5. CASE /\ Fault /\ flash' = [flash EXCEPT ![upd.plan[i].at] = Torn] /\ protection' \in Restored
           /\ Goes(s, "failed")
  <2>1. flash' \in [Regions -> Content] /\ VerifiedStays'
    BY <1>1, <1>2, <1>3, <1>5, StepWrites
  <2> QED
    BY <1>1, <1>3, <1>5, <2>1, CommitStops DEF Restored
<1>6. CASE Fault /\ Goes(s, "failed") /\ UNCHANGED <<flash, protection>>
  <2>1. VerifiedStays'
    BY <1>1, <1>6 DEF IndInv, VerifiedStays
  <2> QED
    BY <1>1, <1>3, <1>6, <2>1, CommitStops
<1> QED
  BY <1>2, <1>4, <1>5, <1>6 DEF CommitErase

LEMMA CommitWriteInv ==
  ASSUME IndInv, NEW s \in Sources, CommitWrite(s)
  PROVE  IndInv'
<1> USE DEF CommitAt, At, writer, world
<1>1. /\ job[s].at = "commit" /\ commitStep \in StagedKinds /\ protection = "off" /\ Of(commitStep) # {}
      /\ UNCHANGED <<owner, status, upd, boot, lastResult, restart, power, used, crashes>>
  BY DEF CommitWrite, IndInv, ProtectionWindow
<1>2. PICK i \in DOMAIN upd.plan :
         /\ For(commitStep) = upd.plan[i] /\ upd.plan[i].kind = commitStep /\ Of(commitStep) = {i}
         /\ upd.plan[i].at \in BootChain
         /\ \A j \in DOMAIN upd.plan : j # i =>
              upd.plan[j].kind # commitStep /\ upd.plan[j].at # upd.plan[i].at
  BY <1>1, StepFacts
<1> DEFINE c == upd.plan[i]
<1>3. /\ flash \in [Regions -> Content] /\ commitStep \in CommitSteps
      /\ boot' \in {"factory", "ota_0"} /\ lastResult' \in [op : Ops \cup {NoOp}, result : Results]
      /\ Torn \in Content /\ c.img \in Content
  BY <1>1, PlanFacts DEF IndInv, TypeOK, Content
\* The buffer was verified when the component was completed.
<1>4. /\ upd.staged[c.kind] = c.img
      /\ c.kind # "partition_table" => c.img \in BootImages
      /\ c.kind = "partition_table" => c.img \in TableImages
  BY <1>1, <1>2, CommitFacts DEF IndInv, VerifiedStays, CompletedMeaning, StagedKinds
<1>5. CASE /\ NoFault /\ flash' = [flash EXCEPT ![c.at] = c.img] /\ protection' = "on"
           /\ commitStep' = After(commitStep) /\ job' = job
  <2>1. /\ flash' \in [Regions -> Content] /\ VerifiedStays' /\ flash'[c.at] = c.img
        /\ \A r \in Regions : r # c.at => flash'[r] = flash[r]
        /\ \A j \in DOMAIN upd.plan : j # i => flash'[upd.plan[j].at] = flash[upd.plan[j].at]
    BY <1>1, <1>2, <1>3, <1>5, StepWrites
  <2>2. \A j \in DOMAIN upd.plan : upd.plan[j].kind \in StepsDone \cup {commitStep} =>
          flash'[upd.plan[j].at] = upd.plan[j].img
    BY <1>1, <1>2, <2>1 DEF IndInv, CommitMeaning
  <2>3. CommitMeaning' /\ commitStep' \in CommitSteps
    BY <1>1, <1>5, <2>2, StepDone
  <2>4. ProtectionWindow'
    BY <1>5 DEF ProtectionWindow
  <2>5. Bootable(c.at, c.img)
    <3>1. Authorized(c)
      BY DEF IndInv, PlanShape
    <3> QED
      BY <1>1, <1>2, <1>4, <3>1 DEF Bootable, Authorized, StagedKinds
  <2>6. BootChainWhole'
    <3>1. BootChain \subseteq Regions
      BY TableAssumption DEF BootChain
    <3>2. \A r \in BootChain : faults' = 0 /\ power' # "dead" =>
            Bootable(r, flash'[r]) \/ (r = "factory" /\ power' = "app")
      BY <1>1, <1>2, <1>5, <2>1, <2>5, <3>1 DEF IndInv, BootChainWhole, NoFault
    <3> QED
      BY <3>2 DEF BootChainWhole
  <2> QED
    BY <1>1, <1>3, <1>5, <2>1, <2>3, <2>4, <2>6, CommitGoesOn
<1>6. CASE /\ Fault /\ \E left \in {Torn, c.img} : flash' = [flash EXCEPT ![c.at] = left]
           /\ protection' \in Restored /\ Goes(s, "failed") /\ UNCHANGED commitStep
  <2>1. PICK left \in {Torn, c.img} : flash' = [flash EXCEPT ![c.at] = left]
    BY <1>6
  <2>2. left \in Content
    BY <1>3
  <2>3. flash' \in [Regions -> Content] /\ VerifiedStays'
    BY <1>1, <1>2, <2>1, <2>2, StepWrites
  <2> QED
    BY <1>1, <1>3, <1>6, <2>3, CommitStops DEF Restored
<1> QED
  BY <1>1, <1>2, <1>4, <1>5, <1>6 DEF CommitWrite

LEMMA CommitSelectInv ==
  ASSUME IndInv, NEW s \in Sources, CommitSelect(s)
  PROVE  IndInv'
<1> USE DEF CommitAt, At, writer, world
<1>1. /\ job[s].at = "commit" /\ commitStep = "select"
      /\ UNCHANGED <<owner, status, upd, flash, protection, lastResult, restart, power, used, crashes>>
  BY DEF CommitSelect
<1>2. /\ flash' \in [Regions -> Content] /\ protection' \in {"on", "stuck"}
      /\ lastResult' \in [op : Ops \cup {NoOp}, result : Results] /\ boot \in {"factory", "ota_0"}
  BY <1>1 DEF IndInv, TypeOK, ProtectionWindow, StagedKinds
<1>3. VerifiedStays'
  BY <1>1 DEF IndInv, VerifiedStays
<1>4. CASE NoFault /\ commitStep' = After(commitStep) /\ job' = job /\ boot' = Selected
  <2>1. commitStep' = "persist" /\ commitStep' \in CommitSteps
    BY <1>1, <1>4 DEF After, CommitSteps
  <2>2. Of("recovery") # {} => Of("application") = {}
    BY PlanFacts DEF Of, IndInv, PlanShape
  <2>3. /\ Of("application") # {} => boot' = "ota_0"
        /\ Of("recovery") # {} => boot' = "factory"
    BY <1>4, <2>2 DEF Selected
  <2>4. \A r \in Sources : job[r].at \in {"commit", "sealed"} => r = s
    BY <1>1, CommitFacts DEF Holding
  <2>5. StepsDone' = StagedKinds /\ StepsDone = StagedKinds
    BY <1>1, <2>1 DEF StepsDone
  <2>6. Of("application")' = Of("application") /\ Of("recovery")' = Of("recovery")
    BY <1>1 DEF Of
  <2>7. CommitMeaning'
    BY <1>1, <1>4, <2>1, <2>3, <2>4, <2>5, <2>6 DEF IndInv, CommitMeaning, AllCompleted
  <2>8. ProtectionWindow' /\ BootChainWhole'
    BY <1>1, <1>2, <1>4 DEF IndInv, ProtectionWindow, BootChainWhole, Bootable, NoFault
  <2>9. boot' \in {"factory", "ota_0"}
    BY <1>2, <1>4 DEF Selected
  <2> QED
    BY <1>1, <1>2, <1>3, <1>4, <2>1, <2>7, <2>8, <2>9, CommitGoesOn
<1>5. CASE Fault /\ boot' \in {boot, Selected} /\ Goes(s, "failed") /\ UNCHANGED commitStep
  <2>1. boot' \in {"factory", "ota_0"}
    BY <1>2, <1>5 DEF Selected
  <2> QED
    BY <1>1, <1>2, <1>3, <1>5, <2>1, CommitStops
<1> QED
  BY <1>4, <1>5 DEF CommitSelect

LEMMA CommitPersistInv ==
  ASSUME IndInv, NEW s \in Sources, CommitPersist(s)
  PROVE  IndInv'
<1> USE DEF CommitAt, At, writer, world
<1>1. /\ job[s].at = "commit" /\ commitStep = "persist"
      /\ UNCHANGED <<owner, status, upd, flash, protection, boot, restart, power, used, crashes>>
  BY DEF CommitPersist
<1>2. /\ flash' \in [Regions -> Content] /\ protection' \in {"on", "stuck"}
      /\ lastResult \in [op : Ops \cup {NoOp}, result : Results] /\ boot' \in {"factory", "ota_0"}
      /\ job[s].op \in Ops \cup {NoOp}
  BY <1>1 DEF IndInv, TypeOK, ProtectionWindow, StagedKinds
<1>3. VerifiedStays'
  BY <1>1 DEF IndInv, VerifiedStays
<1>4. CASE /\ NoFault /\ commitStep' = After(commitStep) /\ job' = job
           /\ lastResult' = [op |-> job[s].op, result |-> "ok"]
  <2>1. commitStep' = "schedule" /\ commitStep' \in CommitSteps
    BY <1>1, <1>4 DEF After, CommitSteps
  <2>2. lastResult' \in [op : Ops \cup {NoOp}, result : Results]
    BY <1>2, <1>4 DEF Results
  <2>3. \A r \in Sources : job[r].at \in {"commit", "sealed"} => r = s
    BY <1>1, CommitFacts DEF Holding
  <2>4. StepsDone' = StagedKinds /\ StepsDone = StagedKinds
    BY <1>1, <2>1 DEF StepsDone
  <2>5. CommitMeaning'
    BY <1>1, <1>4, <2>1, <2>3, <2>4 DEF IndInv, CommitMeaning, AllCompleted, Of
  <2>6. ProtectionWindow' /\ BootChainWhole'
    BY <1>1, <1>2, <1>4 DEF IndInv, ProtectionWindow, BootChainWhole, Bootable, NoFault
  <2> QED
    BY <1>1, <1>2, <1>3, <1>4, <2>1, <2>2, <2>5, <2>6, CommitGoesOn
<1>5. CASE Fault /\ Goes(s, "failed") /\ UNCHANGED <<lastResult, commitStep>>
  BY <1>1, <1>2, <1>3, <1>5, CommitStops
<1> QED
  BY <1>4, <1>5 DEF CommitPersist

LEMMA CommitScheduleInv ==
  ASSUME IndInv, NEW s \in Sources, CommitSchedule(s)
  PROVE  IndInv'
<1> USE DEF CommitAt, At, device
<1>1. /\ job[s].at = "commit" /\ commitStep = "schedule"
      /\ UNCHANGED <<owner, upd, flash, protection, boot, lastResult, commitStep, power, used, crashes>>
  BY DEF CommitSchedule
<1>2. /\ flash' \in [Regions -> Content] /\ protection' \in {"on", "stuck"}
      /\ lastResult' \in [op : Ops \cup {NoOp}, result : Results] /\ boot' \in {"factory", "ota_0"}
      /\ job \in [Sources -> [op : Ops \cup {NoOp}, at : Stages]] /\ status \in Status
  BY <1>1 DEF IndInv, TypeOK, ProtectionWindow, StagedKinds
<1>3. VerifiedStays'
  BY <1>1 DEF IndInv, VerifiedStays
<1>4. CASE NoFault /\ restart' = TRUE /\ Report("committed", "ok") /\ Goes(s, "sealed")
  <2>1. /\ job' \in [Sources -> [op : Ops \cup {NoOp}, at : Stages]]
        /\ job'[s].at = "sealed" /\ job'[s].op = job[s].op
        /\ \A r \in Sources : r # s => job'[r] = job[r]
    BY <1>2, <1>4 DEF Goes, Stages
  <2>2. status' \in Status
    BY <1>2, <1>4 DEF Report, Status, Phases, Results
  <2>3. /\ owner = s /\ upd.prepared /\ upd.active = 0 /\ upd.completed = DOMAIN upd.plan
        /\ \A r \in Sources : r # s => job[r].at \notin Holding
    BY <1>1, CommitFacts
  <2>4. WriterExclusion' /\ CommittedMeaning'
    BY <1>1, <2>1, <2>3 DEF IndInv, WriterExclusion, CommittedMeaning, Holding
  <2>5. /\ StepsDone' = StepsDone /\ AllCompleted' = AllCompleted
        /\ Of("application")' = Of("application") /\ Of("recovery")' = Of("recovery")
    BY <1>1 DEF StepsDone, AllCompleted, Of
  <2>6. CommitMeaning'
    BY <1>1, <1>4, <2>1, <2>3, <2>5 DEF IndInv, CommitMeaning, Holding
  <2>7. PlanShape' /\ TableInPlan' /\ LayoutMeaning' /\ CompletedMeaning'
    BY <1>1, PlanKept
  <2>8. ActiveMeaning'
    BY <1>1 DEF IndInv, ActiveMeaning
  <2>9. ProtectionWindow' /\ BootChainWhole'
    BY <1>1, <1>2, <1>4 DEF IndInv, ProtectionWindow, BootChainWhole, Bootable, NoFault
  <2>10. TypeOK'
    BY <1>1, <1>2, <1>4, <2>1, <2>2 DEF IndInv, TypeOK, NoFault
  <2> QED
    BY <1>3, <2>4, <2>6, <2>7, <2>8, <2>9, <2>10 DEF IndInv
<1>5. CASE Fault /\ Goes(s, "failed") /\ UNCHANGED <<restart, status>>
  BY <1>1, <1>2, <1>3, <1>5, CommitStops
<1> QED
  BY <1>4, <1>5 DEF CommitSchedule

LEMMA CommitStartInv ==
  ASSUME IndInv, NEW s \in Sources, CommitStart(s)
  PROVE  IndInv'
<1> USE DEF At, device, world
<1>1. /\ job[s].at = "open" /\ upd.prepared /\ upd.active = 0
      /\ Report("committing", "ok")
      /\ UNCHANGED <<owner, upd, flash, protection, boot, lastResult, restart, power, used, crashes, faults>>
  BY DEF CommitStart
<1>2. /\ job \in [Sources -> [op : Ops \cup {NoOp}, at : Stages]] /\ status \in Status
      /\ protection # "off" /\ faults \in Nat /\ commitStep \in CommitSteps
  BY <1>1, Holder DEF IndInv, TypeOK, Holding
<1>3. status' \in Status /\ status'.phase = "committing"
  BY <1>1, <1>2 DEF Report, Status, Phases, Results
<1>4. PlanShape' /\ TableInPlan' /\ LayoutMeaning' /\ CompletedMeaning'
  BY <1>1, PlanKept
<1>5. ActiveMeaning' /\ VerifiedStays'
  BY <1>1 DEF IndInv, ActiveMeaning, VerifiedStays
<1>6. ProtectionWindow' /\ BootChainWhole'
  BY <1>1, <1>2, ChainUntouched
<1>7. CASE AllCompleted /\ Goes(s, "commit") /\ commitStep' = "bootloader"
  <2>1. /\ job' \in [Sources -> [op : Ops \cup {NoOp}, at : Stages]]
        /\ job'[s].at = "commit" /\ job'[s].op = job[s].op
        /\ \A r \in Sources : r # s => job'[r] = job[r]
    BY <1>2, <1>7 DEF Goes, Stages
  <2>2. owner = s /\ \A r \in Sources : r # s => job[r].at \notin Holding
    BY <1>1, Holder DEF Holding
  <2>3. WriterExclusion' /\ CommittedMeaning'
    BY <1>1, <1>3, <2>1, <2>2 DEF IndInv, WriterExclusion, CommittedMeaning, Holding
  <2>4. StepsDone' = {} /\ AllCompleted'
    BY <1>1, <1>7 DEF StepsDone, AllCompleted
  <2>5. CommitMeaning'
    BY <1>1, <1>7, <2>1, <2>2, <2>4 DEF CommitMeaning, Holding
  <2>6. TypeOK'
    BY <1>1, <1>2, <1>3, <1>7, <2>1 DEF IndInv, TypeOK, CommitSteps
  <2> QED
    BY <1>4, <1>5, <1>6, <2>3, <2>5, <2>6 DEF IndInv
<1>8. CASE ~AllCompleted /\ Goes(s, "failed") /\ UNCHANGED commitStep
  <2>1. /\ job' \in [Sources -> [op : Ops \cup {NoOp}, at : Stages]]
        /\ WriterExclusion' /\ CommitMeaning' /\ CommittedMeaning'
    BY <1>1, <1>3, <1>8, SourceFailed DEF Holding
  <2>2. TypeOK'
    BY <1>1, <1>2, <1>3, <1>8, <2>1 DEF IndInv, TypeOK
  <2> QED
    BY <1>4, <1>5, <1>6, <2>1, <2>2 DEF IndInv
<1> QED
  BY <1>7, <1>8 DEF CommitStart

----------------------------------------------------------------------------
(* Giving up, restarting, doing nothing.                                   *)

\* A source that is through with its operation leaves the writer to others.
LEMMA LeaveInv ==
  ASSUME IndInv, NEW s \in Sources, job[s].at \in {"failed", "persist"}, owner # s, Goes(s, "idle"),
         lastResult' \in [op : Ops \cup {NoOp}, result : Results], Fault \/ NoFault,
         UNCHANGED <<writer, flash, protection, boot, commitStep, world>>
  PROVE  IndInv'
<1> USE DEF writer, world
<1>1. /\ job' \in [Sources -> [op : Ops \cup {NoOp}, at : Stages]]
      /\ job'[s].at = "idle" /\ \A r \in Sources : r # s => job'[r] = job[r]
  BY DEF IndInv, TypeOK, Goes, Stages
<1>2. /\ WriterExclusion' /\ CommitMeaning' /\ CommittedMeaning' /\ ProtectionWindow'
  <2>1. StepsDone' = StepsDone /\ AllCompleted' = AllCompleted
    BY DEF StepsDone, AllCompleted
  <2>2. \A k \in Kinds : Of(k)' = Of(k)
    BY DEF Of
  <2>3. WriterExclusion' /\ CommittedMeaning'
    <3>1. owner # NoOwner => owner \in Sources /\ job'[owner] = job[owner]
      BY <1>1 DEF IndInv, TypeOK
    <3>2. \A r \in Sources : job'[r].at \in Holding => r # s /\ job'[r] = job[r]
      BY <1>1 DEF Holding
    <3>3. WriterExclusion'
      BY <3>1, <3>2 DEF IndInv, WriterExclusion
    <3>4. CommittedMeaning'
      BY <3>1, SourceAssumption DEF IndInv, CommittedMeaning
    <3> QED
      BY <3>3, <3>4
  <2>4. CommitMeaning'
    BY <1>1, <2>1, <2>2 DEF IndInv, CommitMeaning, Kinds
  <2>5. ProtectionWindow'
    BY <1>1, <2>2 DEF IndInv, ProtectionWindow, Kinds, StagedKinds
  <2> QED
    BY <2>3, <2>4, <2>5
<1>3. PlanShape' /\ TableInPlan' /\ LayoutMeaning' /\ CompletedMeaning'
  BY PlanKept
<1>4. ActiveMeaning' /\ VerifiedStays'
  BY DEF IndInv, ActiveMeaning, VerifiedStays
<1>5. faults' \in Nat /\ (faults' = 0 => faults = 0)
  BY FaultCount DEF IndInv
<1>6. BootChainWhole'
  BY <1>5 DEF IndInv, BootChainWhole, Bootable, Of
<1>7. TypeOK'
  BY <1>1, <1>5 DEF IndInv, TypeOK
<1> QED
  BY <1>2, <1>3, <1>4, <1>6, <1>7 DEF IndInv

LEMMA AbortInv ==
  ASSUME IndInv, NEW s \in Sources, Abort(s)
  PROVE  IndInv'
<1> USE DEF At, writer, device, world
<1>1. /\ job[s].at = "failed" /\ AbortBody(s, job[s].op)
      /\ UNCHANGED <<flash, protection, boot, lastResult, commitStep, restart, power, used, crashes, faults>>
      /\ status \in Status /\ used \subseteq Ops
      /\ job \in [Sources -> [op : Ops \cup {NoOp}, at : Stages]]
      /\ lastResult \in [op : Ops \cup {NoOp}, result : Results]
  BY DEF Abort, IndInv, TypeOK
<1>2. CASE /\ owner = s /\ upd' = ResetUpdate /\ Report("failed", "aborted") /\ owner' = NoOwner
           /\ \E stage \in {"persist", "idle"} : Goes(s, stage)
  <2>1. status' \in Status /\ status'.phase = "failed"
    BY <1>1, <1>2 DEF Report, Status, Phases, Results
  <2>2. /\ job' \in [Sources -> [op : Ops \cup {NoOp}, at : Stages]] /\ job'[s].at \notin Holding
        /\ \A r \in Sources : r # s => job'[r] = job[r]
    BY <1>1, <1>2 DEF Goes, Stages, Holding
  <2>3. protection # "off"
    BY <1>1, <1>2 DEF IndInv, ProtectionWindow
  <2> QED
    BY <1>1, <1>2, <2>1, <2>2, <2>3, ReleaseInv
<1>3. CASE owner # s /\ Goes(s, "idle") /\ UNCHANGED writer
  BY <1>1, <1>3, LeaveInv DEF NoFault
<1>4. owner = s => AbortAccepted(s, job[s].op)
  BY SourceAssumption DEF IndInv, WriterExclusion, AbortAccepted
<1> QED
  BY <1>1, <1>2, <1>3, <1>4 DEF AbortBody, AbortAccepted

LEMMA AbortPersistInv ==
  ASSUME IndInv, NEW s \in Sources, AbortPersist(s)
  PROVE  IndInv'
<1>1. job[s].at = "persist" /\ owner # s
  BY SourceAssumption DEF AbortPersist, At, IndInv, WriterExclusion, Holding
<1>2. lastResult' \in [op : Ops \cup {NoOp}, result : Results] /\ (Fault \/ NoFault)
  BY DEF AbortPersist, IndInv, TypeOK, Results
<1> QED
  BY <1>1, <1>2, LeaveInv DEF AbortPersist

LEMMA StutterInv ==
  ASSUME IndInv, UNCHANGED vars
  PROVE  IndInv'
<1> USE DEF vars, IndInv
<1>1. PlanShape' /\ TableInPlan' /\ LayoutMeaning' /\ CompletedMeaning'
  BY PlanKept
<1>2. TypeOK' /\ WriterExclusion' /\ ActiveMeaning' /\ VerifiedStays' /\ CommittedMeaning'
  BY DEF TypeOK, WriterExclusion, ActiveMeaning, VerifiedStays, CommittedMeaning
<1>3. ProtectionWindow' /\ BootChainWhole'
  BY DEF ProtectionWindow, BootChainWhole, Bootable, Of
<1>4. CommitMeaning'
  BY DEF CommitMeaning, StepsDone, AllCompleted, Of
<1> QED
  BY <1>1, <1>2, <1>3, <1>4

\* The operation is not the one that holds the writer: nothing happens.
LEMMA LateAbortInv ==
  ASSUME IndInv, NEW s \in Sources, NEW op \in Ops, LateAbort(s, op)
  PROVE  IndInv'
<1>1. ~AbortAccepted(s, op)
  BY SourceAssumption DEF LateAbort, AbortAccepted, IndInv, WriterExclusion
<1>2. UNCHANGED vars
  BY <1>1 DEF LateAbort, vars, writer, device, world
<1> QED
  BY <1>2, StutterInv

\* A restart, wanted or not: RAM is lost, flash stays.
LEMMA ResetInv ==
  ASSUME IndInv, Reset, crashes' \in Nat
  PROVE  IndInv'
<1> USE DEF Reset
<1>1. TypeOK'
  <2>1. status' \in Status
    BY SourceAssumption DEF Status, NoStatus, Phases, Results
  <2>2. job' \in [Sources -> [op : Ops \cup {NoOp}, at : Stages]]
    BY DEF NoJob, Stages
  <2>3. upd' \in Update /\ upd'.completed = {} /\ upd'.active = 0 /\ upd'.active \in 0..Len(upd'.plan)
    BY ResetOK DEF ResetUpdate
  <2>4. power' \in {"recovery", "app", "dead"}
    BY DEF BootTarget
  <2>5. commitStep' \in CommitSteps
    BY DEF CommitSteps
  <2> QED
    BY <2>1, <2>2, <2>3, <2>4, <2>5 DEF IndInv, TypeOK
<1>2. /\ WriterExclusion' /\ PlanShape' /\ LayoutMeaning' /\ ActiveMeaning'
      /\ CompletedMeaning' /\ VerifiedStays' /\ ProtectionWindow' /\ TableInPlan'
  BY SourceAssumption DEF WriterExclusion, Holding, NoJob, ResetUpdate, PlanShape, LayoutMeaning,
     ActiveMeaning, CompletedMeaning, VerifiedStays, ProtectionWindow, TableInPlan
<1>3. CommitMeaning' /\ CommittedMeaning'
  BY DEF CommitMeaning, CommittedMeaning, NoJob, NoStatus
<1>4. BootChainWhole'
  BY DEF BootChainWhole, BootChain, Bootable, BootTarget
<1> QED
  BY <1>1, <1>2, <1>3, <1>4 DEF IndInv

LEMMA EnterRecoveryInv ==
  ASSUME IndInv, EnterRecovery
  PROVE  IndInv'
<1> USE DEF EnterRecovery, writer, device
<1>1. PlanShape' /\ TableInPlan' /\ LayoutMeaning' /\ CompletedMeaning'
  BY PlanKept
<1>2. TypeOK' /\ WriterExclusion' /\ ActiveMeaning' /\ VerifiedStays' /\ CommittedMeaning'
  BY DEF IndInv, TypeOK, WriterExclusion, ActiveMeaning, VerifiedStays, CommittedMeaning
<1>3. ProtectionWindow' /\ BootChainWhole'
  BY DEF IndInv, ProtectionWindow, BootChainWhole, Bootable, Of
<1>4. CommitMeaning'
  BY DEF IndInv, CommitMeaning, StepsDone, AllCompleted, Of
<1> QED
  BY <1>1, <1>2, <1>3, <1>4 DEF IndInv

----------------------------------------------------------------------------
(* The theorems.                                                           *)

LEMMA NextInv == IndInv /\ [Next]_vars => IndInv'
<1> SUFFICES ASSUME IndInv, [Next]_vars PROVE IndInv'
  OBVIOUS
<1>1. CASE \E s \in LocalSources, op \in Ops : Reserve(s, op)
  BY <1>1, ReserveInv
<1>2. CASE \E op \in Ops, b \in Bundles : PrepareIris(op, b)
  BY <1>2, PrepareIrisInv
<1>3. ASSUME NEW s \in Sources, SourceStep(s) PROVE IndInv'
  <2>1. CASE \E b \in Bundles : PrepareLocal(s, b)
    BY <2>1, PrepareLocalInv
  <2>2. CASE \E i \in DOMAIN upd.plan : Begin(s, i)
    BY <2>2, BeginInv
  <2>3. CASE \E sound \in BOOLEAN : Write(s, sound)
    BY <2>3, WriteInv
  <2>4. CASE End(s)
    BY <2>4, EndInv
  <2>5. CASE CommitStart(s)
    BY <2>5, CommitStartInv
  <2>6. CASE CommitSkip(s)
    BY <2>6, CommitSkipInv
  <2>7. CASE CommitErase(s)
    BY <2>7, CommitEraseInv
  <2>8. CASE CommitWrite(s)
    BY <2>8, CommitWriteInv
  <2>9. CASE CommitSelect(s)
    BY <2>9, CommitSelectInv
  <2>10. CASE CommitPersist(s)
    BY <2>10, CommitPersistInv
  <2>11. CASE CommitSchedule(s)
    BY <2>11, CommitScheduleInv
  <2>12. CASE Fail(s)
    BY <2>12, FailInv DEF Fail
  <2>13. CASE Abort(s)
    BY <2>13, AbortInv
  <2>14. CASE AbortPersist(s)
    BY <2>14, AbortPersistInv
  <2> QED
    BY <1>3, <2>1, <2>2, <2>3, <2>4, <2>5, <2>6, <2>7, <2>8, <2>9, <2>10, <2>11, <2>12, <2>13, <2>14
       DEF SourceStep
<1>4. CASE \E s \in Sources, op \in Ops : LateAbort(s, op)
  BY <1>4, LateAbortInv
<1>5. CASE Restart \/ Crash
  <2>1. crashes' \in Nat /\ Reset
    BY <1>5 DEF Restart, Crash, IndInv, TypeOK
  <2> QED
    BY <2>1, ResetInv
<1>6. CASE EnterRecovery
  BY <1>6, EnterRecoveryInv
<1>7. CASE UNCHANGED vars
  BY <1>7, StutterInv
<1> QED
  BY <1>1, <1>2, <1>3, <1>4, <1>5, <1>6, <1>7 DEF Next

\* The inductive invariant holds in every reachable state.
THEOREM Invariance == Spec => []IndInv
BY InitInv, NextInv, PTL DEF Spec

\* Every variable keeps its type: in particular the completed components are
\* components of the plan, and no component outgrows its declared size
\* (write_component, end_component).
THEOREM TypeCorrect == Spec => []TypeOK
<1>1. IndInv => TypeOK
  BY DEF IndInv
<1> QED
  BY <1>1, Invariance, PTL

\* s_owner: a source past its admission is the owner, for its own operation.
THEOREM Exclusion == Spec => []WriterExclusion
<1>1. IndInv => WriterExclusion
  BY DEF IndInv
<1> QED
  BY <1>1, Invariance, PTL

\* A component that passed end_component stays as the plan describes it.
THEOREM VerifiedComponentsStay == Spec => []VerifiedStays
<1>1. IndInv => VerifiedStays
  BY DEF IndInv
<1> QED
  BY <1>1, Invariance, PTL

\* commit_protected_image restores the dangerous-write protection on every path.
THEOREM ProtectionRestored == Spec => []ProtectionWindow
<1>1. IndInv => ProtectionWindow
  BY DEF IndInv
<1> QED
  BY <1>1, Invariance, PTL

\* The phase COMMITTED is published only when the whole plan is in flash and
\* selected.
THEOREM CommittedInstalled == Spec => []CommittedIsInstalled
<1>1. ASSUME IndInv, status.phase = "committed" PROVE CommittedIsInstalled
  <2>1. /\ owner \in Sources /\ job[owner].at = "sealed"
    BY <1>1 DEF IndInv, CommittedMeaning
  <2>2. /\ restart /\ commitStep = "schedule" /\ upd.prepared /\ upd.completed = DOMAIN upd.plan
        /\ \A i \in DOMAIN upd.plan : upd.plan[i].kind \in StagedKinds =>
             flash[upd.plan[i].at] = upd.plan[i].img
        /\ Of("application") # {} => boot = "ota_0"
        /\ Of("recovery") # {} => boot = "factory"
    BY <1>1, <2>1 DEF IndInv, CommitMeaning, AllCompleted, StepsDone
  <2>3. \A i \in DOMAIN upd.plan : flash[upd.plan[i].at] = upd.plan[i].img
    BY <1>1, <2>2 DEF IndInv, VerifiedStays
  <2>4. ASSUME Of("application") # {} PROVE OtaWhole(flash)
    <3>1. PICK i \in DOMAIN upd.plan : upd.plan[i].kind = "application"
      BY <2>4 DEF Of
    <3>2. Of("recovery") = {}
      BY <3>1, <1>1, PlanFacts DEF IndInv, PlanShape, Of
    <3>3. PICK t \in DOMAIN upd.plan : upd.plan[t].kind = "partition_table"
      BY <1>1, <2>2, <3>2 DEF IndInv, TableInPlan, Of
    <3>4. upd.plan[t].at = "ptable" /\ flash["ptable"] = upd.plan[t].img
      BY <1>1, <2>3, <3>3 DEF IndInv, PlanShape, Authorized
    <3>5. Resolves(upd.plan[i], upd.plan[t].img) /\ upd.plan[i].img \in BootImages
      BY <1>1, <2>2, <3>1, <3>3 DEF IndInv, CompletedMeaning
    <3>6. upd.plan[i].at \in Regions
      BY <1>1, PlanFacts DEF IndInv
    <3> QED
      BY <2>3, <3>1, <3>4, <3>5, <3>6 DEF OtaWhole, Resolves
  <2> QED
    BY <2>2, <2>3, <2>4 DEF CommittedIsInstalled
<1>2. IndInv => CommittedIsInstalled
  BY <1>1 DEF CommittedIsInstalled
<1> QED
  BY <1>2, Invariance, PTL

----------------------------------------------------------------------------
(* What a step may do to flash.                                            *)

\* Streaming stays away from the boot chain and the immutable partitions.
LEMMA StreamingKeepsChain ==
  ASSUME IndInv, NEW s \in Sources,
         \/ \E i \in DOMAIN upd.plan : Begin(s, i)
         \/ \E sound \in BOOLEAN : Write(s, sound)
  PROVE  \A r \in BootChain \cup FixedRegions : flash'[r] = flash[r]
<1>1. BootChain \cup FixedRegions \subseteq Regions /\ flash \in [Regions -> Content]
  BY TableAssumption DEF BootChain, IndInv, TypeOK
<1>2. ASSUME NEW i \in DOMAIN upd.plan, Begin(s, i)
      PROVE  \A r \in BootChain \cup FixedRegions : flash'[r] = flash[r]
  BY <1>1, <1>2 DEF Begin, IndInv, LayoutMeaning
<1>3. ASSUME NEW sound \in BOOLEAN, Write(s, sound)
      PROVE  \A r \in BootChain \cup FixedRegions : flash'[r] = flash[r]
  <2>1. upd.active \in DOMAIN upd.plan /\ upd.active # 0
    <3>1. upd.active # 0 /\ upd.active \in 0..Len(upd.plan)
      BY <1>3 DEF Write, IndInv, TypeOK
    <3> QED
      BY <3>1, PlanFacts DEF IndInv
  <2>2. upd.plan[upd.active].kind \notin StagedKinds =>
          upd.plan[upd.active].at \notin BootChain \cup FixedRegions
    BY <2>1 DEF IndInv, ActiveMeaning, LayoutMeaning
  <2> QED
    BY <1>1, <1>3, <2>2 DEF Write
<1> QED
  BY <1>2, <1>3

\* A commit writes the region of its protected component and nothing else.
LEMMA CommitWritesOne ==
  ASSUME IndInv, NEW s \in Sources, CommitErase(s) \/ CommitWrite(s)
  PROVE  /\ job[s].at = "commit" /\ commitStep \in StagedKinds
         /\ \E i \in DOMAIN upd.plan :
              /\ upd.plan[i].kind = commitStep
              /\ \A r \in Regions : r # upd.plan[i].at => flash'[r] = flash[r]
<1>1. job[s].at = "commit" /\ commitStep \in StagedKinds /\ Of(commitStep) # {}
  BY DEF CommitErase, CommitWrite, CommitAt, At, IndInv, ProtectionWindow
<1>2. PICK i \in DOMAIN upd.plan : For(commitStep) = upd.plan[i] /\ upd.plan[i].kind = commitStep
  BY <1>1, StepFacts
<1>3. flash \in [Regions -> Content]
  BY DEF IndInv, TypeOK
<1>4. \A r \in Regions : r # upd.plan[i].at => flash'[r] = flash[r]
  BY <1>2, <1>3 DEF CommitErase, CommitWrite
<1> QED
  BY <1>1, <1>2, <1>4

\* The steps that write flash.
LEMMA FlashSteps ==
  ASSUME [Next]_vars, flash' # flash
  PROVE  \E s \in Sources : \/ \E i \in DOMAIN upd.plan : Begin(s, i)
                           \/ \E sound \in BOOLEAN : Write(s, sound)
                           \/ CommitErase(s) \/ CommitWrite(s)
<1>1. ASSUME NEW s \in Sources, SourceStep(s)
      PROVE  \/ \E i \in DOMAIN upd.plan : Begin(s, i)
             \/ \E sound \in BOOLEAN : Write(s, sound)
             \/ CommitErase(s) \/ CommitWrite(s)
  BY <1>1 DEF SourceStep, PrepareLocal, End, CommitStart, CommitSkip, CommitSelect, CommitPersist,
     CommitSchedule, Fail, Abort, AbortPersist, device
<1>2. \A s \in Sources, op \in Ops : ~LateAbort(s, op)
  BY DEF LateAbort, device
<1>3. \A s \in LocalSources, op \in Ops : ~Reserve(s, op)
  BY DEF Reserve, device
<1>4. \A op \in Ops, b \in Bundles : ~PrepareIris(op, b)
  BY DEF PrepareIris, device
<1>5. ~Restart /\ ~Crash /\ ~EnterRecovery /\ ~UNCHANGED vars
  BY DEF Restart, Crash, Reset, EnterRecovery, vars, device
<1> QED
  BY <1>1, <1>2, <1>3, <1>4, <1>5 DEF Next

\* A change of the boot chain is the commit of the component that lives there.
LEMMA ChainChange ==
  ASSUME IndInv, [Next]_vars, NEW r \in BootChain \cup FixedRegions, flash'[r] # flash[r]
  PROVE  \E s \in Sources, i \in DOMAIN upd.plan :
           /\ job[s].at = "commit" /\ commitStep \in StagedKinds
           /\ upd.plan[i].kind = commitStep /\ upd.plan[i].at = r /\ Authorized(upd.plan[i])
<1>1. r \in Regions
  BY TableAssumption DEF BootChain
<1>2. PICK s \in Sources : CommitErase(s) \/ CommitWrite(s)
  BY FlashSteps, StreamingKeepsChain
<1>3. PICK i \in DOMAIN upd.plan :
        /\ job[s].at = "commit" /\ commitStep \in StagedKinds
        /\ upd.plan[i].kind = commitStep
        /\ \A q \in Regions : q # upd.plan[i].at => flash'[q] = flash[q]
  BY <1>2, CommitWritesOne
<1>4. upd.plan[i].at = r /\ Authorized(upd.plan[i])
  BY <1>1, <1>3 DEF IndInv, PlanShape
<1> QED
  BY <1>3, <1>4

\* commit_update changes bootloader, recovery image and partition table in
\* this order, after every component was verified.
THEOREM BootChainOrdered == Spec => BootChainOrder
<1> DEFINE Ordered(r) ==
      /\ upd.plan # << >> /\ upd.completed = DOMAIN upd.plan
      /\ \E i \in DOMAIN upd.plan : upd.plan[i].at = r
      /\ r = "ptable" => \A i \in DOMAIN upd.plan :
           upd.plan[i].kind # "partition_table" => flash[upd.plan[i].at] = upd.plan[i].img
<1>1. ASSUME IndInv, [Next]_vars, NEW r \in {"bootloader", "ptable", "factory"}, flash'[r] # flash[r]
      PROVE  Ordered(r)
  <2>1. PICK s \in Sources, i \in DOMAIN upd.plan :
          /\ job[s].at = "commit" /\ commitStep \in StagedKinds
          /\ upd.plan[i].kind = commitStep /\ upd.plan[i].at = r /\ Authorized(upd.plan[i])
    BY <1>1, ChainChange DEF BootChain
  <2>2. upd.prepared /\ upd.completed = DOMAIN upd.plan
    BY <1>1, <2>1, CommitFacts
  <2>3. upd.plan # << >>
    BY <1>1, <2>2 DEF IndInv, PlanShape
  <2>4. ASSUME r = "ptable", NEW j \in DOMAIN upd.plan, upd.plan[j].kind # "partition_table"
        PROVE  flash[upd.plan[j].at] = upd.plan[j].img
    <3>1. commitStep = "partition_table"
      BY <2>1, <2>4 DEF Authorized, StagedKinds
    <3>2. CASE upd.plan[j].kind \in StagedKinds
      BY <1>1, <2>1, <2>4, <3>1, <3>2 DEF IndInv, CommitMeaning, StepsDone, StagedKinds
    <3>3. CASE upd.plan[j].kind \notin StagedKinds
      BY <1>1, <2>2, <3>3 DEF IndInv, VerifiedStays
    <3> QED
      BY <3>2, <3>3
  <2> QED
    BY <2>1, <2>2, <2>3, <2>4
<1>2. IndInv /\ [Next]_vars =>
        [\A r \in {"bootloader", "ptable", "factory"} : flash'[r] # flash[r] => Ordered(r)]_vars
  BY <1>1
<1> QED
  BY <1>2, Invariance, PTL DEF Spec, BootChainOrder

\* The immutable partitions (s_immutable_partitions) are written by nothing
\* but a recovery-only update of the factory slot.
THEOREM FixedKept == Spec => FixedRegionsKept
<1>1. ASSUME IndInv, [Next]_vars, NEW r \in FixedRegions, flash'[r] # flash[r]
      PROVE  r = "factory" /\ Len(upd.plan) = 1 /\ upd.plan[1].kind = "recovery"
  <2>1. PICK s \in Sources, i \in DOMAIN upd.plan :
          /\ job[s].at = "commit" /\ commitStep \in StagedKinds
          /\ upd.plan[i].kind = commitStep /\ upd.plan[i].at = r /\ Authorized(upd.plan[i])
    BY <1>1, ChainChange
  <2>2. r = "factory" /\ upd.plan[i].kind = "recovery"
    BY <2>1, TableAssumption DEF Authorized, StagedKinds
  <2>3. Len(upd.plan) = 1
    BY <1>1, <2>2 DEF IndInv, PlanShape
  <2>4. i = 1
    BY <1>1, <2>3, PlanFacts DEF IndInv
  <2> QED
    BY <2>2, <2>3, <2>4
<1>2. IndInv /\ [Next]_vars =>
        [\A r \in FixedRegions : flash'[r] # flash[r] =>
           r = "factory" /\ Len(upd.plan) = 1 /\ upd.plan[1].kind = "recovery"]_vars
  BY <1>1
<1> QED
  BY <1>2, Invariance, PTL DEF Spec, FixedRegionsKept

\* Power lost outside the window of a protected image, with flash that does
\* not fail, leaves a device that boots.
THEOREM PowerLoss == Spec => PowerLossSurvived
<1>1. ASSUME IndInv, [Next]_vars, power = "recovery", power' = "dead"
      PROVE  protection = "off" \/ faults > 0
  <2>1. Reset
    <3>1. ASSUME NEW s \in Sources PROVE ~SourceStep(s)
      BY <1>1 DEF SourceStep, PrepareLocal, Begin, Write, End, CommitStart, CommitSkip, CommitErase,
         CommitWrite, CommitSelect, CommitPersist, CommitSchedule, Fail, Abort, AbortPersist, world
    <3>2. \A s \in Sources, op \in Ops : ~LateAbort(s, op)
      BY <1>1 DEF LateAbort, world
    <3>3. \A s \in LocalSources, op \in Ops : ~Reserve(s, op)
      BY <1>1 DEF Reserve
    <3>4. \A op \in Ops, b \in Bundles : ~PrepareIris(op, b)
      BY <1>1 DEF PrepareIris
    <3>5. ~EnterRecovery /\ ~UNCHANGED vars
      BY <1>1 DEF EnterRecovery, vars
    <3> QED
      BY <1>1, <3>1, <3>2, <3>3, <3>4, <3>5 DEF Next, Restart, Crash
  <2>2. BootTarget(flash, boot) = "dead"
    BY <1>1, <2>1 DEF Reset
  <2>3. SUFFICES ASSUME protection # "off", faults = 0 PROVE FALSE
    BY <1>1 DEF IndInv, TypeOK
  <2>4. \A r \in BootChain : Bootable(r, flash[r])
    BY <1>1, <2>3 DEF IndInv, BootChainWhole
  <2> QED
    BY <2>2, <2>4 DEF BootTarget, BootChain, Bootable
<1>2. IndInv /\ [Next]_vars =>
        [power = "recovery" /\ power' = "dead" => protection = "off" \/ faults > 0]_vars
  BY <1>1
<1> QED
  BY <1>2, Invariance, PTL DEF Spec, PowerLossSurvived

----------------------------------------------------------------------------
(* The writer comes back.  How far its owner is from giving it back is a   *)
(* tuple of naturals: the stage, what is left of it (components to receive *)
(* or steps of the commit), whether the next of these is still to be begun *)
(* (or erased), and the bytes it lacks.                                    *)

StageRank(s) ==
  CASE job[s].at = "admitted" -> 4
    [] job[s].at = "open"     -> 3
    [] job[s].at = "commit"   -> 2
    [] OTHER                  -> 1

StepsLeft ==
  CASE commitStep = "bootloader"      -> 5
    [] commitStep = "recovery"        -> 4
    [] commitStep = "partition_table" -> 3
    [] commitStep = "select"          -> 2
    [] commitStep = "persist"         -> 1
    [] OTHER                          -> 0

ComponentsLeft == Cardinality(DOMAIN upd.plan \ upd.completed)

PartsLeft(s) ==
  CASE job[s].at = "open"   -> ComponentsLeft
    [] job[s].at = "commit" -> StepsLeft
    [] OTHER                -> 0

ToBegin(s) ==
  IF (job[s].at = "open" /\ upd.active = 0) \/ (job[s].at = "commit" /\ protection # "off")
  THEN 1 ELSE 0

BytesLeft(s) ==
  IF job[s].at = "open" /\ upd.active # 0 THEN upd.plan[upd.active].size - upd.received ELSE 0

Rank(s) == <<StageRank(s), PartsLeft(s), ToBegin(s), BytesLeft(s)>>
Ranks == Nat \X Nat \X Nat \X Nat

\* The rank of the source sinks, in the lexicographic order of the naturals.
Sinks(s) ==
  /\ Rank(s) \in Ranks /\ Rank(s)' \in Ranks
  /\ \/ StageRank(s)' < StageRank(s)
     \/ /\ StageRank(s)' = StageRank(s)
        /\ \/ PartsLeft(s)' < PartsLeft(s)
           \/ /\ PartsLeft(s)' = PartsLeft(s)
              /\ \/ ToBegin(s)' < ToBegin(s)
                 \/ ToBegin(s)' = ToBegin(s) /\ BytesLeft(s)' < BytesLeft(s)

LEMMA ComponentsCounted ==
  ASSUME TypeOK
  PROVE  /\ ComponentsLeft \in Nat
         /\ \A i \in DOMAIN upd.plan \ upd.completed :
              Cardinality(DOMAIN upd.plan \ (upd.completed \cup {i})) = ComponentsLeft - 1
<1> DEFINE Missing == DOMAIN upd.plan \ upd.completed
<1>1. Len(upd.plan) \in Nat /\ DOMAIN upd.plan = 1..Len(upd.plan)
  BY DEF TypeOK, Update
<1>2. IsFiniteSet(DOMAIN upd.plan)
  BY <1>1, FS_Interval
<1>3. Missing \in SUBSET DOMAIN upd.plan
  OBVIOUS
<1>4. IsFiniteSet(Missing)
  BY <1>2, <1>3, FS_Subset
<1>5. Cardinality(Missing) \in Nat
  BY <1>4, FS_CardinalityType
<1>6. ASSUME NEW i \in Missing
      PROVE  Cardinality(DOMAIN upd.plan \ (upd.completed \cup {i})) = Cardinality(Missing) - 1
  <2>1. DOMAIN upd.plan \ (upd.completed \cup {i}) = Missing \ {i}
    OBVIOUS
  <2>2. Cardinality(Missing \ {i}) = Cardinality(Missing) - 1
    BY <1>4, FS_RemoveElement
  <2> QED
    BY <2>1, <2>2
<1> QED
  BY <1>5, <1>6 DEF ComponentsLeft

LEMMA RankIs == ASSUME TypeOK, NEW s \in Sources PROVE Rank(s) \in Ranks
<1>1. StageRank(s) \in Nat
  BY DEF StageRank
<1>2. PartsLeft(s) \in Nat
  BY ComponentsCounted DEF PartsLeft, StepsLeft
<1>3. ToBegin(s) \in Nat
  BY DEF ToBegin
<1>4. BytesLeft(s) \in Nat
  <2>1. CASE upd.active # 0
    <3>1. upd.active \in DOMAIN upd.plan
      BY <2>1, PlanFacts DEF TypeOK
    <3>2. upd.plan[upd.active].size \in Nat /\ upd.received \in Nat /\ upd.received <= upd.plan[upd.active].size
      BY <2>1, <3>1, PlanFacts DEF TypeOK, Update
    <3> QED
      BY <2>1, <3>2 DEF BytesLeft
  <2>2. CASE upd.active = 0
    BY <2>2 DEF BytesLeft
  <2> QED
    BY <2>1, <2>2
<1> QED
  BY <1>1, <1>2, <1>3, <1>4 DEF Rank, Ranks

\* What the owner of the writer does next, the writer still its own, brings it
\* nearer to giving the writer back.
LEMMA StreamingSinks ==
  ASSUME IndInv, NEW s \in Sources, Rank(s)' \in Ranks, owner = s, owner' = s,
         \/ \E b \in Bundles : PrepareLocal(s, b)
         \/ \E i \in DOMAIN upd.plan : Begin(s, i)
         \/ \E sound \in BOOLEAN : Write(s, sound)
         \/ End(s) \/ CommitStart(s) \/ Fail(s)
  PROVE  Sinks(s)
<1>0. /\ TypeOK /\ job \in [Sources -> [op : Ops \cup {NoOp}, at : Stages]]
      /\ Rank(s) \in Ranks /\ Rank(s)' \in Ranks
  BY RankIs DEF IndInv, TypeOK
<1>1. ASSUME Goes(s, "failed"), job[s].at \in {"admitted", "open", "commit"} PROVE Sinks(s)
  BY <1>0, <1>1 DEF Goes, Sinks, StageRank
<1>2. ASSUME NEW b \in Bundles, PrepareLocal(s, b) PROVE Sinks(s)
  <2>1. CASE Goes(s, "failed")
    BY <1>1, <1>2, <2>1 DEF PrepareLocal, At
  <2>2. CASE Goes(s, "open")
    BY <1>0, <1>2, <2>2 DEF PrepareLocal, At, Goes, Sinks, StageRank
  <2> QED
    BY <1>2, <2>1, <2>2 DEF PrepareLocal
<1>3. ASSUME NEW i \in DOMAIN upd.plan, Begin(s, i) PROVE Sinks(s)
  <2>0. upd \in Update /\ i # 0 /\ upd.active = 0 /\ job[s].at = "open" /\ i \in Nat
    <3>1. upd \in Update /\ i \in 1..Len(upd.plan) /\ Len(upd.plan) \in Nat
      BY <1>0, PlanFacts DEF TypeOK
    <3>2. upd.active = 0 /\ job[s].at = "open"
      BY <1>3 DEF Begin, MayBegin, At
    <3> QED
      BY <3>1, <3>2
  <2>1. CASE Goes(s, "failed")
    BY <1>1, <1>3, <2>1 DEF Begin, At
  <2>2. CASE job' = job /\ upd'.active = i /\ upd'.plan = upd.plan /\ upd'.completed = upd.completed
    BY <1>0, <2>0, <2>2 DEF Sinks, StageRank, PartsLeft, ComponentsLeft, ToBegin
  <2>3. \/ Goes(s, "failed")
        \/ job' = job /\ upd' = [upd EXCEPT !.active = i, !.received = 0, !.match = TRUE]
        \/ job' = job /\ upd' = [upd EXCEPT !.active = i, !.received = 0, !.match = TRUE,
                                            !.staged[upd.plan[i].kind] = Blank]
    BY <1>3 DEF Begin
  <2>4. CASE job' = job /\ upd' = [upd EXCEPT !.active = i, !.received = 0, !.match = TRUE,
                                            !.staged[upd.plan[i].kind] = Blank]
    BY <2>0, <2>2, <2>4 DEF Update
  <2>5. CASE job' = job /\ upd' = [upd EXCEPT !.active = i, !.received = 0, !.match = TRUE]
    BY <2>0, <2>2, <2>5 DEF Update
  <2> QED
    BY <2>1, <2>3, <2>4, <2>5
<1>4. ASSUME NEW sound \in BOOLEAN, Write(s, sound) PROVE Sinks(s)
  <2>1. CASE Goes(s, "failed")
    BY <1>1, <1>4, <2>1 DEF Write, At
  <2>2. CASE job' = job /\ upd'.received = upd.received + 1 /\ upd'.plan = upd.plan
             /\ upd'.completed = upd.completed /\ upd'.active = upd.active
    <3>1. upd.active # 0 /\ job[s].at = "open" /\ ChunkFits(upd.plan[upd.active])
      BY <1>4 DEF Write, At
    <3>2. upd.plan[upd.active].size \in Nat /\ upd.received \in Nat
      <4>1. upd.active \in DOMAIN upd.plan /\ upd.received \in Nat
        BY <1>0, <3>1, PlanFacts DEF TypeOK, Update
      <4> QED
        BY <1>0, <4>1, PlanFacts
    <3> QED
      BY <1>0, <2>2, <3>1, <3>2 DEF Sinks, StageRank, PartsLeft, ComponentsLeft, ToBegin, BytesLeft
  <2>3. \/ Goes(s, "failed")
        \/ job' = job /\ \E st : upd' = [upd EXCEPT !.received = @ + 1, !.match = @ /\ sound, !.staged = st]
        \/ job' = job /\ upd' = [upd EXCEPT !.received = @ + 1, !.match = @ /\ sound]
    BY <1>0, <1>4 DEF Write, TypeOK, Update
  <2> QED
    BY <1>0, <2>1, <2>2, <2>3 DEF TypeOK, Update
<1>5. ASSUME End(s) PROVE Sinks(s)
  <2>1. CASE Goes(s, "failed")
    BY <1>1, <1>5, <2>1 DEF End, At
  <2>2. CASE job' = job /\ ~Goes(s, "failed")
    <3>1. /\ upd'.completed = upd.completed \cup {upd.active} /\ upd'.plan = upd.plan
          /\ job[s].at = "open" /\ upd.active # 0
      BY <1>0, <1>5, <2>2 DEF End, At, TypeOK, Update
    <3>2. upd.active \in DOMAIN upd.plan \ upd.completed
      BY <1>0, <3>1 DEF IndInv, ActiveMeaning, TypeOK, Update
    <3>3. ComponentsLeft' = ComponentsLeft - 1 /\ ComponentsLeft \in Nat
      BY <1>0, <3>1, <3>2, ComponentsCounted DEF ComponentsLeft
    <3> QED
      BY <1>0, <2>2, <3>1, <3>3 DEF Sinks, StageRank, PartsLeft
  <2> QED
    BY <1>5, <2>1, <2>2 DEF End
<1>6. ASSUME CommitStart(s) PROVE Sinks(s)
  <2>1. CASE Goes(s, "failed")
    BY <1>1, <1>6, <2>1 DEF CommitStart, At
  <2>2. CASE Goes(s, "commit")
    BY <1>0, <1>6, <2>2 DEF CommitStart, At, Goes, Sinks, StageRank
  <2> QED
    BY <1>6, <2>1, <2>2 DEF CommitStart
<1>7. ASSUME Fail(s) PROVE Sinks(s)
  BY <1>1, <1>7 DEF Fail, At
<1> QED
  BY <1>2, <1>3, <1>4, <1>5, <1>6, <1>7

LEMMA CommittingSinks ==
  ASSUME IndInv, NEW s \in Sources, Rank(s)' \in Ranks, owner = s, owner' = s,
         \/ CommitSkip(s) \/ CommitErase(s) \/ CommitWrite(s)
         \/ CommitSelect(s) \/ CommitPersist(s) \/ CommitSchedule(s)
  PROVE  Sinks(s)
<1>0. /\ TypeOK /\ job \in [Sources -> [op : Ops \cup {NoOp}, at : Stages]]
      /\ Rank(s) \in Ranks /\ Rank(s)' \in Ranks /\ job[s].at = "commit"
  <2>1. TypeOK /\ Rank(s) \in Ranks
    BY RankIs DEF IndInv
  <2>2. job[s].at = "commit"
    BY DEF CommitSkip, CommitErase, CommitWrite, CommitSelect, CommitPersist, CommitSchedule, CommitAt, At
  <2> QED
    BY <2>1, <2>2 DEF TypeOK
<1>1. CASE job'[s].at \in {"failed", "sealed"}
  BY <1>0, <1>1 DEF Sinks, StageRank
<1>2. CASE commitStep' = After(commitStep) /\ commitStep # "schedule" /\ job'[s].at = "commit"
  <2>1. StepsLeft' < StepsLeft
    BY <1>0, <1>2 DEF TypeOK, CommitSteps, StepsLeft, After
  <2> QED
    BY <1>0, <1>2, <2>1 DEF Sinks, StageRank, PartsLeft
<1>3. CASE protection # "off" /\ protection' = "off" /\ job'[s].at = "commit" /\ commitStep' = commitStep
  <2>1. StepsLeft' = StepsLeft
    BY <1>3 DEF StepsLeft
  <2> QED
    BY <1>0, <1>3, <2>1 DEF Sinks, StageRank, PartsLeft, ToBegin
<1>4. CASE CommitSkip(s)
  BY <1>0, <1>1, <1>2, <1>4 DEF CommitSkip, CommitAt, StagedKinds, Goes
<1>5. CASE CommitErase(s)
  BY <1>0, <1>1, <1>3, <1>5 DEF CommitErase, CommitAt, Goes
<1>6. CASE CommitWrite(s)
  BY <1>0, <1>1, <1>2, <1>6 DEF CommitWrite, CommitAt, StagedKinds, Goes
<1>7. CASE CommitSelect(s) \/ CommitPersist(s)
  BY <1>0, <1>1, <1>2, <1>7 DEF CommitSelect, CommitPersist, CommitAt, Goes
<1>8. CASE CommitSchedule(s)
  BY <1>0, <1>1, <1>8 DEF CommitSchedule, Goes
<1> QED
  BY <1>4, <1>5, <1>6, <1>7, <1>8

\* Nobody but the owner of the writer moves it, or what its rank is made of.
LEMMA OthersWait ==
  ASSUME IndInv, NEW s \in Sources, owner = s, NEW r \in Sources, r # s, SourceStep(r)
  PROVE  UNCHANGED <<writer, protection, commitStep>> /\ job'[s] = job[s]
<1>1. job[r].at \notin Holding /\ job \in [Sources -> [op : Ops \cup {NoOp}, at : Stages]]
  BY DEF IndInv, WriterExclusion, TypeOK
<1>2. Abort(r) \/ AbortPersist(r)
  BY <1>1 DEF SourceStep, PrepareLocal, Begin, Write, End, CommitStart, CommitSkip, CommitErase, CommitWrite,
              CommitSelect, CommitPersist, CommitSchedule, Fail, CommitAt, At, Holding
<1>3. CASE Abort(r)
  BY <1>1, <1>3 DEF Abort, AbortBody, AbortAccepted, Goes, device
<1>4. CASE AbortPersist(r)
  BY <1>1, <1>4 DEF AbortPersist, Goes
<1> QED
  BY <1>2, <1>3, <1>4

\* A step of the owner gives the writer back or sinks its rank.
LEMMA OwnerSinks ==
  ASSUME IndInv, NEW s \in Sources, Rank(s)' \in Ranks, owner = s, SourceStep(s)
  PROVE  owner' = NoOwner \/ (owner' = s /\ Sinks(s))
<1>1. owner' \in {s, NoOwner}
  BY DEF SourceStep, PrepareLocal, Accept, Refuse, Begin, Write, End, CommitStart, CommitSkip, CommitErase, CommitWrite,
         CommitSelect, CommitPersist, CommitSchedule, Fail, Abort, AbortBody, AbortPersist, writer
<1>2. CASE owner' = NoOwner
  BY <1>2
<1>3. CASE owner' = s
  <2>1. ~AbortPersist(s)
    BY SourceAssumption DEF IndInv, WriterExclusion, AbortPersist, At, Holding
  <2>2. ~Abort(s)
    BY <1>3, SourceAssumption DEF IndInv, WriterExclusion, Abort, AbortBody, AbortAccepted
  <2> QED
    BY <1>3, <2>1, <2>2, StreamingSinks, CommittingSinks DEF SourceStep
<1> QED
  BY <1>1, <1>2, <1>3

LEMMA OwnerNears ==
  ASSUME IndInv, NEW s \in Sources, Rank(s)' \in Ranks, owner = s, [Next]_vars
  PROVE  \/ owner' = NoOwner
         \/ /\ owner' = s /\ (Sinks(s) \/ UNCHANGED Rank(s))
            /\ job[s].at = "sealed" => job'[s].at = "sealed"
<1> DEFINE Nears == \/ owner' = NoOwner
                    \/ /\ owner' = s /\ (Sinks(s) \/ UNCHANGED Rank(s))
                       /\ job[s].at = "sealed" => job'[s].at = "sealed"
           Kept == UNCHANGED <<writer, protection, commitStep>> /\ job'[s] = job[s]
<1>1. Kept => Nears
  BY DEF writer, Rank, StageRank, PartsLeft, ComponentsLeft, StepsLeft, ToBegin, BytesLeft
<1>2. s # NoOwner
  BY SourceAssumption
<1>3. ~\E r \in LocalSources, op \in Ops : Reserve(r, op)
  BY <1>2 DEF Reserve, Unclaimed
<1>4. ~\E op \in Ops, b \in Bundles : PrepareIris(op, b)
  BY <1>2 DEF PrepareIris, Unclaimed
<1>5. SourceStep(s) => Nears
  <2> SUFFICES ASSUME SourceStep(s) PROVE Nears
    OBVIOUS
  <2>1. job[s].at # "sealed"
    BY DEF SourceStep, PrepareLocal, Begin, Write, End, CommitStart, CommitSkip, CommitErase, CommitWrite,
              CommitSelect, CommitPersist, CommitSchedule, Fail, Abort, AbortPersist, CommitAt, At
  <2> QED
    BY <2>1, OwnerSinks
<1>6. ASSUME NEW r \in Sources, r # s, SourceStep(r) PROVE Kept
  BY <1>6, OthersWait
<1>7. ASSUME NEW r \in Sources, NEW op \in Ops, LateAbort(r, op) PROVE Kept
  BY <1>2, <1>7 DEF LateAbort, AbortAccepted, IndInv, WriterExclusion, device
<1>8. Restart \/ Crash => Nears
  BY DEF Restart, Crash, Reset
<1>9. EnterRecovery \/ UNCHANGED vars => Kept
  BY DEF EnterRecovery, device, writer, vars
<1> HIDE DEF Kept, Nears
<1>10. Nears
  BY <1>1, <1>3, <1>4, <1>5, <1>6, <1>7, <1>8, <1>9 DEF Next
<1> QED
  BY <1>10 DEF Nears

\* A rank that never rises settles: no tuple of naturals sinks for ever.  True of
\* every behaviour, by induction over the naturals.
RankSettles(s) == <>[][Sinks(s)]_(Rank(s)) => <>[][FALSE]_(Rank(s))

RanksSettle == \A s \in Sources : RankSettles(s)

Live == [][Next]_vars /\ []Fairness /\ []WriterReady /\ []IndInv
OwnerEnds(s) == owner = s ~> owner = NoOwner

LEMMA OwnerReturns ==
  ASSUME NEW s \in Sources
  PROVE  Live /\ RankSettles(s) => OwnerEnds(s)
<1> DEFINE Held == owner = s
           Free == owner = NoOwner
           Typed == Rank(s) \in Ranks
           Sealed == job[s].at = "sealed"
<1>1. IndInv /\ Typed' /\ Held /\ [Next]_vars => Free' \/ (Held' /\ [Sinks(s)]_(Rank(s)) /\ (Sealed => Sealed'))
  BY OwnerNears
<1>2. IndInv /\ Typed' /\ Held /\ <<SourceStep(s)>>_vars => Free' \/ ~[FALSE]_(Rank(s))
  <2> SUFFICES ASSUME IndInv, Typed', Held, SourceStep(s), Held' PROVE ~UNCHANGED Rank(s)
    BY OwnerSinks, SourceAssumption
  <2>1. Sinks(s)
    BY OwnerSinks, SourceAssumption
  <2> QED
    BY <2>1 DEF Sinks, Rank, Ranks
<1>3. Held /\ <<Restart>>_vars => Free'
  BY DEF Restart, Reset
<1>4. WriterReady /\ Held /\ ~Sealed => ENABLED <<SourceStep(s)>>_vars
  BY DEF WriterReady, SourceReady
<1>5. WriterReady /\ Held /\ Sealed => ENABLED <<Restart>>_vars
  BY DEF WriterReady, SourceReady
<1>6. Fairness => SourceRuns(s) /\ RestartRuns
  BY DEF Fairness
<1>7. Held => ~Free
  BY SourceAssumption
<1>8. IndInv => Typed
  BY RankIs DEF IndInv
<1> HIDE DEF Held, Free, Sealed, Typed
<1>9. Live /\ RankSettles(s) => [](Held => <>Free)
  BY <1>1, <1>2, <1>3, <1>4, <1>5, <1>6, <1>7, <1>8, PTL DEF Live, SourceRuns, RestartRuns, RankSettles
<1> QED
  BY <1>9, PTL DEF OwnerEnds, Held, Free

LEMMA OwnersReturn ==
  [](Live) /\ []RanksSettle => WriterReturns
<1>1. ASSUME []Live, []RanksSettle PROVE owner # NoOwner => <>(owner = NoOwner)
  <2>1. ASSUME NEW s \in Sources PROVE owner = s => <>(owner = NoOwner)
    <3>1. RankSettles(s)
      <4>1. RanksSettle
        BY <1>1, PTL
      <4> QED
        BY <4>1 DEF RanksSettle
    <3>2. Live /\ RankSettles(s) => OwnerEnds(s)
      BY OwnerReturns
    <3> QED
      BY <1>1, <3>1, <3>2, PTL DEF OwnerEnds
  <2>2. IndInv => (owner # NoOwner => \E s \in Sources : owner = s)
    BY DEF IndInv, TypeOK
  <2>3. (\E s \in Sources : owner = s) => <>(owner = NoOwner)
    BY <2>1
  <2> QED
    BY <1>1, <2>2, <2>3, PTL DEF Live
<1> QED
  BY <1>1, PTL DEF WriterReturns

\* Whoever claims the writer gives it back, for any number of sources, any plan
\* of any length, and components of any size, whatever fails and wherever the
\* power is lost.  WriterReady and RanksSettle are all that is taken from
\* ENABLED and from induction.
THEOREM WriterComesBack ==
  Spec /\ []Fairness /\ []WriterReady /\ []RanksSettle => WriterReturns
BY Invariance, OwnersReturn, PTL DEF Spec, Live

=============================================================================
