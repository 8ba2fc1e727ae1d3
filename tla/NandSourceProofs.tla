-------------------------- MODULE NandSourceProofs --------------------------
(***************************************************************************)
(* The safety properties of NandSource, for any set of operations and      *)
(* bundles, any bound of the catalog and any number of tasks that cannot   *)
(* be created.                                                             *)
(***************************************************************************)
EXTENDS NandSource, TLAPS

----------------------------------------------------------------------------
(* The inductive invariant.                                                *)

Holders == [owner : {Nand, Other, NoOwner}, op : Ops \cup {NoOp}]
Records == [owner : {Nand, Other, NoOwner}, op : Ops \cup {NoOp},
            phase : Writer!Phases, result : Writer!Results]

\* The shape of the state, with the records the actions update.
Shape ==
  /\ NandTypeOK
  /\ nand \in [scan : ScanStates, update : UpdateStates, list : Catalogs]
  /\ holder \in Holders /\ record \in Records
  /\ \A c \in Callers : start[c].at \in {"create", "abort", "report"} => start[c].op \in Ops

\* Whoever uses the mount has the claim, and nobody else does.
OneUser ==
  /\ nandBusy =>
       scanning \/ (\E c \in Callers : StartAt(c, "create")) \/ (\E op \in Ops : task[op] \in Alive)
  /\ scanning => nandBusy
  /\ \A c \in Callers : StartAt(c, "create") =>
       nandBusy /\ ~scanning /\ \A d \in Callers : StartAt(d, "create") => d = c
  /\ \A op \in Ops : task[op] \in Alive =>
       /\ nandBusy /\ ~scanning
       /\ \A c \in Callers : ~StartAt(c, "create")
       /\ \A other \in Ops : task[other] \in Alive => other = op

\* A NAND update that holds the writer is before its abort, in its task or in the
\* call that could not create one, or committed.
Returned ==
  holder.owner = Nand =>
    /\ holder.op \in Ops
    /\ \/ record.phase = "committed"
       \/ task[holder.op] \in {"prepare", "stream", "abort"}
       \/ \E c \in Callers : start[c].op = holder.op /\ start[c].at \in {"create", "abort"}

NandInv == Shape /\ OneUser /\ Returned

----------------------------------------------------------------------------
LEMMA EmptyCatalog == << >> \in Catalogs
<1>1. << >> \in [1..0 -> Bundles] /\ 0 \in 0..MaxCandidates
  BY NandAssumption
<1>2. DOMAIN << >> = {}
  OBVIOUS
<1> QED
  BY <1>1, <1>2 DEF Catalogs, Manifests, InOrder

LEMMA CallersDiffer == Callers = {Screen, Rpc} /\ Nand # Other /\ NoOwner # Nand /\ NoOwner # Other
BY NandAssumption DEF Callers

LEMMA InvInit == NandInit => NandInv
<1> SUFFICES ASSUME NandInit PROVE NandInv
  OBVIOUS
<1> USE DEF NandInit, Writer!Init, Writer!Free, Writer!NoRecord, NoSnapshot, NoStart
<1>1. NandTypeOK
  <2>1. nand = NoSnapshot /\ nand.list \in Catalogs
    BY EmptyCatalog
  <2>2. start \in [Callers -> [at : StartStages, op : Ops \cup {NoOp}]] /\ task \in [Ops -> TaskStages]
    BY DEF StartStages, TaskStages
  <2>3. faults \in 0..MaxFaults
    BY NandAssumption
  <2>4. nand.scan = "idle" /\ nand.update = "idle" /\ nand.list = << >>
    OBVIOUS
  <2>5. nandBusy \in BOOLEAN /\ changed \in BOOLEAN /\ scanning \in BOOLEAN
    OBVIOUS
  <2> QED
    BY <2>1, <2>2, <2>3, <2>4, <2>5 DEF NandTypeOK, ScanStates, UpdateStates
<1>2. Shape
  BY <1>1, EmptyCatalog
     DEF Shape, ScanStates, UpdateStates, Holders, Records, Writer!Phases, Writer!Results
<1>3. OneUser
  BY DEF OneUser, StartAt, Alive
<1>4. Returned
  BY CallersDiffer DEF Returned
<1> QED
  BY <1>2, <1>3, <1>4 DEF NandInv

----------------------------------------------------------------------------
(* What the helpers of the actions do.                                     *)

Snapshots == [scan : ScanStates, update : UpdateStates, list : Catalogs]

LEMMA PublishDoes ==
  ASSUME Shape, NEW state \in UpdateStates, Publish(state)
  PROVE  /\ nand' \in Snapshots /\ changed' \in BOOLEAN
         /\ nand'.scan = nand.scan /\ nand'.list = nand.list
BY DEF Shape, Publish, Snapshots

\* What a scan may leave: the list of a snapshot that is not ready.
Listed(snapshot) ==
  /\ snapshot.scan \in {"idle", "running"} => snapshot.list = << >>
  /\ snapshot.scan = "failed" => snapshot.list \in {<< >>, <<Root>>}

LEMMA ScannedDoes ==
  ASSUME NEW state \in ScanStates
  PROVE  /\ Scanned(state, << >>) \in Snapshots /\ Scanned(state, << >>).scan = state
         /\ Listed(Scanned(state, << >>)) /\ Scanned(state, << >>).update = "idle"
BY EmptyCatalog DEF Scanned, Snapshots, UpdateStates, Listed

\* The manifests that fill the slots are no more than the slots.
LEMMA SlotsBound ==
  ASSUME NEW found \in Seq(Bundles)
  PROVE  /\ SlotsFilled(found) \in Seq(Bundles)
         /\ Len(SlotsFilled(found)) \in 0..MaxCandidates
<1>1. CASE Len(found) > MaxCandidates
  <2>1. SlotsFilled(found) = SubSeq(found, 1, MaxCandidates)
    BY <1>1 DEF SlotsFilled
  <2>2. MaxCandidates \in Nat /\ MaxCandidates >= 1 /\ MaxCandidates <= Len(found)
    BY <1>1, NandAssumption
  <2>3. \A i \in 1..MaxCandidates : found[i] \in Bundles
    BY <2>2
  <2>4. SubSeq(found, 1, MaxCandidates) \in Seq(Bundles) /\ Len(SubSeq(found, 1, MaxCandidates)) = MaxCandidates
    BY <2>2, <2>3
  <2> QED
    BY <2>1, <2>2, <2>4
<1>2. CASE ~(Len(found) > MaxCandidates)
  BY <1>2, NandAssumption DEF SlotsFilled
<1> QED
  BY <1>1, <1>2

\* Sorting puts a list that fits the slots into a catalog.
LEMMA SortedIsCatalog ==
  ASSUME NEW list \in Seq(Bundles), Len(list) \in 0..MaxCandidates, NEW sorted \in Sorted(list)
  PROVE  sorted \in Catalogs
<1>1. PICK p \in Bijection(DOMAIN list, DOMAIN list) : sorted = [i \in DOMAIN list |-> list[p[i]]]
  BY DEF Sorted, Arrangements
<1>2. DOMAIN list = 1..Len(list)
  OBVIOUS
<1>3. p \in [1..Len(list) -> 1..Len(list)]
  BY <1>1, <1>2 DEF Bijection, Injection
<1>4. sorted \in [1..Len(list) -> Bundles]
  BY <1>1, <1>2, <1>3
<1> QED
  BY <1>4 DEF Sorted, Catalogs, Manifests

\* A scan publishes a catalog: of what the directory holds, or of what was found
\* before it could not be opened.
LEMMA ScanCatalogDoes ==
  ASSUME ScanCatalog
  PROVE  /\ nand' \in Snapshots /\ nand'.scan \in {"ready", "failed"} /\ Listed(nand')
         /\ nand'.update = "idle"
<1>1. PICK root \in {<< >>, <<Root>>} :
        \/ nand' = Scanned("failed", SlotsFilled(root))
        \/ \E entries \in Manifests(Bundles, MaxEntries) :
             \E list \in Sorted(SlotsFilled(root \o entries)) : nand' = Scanned("ready", list)
  BY DEF ScanCatalog
<1>2. root \in Seq(Bundles) /\ Len(root) <= 1
  <2>1. CASE root = << >>
    BY <2>1
  <2>2. CASE root = <<Root>>
    BY <2>2, NandAssumption
  <2> QED
    BY <2>1, <2>2
<1>3. CASE nand' = Scanned("failed", SlotsFilled(root))
  <2>1. SlotsFilled(root) = root
    BY <1>2, NandAssumption DEF SlotsFilled
  <2>2. root \in Catalogs
    <3>1. <<Root>> \in [1..1 -> Bundles] /\ InOrder(<<Root>>) /\ 1 \in 0..MaxCandidates
      BY NandAssumption DEF InOrder
    <3> QED
      BY <3>1, EmptyCatalog DEF Catalogs, Manifests
  <2> QED
    BY <1>3, <2>1, <2>2 DEF Scanned, Snapshots, ScanStates, UpdateStates, Listed
<1>4. ASSUME NEW entries \in Manifests(Bundles, MaxEntries),
             NEW list \in Sorted(SlotsFilled(root \o entries)), nand' = Scanned("ready", list)
      PROVE  nand' \in Snapshots /\ nand'.scan = "ready" /\ Listed(nand') /\ nand'.update = "idle"
  <2>1. entries \in Seq(Bundles)
    <3>1. PICK n \in 0..MaxEntries : entries \in [1..n -> Bundles]
      BY DEF Manifests
    <3> QED
      BY <3>1, NandAssumption
  <2>2. root \o entries \in Seq(Bundles)
    BY <1>2, <2>1
  <2>3. list \in Catalogs
    BY <2>2, SlotsBound, SortedIsCatalog
  <2> QED
    BY <1>4, <2>3 DEF Scanned, Snapshots, ScanStates, UpdateStates, Listed
<1> QED
  BY <1>1, <1>3, <1>4

LEMMA ScanPublishesDoes ==
  ASSUME ScanPublishes
  PROVE  /\ nand' \in Snapshots /\ nand'.scan \in {"ready", "failed"} /\ Listed(nand')
         /\ nand'.update = "idle"
<1>1. ScanCatalog \/ \E state \in {"failed", "ready"} : nand' = Scanned(state, << >>)
  BY DEF ScanPublishes
<1> QED
  BY <1>1, ScanCatalogDoes, ScannedDoes DEF ScanStates

StartRecords == [Callers -> [at : StartStages, op : Ops \cup {NoOp}]]

LEMMA StartsDoes ==
  ASSUME NEW c \in Callers, NEW stage \in StartStages, start \in StartRecords, Starts(c, stage)
  PROVE  /\ start' \in StartRecords
         /\ start'[c].at = stage /\ start'[c].op = start[c].op
         /\ \A d \in Callers \ {c} : start'[d] = start[d]
BY DEF Starts, StartRecords

LEMMA ReturnsDoes ==
  ASSUME NEW c \in Callers, NEW outcome \in StartStages, start \in StartRecords, Returns(c, outcome)
  PROVE  /\ start' \in StartRecords /\ start'[c].at \in {"idle", outcome}
         /\ \A d \in Callers \ {c} : start'[d] = start[d]
BY DEF Returns, StartRecords, StartStages

LEMMA TasksDoes ==
  ASSUME NEW op \in Ops, NEW stage \in TaskStages, task \in [Ops -> TaskStages], Tasks(op, stage)
  PROVE  /\ task' \in [Ops -> TaskStages] /\ task'[op] = stage
         /\ \A other \in Ops \ {op} : task'[other] = task[other]
BY DEF Tasks

\* The writer under each of its operations.
LEMMA ClaimDoes ==
  ASSUME NEW s \in {Nand, Other}, NEW op \in Ops, NEW phase, Writer!Claim(s, op, phase)
  PROVE  /\ holder' \in Holders /\ record' \in Records
         /\ holder' = [owner |-> s, op |-> op] /\ holder = Writer!Free
BY DEF Writer!Claim, Writer!Phases, Writer!Results, Holders, Records

LEMMA ReportDoes ==
  ASSUME Shape, NEW s \in {Nand, Other}, NEW op \in Ops, NEW phase, Writer!Report(s, op, phase)
  PROVE  /\ holder' \in Holders /\ record' \in Records
         /\ holder' = holder /\ holder = [owner |-> s, op |-> op] /\ record'.phase = phase
<1>1. phase \in Writer!Phases
  BY DEF Writer!Report, Writer!Follows, Writer!Phases
<1> QED
  BY <1>1 DEF Shape, Writer!Report, Writer!Held, Holders, Records

LEMMA ReleaseDoes ==
  ASSUME Shape, NEW s \in {Nand, Other}, NEW op \in Ops, NEW result \in Writer!Results,
         Writer!Release(s, op, result)
  PROVE  /\ holder' \in Holders /\ record' \in Records
         /\ holder' = Writer!Free /\ holder = [owner |-> s, op |-> op]
BY DEF Shape, Writer!Release, Writer!Held, Writer!Free, Writer!Phases, Holders, Records

\* abort_update_owned leaves nothing of the operation it is called for.
LEMMA AbortDoes ==
  ASSUME Shape, Returned, NEW op \in Ops, AbortWriter(op)
  PROVE  /\ holder' \in Holders /\ record' \in Records
         /\ holder'.owner = Nand => holder' = holder /\ record' = record /\ holder.op # op
<1>1. CASE Writer!Held(Nand, op)
  <2>1. Writer!Release(Nand, op, "aborted")
    BY <1>1 DEF AbortWriter
  <2>2. holder' \in Holders /\ record' \in Records
    BY <2>1, ReleaseDoes DEF Writer!Results
  <2> QED
    BY <2>1, <2>2, CallersDiffer DEF Writer!Release, Writer!Free
<1>2. CASE ~Writer!Held(Nand, op)
  <2>1. holder' = holder /\ record' = record
    BY <1>2 DEF AbortWriter, writer
  <2>2. holder = [owner |-> holder.owner, op |-> holder.op]
    BY DEF Shape, Holders
  <2> QED
    BY <1>2, <2>1, <2>2 DEF Writer!Held, Shape
<1> QED
  BY <1>1, <1>2

\* Steps that leave the users of the mount and the claim alone.
LEMMA SameUsers ==
  ASSUME OneUser, nandBusy' = nandBusy, scanning' = scanning,
         \A c \in Callers : StartAt(c, "create")' <=> StartAt(c, "create"),
         \A op \in Ops : task'[op] \in Alive <=> task[op] \in Alive
  PROVE  OneUser'
BY DEF OneUser

LEMMA ShapeParts ==
  ASSUME Shape
  PROVE  /\ nand \in Snapshots /\ start \in StartRecords /\ task \in [Ops -> TaskStages]
         /\ faults \in 0..MaxFaults /\ faults \in Nat
BY NandAssumption DEF Shape, NandTypeOK, Snapshots, StartRecords
----------------------------------------------------------------------------
(* One lemma per action.                                                   *)

LEMMA InvRequestScan ==
  NandInv /\ RequestScan /\ UNCHANGED <<writer, start, task>> => NandInv'
<1> SUFFICES ASSUME NandInv, RequestScan, UNCHANGED <<writer, start, task>> PROVE NandInv'
  OBVIOUS
<1>1. Shape /\ OneUser /\ Returned
  BY DEF NandInv
<1>2. /\ start' = start /\ task' = task
      /\ holder' = holder /\ record' = record
  BY DEF writer
<1>3. /\ \/ NandFree /\ nandBusy' /\ scanning'
         \/ nandBusy' = nandBusy /\ scanning' = scanning
      /\ nandBusy' \in BOOLEAN /\ scanning' \in BOOLEAN
  BY <1>1 DEF RequestScan, Shape, NandTypeOK
<1>4. nand' \in Snapshots /\ Listed(nand') /\ changed' \in BOOLEAN
  BY <1>1, ScannedDoes, ShapeParts DEF RequestScan, ScanStates, Shape, NandTypeOK, Listed
<1>5. faults' \in 0..MaxFaults
  BY <1>1, ShapeParts, NandAssumption DEF RequestScan, Fault
<1>6. Shape'
  BY <1>1, <1>2, <1>3, <1>4, <1>5 DEF Shape, NandTypeOK, Snapshots, Listed
<1>7. OneUser'
  BY <1>1, <1>2, <1>3, SameUsers DEF OneUser, NandFree, StartAt
<1>8. Returned'
  BY <1>1, <1>2 DEF Returned
<1> QED
  BY <1>6, <1>7, <1>8 DEF NandInv

LEMMA InvScanPublishes == NandInv /\ ScanPublishes => NandInv'
<1> SUFFICES ASSUME NandInv, ScanPublishes PROVE NandInv'
  OBVIOUS
<1>1. Shape /\ OneUser /\ Returned
  BY DEF NandInv
<1>2. /\ start' = start /\ task' = task /\ faults' = faults /\ changed' = TRUE
      /\ holder' = holder /\ record' = record /\ nandBusy' = nandBusy /\ scanning' = scanning
  BY DEF ScanPublishes, writer
<1>3. nand' \in Snapshots /\ Listed(nand')
  BY ScanPublishesDoes
<1>4. Shape'
  BY <1>1, <1>2, <1>3 DEF Shape, NandTypeOK, Snapshots, Listed
<1>5. OneUser'
  BY <1>1, <1>2, SameUsers DEF StartAt
<1>6. Returned'
  BY <1>1, <1>2 DEF Returned
<1> QED
  BY <1>4, <1>5, <1>6 DEF NandInv

LEMMA InvScanEnds == NandInv /\ ScanEnds => NandInv'
<1> SUFFICES ASSUME NandInv, ScanEnds PROVE NandInv'
  OBVIOUS
<1>1. Shape /\ OneUser /\ Returned
  BY DEF NandInv
<1>2. /\ start' = start /\ task' = task /\ faults' = faults /\ changed' = changed /\ nand' = nand
      /\ holder' = holder /\ record' = record
      /\ scanning /\ nandBusy' = FALSE /\ scanning' = FALSE
  BY DEF ScanEnds, writer
<1>3. Shape'
  BY <1>1, <1>2 DEF Shape, NandTypeOK
<1>4. OneUser'
  BY <1>1, <1>2 DEF OneUser, StartAt
<1>5. Returned'
  BY <1>1, <1>2 DEF Returned
<1> QED
  BY <1>3, <1>4, <1>5 DEF NandInv

LEMMA InvBegin == ASSUME NEW c \in Callers PROVE NandInv /\ Begin(c) => NandInv'
<1> SUFFICES ASSUME NandInv, Begin(c) PROVE NandInv'
  OBVIOUS
<1>1. Shape /\ OneUser /\ Returned
  BY DEF NandInv
<1>2. /\ StartAt(c, "idle") /\ task' = task /\ scanning' = scanning /\ faults' = faults
  BY DEF Begin
<1>3. CASE /\ NandFree /\ nandBusy' = TRUE
           /\ \E op \in Ops :
                /\ Writer!Claim(Nand, op, "idle")
                /\ start' = [start EXCEPT ![c] = [at |-> "create", op |-> op]]
           /\ Publish("starting")
  <2>1. PICK op \in Ops :
          /\ Writer!Claim(Nand, op, "idle")
          /\ start' = [start EXCEPT ![c] = [at |-> "create", op |-> op]]
    BY <1>3
  <2>2. /\ start' \in StartRecords
        /\ start'[c].at = "create" /\ start'[c].op = op
        /\ \A d \in Callers \ {c} : start'[d] = start[d]
    BY <1>1, <2>1, ShapeParts DEF StartRecords, StartStages
  <2>3. holder' \in Holders /\ record' \in Records /\ holder' = [owner |-> Nand, op |-> op]
    BY <2>1, ClaimDoes
  <2>4. /\ nand' \in Snapshots /\ changed' \in BOOLEAN
        /\ nand'.scan = nand.scan /\ nand'.list = nand.list
    BY <1>1, <1>3, PublishDoes DEF UpdateStates
  <2>5. Shape'
    BY <1>1, <1>2, <1>3, <2>2, <2>3, <2>4 DEF Shape, NandTypeOK, Snapshots, StartRecords
  <2>6. OneUser'
    BY <1>1, <1>2, <1>3, <2>2 DEF OneUser, NandFree, StartAt
  <2>7. Returned'
    BY <2>2, <2>3 DEF Returned
  <2> QED
    BY <2>5, <2>6, <2>7 DEF NandInv
<1>4. CASE Returns(c, "refused") /\ UNCHANGED <<writer, nandBusy, nand, changed>>
  <2>1. /\ holder' = holder /\ record' = record /\ nandBusy' = nandBusy
        /\ nand' = nand /\ changed' = changed
    BY <1>4 DEF writer
  <2>2. /\ start' \in StartRecords /\ start'[c].at \in {"idle", "refused"}
        /\ \A d \in Callers \ {c} : start'[d] = start[d]
    BY <1>1, <1>4, ShapeParts, ReturnsDoes DEF StartStages
  <2>3. Shape'
    BY <1>1, <1>2, <2>1, <2>2 DEF Shape, NandTypeOK, StartRecords
  <2>4. OneUser'
    BY <1>1, <1>2, <2>1, <2>2, SameUsers DEF StartAt
  <2>5. Returned'
    BY <1>1, <1>2, <2>1, <2>2 DEF Returned, StartAt
  <2> QED
    BY <2>3, <2>4, <2>5 DEF NandInv
<1> QED
  BY <1>3, <1>4 DEF Begin
LEMMA InvCreateTask == ASSUME NEW c \in Callers PROVE NandInv /\ CreateTask(c) => NandInv'
<1> SUFFICES ASSUME NandInv, CreateTask(c) PROVE NandInv'
  OBVIOUS
<1>1. Shape /\ OneUser /\ Returned
  BY DEF NandInv
<1>2. /\ StartAt(c, "create") /\ nand' = nand /\ changed' = changed /\ scanning' = scanning
      /\ holder' = holder /\ record' = record
  BY DEF CreateTask, writer
<1>3. start[c].op \in Ops
  BY <1>1, <1>2 DEF Shape, StartAt
<1>4. CASE Tasks(start[c].op, "prepare") /\ Returns(c, "started") /\ UNCHANGED <<nandBusy, faults>>
  <2> DEFINE op == start[c].op
  <2>1. /\ task' \in [Ops -> TaskStages] /\ task'[op] = "prepare"
        /\ \A other \in Ops \ {op} : task'[other] = task[other]
    BY <1>1, <1>3, <1>4, ShapeParts, TasksDoes DEF TaskStages
  <2>2. /\ start' \in StartRecords /\ start'[c].at \in {"idle", "started"}
        /\ \A d \in Callers \ {c} : start'[d] = start[d]
    BY <1>1, <1>4, ShapeParts, ReturnsDoes DEF StartStages
  <2>3. Shape'
    BY <1>1, <1>2, <1>4, <2>1, <2>2 DEF Shape, NandTypeOK, StartRecords
  <2>4. OneUser'
    BY <1>1, <1>2, <1>3, <1>4, <2>1, <2>2 DEF OneUser, StartAt, Alive
  <2>5. Returned'
    BY <1>1, <1>2, <1>3, <2>1, <2>2 DEF Returned, Shape
  <2> QED
    BY <2>3, <2>4, <2>5 DEF NandInv
<1>5. CASE Fault /\ nandBusy' = FALSE /\ Starts(c, Unmade) /\ UNCHANGED task
  <2>1. /\ start' \in StartRecords
        /\ start'[c].at = "abort" /\ start'[c].op = start[c].op
        /\ \A d \in Callers \ {c} : start'[d] = start[d]
    BY <1>1, <1>5, ShapeParts, StartsDoes DEF Unmade, StartStages
  <2>2. faults' \in 0..MaxFaults
    BY <1>1, <1>5, ShapeParts, NandAssumption DEF Fault
  <2>3. Shape'
    BY <1>1, <1>2, <1>3, <1>5, <2>1, <2>2 DEF Shape, NandTypeOK, StartRecords
  <2>4. OneUser'
    BY <1>1, <1>2, <1>5, <2>1 DEF OneUser, StartAt
  <2>5. Returned'
    BY <1>1, <1>2, <1>5, <2>1 DEF Returned
  <2> QED
    BY <2>3, <2>4, <2>5 DEF NandInv
<1> QED
  BY <1>4, <1>5 DEF CreateTask

LEMMA InvUnmadeAborts == ASSUME NEW c \in Callers PROVE NandInv /\ UnmadeAborts(c) => NandInv'
<1> SUFFICES ASSUME NandInv, UnmadeAborts(c) PROVE NandInv'
  OBVIOUS
<1>1. Shape /\ OneUser /\ Returned
  BY DEF NandInv
<1>2. /\ StartAt(c, "abort") /\ nand' = nand /\ changed' = changed /\ scanning' = scanning
      /\ nandBusy' = nandBusy /\ task' = task /\ faults' = faults
  BY DEF UnmadeAborts
<1>3. start[c].op \in Ops
  BY <1>1, <1>2 DEF Shape, StartAt
<1>4. /\ holder' \in Holders /\ record' \in Records
      /\ holder'.owner = Nand =>
           holder' = holder /\ record' = record /\ holder.op # start[c].op
  BY <1>1, <1>3, AbortDoes DEF UnmadeAborts
<1>5. /\ start' \in StartRecords
      /\ start'[c].at = "report" /\ start'[c].op = start[c].op
      /\ \A d \in Callers \ {c} : start'[d] = start[d]
  BY <1>1, ShapeParts, StartsDoes DEF UnmadeAborts, StartStages
<1>6. Shape'
  BY <1>1, <1>2, <1>3, <1>4, <1>5 DEF Shape, NandTypeOK, StartRecords
<1>7. OneUser'
  BY <1>1, <1>2, <1>5, SameUsers DEF StartAt
<1>8. Returned'
  BY <1>1, <1>2, <1>4, <1>5 DEF Returned
<1> QED
  BY <1>6, <1>7, <1>8 DEF NandInv

LEMMA InvUnmadeReports == ASSUME NEW c \in Callers PROVE NandInv /\ UnmadeReports(c) => NandInv'
<1> SUFFICES ASSUME NandInv, UnmadeReports(c) PROVE NandInv'
  OBVIOUS
<1>1. Shape /\ OneUser /\ Returned
  BY DEF NandInv
<1>2. /\ StartAt(c, "report") /\ scanning' = scanning /\ nandBusy' = nandBusy
      /\ task' = task /\ faults' = faults /\ holder' = holder /\ record' = record
  BY DEF UnmadeReports, writer
<1>3. /\ nand' \in Snapshots /\ changed' \in BOOLEAN
      /\ nand'.scan = nand.scan /\ nand'.list = nand.list
  BY <1>1, PublishDoes DEF UnmadeReports, UpdateStates
<1>4. /\ start' \in StartRecords /\ start'[c].at \in {"idle", "refused"}
      /\ \A d \in Callers \ {c} : start'[d] = start[d]
  BY <1>1, ShapeParts, ReturnsDoes DEF UnmadeReports, StartStages
<1>5. Shape'
  BY <1>1, <1>2, <1>3, <1>4 DEF Shape, NandTypeOK, StartRecords, Snapshots
<1>6. OneUser'
  BY <1>1, <1>2, <1>4, SameUsers DEF StartAt
<1>7. Returned'
  BY <1>1, <1>2, <1>4 DEF Returned, StartAt
<1> QED
  BY <1>5, <1>6, <1>7 DEF NandInv

LEMMA InvTaskPrepares == ASSUME NEW op \in Ops PROVE NandInv /\ TaskPrepares(op) => NandInv'
<1> SUFFICES ASSUME NandInv, TaskPrepares(op) PROVE NandInv'
  OBVIOUS
<1>1. Shape /\ OneUser /\ Returned
  BY DEF NandInv
<1>2. /\ TaskAt(op, "prepare") /\ scanning' = scanning /\ nandBusy' = nandBusy
      /\ start' = start /\ faults' = faults
  BY DEF TaskPrepares
<1>3. PICK stage \in {"stream", "abort"} : Tasks(op, stage)
  BY DEF TaskPrepares
<1>4. /\ task' \in [Ops -> TaskStages] /\ task'[op] = stage
      /\ \A other \in Ops \ {op} : task'[other] = task[other]
  BY <1>1, <1>3, ShapeParts, TasksDoes DEF TaskStages
<1>5. /\ nand' \in Snapshots /\ changed' \in BOOLEAN
      /\ nand'.scan = nand.scan /\ nand'.list = nand.list
  <2>1. CASE Publish("running")
    BY <1>1, <2>1, PublishDoes DEF UpdateStates
  <2>2. CASE UNCHANGED <<nand, changed>>
    BY <1>1, <2>2, ShapeParts DEF Shape, NandTypeOK
  <2> QED
    BY <2>1, <2>2 DEF TaskPrepares
<1>6. /\ holder' \in Holders /\ record' \in Records
      /\ holder = [owner |-> Nand, op |-> op] /\ holder' \in {holder, Writer!Free}
  BY <1>1, ReportDoes, ReleaseDoes DEF TaskPrepares, Writer!Results
<1>7. Shape'
  BY <1>1, <1>2, <1>4, <1>5, <1>6 DEF Shape, NandTypeOK, StartRecords, Snapshots
<1>8. OneUser'
  BY <1>1, <1>2, <1>4, SameUsers DEF StartAt, TaskAt, Alive, TaskStages
<1>9. Returned'
  <2>1. SUFFICES ASSUME holder'.owner = Nand PROVE Returned'
    BY DEF Returned
  <2>2. holder' = holder
    BY <1>6, <2>1, CallersDiffer DEF Writer!Free
  <2> QED
    BY <1>4, <1>6, <2>2 DEF Returned
<1> QED
  BY <1>7, <1>8, <1>9 DEF NandInv

LEMMA InvTaskStreams == ASSUME NEW op \in Ops PROVE NandInv /\ TaskStreams(op) => NandInv'
<1> SUFFICES ASSUME NandInv, TaskStreams(op) PROVE NandInv'
  OBVIOUS
<1>1. Shape /\ OneUser /\ Returned
  BY DEF NandInv
<1>2. /\ TaskAt(op, "stream") /\ scanning' = scanning /\ nandBusy' = nandBusy
      /\ start' = start /\ faults' = faults /\ nand' = nand /\ changed' = changed
  BY DEF TaskStreams
<1>3. /\ holder' = holder /\ record' \in Records /\ holder = [owner |-> Nand, op |-> op]
      /\ record.phase = "committing" => record'.phase = "committed"
  <2>1. PICK phase \in {"prepared", "committing", "committed"} :
          /\ Writer!Report(Nand, op, phase)
          /\ record.phase = "committing" => phase = "committed"
    BY DEF TaskStreams, Onward
  <2> QED
    BY <1>1, <2>1, ReportDoes
<1>4. PICK stage \in {"stream", "free"} :
        Tasks(op, stage) /\ (stage = "free" <=> record.phase = "committing")
  BY DEF TaskStreams
<1>5. /\ task' \in [Ops -> TaskStages] /\ task'[op] = stage
      /\ \A other \in Ops \ {op} : task'[other] = task[other]
  BY <1>1, <1>4, ShapeParts, TasksDoes DEF TaskStages
<1>6. Shape'
  BY <1>1, <1>2, <1>3, <1>5 DEF Shape, NandTypeOK
<1>7. OneUser'
  BY <1>1, <1>2, <1>4, <1>5, SameUsers DEF StartAt, TaskAt, Alive, TaskStages
<1>8. Returned'
  BY <1>3, <1>4, <1>5 DEF Returned
<1> QED
  BY <1>6, <1>7, <1>8 DEF NandInv
LEMMA InvTaskFails == ASSUME NEW op \in Ops PROVE NandInv /\ TaskFails(op) => NandInv'
<1> SUFFICES ASSUME NandInv, TaskFails(op) PROVE NandInv'
  OBVIOUS
<1>1. Shape /\ OneUser /\ Returned
  BY DEF NandInv
<1>2. /\ task[op] \in Alive /\ scanning' = scanning /\ nandBusy' = nandBusy
      /\ start' = start /\ faults' = faults /\ nand' = nand /\ changed' = changed
      /\ holder' = holder /\ record' = record
  BY DEF TaskFails, Alive, TaskStages, writer
<1>3. /\ task' \in [Ops -> TaskStages] /\ task'[op] = "abort"
      /\ \A other \in Ops \ {op} : task'[other] = task[other]
  BY <1>1, ShapeParts, TasksDoes DEF TaskFails, TaskStages
<1>4. Shape'
  BY <1>1, <1>2, <1>3 DEF Shape, NandTypeOK
<1>5. OneUser'
  BY <1>1, <1>2, <1>3, SameUsers DEF StartAt, Alive, TaskStages
<1>6. Returned'
  BY <1>1, <1>2, <1>3 DEF Returned
<1> QED
  BY <1>4, <1>5, <1>6 DEF NandInv

LEMMA InvTaskAborts == ASSUME NEW op \in Ops PROVE NandInv /\ TaskAborts(op) => NandInv'
<1> SUFFICES ASSUME NandInv, TaskAborts(op) PROVE NandInv'
  OBVIOUS
<1>1. Shape /\ OneUser /\ Returned
  BY DEF NandInv
<1>2. /\ TaskAt(op, "abort") /\ scanning' = scanning /\ nandBusy' = nandBusy
      /\ start' = start /\ faults' = faults /\ nand' = nand /\ changed' = changed
  BY DEF TaskAborts
<1>3. /\ holder' \in Holders /\ record' \in Records
      /\ holder'.owner = Nand => holder' = holder /\ record' = record /\ holder.op # op
  BY <1>1, AbortDoes DEF TaskAborts
<1>4. /\ task' \in [Ops -> TaskStages] /\ task'[op] = "report"
      /\ \A other \in Ops \ {op} : task'[other] = task[other]
  BY <1>1, ShapeParts, TasksDoes DEF TaskAborts, TaskStages
<1>5. Shape'
  BY <1>1, <1>2, <1>3, <1>4 DEF Shape, NandTypeOK
<1>6. OneUser'
  BY <1>1, <1>2, <1>4, SameUsers DEF StartAt, TaskAt, Alive, TaskStages
<1>7. Returned'
  BY <1>1, <1>2, <1>3, <1>4 DEF Returned
<1> QED
  BY <1>5, <1>6, <1>7 DEF NandInv

LEMMA InvTaskReports == ASSUME NEW op \in Ops PROVE NandInv /\ TaskReports(op) => NandInv'
<1> SUFFICES ASSUME NandInv, TaskReports(op) PROVE NandInv'
  OBVIOUS
<1>1. Shape /\ OneUser /\ Returned
  BY DEF NandInv
<1>2. /\ TaskAt(op, "report") /\ scanning' = scanning /\ nandBusy' = nandBusy
      /\ start' = start /\ faults' = faults /\ holder' = holder /\ record' = record
  BY DEF TaskReports, writer
<1>3. /\ nand' \in Snapshots /\ changed' \in BOOLEAN
      /\ nand'.scan = nand.scan /\ nand'.list = nand.list
  BY <1>1, PublishDoes DEF TaskReports, UpdateStates
<1>4. /\ task' \in [Ops -> TaskStages] /\ task'[op] = "free"
      /\ \A other \in Ops \ {op} : task'[other] = task[other]
  BY <1>1, ShapeParts, TasksDoes DEF TaskReports, FailureEnds, TaskStages
<1>5. Shape'
  BY <1>1, <1>2, <1>3, <1>4 DEF Shape, NandTypeOK, Snapshots
<1>6. OneUser'
  BY <1>1, <1>2, <1>4, SameUsers DEF StartAt, TaskAt, Alive, TaskStages
<1>7. Returned'
  BY <1>1, <1>2, <1>4 DEF Returned, TaskAt
<1> QED
  BY <1>5, <1>6, <1>7 DEF NandInv

LEMMA InvTaskFrees == ASSUME NEW op \in Ops PROVE NandInv /\ TaskFrees(op) => NandInv'
<1> SUFFICES ASSUME NandInv, TaskFrees(op) PROVE NandInv'
  OBVIOUS
<1>1. Shape /\ OneUser /\ Returned
  BY DEF NandInv
<1>2. /\ TaskAt(op, "free") /\ scanning' = scanning /\ nandBusy' = FALSE
      /\ start' = start /\ faults' = faults /\ nand' = nand /\ changed' = changed
      /\ holder' = holder /\ record' = record
  BY DEF TaskFrees, writer
<1>3. /\ task' \in [Ops -> TaskStages] /\ task'[op] = "none"
      /\ \A other \in Ops \ {op} : task'[other] = task[other]
  BY <1>1, ShapeParts, TasksDoes DEF TaskFrees, TaskStages
<1>4. Shape'
  BY <1>1, <1>2, <1>3 DEF Shape, NandTypeOK
<1>5. OneUser'
  BY <1>1, <1>2, <1>3 DEF OneUser, StartAt, TaskAt, Alive, TaskStages
<1>6. Returned'
  BY <1>1, <1>2, <1>3 DEF Returned, TaskAt
<1> QED
  BY <1>4, <1>5, <1>6 DEF NandInv

\* The other sources never hold the writer under the name of the NAND.
LEMMA InvOthers == NandInv /\ (OtherClaims \/ OtherGoesOn) => NandInv'
<1> SUFFICES ASSUME NandInv, OtherClaims \/ OtherGoesOn PROVE NandInv'
  OBVIOUS
<1>1. Shape /\ OneUser /\ Returned
  BY DEF NandInv
<1>2. /\ scanning' = scanning /\ nandBusy' = nandBusy /\ task' = task
      /\ start' = start /\ faults' = faults /\ nand' = nand /\ changed' = changed
  BY DEF OtherClaims, OtherGoesOn
<1>3. holder' \in Holders /\ record' \in Records /\ holder'.owner # Nand
  <2>1. CASE OtherClaims
    BY <2>1, ClaimDoes, CallersDiffer DEF OtherClaims
  <2>2. CASE OtherGoesOn
    <3>1. PICK op \in Ops : Onward(Other, op) \/ Writer!Release(Other, op, "aborted")
      BY <2>2 DEF OtherGoesOn
    <3>2. CASE Onward(Other, op)
      <4>1. PICK phase \in {"prepared", "committing", "committed"} : Writer!Report(Other, op, phase)
        BY <3>2 DEF Onward
      <4> QED
        BY <1>1, <4>1, ReportDoes, CallersDiffer
    <3>3. CASE Writer!Release(Other, op, "aborted")
      BY <1>1, <3>3, ReleaseDoes, CallersDiffer DEF Writer!Results, Writer!Free
    <3> QED
      BY <3>1, <3>2, <3>3
  <2> QED
    BY <2>1, <2>2
<1>4. Shape'
  BY <1>1, <1>2, <1>3 DEF Shape, NandTypeOK
<1>5. OneUser'
  BY <1>1, <1>2, SameUsers DEF StartAt
<1>6. Returned'
  BY <1>3 DEF Returned
<1> QED
  BY <1>4, <1>5, <1>6 DEF NandInv

LEMMA InvReset == NandInv /\ NandReset => NandInv'
<1> SUFFICES ASSUME NandInv, NandReset PROVE NandInv'
  OBVIOUS
<1>1. /\ holder' = Writer!Free /\ record' = Writer!NoRecord
      /\ nandBusy' = FALSE /\ nand' = NoSnapshot /\ changed' = FALSE /\ scanning' = FALSE
      /\ start' = NoStart /\ task' = [op \in Ops |-> "none"] /\ faults' = faults
  BY DEF NandReset, Writer!Reset
<1>2. nand' \in Snapshots /\ nand'.list = << >>
  BY <1>1, EmptyCatalog DEF NoSnapshot, Snapshots, ScanStates, UpdateStates
<1>3. start' \in StartRecords /\ \A c \in Callers : start'[c].at = "idle"
  BY <1>1 DEF NoStart, StartRecords, StartStages
<1>4. task' \in [Ops -> TaskStages] /\ \A op \in Ops : task'[op] = "none"
  BY <1>1 DEF TaskStages
<1>5. holder' \in Holders /\ record' \in Records /\ holder'.owner # Nand
  BY <1>1, CallersDiffer
     DEF Writer!Free, Writer!NoRecord, Holders, Records, Writer!Phases, Writer!Results
<1>6. Shape'
  BY <1>1, <1>2, <1>3, <1>4, <1>5 DEF NandInv, Shape, NandTypeOK, Snapshots, StartRecords
<1>7. OneUser'
  BY <1>1, <1>3, <1>4 DEF OneUser, StartAt, Alive
<1>8. Returned'
  BY <1>5 DEF Returned
<1> QED
  BY <1>6, <1>7, <1>8 DEF NandInv

\* The press that is over.
LEMMA InvPressOver ==
  NandInv /\ start[Screen].at \in {"refused", "started"} /\ Returns(Screen, "idle")
    /\ UNCHANGED <<writer, nandBusy, nand, changed, scanning, task, faults>> => NandInv'
<1> SUFFICES ASSUME NandInv, start[Screen].at \in {"refused", "started"}, Returns(Screen, "idle"),
                    UNCHANGED <<writer, nandBusy, nand, changed, scanning, task, faults>>
             PROVE  NandInv'
  OBVIOUS
<1>1. Shape /\ OneUser /\ Returned
  BY DEF NandInv
<1>2. /\ scanning' = scanning /\ nandBusy' = nandBusy /\ task' = task /\ faults' = faults
      /\ nand' = nand /\ changed' = changed /\ holder' = holder /\ record' = record
  BY DEF writer
<1>3. /\ start' \in StartRecords /\ start'[Screen].at = "idle"
      /\ \A d \in Callers \ {Screen} : start'[d] = start[d]
  BY <1>1, ShapeParts, ReturnsDoes, CallersDiffer DEF StartStages
<1>4. Shape'
  BY <1>1, <1>2, <1>3 DEF Shape, NandTypeOK, StartRecords
<1>5. OneUser'
  BY <1>1, <1>2, <1>3, SameUsers DEF StartAt
<1>6. Returned'
  BY <1>1, <1>2, <1>3 DEF Returned
<1> QED
  BY <1>4, <1>5, <1>6 DEF NandInv

\* The copy of the poll.
LEMMA InvCopied ==
  NandInv /\ changed' = FALSE /\ UNCHANGED <<writer, nandBusy, nand, scanning, start, task, faults>>
    => NandInv'
<1> SUFFICES ASSUME NandInv, changed' = FALSE,
                    UNCHANGED <<writer, nandBusy, nand, scanning, start, task, faults>>
             PROVE  NandInv'
  OBVIOUS
<1>1. Shape /\ OneUser /\ Returned
  BY DEF NandInv
<1>2. /\ scanning' = scanning /\ nandBusy' = nandBusy /\ task' = task /\ faults' = faults
      /\ nand' = nand /\ start' = start /\ holder' = holder /\ record' = record
  BY DEF writer
<1>3. Shape'
  BY <1>1, <1>2 DEF Shape, NandTypeOK
<1>4. OneUser'
  BY <1>1, <1>2, SameUsers DEF StartAt
<1>5. Returned'
  BY <1>1, <1>2 DEF Returned
<1> QED
  BY <1>3, <1>4, <1>5 DEF NandInv

LEMMA InvStutter == NandInv /\ UNCHANGED nandVars => NandInv'
BY DEF NandInv, Shape, NandTypeOK, OneUser, Returned, StartAt, nandVars, writer

LEMMA InvNext == NandInv /\ [NandNext]_nandVars => NandInv'
<1> SUFFICES ASSUME NandInv, [NandNext]_nandVars PROVE NandInv'
  OBVIOUS
<1>1. CASE NandStep
  <2>1. ASSUME NEW c \in Callers, StartStep(c) PROVE NandInv'
    BY <2>1, InvCreateTask, InvUnmadeAborts, InvUnmadeReports DEF StartStep
  <2>2. ASSUME NEW op \in Ops, TaskStep(op) PROVE NandInv'
    BY <2>2, InvTaskPrepares, InvTaskStreams, InvTaskFails, InvTaskAborts, InvTaskReports,
       InvTaskFrees DEF TaskStep
  <2> QED
    BY <1>1, <2>1, <2>2, InvScanPublishes, InvScanEnds, InvBegin, InvOthers, CallersDiffer
       DEF NandStep
<1>2. CASE ScreenStep
  BY <1>2, InvRequestScan, InvBegin, InvPressOver, InvCopied, CallersDiffer DEF ScreenStep
<1>3. CASE NandReset
  BY <1>3, InvReset
<1>4. CASE UNCHANGED nandVars
  BY <1>4, InvStutter
<1> QED
  BY <1>1, <1>2, <1>3, <1>4 DEF NandNext

----------------------------------------------------------------------------
\* The inductive invariant holds in every reachable state.
THEOREM NandInvariance == NandSpec => []NandInv
<1> QED
  BY InvInit, InvNext, PTL DEF NandSpec

\* Type correctness of the source.  Whatever the directory holds, the catalog stays
\* within its slots and in the order of its paths; it is empty until a scan ends,
\* and holds at most the bundle of the directory itself when the scan failed.
THEOREM NandTypeCorrect == NandSpec => []NandTypeOK
<1>1. NandInv => NandTypeOK
  BY DEF NandInv, Shape
<1> QED
  BY <1>1, NandInvariance, PTL

\* Scans and updates never meet on the mount, and s_nand_busy says exactly
\* whether one of them is there.
THEOREM NandIsExclusive == NandSpec => []NandExclusive
<1>1. NandInv => NandExclusive
  <2> SUFFICES ASSUME NandInv PROVE NandExclusive
    OBVIOUS
  <2>1. OneUser
    BY DEF NandInv
  <2>2. ASSUME NEW a \in NandUsers, NEW b \in NandUsers PROVE a = b
    BY <2>1, <2>2 DEF OneUser, NandUsers
  <2>3. nandBusy <=> NandUsers # {}
    BY <2>1 DEF OneUser, NandUsers
  <2> QED
    BY <2>2, <2>3 DEF NandExclusive
<1> QED
  BY <1>1, NandInvariance, PTL

\* Every way out of a NAND update gives the writer back.
THEOREM NandReturnsWriter == NandSpec => []NandGivesBack
<1>1. NandInv => NandGivesBack
  BY DEF NandInv, Returned, NandGivesBack, Alive, TaskStages
<1> QED
  BY <1>1, NandInvariance, PTL

----------------------------------------------------------------------------
(* Liveness.  A task that lives has a rank, which no step of another actor  *)
(* raises and each step of its own lowers, until it gives the NAND back.    *)

Ranked == [prepare |-> 6, abort |-> 2, report |-> 1, free |-> 0]
StreamRank(op) ==
  IF ~Writer!Held(Nand, op) THEN 3
  ELSE CASE record.phase = "idle"     -> 5
         [] record.phase = "prepared" -> 4
         [] OTHER                     -> 3
Rank(op) == IF TaskAt(op, "stream") THEN StreamRank(op) ELSE Ranked[task[op]]

\* The update of op is over, or has less than k steps ahead.
Within(op, k) == ~nandBusy \/ (task[op] \in Alive /\ Rank(op) < k)

LEMMA RankIs ==
  ASSUME NEW op \in Ops, task[op] \in Alive
  PROVE  Rank(op) \in 0..6
BY DEF Rank, StreamRank, Ranked, Alive, TaskStages, TaskAt

\* A task takes its steps only while it lives.
LEMMA OnlyTheLiveMove ==
  ASSUME NEW op \in Ops, TaskStep(op)
  PROVE  task[op] \in Alive
BY DEF TaskStep, TaskPrepares, TaskStreams, TaskFails, TaskAborts, TaskReports, TaskFrees, TaskAt, Alive,
       TaskStages

LEMMA TaskAdvances ==
  ASSUME NandInv, NEW op \in Ops, task[op] \in Alive, TaskStep(op)
  PROVE  ~nandBusy' \/ (task'[op] \in Alive /\ Rank(op)' < Rank(op))
<1> USE DEF Rank, Ranked, TaskAt, Alive, TaskStages
<1>1. task \in [Ops -> TaskStages]
  BY ShapeParts DEF NandInv
<1>2. CASE TaskPrepares(op)
  <2>1. task[op] = "prepare" /\ (task'[op] = "abort" \/ task'[op] = "stream")
    BY <1>1, <1>2, TasksDoes DEF TaskPrepares
  <2> QED
    BY <2>1 DEF StreamRank
<1>3. CASE TaskStreams(op)
  <2>1. task[op] = "stream" /\ (task'[op] = "free" \/ (task'[op] = "stream" /\ record.phase # "committing"))
    BY <1>1, <1>3, TasksDoes DEF TaskStreams
  <2>2. /\ Writer!Held(Nand, op) /\ Writer!Held(Nand, op)' /\ record \in Records
        /\ \/ record.phase = "idle" /\ record'.phase = "prepared"
           \/ record.phase = "prepared" /\ record'.phase = "committing"
           \/ record.phase = "committing" /\ record'.phase = "committed"
    BY <1>3 DEF TaskStreams, Onward, Writer!Report, Writer!Held, NandInv, Shape, Records
  <2> QED
    BY <2>1, <2>2 DEF StreamRank
<1>4. CASE TaskFails(op)
  <2>1. task[op] \in {"prepare", "stream"} /\ task'[op] = "abort"
    BY <1>1, <1>4, TasksDoes DEF TaskFails
  <2> QED
    BY <2>1 DEF StreamRank
<1>5. CASE TaskAborts(op) \/ TaskReports(op)
  <2>1. \/ task[op] = "abort" /\ task'[op] = "report"
        \/ task[op] = "report" /\ task'[op] = "free"
    BY <1>1, <1>5, TasksDoes DEF TaskAborts, TaskReports, FailureEnds
  <2> QED
    BY <2>1
<1>6. CASE TaskFrees(op)
  BY <1>6 DEF TaskFrees
<1> QED
  BY <1>2, <1>3, <1>4, <1>5, <1>6 DEF TaskStep

\* Nobody else reports of an operation that holds the writer, or lets it hold
\* it again.
Alone(op) ==
  /\ task'[op] = task[op]
  /\ Writer!Held(Nand, op)' => Writer!Held(Nand, op) /\ record' = record

LEMMA AloneKeepsRank ==
  ASSUME NEW op \in Ops, task[op] \in Alive, Alone(op)
  PROVE  task'[op] \in Alive /\ Rank(op)' <= Rank(op)
<1>1. CASE task[op] = "stream"
  <2>1. task'[op] = "stream"
    BY <1>1 DEF Alone
  <2>2. StreamRank(op) \in 3..5 /\ StreamRank(op)' \in 3..5
    BY DEF StreamRank
  <2>3. CASE Writer!Held(Nand, op)'
    <3>1. Writer!Held(Nand, op) /\ record' = record
      BY <2>3 DEF Alone
    <3>2. StreamRank(op)' = StreamRank(op)
      BY <2>3, <3>1 DEF StreamRank
    <3> QED
      BY <1>1, <2>1, <2>2, <3>2 DEF Rank, TaskAt, Alive, TaskStages
  <2>4. CASE ~(Writer!Held(Nand, op)')
    <3>1. StreamRank(op)' = 3
      BY <2>4 DEF StreamRank
    <3> QED
      BY <1>1, <2>1, <2>2, <3>1 DEF Rank, TaskAt, Alive, TaskStages
  <2> QED
    BY <2>3, <2>4
<1>2. CASE task[op] # "stream"
  BY <1>2 DEF Alone, Rank, TaskAt, Ranked, Alive, TaskStages
<1> QED
  BY <1>1, <1>2

\* A step of a call, beside the task of op.
LEMMA CallsLeaveTasksAlone ==
  ASSUME NandInv, NEW op \in Ops, task[op] \in Alive, NEW c \in Callers, Begin(c) \/ StartStep(c)
  PROVE  Alone(op)
<1>1. CASE Begin(c)
  <2>1. nandBusy
    BY DEF NandInv, OneUser
  <2>2. task' = task /\ UNCHANGED writer
    BY <1>1, <2>1 DEF Begin, NandFree
  <2> QED
    BY <2>2 DEF Alone, Writer!Held, writer
<1>2. CASE CreateTask(c)
  BY <1>2 DEF CreateTask, NandInv, OneUser
<1>3. CASE UnmadeAborts(c)
  <2>1. task' = task
    BY <1>3 DEF UnmadeAborts
  <2>2. Writer!Held(Nand, op)' => holder' = holder /\ record' = record
    BY <1>3, CallersDiffer DEF UnmadeAborts, AbortWriter, Writer!Release, Writer!Held, Writer!Free, writer
  <2> QED
    BY <2>1, <2>2 DEF Alone, Writer!Held
<1>4. CASE UnmadeReports(c)
  BY <1>4 DEF UnmadeReports, Alone, Writer!Held, writer
<1> QED
  BY <1>1, <1>2, <1>3, <1>4 DEF StartStep

LEMMA OthersLeaveTasksAlone ==
  ASSUME NEW op \in Ops, OtherClaims \/ OtherGoesOn
  PROVE  Alone(op)
<1>1. task' = task
  BY DEF OtherClaims, OtherGoesOn
<1>2. ~(Writer!Held(Nand, op)')
  <2>1. CASE OtherClaims
    BY <2>1, CallersDiffer DEF OtherClaims, Writer!Claim, Writer!Held
  <2>2. CASE OtherGoesOn
    BY <2>2, CallersDiffer DEF OtherGoesOn, Onward, Writer!Report, Writer!Release, Writer!Held, Writer!Free
  <2> QED
    BY <2>1, <2>2
<1> QED
  BY <1>1, <1>2 DEF Alone

\* What any step does to the rank.
LEMMA TaskStays ==
  ASSUME NandInv, NEW op \in Ops, task[op] \in Alive, [NandNext]_nandVars
  PROVE  ~nandBusy' \/ (task'[op] \in Alive /\ Rank(op)' <= Rank(op))
<1> DEFINE Goal == ~nandBusy' \/ (task'[op] \in Alive /\ Rank(op)' <= Rank(op))
<1>1. Alone(op) => Goal
  BY AloneKeepsRank
<1> SUFFICES Goal
  OBVIOUS
<1> HIDE DEF Goal
<1>2. ASSUME NEW c \in Callers, Begin(c) \/ StartStep(c) PROVE Goal
  BY <1>1, <1>2, CallsLeaveTasksAlone
<1>3. ASSUME NEW other \in Ops, TaskStep(other) PROVE Goal
  <2>1. other = op
    BY <1>3, OnlyTheLiveMove DEF NandInv, OneUser
  <2>2. Rank(op) \in 0..6
    BY RankIs
  <2>3. ASSUME task'[op] \in Alive PROVE Rank(op)' \in 0..6
    BY <2>3 DEF Rank, StreamRank, Ranked, Alive, TaskStages, TaskAt
  <2> QED
    BY <1>3, <2>1, <2>2, <2>3, TaskAdvances DEF Goal
<1>4. CASE OtherClaims \/ OtherGoesOn
  BY <1>1, <1>4, OthersLeaveTasksAlone
<1>5. ASSUME task' = task, UNCHANGED writer PROVE Goal
  BY <1>1, <1>5 DEF Alone, Writer!Held, writer
<1>6. CASE ScanPublishes \/ ScanEnds \/ UNCHANGED nandVars
  BY <1>5, <1>6 DEF ScanPublishes, ScanEnds, nandVars
<1>7. CASE ScreenStep
  <2>1. Begin(Screen) \/ (task' = task /\ UNCHANGED writer)
    BY <1>7 DEF ScreenStep, writer
  <2> QED
    BY <1>2, <1>5, <2>1, CallersDiffer
<1>8. CASE NandReset
  BY <1>8 DEF NandReset, Goal
<1> QED
  BY <1>2, <1>3, <1>4, <1>6, <1>7, <1>8, CallersDiffer DEF NandNext, NandStep

\* The same for the scan, and for a call that is about to create a task.
LEMMA ScanStays ==
  ASSUME NandInv, scanning, [NandNext]_nandVars
  PROVE  ~nandBusy' \/ (scanning' /\ nand'.scan \in {nand.scan, "ready", "failed"})
<1> DEFINE Same == scanning' = scanning /\ nand'.scan = nand.scan
<1>1. nandBusy /\ nand \in Snapshots /\ (\A op \in Ops : task[op] \notin Alive)
      /\ (\A c \in Callers : ~StartAt(c, "create"))
  BY ShapeParts DEF NandInv, OneUser
<1>2. ASSUME NEW c \in Callers, Begin(c) \/ StartStep(c) PROVE Same
  BY <1>1, <1>2 DEF Begin, NandFree, StartStep, CreateTask, UnmadeAborts, UnmadeReports, Publish, Snapshots
<1>3. \A op \in Ops : ~TaskStep(op)
  BY <1>1, OnlyTheLiveMove
<1>4. CASE ScanPublishes
  BY <1>4, ScanPublishesDoes DEF ScanPublishes
<1>5. CASE ScanEnds \/ NandReset
  BY <1>5 DEF ScanEnds, NandReset
<1>6. CASE OtherClaims \/ OtherGoesOn \/ UNCHANGED nandVars
  BY <1>6 DEF OtherClaims, OtherGoesOn, nandVars
<1>7. CASE ScreenStep
  BY <1>1, <1>2, <1>7, CallersDiffer DEF ScreenStep, RequestScan, NandFree
<1> QED
  BY <1>2, <1>3, <1>4, <1>5, <1>6, <1>7, CallersDiffer DEF NandNext, NandStep

SomeTask == \E op \in Ops : task[op] \in Alive

LEMMA CallStays ==
  ASSUME NandInv, NEW c \in Callers, StartAt(c, "create"), [NandNext]_nandVars
  PROVE  ~nandBusy' \/ SomeTask' \/ StartAt(c, "create")'
<1>1. nandBusy /\ start \in StartRecords /\ (\A op \in Ops : task[op] \notin Alive) /\ ~scanning
      /\ task \in [Ops -> TaskStages] /\ start[c].op \in Ops
  <2>1. Shape /\ OneUser /\ start \in StartRecords /\ task \in [Ops -> TaskStages]
    BY ShapeParts DEF NandInv
  <2>2. start[c].op \in Ops
    BY <2>1 DEF Shape, StartAt
  <2> QED
    BY <2>1, <2>2 DEF OneUser
<1>2. ASSUME start'[c] = start[c] PROVE StartAt(c, "create")'
  BY <1>2 DEF StartAt
<1>3. ASSUME NEW d \in Callers, Begin(d) \/ StartStep(d), d # c PROVE start'[c] = start[c]
  BY <1>1, <1>3 DEF Begin, NandFree, StartStep, CreateTask, UnmadeAborts, UnmadeReports, Starts, Returns, StartRecords
<1>4. CASE CreateTask(c)
  <2>1. task'[start[c].op] = "prepare" \/ ~nandBusy'
    BY <1>1, <1>4, TasksDoes DEF CreateTask, TaskStages
  <2> QED
    BY <1>1, <2>1 DEF SomeTask, Alive, TaskStages
<1>5. ~Begin(c) /\ ~UnmadeAborts(c) /\ ~UnmadeReports(c)
  BY DEF Begin, UnmadeAborts, UnmadeReports, StartAt
<1>6. \A op \in Ops : ~TaskStep(op)
  BY <1>1, OnlyTheLiveMove
<1>7. CASE ScanPublishes \/ ScanEnds \/ OtherClaims \/ OtherGoesOn \/ UNCHANGED nandVars
  <2>1. start' = start
    BY <1>7 DEF ScanPublishes, ScanEnds, OtherClaims, OtherGoesOn, nandVars
  <2> QED
    BY <1>2, <2>1
<1>8. CASE ScreenStep
  <2>1. CASE Begin(Screen)
    BY <1>2, <1>3, <1>5, <2>1, CallersDiffer
  <2>2. CASE start[Screen].at \in {"refused", "started"} /\ Returns(Screen, "idle")
    <3>1. c # Screen
      BY <2>2 DEF StartAt
    <3> QED
      BY <1>1, <1>2, <2>2, <3>1 DEF Returns, StartRecords
  <2>3. CASE start' = start
    BY <1>2, <2>3
  <2> QED
    BY <1>8, <2>1, <2>2, <2>3 DEF ScreenStep
<1>9. CASE NandReset
  BY <1>9 DEF NandReset
<1> QED
  BY <1>2, <1>3, <1>4, <1>5, <1>6, <1>7, <1>8, <1>9, CallersDiffer DEF NandNext, NandStep, StartStep

\* What the liveness argument starts from.
Live == [][NandNext]_nandVars /\ []NandInv /\ []NandReady /\ []NandFairness

\* A task that lives takes its next step, and has a smaller rank, or is over.
TaskDescends(op, k, m) == Within(op, k) ~> Within(op, m)

LEMMA TaskGoesOn ==
  ASSUME NEW op \in Ops, NEW m \in Nat, NEW k, k = m + 1
  PROVE  Live => TaskDescends(op, k, m)
<1> DEFINE At == nandBusy /\ task[op] \in Alive /\ Rank(op) = m
<1>1. Within(op, k) => At \/ Within(op, m)
  BY RankIs DEF Within
<1>2. NandInv /\ At /\ [NandNext]_nandVars => At' \/ Within(op, m)'
  <2> SUFFICES ASSUME NandInv, At, [NandNext]_nandVars PROVE At' \/ Within(op, m)'
    OBVIOUS
  <2>1. ~nandBusy' \/ (task'[op] \in Alive /\ Rank(op)' <= Rank(op))
    BY TaskStays
  <2>2. ASSUME task'[op] \in Alive PROVE Rank(op)' \in 0..6
    BY <2>2 DEF Rank, StreamRank, Ranked, Alive, TaskStages, TaskAt
  <2>3. nandBusy' \in BOOLEAN
    BY InvNext DEF NandInv, Shape, NandTypeOK
  <2> QED
    BY <2>1, <2>2, <2>3 DEF Within
<1>3. NandInv /\ At /\ <<TaskStep(op)>>_nandVars => Within(op, m)'
  <2> SUFFICES ASSUME NandInv, At, TaskStep(op) PROVE Within(op, m)'
    OBVIOUS
  <2> QED
    BY TaskAdvances DEF Within
<1>4. NandReady /\ At => ENABLED <<TaskStep(op)>>_nandVars
  BY DEF NandReady, TaskReady
<1>5. NandFairness => TaskRuns(op)
  BY DEF NandFairness
<1> QED
  BY <1>1, <1>2, <1>3, <1>4, <1>5, PTL DEF Live, TaskRuns, TaskDescends

\* From its first step to its last, a task gives the NAND back.
TaskEnds(op) == task[op] \in Alive ~> ~nandBusy

LEMMA TaskFreesNand == ASSUME NEW op \in Ops PROVE Live => TaskEnds(op)
<1>0. Live => TaskDescends(op, 1, 0)
  BY TaskGoesOn
<1>1. Live => TaskDescends(op, 2, 1)
  BY TaskGoesOn
<1>2. Live => TaskDescends(op, 3, 2)
  BY TaskGoesOn
<1>3. Live => TaskDescends(op, 4, 3)
  BY TaskGoesOn
<1>4. Live => TaskDescends(op, 5, 4)
  BY TaskGoesOn
<1>5. Live => TaskDescends(op, 6, 5)
  BY TaskGoesOn
<1>6. Live => TaskDescends(op, 7, 6)
  BY TaskGoesOn
<1>7. task[op] \in Alive => Within(op, 7)
  BY RankIs DEF Within
<1>8. Within(op, 0) => ~nandBusy
  BY RankIs DEF Within
<1> QED
  BY <1>0, <1>1, <1>2, <1>3, <1>4, <1>5, <1>6, <1>7, <1>8, PTL DEF TaskDescends, TaskEnds

\* A call that is about to create a task ends with one, or gives the NAND back.
CallEnds(c) == start[c].at = "create" ~> (~nandBusy \/ SomeTask)

LEMMA CallFreesNand == ASSUME NEW c \in Callers PROVE Live => CallEnds(c)
<1> DEFINE At == nandBusy /\ start[c].at = "create"
<1>1. NandInv /\ At /\ [NandNext]_nandVars => At' \/ (~nandBusy)' \/ SomeTask'
  BY CallStays, InvNext DEF StartAt, NandInv, Shape, NandTypeOK
<1>2. NandInv /\ At /\ <<StartStep(c)>>_nandVars => (~nandBusy)' \/ SomeTask'
  <2> SUFFICES ASSUME NandInv, At, StartStep(c), nandBusy' PROVE SomeTask'
    OBVIOUS
  <2>1. CreateTask(c) /\ start[c].op \in Ops /\ task \in [Ops -> TaskStages]
    BY ShapeParts DEF StartStep, UnmadeAborts, UnmadeReports, StartAt, NandInv, Shape
  <2>2. task'[start[c].op] = "prepare"
    BY <2>1, TasksDoes DEF CreateTask, TaskStages
  <2> QED
    BY <2>1, <2>2 DEF SomeTask, Alive, TaskStages
<1>3. NandReady /\ At => ENABLED <<StartStep(c)>>_nandVars
  BY DEF NandReady, CallReady
<1>4. NandFairness => CallRuns(c)
  BY DEF NandFairness
<1>5. start[c].at = "create" => At \/ ~nandBusy
  OBVIOUS
<1> QED
  BY <1>1, <1>2, <1>3, <1>4, <1>5, PTL DEF Live, CallRuns, CallEnds

LEMMA ScanFreesNand == Live => (scanning ~> ~nandBusy)
<1> DEFINE Reading == nandBusy /\ scanning /\ nand.scan = "running"
           Done == nandBusy /\ scanning /\ nand.scan # "running"
<1>1. NandInv => nandBusy \in BOOLEAN /\ (scanning => Reading \/ Done)
  BY DEF NandInv, OneUser, Shape, NandTypeOK
<1>2. NandInv /\ Reading /\ [NandNext]_nandVars => Reading' \/ Done' \/ (~nandBusy)'
  BY ScanStays, InvNext, <1>1
<1>3. NandInv /\ Done /\ [NandNext]_nandVars => Done' \/ (~nandBusy)'
  BY ScanStays, InvNext, <1>1
<1>4. NandInv /\ Reading /\ <<ScanPublishes \/ ScanEnds>>_nandVars => Done' \/ (~nandBusy)'
  BY ScanPublishesDoes DEF ScanPublishes, ScanEnds
<1>5. NandInv /\ Done /\ <<ScanPublishes \/ ScanEnds>>_nandVars => (~nandBusy)'
  BY DEF ScanPublishes, ScanEnds
<1>6. NandReady /\ (Reading \/ Done) => ENABLED <<ScanPublishes \/ ScanEnds>>_nandVars
  BY DEF NandReady
<1>7. NandFairness => ScanRuns
  BY DEF NandFairness
<1> HIDE DEF Reading, Done
<1> QED
  BY <1>1, <1>2, <1>3, <1>4, <1>5, <1>6, <1>7, PTL DEF Live, ScanRuns

LEMMA LiveIs == NandSpec /\ []NandFairness /\ []NandReady => []Live
BY NandInvariance, PTL DEF NandSpec, Live

LEMMA UsersFreeNand == []Live => NandBusyEnds
<1>2. ASSUME []Live PROVE SomeTask => <>~nandBusy
  <2>1. ASSUME NEW op \in Ops PROVE task[op] \in Alive => <>~nandBusy
    <3>1. Live => TaskEnds(op)
      BY TaskFreesNand
    <3> QED
      BY <1>2, <3>1, PTL DEF TaskEnds
  <2> QED
    BY <2>1 DEF SomeTask
<1>3. ASSUME []Live PROVE (\E c \in Callers : start[c].at = "create") => <>(~nandBusy \/ SomeTask)
  <2>1. ASSUME NEW c \in Callers PROVE start[c].at = "create" => <>(~nandBusy \/ SomeTask)
    <3>1. Live => CallEnds(c)
      BY CallFreesNand
    <3> QED
      BY <1>3, <3>1, PTL DEF CallEnds
  <2> QED
    BY <2>1
<1>4. NandInv /\ nandBusy => scanning \/ SomeTask \/ \E c \in Callers : start[c].at = "create"
  BY DEF NandInv, OneUser, SomeTask, StartAt
<1> QED
  BY <1>2, <1>3, <1>4, ScanFreesNand, PTL DEF Live, NandBusyEnds

\* The NAND is given back by every scan and every update, whatever fails on the
\* way: the mount, the directory, the manifest, the writer, the task that cannot
\* be created.  NandReady, that every step on the way can be taken, is the only
\* thing about ENABLED the proof asks for.
THEOREM NandIsFreed == NandSpec /\ []NandFairness /\ []NandReady => NandBusyEnds
BY LiveIs, UsersFreeNand, PTL

\* A call that failed to create its task, between giving the NAND back and giving
\* the writer back.
Aborting(c, op) == start[c].at = "abort" /\ start[c].op = op
AbortEnds(c, op) == Aborting(c, op) ~> ~Holds(op)

LEMMA CallAborts ==
  ASSUME NEW c \in Callers, NEW op \in Ops
  PROVE  Live => AbortEnds(c, op)
<1> DEFINE At == Aborting(c, op) /\ Holds(op)
<1>1. NandInv /\ At /\ StartStep(c) => (~Holds(op))'
  BY CallersDiffer DEF Aborting, StartStep, CreateTask, UnmadeAborts, UnmadeReports, StartAt, AbortWriter, Holds,
       Writer!Held, Writer!Release, Writer!Free
<1>2. NandInv /\ At /\ [NandNext]_nandVars => At' \/ (~Holds(op))'
  <2> SUFFICES ASSUME NandInv, At, [NandNext]_nandVars, Holds(op)' PROVE start'[c] = start[c]
    BY DEF Aborting
  <2>1. start \in StartRecords /\ ~StartStep(c) /\ ~Begin(c)
    BY <1>1, ShapeParts DEF NandInv, Begin, StartAt, Aborting
  <2>2. ASSUME NEW d \in Callers, Begin(d) \/ StartStep(d) PROVE start'[c] = start[c]
    BY <2>1, <2>2 DEF Begin, StartStep, CreateTask, UnmadeAborts, UnmadeReports, Starts, Returns, StartRecords
  <2>3. ASSUME NEW other \in Ops, TaskStep(other) PROVE start' = start
    BY <2>3 DEF TaskStep, TaskPrepares, TaskStreams, TaskFails, TaskAborts, TaskReports, TaskFrees
  <2>4. CASE ScanPublishes \/ ScanEnds \/ OtherClaims \/ OtherGoesOn \/ UNCHANGED nandVars
    BY <2>4 DEF ScanPublishes, ScanEnds, OtherClaims, OtherGoesOn, nandVars
  <2>5. CASE ScreenStep
    <3>1. CASE start[Screen].at \in {"refused", "started"} /\ Returns(Screen, "idle")
      <4>1. c # Screen
        BY <3>1 DEF Aborting
      <4> QED
        BY <2>1, <3>1, <4>1 DEF Returns, StartRecords
    <3> QED
      BY <2>2, <2>5, <3>1, CallersDiffer DEF ScreenStep
  <2>6. ~NandReset
    BY CallersDiffer DEF NandReset, Writer!Reset, Writer!Free, Holds, Writer!Held
  <2> QED
    BY <2>2, <2>3, <2>4, <2>5, <2>6, CallersDiffer DEF NandNext, NandStep
<1>3. NandInv /\ At /\ <<StartStep(c)>>_nandVars => (~Holds(op))'
  BY <1>1
<1>4. NandReady /\ At => ENABLED <<StartStep(c)>>_nandVars
  BY DEF NandReady, CallReady, Aborting
<1>5. NandFairness => CallRuns(c)
  BY DEF NandFairness
<1> QED
  BY <1>2, <1>3, <1>4, <1>5, PTL DEF Live, CallRuns, AbortEnds

\* Every NAND update gives the flash writer back, or commits: when the NAND is
\* free again, only the call that could not create its task still has to.
THEOREM NandWriterComesBack ==
  NandSpec /\ []NandFairness /\ []NandReady => NandWriterReturns
<1>1. ASSUME NEW op \in Ops, []Live PROVE Holds(op) ~> ~Holds(op)
  <2>1. NandInv /\ Holds(op) => nandBusy \/ \E c \in Callers : Aborting(c, op)
    BY CallersDiffer DEF NandInv, Returned, OneUser, Holds, Writer!Held, Aborting, StartAt, Alive, TaskStages
  <2>2. (\E c \in Callers : Aborting(c, op)) => <>~Holds(op)
    <3>1. ASSUME NEW c \in Callers PROVE Aborting(c, op) => <>~Holds(op)
      <4>1. Live => AbortEnds(c, op)
        BY CallAborts
      <4> QED
        BY <1>1, <4>1, PTL DEF AbortEnds
    <3> QED
      BY <3>1
  <2>3. []Live => NandBusyEnds
    BY UsersFreeNand
  <2> QED
    BY <1>1, <2>1, <2>2, <2>3, PTL DEF Live, NandBusyEnds
<1>2. []Live => NandWriterReturns
  BY <1>1 DEF NandWriterReturns
<1> QED
  BY <1>2, LiveIs, PTL

----------------------------------------------------------------------------
(* Refinement: the writer moves only as UpdateWriter says it may.          *)

WriterStep == Writer!Next \/ UNCHANGED writer

LEMMA CallMovesWriter ==
  ASSUME NandInv, NEW c \in Callers, Begin(c) \/ StartStep(c)
  PROVE  WriterStep
<1>1. CASE Begin(c)
  BY <1>1 DEF Begin, Writer!Next, Writer!Phases, WriterStep
<1>2. CASE UnmadeAborts(c)
  <2>1. start[c].op \in Ops
    BY <1>2 DEF UnmadeAborts, StartAt, NandInv, Shape
  <2> QED
    BY <1>2, <2>1 DEF UnmadeAborts, AbortWriter, Writer!Next, WriterStep
<1>3. CASE CreateTask(c) \/ UnmadeReports(c)
  BY <1>3 DEF CreateTask, UnmadeReports, WriterStep
<1> QED
  BY <1>1, <1>2, <1>3 DEF StartStep

LEMMA TaskMovesWriter ==
  ASSUME NEW op \in Ops, TaskStep(op)
  PROVE  WriterStep
<1>1. CASE TaskPrepares(op)
  BY <1>1 DEF TaskPrepares, Writer!Next, Writer!Phases, WriterStep
<1>2. CASE TaskStreams(op)
  BY <1>2 DEF TaskStreams, Onward, Writer!Next, Writer!Phases, WriterStep
<1>3. CASE TaskAborts(op)
  BY <1>3 DEF TaskAborts, AbortWriter, Writer!Next, WriterStep
<1>4. CASE TaskFails(op) \/ TaskReports(op) \/ TaskFrees(op)
  BY <1>4 DEF TaskFails, TaskReports, TaskFrees, WriterStep
<1> QED
  BY <1>1, <1>2, <1>3, <1>4 DEF TaskStep

\* The NAND source uses the flash writer only as UpdateWriter allows: it claims
\* it when it is free, reports of the operation that holds it, and gives it
\* back.  SystemUpdate is proved to implement that same specification.
THEOREM NandUsesWriter == NandSpec => Writer!Spec
<1>1. NandInit => Writer!Init
  BY DEF NandInit
<1>2. NandInv /\ [NandNext]_nandVars => [Writer!Next]_(Writer!writerVars)
  <2> SUFFICES ASSUME NandInv, [NandNext]_nandVars PROVE WriterStep
    BY DEF WriterStep, writer, Writer!writerVars
  <2>1. ASSUME NEW c \in Callers, Begin(c) \/ StartStep(c) PROVE WriterStep
    BY <2>1, CallMovesWriter
  <2>2. ASSUME NEW op \in Ops, TaskStep(op) PROVE WriterStep
    BY <2>2, TaskMovesWriter
  <2>3. CASE OtherClaims
    BY <2>3 DEF OtherClaims, Writer!Next, Writer!Phases, WriterStep
  <2>4. CASE OtherGoesOn
    BY <2>4 DEF OtherGoesOn, Onward, Writer!Next, Writer!Phases, WriterStep
  <2>5. CASE ScanPublishes \/ ScanEnds \/ UNCHANGED nandVars
    BY <2>5 DEF ScanPublishes, ScanEnds, nandVars, writer, WriterStep
  <2>6. CASE ScreenStep
    <3>1. Begin(Screen) \/ UNCHANGED writer
      BY <2>6 DEF ScreenStep, writer
    <3> QED
      BY <2>1, <3>1, CallersDiffer DEF WriterStep
  <2>7. CASE NandReset
    BY <2>7 DEF NandReset, Writer!Next, WriterStep
  <2> QED
    BY <2>1, <2>2, <2>3, <2>4, <2>5, <2>6, <2>7, CallersDiffer DEF NandNext, NandStep
<1> QED
  BY <1>1, <1>2, NandInvariance, PTL DEF NandSpec, Writer!Spec
=============================================================================
