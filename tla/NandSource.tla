----------------------------- MODULE NandSource -----------------------------
(***************************************************************************)
(* The NAND update source (firmware/recovery/main/factory_nand_update.c):  *)
(* catalog scans and updates from the mounted filesystem, each in a task   *)
(* of its own, one at a time under s_nand_busy, over the shared flash      *)
(* writer as UpdateWriter describes it.  The screen and an RPC start       *)
(* updates; the screen alone asks for scans.  A bundle is a number that    *)
(* never falls in the order of the manifest paths.  The file service may   *)
(* change the filesystem at any time, so that a scan finds any manifests.  *)
(***************************************************************************)
EXTENDS Naturals, Sequences, FiniteSets, Functions

CONSTANTS
  Nand, Other,     \* the sources of the writer: NAND, and the rest
  NoOwner, Ops, NoOp,
  Bundles, Root,   \* bundles on the filesystem; the one in the catalog directory itself
  MaxCandidates,   \* FACTORY_NAND_UPDATE_MAX_CANDIDATES
  MaxEntries,      \* NAND_UPDATE_MAX_DIRECTORY_ENTRIES
  Screen, Rpc,     \* the callers of start_nand
  MaxFaults        \* bound: tasks that cannot be created

ASSUME NandAssumption ==
  /\ Nand # Other /\ NoOwner \notin {Nand, Other} /\ NoOp \notin Ops
  /\ Screen # Rpc /\ Bundles \subseteq Nat /\ Root \in Bundles
  /\ MaxCandidates \in Nat \ {0} /\ MaxEntries \in Nat /\ MaxFaults \in Nat

VARIABLES
  holder, record, claimed,  \* the writer, see UpdateWriter
  nandBusy,  \* s_nand_busy
  nand,      \* s_nand_snapshot: scan and update state, catalog
  changed,   \* its generation is not the one the screen saw last
  scanning,  \* the scan task exists
  start,     \* where each caller stands, and the operation it minted
  task,      \* where the update task of each operation stands
  faults

Writer == INSTANCE UpdateWriter WITH Sources <- {Nand, Other}
writer == <<holder, record, claimed>>
nandVars == <<writer, nandBusy, nand, changed, scanning, start, task, faults>>

ScanStates == {"idle", "running", "ready", "failed"}
UpdateStates == {"idle", "starting", "running", "failed"}
StartStages == {"idle", "create", "abort", "report", "refused", "started"}
TaskStages == {"none", "prepare", "stream", "abort", "report", "free"}

Callers == {Screen, Rpc}

NoSnapshot == [scan |-> "idle", update |-> "idle", list |-> << >>]
NoStart == [c \in Callers |-> [at |-> "idle", op |-> NoOp]]

NandInit ==
  /\ Writer!Init
  /\ nandBusy = FALSE /\ nand = NoSnapshot /\ changed = FALSE /\ scanning = FALSE
  /\ start = NoStart /\ task = [op \in Ops |-> "none"] /\ faults = 0

StartAt(c, stage) == start[c].at = stage
Starts(c, stage) == start' = [start EXCEPT ![c].at = stage]
\* The call returns.  What the screen shows next depends on it, an RPC is over.
Returns(c, outcome) ==
  start' = [start EXCEPT ![c] = [at |-> IF c = Screen THEN outcome ELSE "idle", op |-> NoOp]]
TaskAt(op, stage) == task[op] = stage
Tasks(op, stage) == task' = [task EXCEPT ![op] = stage]

\* update_source_status.  Every change of the snapshot counts a generation.
Publish(state) == nand' = [nand EXCEPT !.update = state] /\ changed' = TRUE

\* A source goes on with its update.  What it streams looks alike from here,
\* and stays part of "prepared".
Onward(s, op) ==
  \E step \in {<<"idle", "prepared">>, <<"prepared", "committing">>, <<"committing", "committed">>} :
    record.phase = step[1] /\ Writer!Report(s, op, step[2])

Fault == faults < MaxFaults /\ faults' = faults + 1

\* nand_operation_claim, and a test that is always passed.
NandEverFree == TRUE
NandFree == ~nandBusy

----------------------------------------------------------------------------
(* Scanning.                                                               *)

\* A snapshot as a scan leaves it; and one that keeps the catalog before.
ScannedOver(state, list) == [nand EXCEPT !.scan = state, !.update = "idle"]
Scanned(state, list) == [scan |-> state, update |-> "idle", list |-> list]

\* factory_nand_update_request_scan.  It runs under the display lock, so that
\* nobody reads the snapshot between its steps.
RequestScan ==
  \/ /\ NandFree
     /\ \/ /\ nandBusy' = TRUE /\ scanning' = TRUE /\ UNCHANGED faults
           /\ nand' = Scanned("running", << >>)
        \/ /\ Fault /\ UNCHANGED <<nandBusy, scanning>>
           /\ nand' = Scanned("failed", << >>)
     /\ changed' = TRUE
  \/ ~NandFree /\ UNCHANGED <<nandBusy, scanning, nand, changed, faults>>

\* catalog_try_add, one manifest after the other: what finds no slot is counted
\* and dropped.  And a version that stores it behind the last slot.
SlotsOverrun(manifests) == manifests
SlotsFilled(manifests) ==
  IF Len(manifests) > MaxCandidates THEN SubSeq(manifests, 1, MaxCandidates) ELSE manifests

\* qsort, by path.
InOrder(list) == \A i, j \in DOMAIN list : i < j => list[i] <= list[j]
Arrangements(list) == {[i \in DOMAIN list |-> list[p[i]]] : p \in Bijection(DOMAIN list, DOMAIN list)}
Sorted(list) == {arranged \in Arrangements(list) : InOrder(arranged)}

\* Sequences of bundles up to a length, and those a snapshot can show.
Manifests(Of, max) == UNION {[1..n -> Of] : n \in 0..max}
Catalogs == {list \in Manifests(Bundles, MaxCandidates) : InOrder(list)}

\* scan_catalog: the manifest of the catalog directory itself, then those of its
\* entries in the order of the directory, whatever that is.  A directory that
\* cannot be opened fails with what was found before.
ScanCatalog ==
  \E root \in {<< >>, <<Root>>} :
    \/ nand' = Scanned("failed", SlotsFilled(root))
    \/ \E entries \in Manifests(Bundles, MaxEntries) :
         \E list \in Sorted(SlotsFilled(root \o entries)) : nand' = Scanned("ready", list)

\* catalog_scan_task: a mount or a directory that fails, no directory, or what
\* scan_catalog found; then the claim is given back.
ScanPublishes ==
  /\ scanning /\ nand.scan = "running"
  /\ \/ \E state \in {"failed", "ready"} : nand' = Scanned(state, << >>)
     \/ ScanCatalog
  /\ changed' = TRUE
  /\ UNCHANGED <<writer, nandBusy, scanning, start, task, faults>>

ScanEnds ==
  /\ scanning /\ nand.scan # "running"
  /\ scanning' = FALSE /\ nandBusy' = FALSE
  /\ UNCHANGED <<writer, nand, changed, start, task, faults>>

----------------------------------------------------------------------------
(* factory_system_update_start_nand                                        *)

\* nand_operation_claim, the reservation and the new source status; on a refusal
\* nothing is kept.
Begin(c) ==
  /\ StartAt(c, "idle")
  /\ \/ /\ NandFree /\ nandBusy' = TRUE
        /\ \E op \in Ops :
             /\ Writer!Claim(Nand, op, "idle")
             /\ start' = [start EXCEPT ![c] = [at |-> "create", op |-> op]]
        /\ Publish("starting")
     \/ /\ ~NandFree \/ holder # Writer!Free
        /\ Returns(c, "refused") /\ UNCHANGED <<writer, nandBusy, nand, changed>>
  /\ UNCHANGED <<scanning, task, faults>>

\* What follows when xTaskCreate fails, and a version that keeps the writer.
UnmadeKeepsWriter == "report"
Unmade == "abort"

\* The claim of the NAND is given back first, the writer and the status after.
CreateTask(c) ==
  /\ StartAt(c, "create")
  /\ \/ Tasks(start[c].op, "prepare") /\ Returns(c, "started") /\ UNCHANGED <<nandBusy, faults>>
     \/ Fault /\ nandBusy' = FALSE /\ Starts(c, Unmade) /\ UNCHANGED task
  /\ UNCHANGED <<writer, nand, changed, scanning>>

\* abort_update_owned
AbortWriter(op) ==
  IF Writer!Held(Nand, op) THEN Writer!Release(Nand, op, "aborted") ELSE UNCHANGED writer

UnmadeAborts(c) ==
  /\ StartAt(c, "abort")
  /\ AbortWriter(start[c].op) /\ Starts(c, "report")
  /\ UNCHANGED <<nandBusy, nand, changed, scanning, task, faults>>

UnmadeReports(c) ==
  /\ StartAt(c, "report")
  /\ Publish("failed") /\ Returns(c, "refused")
  /\ UNCHANGED <<writer, nandBusy, scanning, task, faults>>

StartStep(c) == CreateTask(c) \/ UnmadeAborts(c) \/ UnmadeReports(c)

----------------------------------------------------------------------------
(* nand_update_task                                                        *)

\* Mount, read_manifest and source_prepare, which gives the writer back when it
\* refuses the manifest.
TaskPrepares(op) ==
  /\ TaskAt(op, "prepare")
  /\ \/ Writer!Report(Nand, op, "prepared") /\ Publish("running") /\ Tasks(op, "stream")
     \/ Writer!Release(Nand, op, "refused") /\ Tasks(op, "abort") /\ UNCHANGED <<nand, changed>>
  /\ UNCHANGED <<nandBusy, scanning, start, faults>>

\* read_component and the commit.
TaskStreams(op) ==
  /\ TaskAt(op, "stream")
  /\ Onward(Nand, op)
  /\ Tasks(op, IF record.phase = "committing" THEN "free" ELSE "stream")
  /\ UNCHANGED <<nandBusy, nand, changed, scanning, start, faults>>

TaskFails(op) ==
  /\ task[op] \in {"prepare", "stream"}
  /\ record.phase # "committed" /\ Tasks(op, "abort")
  /\ UNCHANGED <<writer, nandBusy, nand, changed, scanning, start, faults>>

\* The end of the task, after an error and after a commit.
TaskAborts(op) ==
  /\ TaskAt(op, "abort")
  /\ AbortWriter(op) /\ Tasks(op, "report")
  /\ UNCHANGED <<nandBusy, nand, changed, scanning, start, faults>>

\* What follows a failure, and a version that returns at once.
FailureReturns == "none"
FailureEnds == "free"

TaskReports(op) ==
  /\ TaskAt(op, "report")
  /\ Publish("failed") /\ Tasks(op, FailureEnds)
  /\ UNCHANGED <<writer, nandBusy, scanning, start, faults>>

TaskFrees(op) ==
  /\ TaskAt(op, "free")
  /\ nandBusy' = FALSE /\ Tasks(op, "none")
  /\ UNCHANGED <<writer, nand, changed, scanning, start, faults>>

TaskStep(op) ==
  \/ TaskPrepares(op) \/ TaskStreams(op) \/ TaskFails(op)
  \/ TaskAborts(op) \/ TaskReports(op) \/ TaskFrees(op)

----------------------------------------------------------------------------
\* HTTP and ESP-Iris, at any time.
OtherClaims ==
  /\ \E op \in Ops, phase \in {"idle", "prepared"} : Writer!Claim(Other, op, phase)
  /\ UNCHANGED <<nandBusy, nand, changed, scanning, start, task, faults>>

OtherGoesOn ==
  /\ \E op \in Ops :
       \/ Onward(Other, op)
       \/ Writer!Release(Other, op, "aborted")
  /\ UNCHANGED <<nandBusy, nand, changed, scanning, start, task, faults>>

NandReset ==
  /\ Writer!Reset
  /\ nandBusy' = FALSE /\ nand' = NoSnapshot /\ changed' = FALSE /\ scanning' = FALSE
  /\ start' = NoStart /\ task' = [op \in Ops |-> "none"] /\ UNCHANGED faults

\* What goes on without the screen.
NandStep ==
  \/ ScanPublishes \/ ScanEnds
  \/ Begin(Rpc) \/ \E c \in Callers : StartStep(c)
  \/ \E op \in Ops : TaskStep(op)
  \/ OtherClaims \/ OtherGoesOn

\* The screen, as far as the source can tell: one press at a time, and the poll
\* that copies the snapshot.
ScreenStep ==
  \/ StartAt(Screen, "idle") /\ RequestScan /\ UNCHANGED <<writer, start, task>>
  \/ Begin(Screen)
  \/ /\ start[Screen].at \in {"refused", "started"} /\ Returns(Screen, "idle")
     /\ UNCHANGED <<writer, nandBusy, nand, changed, scanning, task, faults>>
  \/ changed' = FALSE /\ UNCHANGED <<writer, nandBusy, nand, scanning, start, task, faults>>

NandNext == NandStep \/ ScreenStep \/ NandReset

\* A call goes on until it returns, a task until it ends.
ScanRuns == WF_nandVars(ScanPublishes \/ ScanEnds)
CallRuns(c) == WF_nandVars(StartStep(c))
TaskRuns(op) == WF_nandVars(TaskStep(op))

NandFairness ==
  /\ ScanRuns
  /\ \A c \in Callers : CallRuns(c)
  /\ \A op \in Ops : TaskRuns(op)

NandSpec == NandInit /\ [][NandNext]_nandVars
NandFairSpec == NandSpec /\ NandFairness

----------------------------------------------------------------------------
\* Types; the catalog is bounded and in the order of its paths.  A scan that
\* failed can leave the bundle of the directory itself in it.
NandTypeOK ==
  /\ nandBusy \in BOOLEAN /\ changed \in BOOLEAN /\ scanning \in BOOLEAN
  /\ nand.scan \in ScanStates /\ nand.update \in UpdateStates
  /\ nand.list \in Catalogs
  /\ nand.scan \in {"idle", "running"} => nand.list = << >>
  /\ nand.scan = "failed" => nand.list \in {<< >>, <<Root>>}
  /\ start \in [Callers -> [at : StartStages, op : Ops \cup {NoOp}]]
  /\ task \in [Ops -> TaskStages]
  /\ faults \in 0..MaxFaults

Alive == TaskStages \ {"none"}
NandUsers ==
  (IF scanning THEN {"scan"} ELSE {})
    \cup {c \in Callers : StartAt(c, "create")}
    \cup {op \in Ops : task[op] \in Alive}

\* s_nand, mounted and torn down without a lock, belongs to one task at a
\* time: a scan and an update, or two of one kind, never meet.
NandExclusive == (\A a, b \in NandUsers : a = b) /\ (nandBusy <=> NandUsers # {})

\* Whatever fails in the NAND source, the writer does not stay claimed by an
\* update that no task and no caller will end.
NandGivesBack ==
  holder.owner = Nand =>
    \/ task[holder.op] \in Alive \/ record.phase = "committed"
    \/ \E c \in Callers :
         start[c].op = holder.op /\ start[c].at \in {"create", "abort"}

\* Every scan and every NAND update gives the NAND back.
NandBusyEnds == nandBusy ~> ~nandBusy

\* The flash writer too comes back from every NAND update, unless a commit keeps
\* it until the restart.
Holds(op) == Writer!Held(Nand, op) /\ record.phase # "committed"
NandWriterReturns == \A op \in Ops : Holds(op) ~> ~Holds(op)

\* Wherever the scan, a call or a task stands, it can go on: nothing waits for
\* what another actor would have to do.
CallReady(c) ==
  start[c].at \in {"create", "abort", "report"} => ENABLED <<StartStep(c)>>_nandVars
TaskReady(op) == task[op] \in Alive => ENABLED <<TaskStep(op)>>_nandVars
NandReady ==
  /\ scanning => ENABLED <<ScanPublishes \/ ScanEnds>>_nandVars
  /\ \A c \in Callers : CallReady(c)
  /\ \A op \in Ops : TaskReady(op)
=============================================================================
