----------------------- MODULE RecoveryScreensProofs -----------------------
(***************************************************************************)
(* The screens implement the NAND source as NandSource describes it alone, *)
(* so that every theorem about it holds for them; and what they show keeps *)
(* its type, and names a bundle, for any catalog.  All of that holds with  *)
(* the application OTA beside them, too.  The update page, which has no    *)
(* button, is left by itself.                                              *)
(***************************************************************************)
EXTENDS ScreensWithOta, NandSourceProofs, FiniteSetTheorems

----------------------------------------------------------------------------
(* Every step of the screens is one of the source, or none.                *)

LEMMA PressIsNand == Press => [NandNext]_nandVars
<1> SUFFICES ASSUME Press PROVE [NandNext]_nandVars
  OBVIOUS
<1>1. CASE OpenList
  BY <1>1 DEF OpenList, Pressed, PressedUnlocked, StartAt, ScreenStep, NandNext
<1>2. CASE Install
  BY <1>2 DEF Install, ScreenStep, NandNext
<1>3. CASE CancelConfirm \/ Leave \/ Home
  BY <1>3 DEF CancelConfirm, Leave, Home
<1>4. ASSUME NEW i \in 1..MaxCandidates, Select(i) PROVE [NandNext]_nandVars
  BY <1>4 DEF Select
<1> QED
  BY <1>1, <1>2, <1>3, <1>4 DEF Press

LEMMA StepIsNand == [Next]_screenVars => [NandNext]_nandVars
<1> SUFFICES ASSUME [Next]_screenVars PROVE [NandNext]_nandVars
  OBVIOUS
<1>1. CASE PollRest
  BY <1>1 DEF PollRest
<1>2. CASE PollCopy
  BY <1>2 DEF PollCopy, TakeSnapshot, ScreenStep, NandNext
<1>3. CASE PollMisses
  BY <1>3 DEF PollMisses
<1>4. CASE Press
  BY <1>4, PressIsNand
<1>5. CASE InstallReturns
  BY <1>5 DEF InstallReturns, ScreenStep, NandNext
<1>6. CASE NandStep
  BY <1>6 DEF NandNext
<1>7. CASE Restart
  BY <1>7 DEF Restart, Reset, NandNext
<1>8. CASE UNCHANGED screenVars
  BY <1>8 DEF screenVars
<1> QED
  BY <1>1, <1>2, <1>3, <1>4, <1>5, <1>6, <1>7, <1>8 DEF Next, Elsewhere

\* The screens implement NandSource: whatever they show and whenever they poll,
\* the tasks of the source and the writer see one press at a time.
THEOREM ScreensImplementNand == Spec => NandSpec
<1>1. Init => NandInit
  BY DEF Init
<1>2. [Next]_screenVars => [NandNext]_nandVars
  BY StepIsNand
<1> QED
  BY <1>1, <1>2, PTL DEF Spec, NandSpec

----------------------------------------------------------------------------
(* The inductive invariant of the screens, over that of the source.        *)

ScreensInv == NandInv /\ ScreenTypes /\ ConfirmNamesBundle

LEMMA NandParts ==
  ASSUME NandInv
  PROVE  /\ nand.list \in Catalogs /\ nand.update \in UpdateStates
         /\ record.phase \in Writer!Phases /\ start \in StartRecords
BY DEF NandInv, Shape, NandTypeOK, Records, StartRecords

LEMMA KindIs == ASSUME NEW phase \in Writer!Phases PROVE Kind(phase) \in Kinds
BY DEF Kind, Kinds, Writer!Phases

LEMMA CandidateIs == ASSUME view \in Catalogs, NEW i \in DOMAIN view PROVE CandidateAt(i) \in Bundles
BY DEF CandidateAt, Catalogs, Manifests

\* The selection follows the confirm page, and the screen holds no call while
\* it polls.
LEMMA KeepChosenDoes ==
  ASSUME ScreenTypes, ConfirmNamesBundle, KeepChosen, page' = "nand_confirm" => page = "nand_confirm"
  PROVE  chosen' \in Bundles \cup {NoBundle} /\ ConfirmNamesBundle'
BY DEF ScreenTypes, ConfirmNamesBundle, KeepChosen

LEMMA PollCopyKeeps == ScreensInv /\ PollCopy => ScreenTypes' /\ ConfirmNamesBundle'
<1> SUFFICES ASSUME ScreensInv, PollCopy PROVE ScreenTypes' /\ ConfirmNamesBundle'
  OBVIOUS
<1>1. /\ nand.list \in Catalogs /\ nand.update \in UpdateStates /\ ScreenTypes /\ ConfirmNamesBundle
  BY NandParts DEF ScreensInv
<1>2. /\ start[Screen].at = "idle" /\ start' = start /\ phaseSeen' = phaseSeen
      /\ nandSeen' = nand.update /\ view' = nand.list /\ KeepChosen
      /\ poll' \in {"sleep", "rest"}
  BY DEF PollCopy, TakeSnapshot
<1>3. rows' \in Catalogs
  BY <1>1, EmptyCatalog DEF PollCopy, TakeSnapshot, RowsShown, ScreenTypes
<1>4. page' \in {"update", "result", page}
  BY DEF PollCopy
<1>5. chosen' \in Bundles \cup {NoBundle} /\ ConfirmNamesBundle'
  BY <1>1, <1>2, <1>4, KeepChosenDoes
<1> QED
  BY <1>1, <1>2, <1>3, <1>4, <1>5 DEF ScreenTypes, Pages

LEMMA PollRestKeeps == ScreensInv /\ PollRest => ScreenTypes' /\ ConfirmNamesBundle'
<1> SUFFICES ASSUME ScreensInv, PollRest PROVE ScreenTypes' /\ ConfirmNamesBundle'
  OBVIOUS
<1>1. ScreenTypes /\ ConfirmNamesBundle /\ Kind(record.phase) \in Kinds
  BY NandParts, KindIs DEF ScreensInv
<1>2. /\ view' = view /\ rows' = rows /\ nandSeen' = nandSeen /\ poll' = "sleep"
      /\ start' = start /\ KeepChosen
  BY DEF PollRest, nandVars
<1>3. page' \in {"update", "result", page} /\ phaseSeen' \in Kinds
  BY <1>1 DEF PollRest, PhaseShown, ScreenTypes
<1>4. chosen' \in Bundles \cup {NoBundle} /\ ConfirmNamesBundle'
  BY <1>1, <1>2, <1>3, KeepChosenDoes
<1> QED
  BY <1>1, <1>2, <1>3, <1>4 DEF ScreenTypes, Pages

\* Presses leave the poll asleep; a call of the screen begins and ends with one.
LEMMA PressKeeps == ScreensInv /\ (Press \/ InstallReturns) => ScreenTypes' /\ ConfirmNamesBundle'
<1> SUFFICES ASSUME ScreensInv, Press \/ InstallReturns PROVE ScreenTypes' /\ ConfirmNamesBundle'
  OBVIOUS
<1>1. ScreenTypes /\ ConfirmNamesBundle
  BY DEF ScreensInv
<1>2. CASE OpenList
  <2>1. /\ poll' = poll /\ poll = "sleep" /\ page' = "nand_list" /\ view' = view /\ rows' = rows
        /\ chosen' = chosen /\ nandSeen' = nandSeen /\ phaseSeen' = phaseSeen
    BY <1>2 DEF OpenList, Pressed, PressedUnlocked, Show
  <2> QED
    BY <1>1, <2>1 DEF ScreenTypes, ConfirmNamesBundle, Pages
<1>3. CASE CancelConfirm \/ Leave
  <2>1. /\ poll' = poll /\ poll = "sleep" /\ page' \in {"nand_list", "home"} /\ view' = view
        /\ rows' = rows /\ KeepChosen /\ nandSeen' = nandSeen /\ phaseSeen' = phaseSeen
    BY <1>3 DEF CancelConfirm, Leave, Pressed, PressedUnlocked, Show
  <2> QED
    BY <1>1, <2>1, KeepChosenDoes DEF ScreenTypes, Pages
<1>4. CASE Install
  BY <1>1, <1>4 DEF Install, Pressed, screen, ScreenTypes, ConfirmNamesBundle
<1>5. CASE Home
  <2>1. /\ poll' = poll /\ poll = "sleep" /\ page' = "home" /\ view' = view /\ rows' = rows
        /\ chosen' = chosen /\ nandSeen' = nandSeen /\ phaseSeen' = Kind(record.phase)
    BY <1>5 DEF Home, Pressed, Show
  <2>2. Kind(record.phase) \in Kinds
    BY NandParts, KindIs DEF ScreensInv
  <2> QED
    BY <1>1, <2>1, <2>2 DEF ScreenTypes, ConfirmNamesBundle, Pages
<1>6. ASSUME NEW i \in 1..MaxCandidates, Select(i) PROVE ScreenTypes' /\ ConfirmNamesBundle'
  <2>1. /\ poll' = poll /\ poll = "sleep" /\ page' = "nand_confirm" /\ view' = view
        /\ rows' = rows /\ chosen' = CandidateAt(i) /\ i \in DOMAIN view
        /\ nandSeen' = nandSeen /\ phaseSeen' = phaseSeen
    BY <1>6 DEF Select, Pressed, Show, RowLives
  <2>2. chosen' \in Bundles
    BY <1>1, <2>1, CandidateIs DEF ScreenTypes
  <2> QED
    BY <1>1, <2>1, <2>2, ScreenAssumption DEF ScreenTypes, ConfirmNamesBundle, Pages
<1>7. CASE InstallReturns
  <2>1. /\ poll' = poll /\ page' \in {"result", "update"} /\ view' = view /\ rows' = rows
        /\ KeepChosen /\ nandSeen' = nandSeen /\ phaseSeen' = phaseSeen
        /\ start[Screen].at # "idle"
    BY <1>7 DEF InstallReturns, Show
  <2> QED
    BY <1>1, <2>1, KeepChosenDoes DEF ScreenTypes, Pages
<1> QED
  BY <1>2, <1>3, <1>4, <1>5, <1>6, <1>7 DEF Press

\* What goes on without the screen begins no call of the screen.
LEMMA NandStepKeeps ==
  ScreensInv /\ NandStep /\ UNCHANGED <<screen, poll>> => ScreenTypes' /\ ConfirmNamesBundle'
<1> SUFFICES ASSUME ScreensInv, NandStep, UNCHANGED <<screen, poll>>
             PROVE  ScreenTypes' /\ ConfirmNamesBundle'
  OBVIOUS
<1>1. ScreenTypes /\ ConfirmNamesBundle /\ start \in StartRecords /\ Screen # Rpc /\ Screen \in Callers
  BY NandParts, NandAssumption DEF ScreensInv, Callers
<1>2. start[Screen].at = "idle" => start'[Screen] = start[Screen]
  <2> SUFFICES ASSUME start[Screen].at = "idle" PROVE start'[Screen] = start[Screen]
    OBVIOUS
  <2>1. CASE start' = start
    BY <2>1
  <2>2. CASE Begin(Rpc)
    BY <1>1, <2>2 DEF Begin, Returns, StartRecords, StartAt
  <2>3. ASSUME NEW c \in Callers, StartStep(c) PROVE start'[Screen] = start[Screen]
    <3>1. c # Screen
      BY <2>3 DEF StartStep, CreateTask, UnmadeAborts, UnmadeReports, StartAt
    <3>2. (\E stage \in StartStages : Starts(c, stage)) \/ (\E outcome : Returns(c, outcome))
      BY <2>3 DEF StartStep, CreateTask, UnmadeAborts, UnmadeReports, Unmade, StartStages
    <3> QED
      BY <1>1, <3>1, <3>2 DEF Starts, Returns, StartRecords
  <2>4. ASSUME NEW op \in Ops, TaskStep(op) PROVE start' = start
    BY <2>4 DEF TaskStep, TaskPrepares, TaskStreams, TaskFails, TaskAborts, TaskReports, TaskFrees
  <2>5. CASE ScanPublishes \/ ScanEnds \/ OtherClaims \/ OtherGoesOn
    BY <2>5 DEF ScanPublishes, ScanEnds, OtherClaims, OtherGoesOn
  <2> QED
    BY <2>1, <2>2, <2>3, <2>4, <2>5 DEF NandStep
<1> QED
  BY <1>1, <1>2 DEF screen, ScreenTypes, ConfirmNamesBundle

LEMMA ScreensInit == Init => ScreensInv
<1> SUFFICES ASSUME Init PROVE ScreensInv
  OBVIOUS
<1>1. NandInv
  BY InvInit DEF Init
<1>2. start[Screen].at = "idle"
  BY NandAssumption DEF Init, NandInit, NoStart, Callers
<1> QED
  BY <1>1, <1>2, EmptyCatalog
     DEF Init, ScreensInv, ScreenTypes, ConfirmNamesBundle, Pages, UpdateStates, Kinds

LEMMA ResetKeeps == Reset => ScreenTypes' /\ ConfirmNamesBundle'
<1> SUFFICES ASSUME Reset PROVE ScreenTypes' /\ ConfirmNamesBundle'
  OBVIOUS
<1>1. start'[Screen].at = "idle"
  BY NandAssumption DEF Reset, NandReset, NoStart, Callers
<1> QED
  BY <1>1, EmptyCatalog DEF Reset, ScreenTypes, ConfirmNamesBundle, Pages, UpdateStates, Kinds

LEMMA ScreensNext == ScreensInv /\ [Next]_screenVars => ScreensInv'
<1> SUFFICES ASSUME ScreensInv, [Next]_screenVars PROVE ScreensInv'
  OBVIOUS
<1>1. NandInv'
  BY StepIsNand, InvNext DEF ScreensInv
<1>2. CASE PollRest \/ PollCopy
  BY <1>1, <1>2, PollRestKeeps, PollCopyKeeps DEF ScreensInv
<1>3. CASE PollMisses
  BY <1>1, <1>3 DEF PollMisses, ScreensInv, ScreenTypes, ConfirmNamesBundle, nandVars, screen
<1>4. CASE Press \/ InstallReturns
  BY <1>1, <1>4, PressKeeps DEF ScreensInv
<1>5. CASE NandStep /\ UNCHANGED <<screen, poll>>
  BY <1>1, <1>5, NandStepKeeps DEF ScreensInv
<1>6. CASE Restart
  BY <1>1, <1>6, ResetKeeps DEF Restart, ScreensInv
<1>7. CASE UNCHANGED screenVars
  BY <1>1, <1>7 DEF screenVars, screen, nandVars, ScreensInv, ScreenTypes, ConfirmNamesBundle
<1> QED
  BY <1>2, <1>3, <1>4, <1>5, <1>6, <1>7 DEF Next, Elsewhere

\* What the screens show stays in step with the source under every poll and press.
THEOREM ScreensInvariance == Spec => []ScreensInv
<1>1. Init => ScreensInv
  BY ScreensInit
<1>2. ScreensInv /\ [Next]_screenVars => ScreensInv'
  BY ScreensNext
<1> QED
  BY <1>1, <1>2, PTL DEF Spec

\* Screens and source keep their types, and poll and presses take turns.
THEOREM ScreensTypeCorrect == Spec => []TypeOK
<1>1. ScreensInv => TypeOK
  BY DEF ScreensInv, TypeOK, NandInv, Shape
<1> QED
  BY <1>1, ScreensInvariance, PTL

\* However the catalog changes under the rows of the list, the confirm page
\* names a bundle.
THEOREM ConfirmPageNamesBundle == Spec => []ConfirmNamesBundle
<1>1. ScreensInv => ConfirmNamesBundle
  BY DEF ScreensInv
<1> QED
  BY <1>1, ScreensInvariance, PTL

\* The NAND and the writer are given back beside the screens as they are alone.
THEOREM ScreensReturnWriter == Spec => []NandGivesBack
BY ScreensImplementNand, NandReturnsWriter, PTL

\* Polls, presses and what the screens show never keep the NAND from being given
\* back, and the writer neither.
THEOREM ScreensFreeNand == Spec /\ []Fairness /\ []NandReady => NandBusyEnds /\ NandWriterReturns
<1>1. Fairness => NandFairness
  BY DEF Fairness
<1> QED
  BY <1>1, ScreensImplementNand, NandIsFreed, NandWriterComesBack, PTL

----------------------------------------------------------------------------
(* With the application OTA beside the System Update.                      *)

LEMMA OtaStepIsNand == [OtaNext]_allVars => [NandNext]_nandVars
<1> SUFFICES ASSUME [OtaNext]_allVars PROVE [NandNext]_nandVars
  OBVIOUS
<1>1. CASE OtaStarts \/ OtaFails \/ UNCHANGED allVars
  BY <1>1 DEF OtaStarts, OtaFails, allVars, screenVars
<1>2. CASE OtaPollRest
  BY <1>2 DEF OtaPollRest, PollRest
<1>3. CASE OtaRestart
  BY <1>3 DEF OtaRestart, Reset, NandNext
<1>4. CASE Elsewhere
  BY <1>4, StepIsNand DEF Next
<1> QED
  BY <1>1, <1>2, <1>3, <1>4 DEF OtaNext

\* An application OTA that takes the progress page, fails or restarts the device
\* is nothing to the NAND source: with it, too, the source goes the way
\* NandSource describes.
THEOREM ScreensWithOtaImplementNand == OtaSpec => NandSpec
<1>1. OtaInit => NandInit
  BY DEF OtaInit, Init
<1> QED
  BY <1>1, OtaStepIsNand, PTL DEF OtaSpec, NandSpec

LEMMA OtaShowsKeeps ==
  ASSUME ScreensInv, OtaPollRest
  PROVE  ScreenTypes' /\ ConfirmNamesBundle'
<1>1. CASE PollRest
  BY <1>1, PollRestKeeps
<1>2. CASE ~PollRest
  <2>1. /\ view' = view /\ rows' = rows /\ nandSeen' = nandSeen /\ phaseSeen' = phaseSeen
        /\ poll' = "sleep" /\ start' = start /\ KeepChosen /\ page' \in {"update", "result"}
    BY <1>2 DEF OtaPollRest, OtaShows, nandVars
  <2>2. ScreenTypes /\ ConfirmNamesBundle
    BY DEF ScreensInv
  <2>3. chosen' \in Bundles \cup {NoBundle} /\ ConfirmNamesBundle'
    BY <2>1, <2>2, KeepChosenDoes
  <2> QED
    BY <2>1, <2>2, <2>3 DEF ScreenTypes, Pages
<1> QED
  BY <1>1, <1>2

\* The screens keep their types, the confirm page names a bundle, and the NAND
\* has one user at a time and is given back, whatever the OTA shows.
THEOREM ScreensWithOtaInvariance ==
  OtaSpec => [](TypeOK /\ ConfirmNamesBundle /\ NandExclusive /\ NandGivesBack)
<1>1. OtaInit => ScreensInv
  BY ScreensInit DEF OtaInit
<1>2. ScreensInv /\ [OtaNext]_allVars => ScreensInv'
  <2> SUFFICES ASSUME ScreensInv, [OtaNext]_allVars PROVE ScreensInv'
    OBVIOUS
  <2>1. NandInv'
    BY OtaStepIsNand, InvNext DEF ScreensInv
  <2>2. CASE OtaStarts \/ OtaFails \/ UNCHANGED allVars
    BY <2>2, ScreensNext DEF OtaStarts, OtaFails, allVars
  <2>3. CASE OtaPollRest
    BY <2>1, <2>3, OtaShowsKeeps DEF ScreensInv
  <2>4. CASE OtaRestart
    BY <2>1, <2>4, ResetKeeps DEF OtaRestart, ScreensInv
  <2>5. CASE Elsewhere
    BY <2>5, ScreensNext DEF Next
  <2> QED
    BY <2>2, <2>3, <2>4, <2>5 DEF OtaNext
<1>3. ScreensInv => TypeOK /\ ConfirmNamesBundle
  BY DEF ScreensInv, TypeOK, NandInv, Shape
<1> QED
  BY <1>1, <1>2, <1>3, ScreensWithOtaImplementNand, NandIsExclusive, NandReturnsWriter, PTL DEF OtaSpec

----------------------------------------------------------------------------
(* What the published states mean, in the source under the screens.        *)

\* How the writer moves here: the phases in between are part of "prepared".
Forward == {<<"idle", "prepared">>, <<"prepared", "committing">>, <<"committing", "committed">>}
Goes(s, op) == \E step \in Forward : record.phase = step[1] /\ Writer!Report(s, op, step[2])
WriterGoes ==
  \/ UNCHANGED writer
  \/ \E s \in {Nand, Other}, op \in Ops :
       \/ \E phase \in {"idle", "prepared"} : Writer!Claim(s, op, phase)
       \/ Goes(s, op)
       \/ \E result \in {"refused", "aborted"} : Writer!Release(s, op, result)

LEMMA CallGoes ==
  ASSUME NandInv, NEW c \in Callers, Begin(c) \/ StartStep(c)
  PROVE  WriterGoes
<1>1. CASE Begin(c)
  BY <1>1 DEF Begin, WriterGoes
<1>2. CASE UnmadeAborts(c)
  <2>1. start[c].op \in Ops
    BY <1>2 DEF UnmadeAborts, StartAt, NandInv, Shape
  <2> QED
    BY <1>2, <2>1 DEF UnmadeAborts, AbortWriter, WriterGoes
<1>3. CASE CreateTask(c) \/ UnmadeReports(c)
  BY <1>3 DEF CreateTask, UnmadeReports, WriterGoes
<1> QED
  BY <1>1, <1>2, <1>3 DEF StartStep

LEMMA TaskGoes ==
  ASSUME NandInv, NEW op \in Ops, TaskStep(op)
  PROVE  WriterGoes
<1>1. CASE TaskPrepares(op)
  <2>1. CASE Writer!Report(Nand, op, "prepared")
    <3>1. record \in Records
      BY DEF NandInv, Shape
    <3>2. record.phase = "idle"
      BY <2>1, <3>1 DEF Writer!Report, Writer!Follows, Records, Writer!Phases
    <3>3. Goes(Nand, op)
      BY <2>1, <3>2 DEF Goes, Forward
    <3> QED
      BY <3>3 DEF WriterGoes
  <2>2. CASE Writer!Release(Nand, op, "refused")
    BY <2>2 DEF WriterGoes
  <2> QED
    BY <1>1, <2>1, <2>2 DEF TaskPrepares
<1>2. CASE TaskStreams(op)
  <2>1. Goes(Nand, op)
    BY <1>2 DEF TaskStreams, Onward, Goes, Forward
  <2> QED
    BY <2>1 DEF WriterGoes
<1>3. CASE TaskAborts(op)
  BY <1>3 DEF TaskAborts, AbortWriter, WriterGoes
<1>4. CASE TaskFails(op) \/ TaskReports(op) \/ TaskFrees(op)
  BY <1>4 DEF TaskFails, TaskReports, TaskFrees, WriterGoes
<1> QED
  BY <1>1, <1>2, <1>3, <1>4 DEF TaskStep

LEMMA NandGoes == NandInv /\ [NandStep \/ ScreenStep]_nandVars => WriterGoes
<1> SUFFICES ASSUME NandInv, [NandStep \/ ScreenStep]_nandVars PROVE WriterGoes
  OBVIOUS
<1>1. ASSUME NEW c \in Callers, Begin(c) \/ StartStep(c) PROVE WriterGoes
  BY <1>1, CallGoes
<1>2. ASSUME NEW op \in Ops, TaskStep(op) PROVE WriterGoes
  BY <1>2, TaskGoes
<1>3. CASE OtherClaims
  BY <1>3 DEF OtherClaims, WriterGoes
<1>4. CASE OtherGoesOn
  BY <1>4 DEF OtherGoesOn, Onward, Goes, Forward, WriterGoes
<1>5. CASE ScanPublishes \/ ScanEnds \/ UNCHANGED nandVars
  BY <1>5 DEF ScanPublishes, ScanEnds, nandVars, WriterGoes
<1>6. CASE ScreenStep
  <2>1. Begin(Screen) \/ UNCHANGED writer
    BY <1>6 DEF ScreenStep
  <2> QED
    BY <1>1, <2>1, CallersDiffer DEF WriterGoes
<1> QED
  BY <1>1, <1>2, <1>3, <1>4, <1>5, <1>6, CallersDiffer DEF NandStep

\* The record is open while the writer is held, closed or empty while it is
\* free: a commit is over only with the restart.
RecordOpen ==
  /\ holder.owner = NoOwner => holder = Writer!Free
  /\ holder = Writer!Free => record.phase \in {"idle", "failed"}
  /\ holder # Writer!Free => record.phase \in {"idle", "prepared", "committing", "committed"}

LEMMA RecordGoes ==
  ASSUME NandInv, RecordOpen, WriterGoes
  PROVE  /\ RecordOpen'
         /\ record.phase = "committed" => record'.phase = "committed"
         /\ holder' = Writer!Free /\ record'.phase = "idle" => UNCHANGED writer
<1>1. record \in Records /\ holder \in Holders
  BY DEF NandInv, Shape
<1>2. CASE UNCHANGED writer
  BY <1>2 DEF writer, RecordOpen
<1>3. ASSUME NEW s \in {Nand, Other}, NEW op \in Ops, NEW phase \in {"idle", "prepared"},
             Writer!Claim(s, op, phase)
      PROVE  RecordOpen' /\ record.phase # "committed" /\ holder' # Writer!Free
  BY <1>3, CallersDiffer DEF Writer!Claim, Writer!Free, RecordOpen
<1>4. ASSUME NEW s \in {Nand, Other}, NEW op \in Ops, Goes(s, op)
      PROVE  RecordOpen' /\ record.phase # "committed" /\ holder' # Writer!Free
  <2>1. PICK step \in Forward : record.phase = step[1] /\ Writer!Report(s, op, step[2])
    BY <1>4 DEF Goes
  <2>2. holder' # Writer!Free /\ holder'.owner # NoOwner
    BY <2>1, CallersDiffer DEF Writer!Report, Writer!Held, Writer!Free
  <2>3. record'.phase = step[2]
    BY <1>1, <2>1 DEF Writer!Report, Records
  <2> QED
    BY <2>1, <2>2, <2>3 DEF Forward, RecordOpen
<1>5. ASSUME NEW s \in {Nand, Other}, NEW op \in Ops, NEW result \in {"refused", "aborted"},
             Writer!Release(s, op, result)
      PROVE  RecordOpen' /\ record.phase # "committed" /\ record'.phase = "failed"
  BY <1>1, <1>5 DEF Writer!Release, Records, RecordOpen
<1> QED
  BY <1>2, <1>3, <1>4, <1>5 DEF WriterGoes

\* The published state of the NAND update is that of a call or of a task which
\* will still report, or of an update that has committed.
CallOpen(c) == start[c].at \in {"create", "abort", "report"}
StatusOfTask ==
  /\ scanning => nand.update \in {"idle", "failed"}
  /\ nand.update = "starting" =>
       (\E c \in Callers : CallOpen(c)) \/ (\E op \in Ops : task[op] \in {"prepare", "abort", "report"})
  /\ nand.update = "running" =>
       record.phase = "committed" \/ \E op \in Ops : task[op] \in {"stream", "abort", "report"}

NandMeaning == RecordOpen /\ StatusOfTask

\* Nothing but a restart takes a commit back.
CommitStays == record.phase = "committed" => record'.phase = "committed"

LEMMA CallMeaning ==
  ASSUME NandInv, NandMeaning, CommitStays, NEW c \in Callers, Begin(c) \/ StartStep(c)
  PROVE  StatusOfTask'
<1>1. /\ Shape /\ OneUser /\ StatusOfTask /\ start \in StartRecords /\ nand \in Snapshots
      /\ task \in [Ops -> TaskStages]
  BY ShapeParts DEF NandInv, NandMeaning
<1>2. scanning' = scanning
  BY DEF Begin, StartStep, CreateTask, UnmadeAborts, UnmadeReports
<1>3. \A d \in Callers \ {c} : start'[d] = start[d]
  BY <1>1 DEF Begin, Returns, StartStep, CreateTask, UnmadeAborts, UnmadeReports, Starts, StartRecords
<1>4. CASE Begin(c)
  <2>1. CASE nand'.update = "starting" /\ nandBusy = FALSE /\ CallOpen(c)'
    BY <1>1, <1>2, <2>1 DEF StatusOfTask, OneUser
  <2>2. CASE nand' = nand /\ task' = task /\ record' = record
    <3>1. ~CallOpen(c)
      BY <1>4 DEF Begin, StartAt, CallOpen
    <3> QED
      BY <1>1, <1>2, <1>3, <2>2, <3>1 DEF StatusOfTask, CallOpen
  <2>3. \/ nand'.update = "starting" /\ nandBusy = FALSE /\ CallOpen(c)'
        \/ nand' = nand /\ task' = task /\ record' = record
    <3>1. CASE /\ NandFree
               /\ \E op \in Ops : start' = [start EXCEPT ![c] = [at |-> "create", op |-> op]]
               /\ Publish("starting")
      BY <1>1, <3>1 DEF NandFree, Publish, CallOpen, StartRecords, Snapshots, Shape, NandTypeOK
    <3> QED
      BY <1>4, <3>1 DEF Begin, writer
  <2> QED
    BY <2>1, <2>2, <2>3
<1>5. CASE CreateTask(c)
  <2>1. nand' = nand /\ record' = record /\ start[c].op \in Ops
    BY <1>1, <1>5 DEF CreateTask, writer, Shape, StartAt
  <2>2. CASE Tasks(start[c].op, "prepare")
    <3>1. /\ task'[start[c].op] = "prepare"
          /\ \A op \in Ops : task[op] \in {"stream", "abort", "report"} => task'[op] = task[op]
      <4>1. \A op \in Ops : task[op] \notin Alive
        BY <1>1, <1>5 DEF OneUser, CreateTask
      <4> QED
        BY <1>1, <2>1, <2>2, <4>1, TasksDoes DEF Alive, TaskStages
    <3> QED
      BY <1>1, <1>2, <2>1, <3>1 DEF StatusOfTask
  <2>3. CASE Starts(c, Unmade) /\ UNCHANGED task
    <3>1. CallOpen(c)'
      BY <1>1, <2>3, StartsDoes DEF Unmade, CallOpen, StartStages
    <3> QED
      BY <1>1, <1>2, <2>1, <2>3, <3>1 DEF StatusOfTask
  <2> QED
    BY <1>5, <2>2, <2>3 DEF CreateTask
<1>6. CASE UnmadeAborts(c)
  <2>1. nand' = nand /\ task' = task /\ Starts(c, "report")
    BY <1>6 DEF UnmadeAborts
  <2>2. CallOpen(c)'
    BY <1>1, <2>1, StartsDoes DEF CallOpen, StartStages
  <2> QED
    BY <1>1, <1>2, <2>1, <2>2 DEF StatusOfTask, CommitStays
<1>7. CASE UnmadeReports(c)
  <2>1. nand'.update = "failed"
    BY <1>1, <1>7 DEF UnmadeReports, Publish, Snapshots
  <2> QED
    BY <2>1 DEF StatusOfTask
<1> QED
  BY <1>4, <1>5, <1>6, <1>7 DEF StartStep

LEMMA TaskMeaning ==
  ASSUME NandInv, NandMeaning, CommitStays, NEW op \in Ops, TaskStep(op)
  PROVE  StatusOfTask'
<1>1. /\ Shape /\ OneUser /\ StatusOfTask /\ nand \in Snapshots /\ record \in Records
      /\ task \in [Ops -> TaskStages]
  BY ShapeParts DEF NandInv, NandMeaning, Shape
<1>2. scanning' = scanning /\ start' = start /\ ~scanning
  <2>1. task[op] \in Alive
    BY DEF TaskStep, TaskPrepares, TaskStreams, TaskFails, TaskAborts, TaskReports, TaskFrees, TaskAt, Alive,
           TaskStages
  <2> QED
    BY <1>1, <2>1 DEF OneUser, TaskStep, TaskPrepares, TaskStreams, TaskFails, TaskAborts, TaskReports, TaskFrees
\* The status stays, and the task with it.
<1>3. ASSUME NEW to \in TaskStages, Tasks(op, to), nand' = nand,
             task[op] \in {"prepare", "abort", "report"} => to \in {"abort", "report"},
             task[op] \in {"stream", "abort", "report"} =>
               to \in {"stream", "abort", "report"} \/ record'.phase = "committed"
      PROVE  StatusOfTask'
  <2>1. task'[op] = to /\ \A other \in Ops \ {op} : task'[other] = task[other]
    BY <1>1, <1>3, TasksDoes
  <2>2. nand'.update = "starting" =>
          (\E c \in Callers : CallOpen(c)') \/ (\E o \in Ops : task'[o] \in {"prepare", "abort", "report"})
    BY <1>1, <1>2, <1>3, <2>1 DEF StatusOfTask, CallOpen
  <2>3. nand'.update = "running" =>
          record'.phase = "committed" \/ \E o \in Ops : task'[o] \in {"stream", "abort", "report"}
    BY <1>1, <1>3, <2>1 DEF StatusOfTask, CommitStays
  <2> QED
    BY <1>2, <2>2, <2>3 DEF StatusOfTask
<1>4. CASE TaskPrepares(op)
  <2>1. CASE Publish("running") /\ Tasks(op, "stream")
    <3>1. nand'.update = "running" /\ task'[op] = "stream"
      BY <1>1, <2>1, TasksDoes DEF Publish, Snapshots, TaskStages
    <3> QED
      BY <1>2, <3>1 DEF StatusOfTask
  <2>2. CASE Tasks(op, "abort") /\ nand' = nand
    BY <1>3, <2>2 DEF TaskStages
  <2> QED
    BY <1>4, <2>1, <2>2 DEF TaskPrepares
<1>5. CASE TaskStreams(op)
  <2>1. nand' = nand /\ task[op] = "stream" /\ Onward(Nand, op)
        /\ Tasks(op, IF record.phase = "committing" THEN "free" ELSE "stream")
    BY <1>5 DEF TaskStreams, TaskAt
  <2>2. record.phase = "committing" => record'.phase = "committed"
    <3>1. PICK step \in Forward : record.phase = step[1] /\ Writer!Report(Nand, op, step[2])
      BY <2>1 DEF Onward, Forward
    <3>2. record'.phase = step[2]
      BY <1>1, <3>1 DEF Writer!Report, Records
    <3>3. \A way \in Forward : way[1] = "committing" => way[2] = "committed"
      BY DEF Forward
    <3> QED
      BY <3>1, <3>2, <3>3
  <2> QED
    BY <1>3, <2>1, <2>2 DEF TaskStages
<1>6. CASE TaskFails(op)
  BY <1>3, <1>6 DEF TaskFails, TaskStages
<1>7. CASE TaskAborts(op)
  BY <1>3, <1>7 DEF TaskAborts, TaskStages
<1>8. CASE TaskReports(op)
  BY <1>1, <1>8 DEF TaskReports, Publish, Snapshots, StatusOfTask
<1>9. CASE TaskFrees(op)
  BY <1>3, <1>9 DEF TaskFrees, TaskAt, TaskStages
<1> QED
  BY <1>4, <1>5, <1>6, <1>7, <1>8, <1>9 DEF TaskStep

LEMMA NandMeans ==
  NandInv /\ NandMeaning /\ [NandNext]_nandVars => NandMeaning' /\ (CommitStays \/ NandReset)
<1> SUFFICES ASSUME NandInv, NandMeaning, [NandNext]_nandVars
             PROVE  NandMeaning' /\ (CommitStays \/ NandReset)
  OBVIOUS
<1>1. CASE NandReset
  <2>1. RecordOpen'
    BY <1>1 DEF NandReset, Writer!Reset, Writer!NoRecord, RecordOpen
  <2>2. StatusOfTask'
    BY <1>1 DEF NandReset, NoSnapshot, StatusOfTask
  <2> QED
    BY <1>1, <2>1, <2>2 DEF NandMeaning
<1>2. CASE ~NandReset
  <2>1. RecordOpen' /\ CommitStays
    BY <1>2, NandGoes, RecordGoes DEF NandMeaning, CommitStays, NandNext
  <2>2. Shape /\ OneUser /\ StatusOfTask /\ nand \in Snapshots /\ start \in StartRecords
    BY ShapeParts DEF NandInv, NandMeaning
  <2>3. StatusOfTask'
    <3>1. ASSUME NEW c \in Callers, Begin(c) \/ StartStep(c) PROVE StatusOfTask'
      BY <2>1, <3>1, CallMeaning
    <3>2. ASSUME NEW op \in Ops, TaskStep(op) PROVE StatusOfTask'
      BY <2>1, <3>2, TaskMeaning
    <3>3. CASE ScanPublishes
      BY <3>3, ScanPublishesDoes DEF ScanPublishes, StatusOfTask
    <3>4. ASSUME nand' = nand, start' = start, task' = task, scanning' => scanning PROVE StatusOfTask'
      BY <2>1, <2>2, <3>4 DEF StatusOfTask, CallOpen, CommitStays
    <3>5. CASE ScanEnds \/ OtherClaims \/ OtherGoesOn \/ UNCHANGED nandVars
      BY <3>4, <3>5 DEF ScanEnds, OtherClaims, OtherGoesOn, nandVars
    <3>6. CASE ScreenStep
      <4>1. CASE RequestScan /\ UNCHANGED <<writer, start, task>>
        <5>1. nand'.update = "idle" \/ (nand' = nand /\ scanning' = scanning)
          BY <4>1 DEF RequestScan, Scanned
        <5> QED
          BY <3>4, <4>1, <5>1 DEF StatusOfTask
      <4>2. CASE /\ start[Screen].at \in {"refused", "started"} /\ Returns(Screen, "idle")
                 /\ UNCHANGED <<writer, nand, scanning, task>>
        <5>1. \A c \in Callers : CallOpen(c) => CallOpen(c)'
          BY <2>2, <4>2, ReturnsDoes, CallersDiffer DEF CallOpen, StartStages
        <5> QED
          BY <2>1, <2>2, <4>2, <5>1 DEF StatusOfTask, CommitStays
      <4> QED
        BY <3>1, <3>4, <3>6, <4>1, <4>2, CallersDiffer DEF ScreenStep
    <3> QED
      BY <1>2, <3>1, <3>2, <3>3, <3>5, <3>6, CallersDiffer DEF NandNext, NandStep
  <2> QED
    BY <2>1, <2>3 DEF NandMeaning
<1> QED
  BY <1>1, <1>2

LEMMA NandMeansFirst == NandInit => NandMeaning
BY DEF NandInit, NandMeaning, RecordOpen, StatusOfTask, NoSnapshot, Writer!Init, Writer!NoRecord

----------------------------------------------------------------------------
(* What the screens show of it.                                            *)

\* A call of the screen is made on the confirm page, and once it has the NAND the
\* update is known; who waits on the update page for anything but the progress of
\* another source waits for an update of the NAND.
UpdateShown ==
  /\ start[Screen].at # "idle" => page = "nand_confirm"
  /\ start[Screen].at \in {"create", "started"} =>
       ~scanning /\ nand.update # "idle" /\ phaseSeen # "committed"
  /\ page = "update" /\ phaseSeen # "progress" => ~scanning /\ nand.update # "idle"
  /\ phaseSeen = "committed" => record.phase = "committed"
  /\ record.phase = "idle" /\ holder = Writer!Free => phaseSeen = "idle"
  /\ page = "update" /\ phaseSeen = "committed" => nand.update \in {"starting", "failed"}

ShownInv == ScreensInv /\ NandMeaning /\ UpdateShown

\* What a step that shows nothing may change without the screen noticing.
Unnoticed ==
  /\ scanning' => scanning
  /\ nand'.update = "idle" => nand.update = "idle" \/ scanning
  /\ CommitStays
  /\ holder' = Writer!Free /\ record'.phase = "idle" => UNCHANGED writer
  /\ record.phase = "committed" => nand'.update \in {nand.update, "idle", "starting", "failed"}
  /\ start[Screen].at = "idle" => start'[Screen].at = "idle"
  /\ start'[Screen].at \in {"create", "started"} => start[Screen].at \in {"create", "started"}

LEMMA UnnoticedKeeps ==
  ASSUME ShownInv, Unnoticed, UNCHANGED screen
  PROVE  UpdateShown'
<1>1. NandInv /\ UpdateShown /\ nand.update \in UpdateStates
  BY NandParts DEF ShownInv, ScreensInv
<1>2. page' = page /\ phaseSeen' = phaseSeen
  BY DEF screen
<1>3. start'[Screen].at # "idle" => page' = "nand_confirm"
  BY <1>1, <1>2 DEF UpdateShown, Unnoticed
<1>4. start'[Screen].at \in {"create", "started"} =>
        ~scanning' /\ nand'.update # "idle" /\ phaseSeen' # "committed"
  BY <1>1, <1>2 DEF UpdateShown, Unnoticed
<1>5. page' = "update" /\ phaseSeen' # "progress" => ~scanning' /\ nand'.update # "idle"
  BY <1>1, <1>2 DEF UpdateShown, Unnoticed
<1>6. phaseSeen' = "committed" => record'.phase = "committed"
  BY <1>1, <1>2 DEF UpdateShown, Unnoticed, CommitStays
<1>7. record'.phase = "idle" /\ holder' = Writer!Free => phaseSeen' = "idle"
  BY <1>1, <1>2 DEF UpdateShown, Unnoticed, writer
<1>8. page' = "update" /\ phaseSeen' = "committed" => nand'.update \in {"starting", "failed"}
  BY <1>1, <1>2, <1>5, <1>6 DEF UpdateShown, Unnoticed
<1> QED
  BY <1>3, <1>4, <1>5, <1>6, <1>7, <1>8 DEF UpdateShown

LEMMA ResultsOfCall ==
  ASSUME NandInv, NEW c \in Callers, StartStep(c)
  PROVE  /\ \A d \in Callers \ {c} : start'[d] = start[d]
         /\ start[c].at # "idle"
         /\ start'[c].at \in {"create", "started"} => start[c].at \in {"create", "started"}
         /\ scanning' = scanning /\ nand'.update \in {nand.update, "failed"}
<1>1. start \in StartRecords /\ nand \in Snapshots
  BY ShapeParts DEF NandInv
<1>2. CASE CreateTask(c)
  BY <1>1, <1>2 DEF CreateTask, StartAt, Starts, Returns, StartRecords, Unmade
<1>3. CASE UnmadeAborts(c)
  BY <1>1, <1>3 DEF UnmadeAborts, StartAt, Starts, StartRecords
<1>4. CASE UnmadeReports(c)
  BY <1>1, <1>4 DEF UnmadeReports, StartAt, Returns, StartRecords, Publish, Snapshots
<1> QED
  BY <1>2, <1>3, <1>4 DEF StartStep

LEMMA NandUnnoticed ==
  ASSUME ShownInv, NandStep
  PROVE  Unnoticed
<1>1. /\ NandInv /\ OneUser /\ start \in StartRecords /\ nand \in Snapshots /\ record \in Records
      /\ NandMeaning /\ RecordOpen
  BY ShapeParts DEF ShownInv, ScreensInv, NandInv, NandMeaning, Shape
<1>2. CommitStays /\ (holder' = Writer!Free /\ record'.phase = "idle" => UNCHANGED writer)
  BY <1>1, NandGoes, RecordGoes DEF CommitStays
<1>3. /\ scanning' => scanning
      /\ nand'.update = "idle" => nand.update = "idle" \/ scanning
      /\ record.phase = "committed" => nand'.update \in {nand.update, "idle", "starting", "failed"}
      /\ start[Screen].at = "idle" => start'[Screen].at = "idle"
      /\ start'[Screen].at \in {"create", "started"} => start[Screen].at \in {"create", "started"}
  <2>1. CASE ScanPublishes
    BY <2>1, ScanPublishesDoes DEF ScanPublishes
  <2>2. CASE ScanEnds
    BY <2>2 DEF ScanEnds
  <2>3. CASE Begin(Rpc)
    <3>1. start'[Screen] = start[Screen] /\ scanning' = scanning
      BY <1>1, <2>3, CallersDiffer, NandAssumption DEF Begin, Returns, StartRecords
    <3>2. nand'.update \in {nand.update, "starting"}
      BY <1>1, <2>3 DEF Begin, Publish, Snapshots
    <3> QED
      BY <3>1, <3>2
  <2>4. ASSUME NEW c \in Callers, StartStep(c)
        PROVE  /\ start[Screen].at = "idle" => start'[Screen].at = "idle"
               /\ start'[Screen].at \in {"create", "started"} => start[Screen].at \in {"create", "started"}
               /\ scanning' = scanning /\ nand'.update \in {nand.update, "failed"}
    <3>1. CASE c = Screen
      BY <1>1, <2>4, <3>1, ResultsOfCall
    <3>2. CASE c # Screen
      BY <1>1, <2>4, <3>2, ResultsOfCall, CallersDiffer
    <3> QED
      BY <3>1, <3>2
  <2>5. ASSUME NEW op \in Ops, TaskStep(op)
        PROVE  /\ scanning' = scanning /\ start' = start
               /\ nand'.update \in {nand.update, "running", "failed"}
               /\ record.phase = "committed" => nand'.update # "running" \/ nand' = nand
    <3>1. CASE TaskPrepares(op)
      <4>1. nand'.update \in {nand.update, "running"}
        BY <1>1, <3>1 DEF TaskPrepares, Publish, Snapshots
      <4>2. record.phase # "committed"
        BY <1>1, <3>1 DEF TaskPrepares, Writer!Report, Writer!Follows, Writer!Release
      <4> QED
        BY <3>1, <4>1, <4>2 DEF TaskPrepares
    <3>2. CASE TaskReports(op)
      BY <1>1, <3>2 DEF TaskReports, Publish, Snapshots
    <3>3. CASE TaskStreams(op) \/ TaskFails(op) \/ TaskAborts(op) \/ TaskFrees(op)
      BY <3>3 DEF TaskStreams, TaskFails, TaskAborts, TaskFrees
    <3> QED
      BY <2>5, <3>1, <3>2, <3>3 DEF TaskStep
  <2>6. CASE OtherClaims \/ OtherGoesOn
    BY <2>6 DEF OtherClaims, OtherGoesOn
  <2> QED
    BY <2>1, <2>2, <2>3, <2>4, <2>5, <2>6 DEF NandStep
<1> QED
  BY <1>2, <1>3 DEF Unnoticed

LEMMA CopyShows == ASSUME ShownInv, PollCopy PROVE UpdateShown'
<1>1. ScreenTypes /\ UpdateShown /\ StatusOfTask /\ nand.update \in UpdateStates
  BY NandParts DEF ShownInv, ScreensInv, NandMeaning
<1>2. /\ start[Screen].at = "idle" /\ start' = start /\ scanning' = scanning /\ nand' = nand
      /\ record' = record /\ holder' = holder /\ phaseSeen' = phaseSeen
  BY DEF PollCopy, writer
<1>3. page' = "update" => page = "update" \/ nand.update = "starting"
  BY DEF PollCopy, NewlyIn
<1> QED
  BY <1>1, <1>2, <1>3 DEF UpdateShown, StatusOfTask

LEMMA RestShows == ASSUME ShownInv, PollRest PROVE UpdateShown'
<1>1. ScreenTypes /\ UpdateShown /\ record.phase \in Writer!Phases
  BY NandParts DEF ShownInv, ScreensInv
<1>2. /\ start[Screen].at = "idle" /\ start' = start /\ scanning' = scanning /\ nand' = nand
      /\ record' = record /\ holder' = holder
  BY <1>1 DEF PollRest, ScreenTypes, nandVars, writer
<1>3. /\ Kind(record.phase) \in Kinds
      /\ Kind(record.phase) = "committed" <=> record.phase = "committed"
      /\ Kind(record.phase) = "idle" <=> record.phase = "idle"
  BY <1>1 DEF Kind, Kinds, Writer!Phases
<1>4. \/ phaseSeen' = "progress"
      \/ page' = page /\ phaseSeen' = phaseSeen
      \/ page' = "result" /\ phaseSeen' = Kind(record.phase) /\ phaseSeen' \in {"committed", "failed"}
  BY <1>3 DEF PollRest, PhaseShown, Kinds
<1>5. record.phase = "idle" => phaseSeen' = phaseSeen
  BY <1>3 DEF PollRest, PhaseShown
<1>6. page' = "update" /\ phaseSeen' # "progress" => page = "update" /\ phaseSeen' = phaseSeen
  BY <1>4
<1>7. phaseSeen' = "committed" => phaseSeen = "committed" \/ record.phase = "committed"
  BY <1>3, <1>4
<1> QED
  BY <1>1, <1>2, <1>5, <1>6, <1>7 DEF UpdateShown

LEMMA PressShows == ASSUME ShownInv, Press \/ InstallReturns PROVE UpdateShown'
<1>1. /\ NandInv /\ OneUser /\ ScreenTypes /\ UpdateShown /\ NandMeaning /\ RecordOpen
      /\ record.phase \in Writer!Phases /\ start \in StartRecords /\ nand \in Snapshots
  BY NandParts, ShapeParts DEF ShownInv, ScreensInv, NandInv, NandMeaning
<1>2. CASE OpenList
  <2>1. /\ start[Screen].at = "idle" /\ start' = start /\ phaseSeen' = phaseSeen
        /\ page' = "nand_list" /\ record' = record /\ holder' = holder
    BY <1>2 DEF OpenList, Pressed, Show, writer
  <2> QED
    BY <1>1, <2>1 DEF UpdateShown
<1>3. CASE CancelConfirm \/ Leave \/ \E i \in 1..MaxCandidates : Select(i)
  <2>1. /\ start[Screen].at = "idle" /\ start' = start /\ phaseSeen' = phaseSeen
        /\ page' # "update" /\ record' = record /\ holder' = holder
    BY <1>3 DEF CancelConfirm, Leave, Select, Pressed, Show, nandVars, writer
  <2> QED
    BY <1>1, <2>1 DEF UpdateShown
<1>4. CASE Home
  <2>1. /\ start[Screen].at = "idle" /\ start' = start /\ phaseSeen' = Kind(record.phase)
        /\ page' = "home" /\ record' = record /\ holder' = holder
    BY <1>4 DEF Home, Pressed, Show, nandVars, writer
  <2>2. /\ Kind(record.phase) = "committed" => record.phase = "committed"
        /\ record.phase = "idle" => Kind(record.phase) = "idle"
    BY <1>1 DEF Kind, Writer!Phases
  <2> QED
    BY <2>1, <2>2 DEF UpdateShown
<1>5. CASE Install
  <2>1. page' = "nand_confirm" /\ phaseSeen' = phaseSeen /\ Begin(Screen) /\ scanning' = scanning
    BY <1>5 DEF Install, screen, Begin
  <2>2. start'[Screen].at \in {"create", "refused"}
    BY <1>1, <2>1, CallersDiffer DEF Begin, Returns, StartRecords
  <2>3. start'[Screen].at = "create" => ~nandBusy /\ nand'.update = "starting" /\ holder = Writer!Free
    BY <1>1, <2>1, <2>2, CallersDiffer
       DEF Begin, Returns, StartRecords, NandFree, Publish, Snapshots, Writer!Claim, UpdateStates
  <2>4. start'[Screen].at = "create" => ~scanning /\ phaseSeen # "committed"
    BY <1>1, <2>3 DEF OneUser, RecordOpen, UpdateShown
  <2>5. /\ record.phase = "committed" => record'.phase = "committed"
        /\ holder' = Writer!Free /\ record'.phase = "idle" => UNCHANGED writer
    BY <1>1, <2>1, CallGoes, RecordGoes, CallersDiffer
  <2> QED
    BY <1>1, <2>1, <2>2, <2>3, <2>4, <2>5 DEF UpdateShown, writer
<1>6. CASE InstallReturns
  <2>1. /\ start'[Screen].at = "idle" /\ phaseSeen' = phaseSeen /\ scanning' = scanning
        /\ nand' = nand /\ record' = record /\ holder' = holder
        /\ page' = "update" => start[Screen].at = "started"
    BY <1>1, <1>6, CallersDiffer DEF InstallReturns, Returns, Show, StartRecords, writer
  <2> QED
    BY <1>1, <2>1 DEF UpdateShown
<1> QED
  BY <1>2, <1>3, <1>4, <1>5, <1>6 DEF Press

LEMMA ShownFirst == Init => ShownInv
<1> SUFFICES ASSUME Init PROVE ShownInv
  OBVIOUS
<1>1. start[Screen].at = "idle" /\ page = "home" /\ phaseSeen = "idle"
  BY CallersDiffer DEF Init, NandInit, NoStart
<1> QED
  BY <1>1, ScreensInit, NandMeansFirst DEF Init, ShownInv, UpdateShown

LEMMA ShownNext == ShownInv /\ [Next]_screenVars => ShownInv'
<1> SUFFICES ASSUME ShownInv, [Next]_screenVars PROVE ShownInv'
  OBVIOUS
<1>1. ScreensInv' /\ NandMeaning'
  BY ScreensNext, StepIsNand, NandMeans DEF ShownInv, ScreensInv
<1>2. CASE PollCopy \/ PollRest \/ Press \/ InstallReturns
  BY <1>1, <1>2, CopyShows, RestShows, PressShows DEF ShownInv
<1>3. CASE PollMisses \/ UNCHANGED screenVars
  BY <1>1, <1>3 DEF PollMisses, ShownInv, UpdateShown, screenVars, nandVars, screen, writer
<1>4. CASE NandStep /\ UNCHANGED <<screen, poll>>
  BY <1>1, <1>4, NandUnnoticed, UnnoticedKeeps DEF ShownInv
<1>5. CASE Restart
  <2>1. start'[Screen].at = "idle" /\ page' = "home" /\ phaseSeen' = "idle"
    BY <1>5, CallersDiffer DEF Restart, Reset, NandReset, NoStart
  <2> QED
    BY <1>1, <2>1 DEF ShownInv, UpdateShown
<1> QED
  BY <1>2, <1>3, <1>4, <1>5 DEF Next, Elsewhere

\* What the update page waits for is always there: a NAND update that a call or
\* a task will bring to an end, or an update the writer is held for.  A phase the
\* screen has seen committed is committed, and a NAND update "starting" or
\* "running" has a call or a task that still reports.
THEOREM ShownInvariance == Spec => []ShownInv
BY ShownFirst, ShownNext, PTL DEF Spec

----------------------------------------------------------------------------
(* The update page is left.                                                *)

\* The operations still to come.  Whatever claims the writer takes one of them.
Left == Cardinality(Ops \ claimed)
Sinks == Left \in Nat /\ Left' \in Nat /\ Left' < Left

LEMMA ClaimsSink ==
  ASSUME IsFiniteSet(Ops), NandInv, [NandNext]_nandVars
  PROVE  [Sinks]_Left /\ (UNCHANGED Left => claimed' = claimed)
<1>1. CASE claimed' = claimed
  BY <1>1 DEF Left
<1>2. ASSUME NEW op \in Ops, op \notin claimed, claimed' = claimed \cup {op} PROVE Sinks
  <2>1. Ops \ claimed' = (Ops \ claimed) \ {op} /\ op \in Ops \ claimed
    BY <1>2
  <2>2. IsFiniteSet(Ops \ claimed)
    BY FS_Difference
  <2>3. Left \in Nat
    BY <2>2, FS_CardinalityType DEF Left
  <2>4. IsFiniteSet((Ops \ claimed) \ {op}) /\ Left' = Left - 1
    BY <2>1, <2>2, FS_RemoveElement DEF Left
  <2>5. Left' \in Nat
    BY <2>1, <2>4, FS_CardinalityType DEF Left
  <2> QED
    BY <2>3, <2>4, <2>5 DEF Sinks
<1>3. claimed' = claimed \/ \E op \in Ops : op \notin claimed /\ claimed' = claimed \cup {op}
  <2>1. CASE NandReset
    BY <2>1 DEF NandReset, Writer!Reset
  <2>2. CASE WriterGoes
    BY <2>2 DEF WriterGoes, Goes, Writer!Claim, Writer!Report, Writer!Release, writer
  <2> QED
    BY <2>1, <2>2, NandGoes DEF NandNext
<1>4. Sinks => ~UNCHANGED Left
  BY DEF Sinks
<1> QED
  BY <1>1, <1>2, <1>3, <1>4

\* A step that leaves the update page shown; and one that claims nothing, too.
Stays == page = "update" /\ page' = "update" /\ [Next]_screenVars
Calm == Stays /\ claimed' = claimed

Polls == PollCopy \/ PollRest \/ PollMisses \/ UNCHANGED screenVars

LEMMA StayIs ==
  ASSUME ShownInv, Stays
  PROVE  /\ (NandStep /\ UNCHANGED <<screen, poll>>) \/ Polls
         /\ start[Screen].at = "idle" /\ start'[Screen].at = "idle"
<1>1. ShownInv'
  BY ShownNext DEF Stays
<1>2. start[Screen].at = "idle" /\ start'[Screen].at = "idle"
  BY <1>1 DEF ShownInv, UpdateShown, Stays
<1>3. ~Press
  BY DEF Press, OpenList, CancelConfirm, Leave, Install, Home, Select, Show, Stays
<1>4. ~InstallReturns /\ ~Restart
  BY <1>2 DEF InstallReturns, Restart, Reset, Stays
<1> QED
  BY <1>2, <1>3, <1>4 DEF Stays, Polls, Next, Elsewhere

\* What goes on below: no claim, and so no new update.
Busy == nandBusy \/ start[Rpc].at = "abort" \/ start[Rpc].at = "report"

LEMMA CalmCalls ==
  ASSUME ShownInv, Calm
  PROVE  /\ ~nandBusy => ~nandBusy'
         /\ ~nandBusy /\ start[Rpc].at = "abort" => start'[Rpc].at \in {"abort", "report"}
         /\ ~nandBusy /\ start[Rpc].at = "report" => start'[Rpc].at = "report" \/ ~Busy'
         /\ ~Busy => ~Busy'
<1>1. /\ OneUser /\ start \in StartRecords /\ nandBusy \in BOOLEAN
      /\ Rpc \in Callers /\ Screen \in Callers /\ Screen # Rpc
  BY ShapeParts, CallersDiffer, NandAssumption DEF ShownInv, ScreensInv, NandInv, Shape, NandTypeOK
<1> SUFFICES ASSUME ~nandBusy
             PROVE  /\ ~nandBusy'
                    /\ start[Rpc].at = "abort" => start'[Rpc].at \in {"abort", "report"}
                    /\ start[Rpc].at = "report" => start'[Rpc].at \in {"report", "idle"}
                    /\ ~Busy => ~Busy'
  BY DEF Busy
<1>2. /\ ~scanning /\ (\A op \in Ops : task[op] \notin Alive)
      /\ ~StartAt(Rpc, "create") /\ start[Screen].at = "idle"
  BY <1>1, StayIs DEF OneUser, Calm
<1>3. ASSUME start'[Rpc] = start[Rpc], ~nandBusy'
      PROVE  /\ ~nandBusy'
             /\ start[Rpc].at = "abort" => start'[Rpc].at \in {"abort", "report"}
             /\ start[Rpc].at = "report" => start'[Rpc].at \in {"report", "idle"}
             /\ ~Busy => ~Busy'
  BY <1>3 DEF Busy
<1>4. CASE Polls
  BY <1>3, <1>4 DEF Polls, PollCopy, PollRest, PollMisses, screenVars, nandVars
<1>5. CASE ScanPublishes \/ ScanEnds
  BY <1>2, <1>5 DEF ScanPublishes, ScanEnds
<1>6. CASE Begin(Rpc)
  <2>1. start[Rpc].at = "idle" /\ ~nandBusy' /\ Returns(Rpc, "refused")
    BY <1>6 DEF Begin, StartAt, Calm, Writer!Claim
  <2>2. start'[Rpc].at = "idle"
    BY <1>1, <2>1 DEF Returns, StartRecords
  <2> QED
    BY <2>1, <2>2 DEF Busy
<1>7. ASSUME NEW c \in Callers, StartStep(c)
      PROVE  /\ ~nandBusy'
             /\ start[Rpc].at = "abort" => start'[Rpc].at \in {"abort", "report"}
             /\ start[Rpc].at = "report" => start'[Rpc].at \in {"report", "idle"}
             /\ ~Busy => ~Busy'
  <2>1. c = Rpc
    BY <1>2, <1>7, CallersDiffer DEF StartStep, CreateTask, UnmadeAborts, UnmadeReports, StartAt
  <2>2. CASE UnmadeAborts(Rpc)
    BY <1>1, <2>2 DEF UnmadeAborts, Starts, StartAt, StartRecords, Busy
  <2>3. CASE UnmadeReports(Rpc)
    BY <1>1, <2>3 DEF UnmadeReports, Returns, StartAt, StartRecords, Busy
  <2> QED
    BY <1>2, <1>7, <2>1, <2>2, <2>3 DEF StartStep, CreateTask
<1>8. \A op \in Ops : ~TaskStep(op)
  BY <1>2, OnlyTheLiveMove
<1>9. CASE OtherClaims \/ OtherGoesOn
  BY <1>3, <1>9 DEF OtherClaims, OtherGoesOn
<1> QED
  BY <1>4, <1>5, <1>6, <1>7, <1>8, <1>9, StayIs DEF NandStep, Calm

\* An update of another source, by what it has still to do.
OtherAt(phase) == OtherHolds /\ record.phase = phase

\* Nothing moves below: the writer is free, or committed.
Settled == ~Busy /\ ~OtherHolds

LEMMA SettledIs ==
  ASSUME ShownInv, page = "update", ~Busy
  PROVE  /\ ~scanning /\ (\A op \in Ops : task[op] \notin Alive) /\ (\A c \in Callers : ~CallOpen(c))
         /\ OtherHolds => \E phase \in {"idle", "prepared", "committing"} : OtherAt(phase)
         /\ ~OtherHolds => holder = Writer!Free \/ record.phase = "committed"
         /\ nand.update # "starting" /\ (nand.update = "running" => record.phase = "committed")
<1>1. OneUser /\ Returned /\ RecordOpen /\ StatusOfTask /\ holder \in Holders /\ nandBusy \in BOOLEAN
  BY DEF ShownInv, ScreensInv, NandInv, NandMeaning, Shape, NandTypeOK
<1>2. start[Screen].at = "idle"
  BY DEF ShownInv, UpdateShown
<1>3. /\ ~scanning /\ (\A op \in Ops : task[op] \notin Alive) /\ (\A c \in Callers : ~CallOpen(c))
  BY <1>1, <1>2, CallersDiffer DEF Busy, OneUser, StartAt, CallOpen
<1>4. OtherHolds => \E phase \in {"idle", "prepared", "committing"} : OtherAt(phase)
  BY <1>1, CallersDiffer DEF OtherHolds, OtherAt, RecordOpen, Writer!Free
<1>5. ~OtherHolds => holder = Writer!Free \/ record.phase = "committed"
  <2>1. CASE holder.owner = Nand
    BY <1>1, <1>3, <2>1 DEF Returned, CallOpen, Alive, TaskStages
  <2>2. CASE holder.owner = NoOwner
    BY <1>1, <2>2 DEF RecordOpen
  <2> QED
    BY <1>1, <2>1, <2>2 DEF Holders, OtherHolds
<1>6. nand.update # "starting" /\ (nand.update = "running" => record.phase = "committed")
  BY <1>1, <1>3 DEF StatusOfTask, Alive, TaskStages
<1> QED
  BY <1>3, <1>4, <1>5, <1>6

\* Each step of another source brings its update nearer to its end.
OtherNears ==
  /\ OtherAt("idle") => OtherAt("prepared")' \/ (~OtherHolds)'
  /\ OtherAt("prepared") => OtherAt("committing")' \/ (~OtherHolds)'
  /\ OtherAt("committing") => (~OtherHolds)'

LEMMA OtherMoves == ASSUME ShownInv, OtherGoesOn PROVE OtherNears
<1>1. record \in Records
  BY DEF ShownInv, ScreensInv, NandInv, Shape
<1>2. ASSUME NEW op \in Ops, Onward(Other, op) PROVE OtherNears
  <2>1. PICK step \in Forward : record.phase = step[1] /\ Writer!Report(Other, op, step[2])
    BY <1>2 DEF Onward, Forward
  <2>2. record'.phase = step[2] /\ holder' = holder
    BY <1>1, <2>1 DEF Writer!Report, Records
  <2> QED
    BY <2>1, <2>2 DEF Forward, OtherNears, OtherAt, OtherHolds
<1>3. ASSUME NEW op \in Ops, Writer!Release(Other, op, "aborted") PROVE OtherNears
  BY <1>3, CallersDiffer DEF Writer!Release, Writer!Free, OtherNears, OtherHolds
<1> QED
  BY <1>2, <1>3 DEF OtherGoesOn

\* What is left once no call and no task of the NAND is under way.
LEMMA CalmGoes ==
  ASSUME ShownInv, Calm, ~Busy
  PROVE  /\ nand' = nand
         /\ OtherGoesOn \/ UNCHANGED writer
<1>1. /\ start[Screen].at = "idle" /\ ~scanning /\ (\A op \in Ops : task[op] \notin Alive)
      /\ \A c \in Callers : ~CallOpen(c)
  BY SettledIs, StayIs DEF Calm, Stays
<1>2. CASE Polls
  BY <1>2 DEF Polls, PollCopy, PollRest, PollMisses, screenVars, nandVars, writer
<1>3. ~ScanPublishes /\ ~ScanEnds /\ (\A op \in Ops : ~TaskStep(op))
  BY <1>1, OnlyTheLiveMove DEF ScanPublishes, ScanEnds
<1>4. \A c \in Callers : ~StartStep(c)
  BY <1>1 DEF StartStep, CreateTask, UnmadeAborts, UnmadeReports, StartAt, CallOpen
<1>5. CASE Begin(Rpc)
  BY <1>5 DEF Begin, Calm, Writer!Claim
<1>6. ~OtherClaims
  BY DEF OtherClaims, Calm, Writer!Claim
<1>7. CASE OtherGoesOn
  BY <1>7 DEF OtherGoesOn
<1> QED
  BY <1>2, <1>3, <1>4, <1>5, <1>6, <1>7, StayIs DEF NandStep, Calm

LEMMA CalmSettles ==
  ASSUME ShownInv, Calm, ~Busy
  PROVE  /\ OtherNears \/ \A phase \in {"idle", "prepared", "committing"} : OtherAt(phase) => OtherAt(phase)'
         /\ ~OtherHolds => (~OtherHolds)' /\ record' = record /\ nand' = nand
<1>1. CASE OtherGoesOn
  <2>1. OtherNears /\ nand' = nand
    BY <1>1, CalmGoes, OtherMoves
  <2>2. OtherHolds
    <3>1. PICK op \in Ops : Onward(Other, op) \/ Writer!Release(Other, op, "aborted")
      BY <1>1 DEF OtherGoesOn
    <3>2. holder.owner = Other
      BY <3>1 DEF Onward, Writer!Report, Writer!Release, Writer!Held
    <3>3. record.phase # "committed"
      BY <3>1 DEF Onward, Writer!Release
    <3> QED
      BY <3>2, <3>3 DEF OtherHolds
  <2> QED
    BY <2>1, <2>2
<1>2. CASE UNCHANGED writer
  BY <1>2, CalmGoes DEF writer, OtherAt, OtherHolds
<1> QED
  BY <1>1, <1>2, CalmGoes

\* What the next poll shows, when nothing moves any more.
Failing == nand.update = "failed" /\ nandSeen # "failed"
Closing == Kind(record.phase) \in {"committed", "failed"} /\ Kind(record.phase) # phaseSeen
Waits == page = "update" /\ (nandSeen # "failed" \/ phaseSeen = "progress")

LEMMA WaitEnds ==
  ASSUME ShownInv, Waits, Settled
  PROVE  Failing \/ Closing
<1>1. /\ UpdateShown /\ RecordOpen /\ nand.update \in UpdateStates /\ phaseSeen \in Kinds /\ page = "update"
      /\ nand.update # "starting" /\ (nand.update = "running" => record.phase = "committed")
      /\ holder = Writer!Free \/ record.phase = "committed"
  BY SettledIs, NandParts DEF ShownInv, ScreensInv, NandMeaning, ScreenTypes, Waits, Settled
<1>2. CASE record.phase = "committed"
  <2>1. Kind(record.phase) = "committed"
    BY <1>2 DEF Kind
  <2> QED
    BY <1>1, <1>2, <2>1 DEF UpdateShown, Waits, Failing, Closing
<1>3. CASE record.phase # "committed"
  <2>1. record.phase \in {"idle", "failed"} /\ Kind(record.phase) = record.phase
    BY <1>1, <1>3 DEF RecordOpen, Kind
  <2>2. phaseSeen # "progress" => nand.update = "failed"
    BY <1>1, <1>3 DEF UpdateShown, UpdateStates
  <2> QED
    BY <1>1, <2>1, <2>2 DEF UpdateShown, Waits, Failing, Closing
<1> QED
  BY <1>2, <1>3

\* Such a poll leaves the page.
LEMMA CalmPolls ==
  ASSUME ShownInv, Calm, Settled
  PROVE  /\ Settled'
         /\ Failing => Failing' /\ ~PollCopy
         /\ Closing => Closing' /\ ~PollRest
<1>1. Settled' /\ record' = record /\ nand' = nand
  BY CalmCalls, CalmSettles DEF Settled
<1>2. Failing => ~PollCopy
  BY DEF Failing, PollCopy, NewlyIn, Calm, Stays
<1>3. Closing => ~PollRest
  BY DEF Closing, PollRest, PhaseShown, Calm, Stays
<1>4. PollCopy \/ nandSeen' = nandSeen
  BY StayIs DEF Calm, Polls, PollRest, PollMisses, screenVars, screen
<1>5. PollRest \/ phaseSeen' = phaseSeen
  BY StayIs DEF Calm, Polls, PollCopy, PollMisses, screenVars, screen
<1> QED
  BY <1>1, <1>2, <1>3, <1>4, <1>5 DEF Failing, Closing

\* What the argument starts from: the page is shown for ever, and nothing is
\* claimed any more.
Shown == page = "update"
Watching ==
  /\ [][Next]_screenVars /\ []ShownInv /\ []Fairness /\ []NandReady /\ []ScreensReady
  /\ [][FALSE]_Left /\ []Shown

LEMMA WatchIsCalm ==
  ASSUME IsFiniteSet(Ops)
  PROVE  ShownInv /\ Shown /\ Shown' /\ [Next]_screenVars /\ [FALSE]_Left => Calm
<1> SUFFICES ASSUME ShownInv, Shown, Shown', [Next]_screenVars, [FALSE]_Left PROVE Calm
  OBVIOUS
<1>1. NandInv /\ [NandNext]_nandVars
  BY StepIsNand DEF ShownInv, ScreensInv
<1>2. claimed' = claimed
  BY <1>1, ClaimsSink
<1> QED
  BY <1>2 DEF Calm, Stays, Shown

LEMMA CallsEnd ==
  ASSUME IsFiniteSet(Ops)
  PROVE  Watching /\ NandBusyEnds => <>[]~Busy
<1> DEFINE Given == ~nandBusy
           Aborts == Given /\ start[Rpc].at = "abort"
           Reports == Given /\ start[Rpc].at = "report"
<1>1. Given => Aborts \/ Reports \/ ~Busy
  BY DEF Busy
<1>2. ShownInv /\ Shown /\ Shown' /\ [Next]_screenVars /\ [FALSE]_Left =>
        /\ Given => Given'
        /\ Aborts => Aborts' \/ Reports'
        /\ Reports => Reports' \/ ~Busy'
        /\ ~Busy => ~Busy'
  BY WatchIsCalm, CalmCalls
<1>3. ShownInv /\ <<StartStep(Rpc)>>_nandVars => (Aborts => ~Aborts') /\ (Reports => ~Reports')
  <2> SUFFICES ASSUME ShownInv, StartStep(Rpc) PROVE (Aborts => ~Aborts') /\ (Reports => ~Reports')
    OBVIOUS
  <2>1. start \in StartRecords /\ Rpc \in Callers /\ Rpc # Screen
    BY ShapeParts, CallersDiffer, NandAssumption DEF ShownInv, ScreensInv, NandInv
  <2> QED
    BY <2>1 DEF StartStep, CreateTask, UnmadeAborts, UnmadeReports, StartAt, Starts, Returns, StartRecords
<1>4. NandReady /\ (Aborts \/ Reports) => ENABLED <<StartStep(Rpc)>>_nandVars
  <2>1. Rpc \in Callers
    BY CallersDiffer
  <2>2. NandReady => CallReady(Rpc)
    BY <2>1 DEF NandReady
  <2> QED
    BY <2>2 DEF CallReady
<1>5. Fairness => CallRuns(Rpc)
  BY CallersDiffer DEF Fairness, NandFairness
<1>6. ~nandBusy => Given
  OBVIOUS
<1> HIDE DEF Given, Aborts, Reports
<1> QED
  BY <1>1, <1>2, <1>3, <1>4, <1>5, <1>6, PTL DEF Watching, CallRuns, NandBusyEnds

LEMMA OthersEnd ==
  ASSUME IsFiniteSet(Ops)
  PROVE  Watching /\ []~Busy => <>[]~OtherHolds
<1> DEFINE Begun == OtherAt("idle")
           Prepared == OtherAt("prepared")
           Committing == OtherAt("committing")
<1>1. ShownInv /\ Shown /\ ~Busy /\ OtherHolds => Begun \/ Prepared \/ Committing
  BY SettledIs DEF Shown
<1>2. ShownInv /\ Shown /\ Shown' /\ ~Busy /\ [Next]_screenVars /\ [FALSE]_Left =>
        /\ Begun => Begun' \/ Prepared' \/ ~OtherHolds'
        /\ Prepared => Prepared' \/ Committing' \/ ~OtherHolds'
        /\ Committing => Committing' \/ ~OtherHolds'
        /\ ~OtherHolds => ~OtherHolds'
  BY WatchIsCalm, CalmSettles DEF OtherNears
<1>3. ShownInv /\ <<OtherRuns>>_screenVars =>
        /\ Begun => Prepared' \/ ~OtherHolds'
        /\ Prepared => Committing' \/ ~OtherHolds'
        /\ Committing => ~OtherHolds'
  BY OtherMoves DEF OtherRuns, OtherNears
<1>4. ScreensReady /\ OtherHolds => ENABLED <<OtherRuns>>_screenVars
  BY DEF ScreensReady
<1>5. Begun \/ Prepared \/ Committing => OtherHolds
  BY DEF OtherAt
<1>6. Fairness => OthersRun
  BY DEF Fairness
<1> HIDE DEF Begun, Prepared, Committing
<1> QED
  BY <1>1, <1>2, <1>3, <1>4, <1>5, <1>6, PTL DEF Watching, OthersRun

LEMMA PollsEnd ==
  ASSUME IsFiniteSet(Ops)
  PROVE  ~(Watching /\ []Settled /\ []Waits)
<1> DEFINE Sleeps == poll = "sleep"
           Rests == poll = "rest"
<1>1. ShownInv => Sleeps \/ Rests
  BY DEF ShownInv, ScreensInv, ScreenTypes
<1>2. ShownInv /\ Settled /\ Waits => Failing \/ Closing
  BY WaitEnds
<1>3. ShownInv /\ Shown /\ Shown' /\ Settled /\ [Next]_screenVars /\ [FALSE]_Left =>
        /\ Failing => Failing' /\ ~<<PollCopy>>_screenVars
        /\ Closing => Closing' /\ ~<<PollRest \/ InstallReturns>>_screenVars
        /\ <<PollRest \/ InstallReturns>>_screenVars => Sleeps'
        /\ Closing /\ Rests => Rests'
        /\ <<PollCopy>>_screenVars => Rests'
  <2> SUFFICES ASSUME ShownInv, Shown, Shown', Settled, [Next]_screenVars, [FALSE]_Left
               PROVE  /\ Failing => Failing' /\ ~PollCopy
                      /\ Closing => Closing' /\ ~(PollRest \/ InstallReturns)
                      /\ PollRest \/ InstallReturns => Sleeps'
                      /\ Closing /\ Rests => Rests'
                      /\ PollCopy => Rests'
    OBVIOUS
  <2>1. Calm
    BY WatchIsCalm
  <2>2. ~InstallReturns
    BY <2>1, StayIs DEF Calm, InstallReturns
  <2>3. PollRest => Sleeps'
    BY DEF PollRest
  <2>4. PollCopy => Rests'
    BY <2>1, SettledIs DEF Settled, PollCopy, NewlyIn, Calm, Stays
  <2>5. Rests => PollRest \/ Rests'
    BY <2>1, StayIs DEF Calm, Polls, PollCopy, PollMisses, screenVars
  <2> QED
    BY <2>1, <2>2, <2>3, <2>4, <2>5, CalmPolls
<1>4. ShownInv /\ Shown /\ Settled /\ ScreensReady =>
        /\ Sleeps => ENABLED <<PollCopy>>_screenVars
        /\ Rests => ENABLED <<PollRest \/ InstallReturns>>_screenVars
  BY SettledIs DEF ScreensReady, Settled, Shown, ShownInv, UpdateShown
<1>5. Sleeps => ~Rests
  OBVIOUS
<1>6. Fairness => PollRuns /\ ScreenRuns
  BY DEF Fairness
<1> HIDE DEF Sleeps, Rests
<1> QED
  BY <1>1, <1>2, <1>3, <1>4, <1>5, <1>6, PTL DEF Watching, PollRuns, ScreenRuns

\* That the operations to come run out, as no natural number sinks for ever.
ClaimsSettle == <>[][Sinks]_Left => <>[][FALSE]_Left

LEMMA WaitStays ==
  ShownInv /\ Waits /\ [Next]_screenVars /\ Shown' => Waits'
<1> SUFFICES ASSUME ShownInv, Waits, [Next]_screenVars, Shown' PROVE Waits'
  OBVIOUS
<1>1. Stays
  BY DEF Stays, Waits, Shown
<1>2. CASE PollCopy
  BY <1>1, <1>2 DEF PollCopy, NewlyIn, Stays, Waits, Shown
<1>3. CASE PollRest
  <2>1. nandSeen' = nandSeen
    BY <1>3 DEF PollRest
  <2>2. phaseSeen = "progress" => phaseSeen' = "progress"
    <3>1. record.phase \in Writer!Phases
      BY NandParts DEF ShownInv, ScreensInv
    <3> QED
      BY <1>1, <1>3, <3>1 DEF PollRest, PhaseShown, Stays, Kind, Writer!Phases
  <2> QED
    BY <2>1, <2>2 DEF Waits, Shown
<1>4. CASE UNCHANGED screen
  BY <1>4 DEF screen, Waits
<1> QED
  BY <1>1, <1>2, <1>3, <1>4, StayIs DEF Polls, PollMisses, screenVars

\* The update page is left by itself, from whatever page and press it came, and
\* whoever's update it shows.
THEOREM UpdatePageIsLeft ==
  ASSUME IsFiniteSet(Ops)
  PROVE  Spec /\ []Fairness /\ []NandReady /\ []ScreensReady /\ ClaimsSettle => UpdatePageEnds
<1>1. ShownInv /\ [Next]_screenVars => [Sinks]_Left
  BY StepIsNand, ClaimsSink DEF ShownInv, ScreensInv
<1>2. Waits => Shown
  BY DEF Waits, Shown
<1>3. /\ Waits <=> (page = "update" /\ (nandSeen # "failed" \/ phaseSeen = "progress"))
      /\ page # "update" <=> ~Shown
  BY DEF Waits, Shown
<1>4. Settled <=> ~Busy /\ ~OtherHolds
  BY DEF Settled
<1>5. /\ Watching /\ NandBusyEnds => <>[]~Busy
      /\ Watching /\ []~Busy => <>[]~OtherHolds
      /\ ~(Watching /\ []Settled /\ []Waits)
  BY CallsEnd, OthersEnd, PollsEnd
<1>6. Watching /\ NandBusyEnds => ~[]Waits
  BY <1>4, <1>5, PTL DEF Watching, NandBusyEnds
<1> QED
  BY <1>1, <1>2, <1>3, <1>6, WaitStays, ShownInvariance, ScreensFreeNand, PTL
     DEF Spec, Watching, ClaimsSettle, NandBusyEnds, UpdatePageEnds
=============================================================================
