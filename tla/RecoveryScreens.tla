-------------------------- MODULE RecoveryScreens --------------------------
(***************************************************************************)
(* The recovery screens (firmware/recovery/main/factory_ui.c) over the     *)
(* NAND source and the published update status.  A poll every 250 ms and   *)
(* the presses of the user share the display lock; the tasks they watch    *)
(* do not.  The poll copies the NAND snapshot first and reads the status   *)
(* of the backend after: PollCopy and PollRest.  ScreensWithOta adds the   *)
(* application OTA.                                                        *)
(* The page called "home" stands for every page from which no update is    *)
(* seen or started here: the home page, Wi-Fi, pairing, password and HTTP  *)
(* Update (see UpdateCode for that one).                                   *)
(***************************************************************************)
EXTENDS NandSource

CONSTANT NoBundle  \* an unused slot of the catalog

ASSUME ScreenAssumption == NoBundle \notin Bundles

VARIABLES
  page,       \* s_ui.page
  view,       \* the catalog of s_nand_snapshot_view, the poll's copy
  rows,       \* the bundles in the rows of the list page
  chosen,     \* s_ui.selected_nand, as long as the confirm page shows it
  nandSeen,   \* s_ui.nand_update_state, and the update state of the copy
  phaseSeen,  \* s_ui.update_phase
  poll        \* where the poll stands; it holds the display lock at "rest"

screen == <<page, view, rows, chosen, nandSeen, phaseSeen>>
screenVars == <<nandVars, screen, poll>>

Pages == {"home", "nand_list", "nand_confirm", "update", "result"}

\* Phases as the screens tell them apart.
Kind(phase) ==
  IF phase \in {"prepared", "receiving", "verified", "committing"} THEN "progress" ELSE phase
Kinds == {"idle", "progress", "committed", "failed"}

Init ==
  /\ NandInit
  /\ page = "home" /\ view = << >> /\ rows = << >> /\ chosen = NoBundle
  /\ nandSeen = "idle" /\ phaseSeen = "idle" /\ poll = "sleep"

\* The selection matters only to the confirm page.
KeepChosen == chosen' = IF page' = "nand_confirm" THEN chosen ELSE NoBundle

----------------------------------------------------------------------------
(* The poll: ui_status_task.                                               *)

\* nand_list_rebuild shows no row during a scan or after one that failed.
RowsShown == IF nand.scan \in {"running", "failed"} THEN << >> ELSE nand.list

\* The catalog part of nand_ui_update: the copy holds the catalog in any case,
\* and the rows follow a new generation only while their page is shown.
TakeSnapshot ==
  /\ view' = nand.list /\ changed' = FALSE
  /\ rows' = IF changed /\ page = "nand_list" THEN RowsShown ELSE rows

\* A change of the update state; and the comparison made after the assignment.
NewlyReadLate(state) == nand.update = state /\ nandSeen' # state
NewlyIn(state) == nand.update = state /\ nandSeen # state

\* The update part of nand_ui_update: where the poll goes from here.
PollCopy ==
  /\ poll = "sleep" /\ start[Screen].at = "idle"
  /\ TakeSnapshot
  /\ nandSeen' = nand.update
  /\ page' = IF NewlyIn("starting") THEN "update"
             ELSE IF NewlyIn("failed") THEN "result" ELSE page
  /\ KeepChosen
  /\ poll' = IF nand.update = "starting" \/ NewlyIn("failed") THEN "sleep" ELSE "rest"
  /\ UNCHANGED <<writer, nandBusy, nand, scanning, start, task, faults, phaseSeen>>

\* The mutex of the snapshot was taken; the poll goes on without it.
PollMisses ==
  /\ poll = "sleep" /\ start[Screen].at = "idle"
  /\ poll' = "rest"
  /\ UNCHANGED <<nandVars, screen>>

\* system_update_ui_update
PhaseShown ==
  LET kind == Kind(record.phase) IN
    /\ page' = CASE kind = "progress" -> "update"
                 [] kind \in {"committed", "failed"} /\ kind # phaseSeen -> "result"
                 [] OTHER -> page
    /\ phaseSeen' = IF kind = "idle" THEN phaseSeen ELSE kind

PollRest ==
  /\ poll = "rest" /\ poll' = "sleep"
  /\ PhaseShown /\ KeepChosen
  /\ UNCHANGED <<nandVars, view, rows, nandSeen>>

----------------------------------------------------------------------------
(* Presses, under the display lock.                                        *)

PressedUnlocked == start[Screen].at = "idle" /\ UNCHANGED poll
Pressed == poll = "sleep" /\ start[Screen].at = "idle" /\ UNCHANGED poll

Show(p) == page' = p

\* nand_open_event and Rescan (nand_scan_event).
OpenList ==
  /\ Pressed /\ page \in {"home", "nand_list"}
  /\ Show("nand_list") /\ RequestScan
  /\ UNCHANGED <<writer, start, task, view, rows, chosen, nandSeen, phaseSeen>>

\* nand_select_event.  A row holds an index into the poll's copy, which may be
\* newer than the row; and a version without the test of the index.
CandidateAt(i) == IF i \in DOMAIN view THEN view[i] ELSE NoBundle
UncheckedRow(i) == i \in DOMAIN rows
RowLives(i) == i \in DOMAIN view

Select(i) ==
  /\ Pressed /\ page = "nand_list" /\ i \in DOMAIN rows /\ RowLives(i)
  /\ chosen' = CandidateAt(i) /\ Show("nand_confirm")
  /\ UNCHANGED <<nandVars, view, rows, nandSeen, phaseSeen>>

\* Cancel on the confirm page: the list again, without a scan or a rebuild.
CancelConfirm ==
  /\ Pressed /\ page = "nand_confirm" /\ Show("nand_list") /\ KeepChosen
  /\ UNCHANGED <<nandVars, view, rows, nandSeen, phaseSeen>>

\* The back button; and factory_ui_open_http_update, from any page.  The update
\* page has no button, the result page has Home.
Leave ==
  /\ Pressed /\ page # "home" /\ Show("home") /\ KeepChosen
  /\ UNCHANGED <<nandVars, view, rows, nandSeen, phaseSeen>>

\* nand_install_event: the press lasts until start_nand returns.
Install ==
  /\ Pressed /\ page = "nand_confirm" /\ Begin(Screen)
  /\ UNCHANGED screen

InstallReturns ==
  /\ \/ start[Screen].at = "refused" /\ Show("result")
     \/ start[Screen].at = "started" /\ Show("update")
  /\ Returns(Screen, "idle") /\ KeepChosen
  /\ UNCHANGED <<writer, nandBusy, nand, changed, scanning, task, faults, poll>>
  /\ UNCHANGED <<view, rows, nandSeen, phaseSeen>>

\* result_home_event
Home ==
  /\ Pressed /\ page = "result" /\ Show("home")
  /\ phaseSeen' = Kind(record.phase)
  /\ UNCHANGED <<nandVars, view, rows, chosen, nandSeen>>

Press ==
  \/ OpenList \/ CancelConfirm \/ Leave \/ Install \/ Home
  \/ \E i \in 1..MaxCandidates : Select(i)

----------------------------------------------------------------------------
\* Nothing here outlives a reset.
Reset ==
  /\ NandReset
  /\ page' = "home" /\ view' = << >> /\ rows' = << >> /\ chosen' = NoBundle
  /\ nandSeen' = "idle" /\ phaseSeen' = "idle" /\ poll' = "sleep"

\* restart_task, after a commit.  A power loss leads to the same state.
Restart == record.phase = "committed" /\ Reset

\* Everything but the part of the poll that shows the shared status.
Elsewhere ==
  \/ PollCopy \/ PollMisses \/ Press \/ InstallReturns
  \/ NandStep /\ UNCHANGED <<screen, poll>>

Next == PollRest \/ Elsewhere \/ Restart

\* An update that another source started goes on to its end (see WriterReturns).
OtherRuns == OtherGoesOn /\ UNCHANGED <<screen, poll>>

\* The poll sleeps 250 ms; the mutex it tries is held for a copy only.
PollRuns == SF_screenVars(PollCopy)
ScreenRuns == WF_screenVars(PollRest \/ InstallReturns)
OthersRun == WF_screenVars(OtherRuns)

Fairness == NandFairness /\ PollRuns /\ ScreenRuns /\ OthersRun

Spec == Init /\ [][Next]_screenVars
FairSpec == Spec /\ Fairness

----------------------------------------------------------------------------
\* Types of the screens; the poll and a press hold the display lock in turn.
ScreenTypes ==
  /\ page \in Pages /\ chosen \in Bundles \cup {NoBundle}
  /\ view \in Catalogs /\ rows \in Catalogs
  /\ nandSeen \in UpdateStates /\ phaseSeen \in Kinds
  /\ poll \in {"sleep", "rest"} /\ (poll = "rest" => start[Screen].at = "idle")

\* Types of the screens and of the source under them.
TypeOK == ScreenTypes /\ NandTypeOK

\* The list can show rows of a catalog that is gone (a rescan, a press and
\* Cancel between two polls); still the confirm page always names a bundle.
ConfirmNamesBundle == page = "nand_confirm" => chosen # NoBundle

\* The update page has no button.  It is left by itself, unless the polls have
\* already seen both sources of failure fail: one that fails again before the
\* next poll shows them no change.
UpdatePageEnds ==
  page = "update" /\ (nandSeen # "failed" \/ phaseSeen = "progress") ~> page # "update"

\* The poll, a call of the screen and the other sources can go on: none waits
\* for a press.  A poll that would find the NAND update still starting, as the
\* one before it did, changes nothing.
OtherHolds == holder.owner = Other /\ record.phase # "committed"
ScreensReady ==
  /\ poll = "sleep" /\ start[Screen].at = "idle" /\ nand.update # "starting" =>
       ENABLED <<PollCopy>>_screenVars
  /\ poll = "rest" => ENABLED <<PollRest \/ InstallReturns>>_screenVars
  /\ OtherHolds => ENABLED <<OtherRuns>>_screenVars
============================================================================
