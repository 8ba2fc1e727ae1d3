--------------------------- MODULE ScreensWithOta ---------------------------
(***************************************************************************)
(* The recovery screens with the application OTA of ESP-Iris beside the    *)
(* System Update: both share the progress page.  esp_iris_ota_get_status   *)
(* reports the last job, also when it is over; a job that succeeds         *)
(* restarts the device.                                                    *)
(***************************************************************************)
EXTENDS RecoveryScreens

VARIABLES
  ota,     \* the last job of ESP-Iris
  otaSeen  \* ota_was_active, as far as this job is concerned

otaVars == <<ota, otaSeen>>
allVars == <<screenVars, otaVars>>

OtaInit == Init /\ ota = "none" /\ otaSeen = FALSE

\* Each job has an id of its own: what was seen of the one before is void.
OtaStarts ==
  /\ ota # "active" /\ ota' = "active" /\ otaSeen' = FALSE
  /\ UNCHANGED screenVars

OtaFails ==
  /\ ota = "active" /\ ota' = "failed"
  /\ UNCHANGED <<screenVars, otaSeen>>

\* ota_ui_update
OtaShows ==
  \/ ota = "active" /\ page' = "update" /\ otaSeen' = TRUE
  \/ ota = "failed" /\ otaSeen /\ page' = "result" /\ UNCHANGED otaSeen

OtaSilent == ota = "none" \/ (ota = "failed" /\ ~otaSeen)

\* The rest of the poll: the System Update is looked at only when the OTA is
\* silent.
OtaPollRest ==
  \/ /\ poll = "rest" /\ poll' = "sleep" /\ OtaShows /\ KeepChosen
     /\ UNCHANGED <<nandVars, view, rows, nandSeen, phaseSeen, ota>>
  \/ OtaSilent /\ PollRest /\ UNCHANGED otaVars

OtaRestart ==
  /\ record.phase = "committed" \/ ota = "active"
  /\ Reset /\ ota' = "none" /\ otaSeen' = FALSE

OtaNext ==
  \/ OtaStarts \/ OtaFails \/ OtaPollRest \/ OtaRestart
  \/ Elsewhere /\ UNCHANGED otaVars

OtaSpec == OtaInit /\ [][OtaNext]_allVars

----------------------------------------------------------------------------
\* A result page that is left standing does not hide a System Update: a poll
\* that finds one under way, and no OTA job, goes to the progress page, which
\* both kinds of update share (firmware/recovery/README.md, line 27).
ProgressShown ==
  [][poll = "rest" /\ poll' = "sleep" /\ page = "result" /\ ota # "active"
       /\ record'.phase = record.phase /\ Kind(record.phase) = "progress"
       => page' = "update"]_allVars
=============================================================================
