----------------------------- MODULE UpdateCode -----------------------------
(***************************************************************************)
(* The display code that authorises one HTTP update                        *)
(* (firmware/recovery/main/factory_http_update_authorization.c).  A code   *)
(* is shown while the HTTP Update page is open, rotates when its interval  *)
(* ends, and is consumed by the first request that supplies it.  The code  *)
(* itself is not modelled: a supplied code equals the one shown or it does *)
(* not.  Each action is one critical section of s_code_lock; rotation has  *)
(* two, with the random number drawn in between.                           *)
(***************************************************************************)
EXTENDS Naturals

CONSTANTS
  Readers,      \* the tasks that call consume or get_snapshot
  Display,      \* the one that does so under the display lock
  MaxAttempts   \* CONFIG_IRIS_FACTORY_HTTP_TRIGGER_MAX_ATTEMPTS

ASSUME CodeAssumption == MaxAttempts \in Nat \ {0} /\ Display \in Readers

VARIABLES
  code,      \* s_code
  rotation,  \* a reader between the two halves of rotate_code_if_due
  page       \* the HTTP Update page is open

codeVars == <<code, rotation, page>>

States == {"disabled", "available", "expired", "locked", "consumed", "running",
           "start_failed"}

\* The deadline of the interval, expires_us: 0, ahead, or passed.
Timers == {"off", "ahead", "due"}

Disabled == [state |-> "disabled", attempts |-> 0, timer |-> "off"]

\* A new code.  The first version leaves the attempt counter alone.
NewCodeOldAttempts == [state |-> "available", attempts |-> code.attempts, timer |-> "ahead"]
NewCode == [state |-> "available", attempts |-> 0, timer |-> "ahead"]

\* code_is_due_locked, and a version for which a lock never ends.
IsDueAvailable == code.state = "available" /\ code.timer = "due"
IsDue == code.state \in {"available", "locked"} /\ code.timer = "due"

\* ++s_code.generation: the claims of earlier generations are superseded.
\* rotation[r] compares the generation r claimed with the one of s_code.
NextGeneration == [r \in Readers |-> IF rotation[r] = "none" THEN "none" ELSE "superseded"]

InUse == code.state \in {"consumed", "running"}

CodeInit ==
  /\ code = Disabled
  /\ rotation = [r \in Readers |-> "none"]
  /\ page = FALSE

----------------------------------------------------------------------------
\* The interval ends.
Elapse ==
  /\ code.timer = "ahead"
  /\ code' = [code EXCEPT !.timer = "due"]
  /\ UNCHANGED <<rotation, page>>

\* rotate_code_if_due, the first critical section.
RotateClaim(r) ==
  /\ rotation[r] = "none" /\ IsDue
  /\ r = Display => page
  /\ code' = [state |-> "expired", attempts |-> 0, timer |-> "off"]
  /\ rotation' = [NextGeneration EXCEPT ![r] = "current"]
  /\ UNCHANGED page

\* The check of the second critical section, and none at all.
MayPublishAlways(r) == rotation[r] # "none"
MayPublish(r) == code.state = "expired" /\ rotation[r] = "current"

\* rotate_code_if_due, the second critical section.  random_code cannot fail:
\* every value below one million prints as six digits.
RotatePublish(r) ==
  /\ rotation[r] # "none"
  /\ code' = IF MayPublish(r) THEN [code EXCEPT !.state = "available", !.timer = "ahead"]
             ELSE code
  /\ rotation' = [rotation EXCEPT ![r] = "none"]
  /\ UNCHANGED page

\* factory_http_update_code_generate
Generate ==
  IF InUse THEN UNCHANGED <<code, rotation>>
  ELSE code' = NewCode /\ rotation' = NextGeneration

\* factory_http_update_code_cancel
Cancel ==
  IF InUse THEN UNCHANGED <<code, rotation>>
  ELSE code' = Disabled /\ rotation' = NextGeneration

\* show_page and factory_ui_open_http_update, under the display lock.
DisplayFree == rotation[Display] = "none"
OpenPage == ~page /\ DisplayFree /\ page' = TRUE /\ Generate
ClosePage == page /\ DisplayFree /\ page' = FALSE /\ Cancel
GenerateAgain == page /\ DisplayFree /\ ~InUse /\ Generate /\ UNCHANGED page

----------------------------------------------------------------------------
(* factory_http_update_code_consume.  Its loop rotates until no interval is *)
(* due; then one critical section decides.                                  *)

Decides(r) == rotation[r] = "none" /\ ~IsDue

Accept(r) ==
  /\ Decides(r) /\ code.state = "available"
  /\ code' = [code EXCEPT !.state = "consumed", !.timer = "off"]
  /\ rotation' = NextGeneration
  /\ UNCHANGED page

\* A lock keeps the deadline: it ends with the interval.
Reject(r) ==
  /\ Decides(r) /\ code.state = "available"
  /\ code' = [code EXCEPT !.attempts = @ + 1,
                          !.state = IF code.attempts + 1 >= MaxAttempts THEN "locked" ELSE @]
  /\ UNCHANGED <<rotation, page>>

MarkRunning ==
  IF code.state = "consumed"
  THEN code' = [code EXCEPT !.state = "running"] /\ rotation' = NextGeneration
  ELSE UNCHANGED <<code, rotation>>

\* The states mark_start_failed leaves, and a version that forgets that the
\* update was marked running before it was started.
StartableConsumed == {"consumed"}
Startable == {"consumed", "running"}

MarkStartFailed ==
  IF code.state \in Startable
  THEN code' = [code EXCEPT !.state = "start_failed"] /\ rotation' = NextGeneration
  ELSE UNCHANGED <<code, rotation>>

MarkUpdateFailed ==
  IF code.state = "running"
  THEN code' = [code EXCEPT !.state = "start_failed"] /\ rotation' = NextGeneration
  ELSE UNCHANGED <<code, rotation>>

----------------------------------------------------------------------------
\* Types; and a code that is shown has an attempt left (remaining_attempts is
\* an unsigned difference), an interval, and its page open.
CodeTypeOK ==
  /\ code \in [state : States, attempts : 0..MaxAttempts, timer : Timers]
  /\ rotation \in [Readers -> {"none", "current", "superseded"}]
  /\ page \in BOOLEAN
  /\ code.state = "available" => code.attempts < MaxAttempts

\* "Rotation continues only while the page remains open": no rotation that
\* was under way when the page closed brings a code back.
CodeOnPage == code.state \in {"available", "locked", "expired"} => page /\ (code.state # "expired" => code.timer # "off")

\* A lock ends with its interval.
LockLifts == code.state = "locked" ~> code.state # "locked"
=============================================================================
