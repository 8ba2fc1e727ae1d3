---------------------------- MODULE UpdateWriter ----------------------------
(***************************************************************************)
(* What the System Update backend promises the tasks around it: one flash  *)
(* writer, held by one source for one operation, and a status record whose *)
(* phase moves forward and speaks of the operation that holds the writer.  *)
(* SystemUpdate implements this specification; HttpUpdate is built on it.  *)
(***************************************************************************)
CONSTANTS
  Sources,  \* who may hold the writer
  NoOwner,
  Ops,      \* operation ids
  NoOp

VARIABLES
  holder,   \* who holds the writer, and for which operation
  record,   \* the published status
  claimed   \* the operations that have been presented

writerVars == <<holder, record, claimed>>

Phases == {"idle", "prepared", "receiving", "verified", "committing",
           "committed", "failed"}
Results == {"ok", "refused", "aborted"}

Free == [owner |-> NoOwner, op |-> NoOp]
NoRecord == [owner |-> NoOwner, op |-> NoOp, phase |-> "idle", result |-> "ok"]

\* The phases a held operation may report next.
Follows(phase) ==
  CASE phase = "idle"                     -> {"prepared"}
    [] phase \in {"prepared", "verified"} -> {"receiving", "committing"}
    [] phase = "receiving"                -> {"receiving", "verified"}
    [] phase = "committing"               -> {"committed"}
    [] OTHER                              -> {}

Held(s, op) == holder = [owner |-> s, op |-> op]

Init == holder = Free /\ record = NoRecord /\ claimed = {}

\* The local sources claim first and prepare later; ESP-Iris does both in
\* one callback.
Claim(s, op, phase) ==
  /\ holder = Free /\ op \notin claimed
  /\ phase \in {"idle", "prepared"}
  /\ holder' = [owner |-> s, op |-> op]
  /\ record' = [owner |-> s, op |-> op, phase |-> phase, result |-> "ok"]
  /\ claimed' = claimed \cup {op}

\* A manifest refused on the callback path never holds the writer; its error
\* still goes into the record of the operation before it.
Refuse(op) ==
  /\ holder = Free /\ op \notin claimed
  /\ record' = [record EXCEPT !.phase = "failed", !.result = "refused"]
  /\ claimed' = claimed \cup {op}
  /\ UNCHANGED holder

Report(s, op, phase) ==
  /\ Held(s, op) /\ phase \in Follows(record.phase)
  /\ record' = [record EXCEPT !.phase = phase]
  /\ UNCHANGED <<holder, claimed>>

\* A committed operation keeps the writer until the restart.
Release(s, op, result) ==
  /\ Held(s, op) /\ record.phase # "committed"
  /\ holder' = Free
  /\ record' = [record EXCEPT !.phase = "failed", !.result = result]
  /\ UNCHANGED claimed

Reset == holder' = Free /\ record' = NoRecord /\ UNCHANGED claimed

Next ==
  \/ \E s \in Sources, op \in Ops :
       \/ \E phase \in Phases : Claim(s, op, phase) \/ Report(s, op, phase)
       \/ \E result \in {"refused", "aborted"} : Release(s, op, result)
  \/ \E op \in Ops : Refuse(op)
  \/ Reset

Spec == Init /\ [][Next]_writerVars

----------------------------------------------------------------------------
\* While the writer is held the record is that of the holder, and open; an
\* operation holds the writer only once it was claimed.
RecordOfHolder ==
  holder # Free =>
    /\ record.owner = holder.owner /\ record.op = holder.op
    /\ record.phase # "failed" /\ record.result = "ok"
    /\ holder.op \in claimed

\* The writer passes from one operation to the next only through release or
\* restart.
NoTakeover == [][holder # Free => holder' \in {holder, Free}]_writerVars
=============================================================================
