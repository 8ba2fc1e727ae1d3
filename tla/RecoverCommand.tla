--------------------------- MODULE RecoverCommand ---------------------------
(***************************************************************************)
(* mosaico.py recover, once the bundle is prepared: the maintenance leases *)
(* of the Gateway, the flash tool, and the acceptance of what it wrote     *)
(* (tools/mosaico_cli/commands.py, gateway.py, runtime.py).  Gateway and   *)
(* flash tool are external.  Time passes in ticks: every call the command  *)
(* makes has a limit, and every lease a time to live.                      *)
(***************************************************************************)
EXTENDS Naturals, FiniteSets

CONSTANTS
  Boards, Target,         \* the boards on the desk; the one the operator means
  Old, New,               \* what a board runs: something else, the prepared Recovery
  AcquireTime, RenewTime, \* limits: a grant, a renewal,
  ProbeTime, PrepareTime, \* the ROM probe, the environment of the flash tool,
  FlashTime, FinishTime,  \* the flash tool, the end of a lease
  Margin                  \* what a lease lives longer than the flash tool

ASSUME RecoverAssumption ==
  /\ Target \in Boards /\ Old # New
  /\ {AcquireTime, RenewTime, ProbeTime, PrepareTime, FlashTime, FinishTime, Margin} \subseteq Nat

VARIABLES
  route,     \* managed, independent (--recovery-port) or unowned (in ROM mode)
  mac,       \* the factory MAC of the target is known
  named,     \* the board on the serial interface when it was enumerated first
  wire,      \* the board on it now
  board,     \* what each board runs, and whether it started since its boot id
             \* was recorded with the main lease
  tool,      \* the flash tool, or what is left of it when its parent was killed
  at, left,  \* where the command stands, and what is left of its time
  lease,     \* the Gateway's: [state, ttl]
  held,      \* the leases the command has to finish
  noted,     \* those it reported as quarantined
  leaked,    \* history: granted, and the command never learned of it
  written,   \* history: the boards the tool wrote to its end
  restarted, \* history: the target started by itself
  since      \* history: the time from the first renewal to the flash tool

given == <<route, mac, named>>
desk == <<wire, board, tool>>
host == <<at, left>>
history == <<leaked, written, restarted, since>>
vars == <<given, desk, host, lease, held, noted, history>>

Leases == {"main", "aux"}
Ttl == FlashTime + Margin
Limit ==
  [acquire |-> AcquireTime, acquire_aux |-> AcquireTime, renew |-> RenewTime,
   renew_aux |-> RenewTime, probe |-> ProbeTime, prepare |-> PrepareTime, flash |-> FlashTime,
   complete |-> FinishTime, release |-> FinishTime, unwind |-> FinishTime]
Steps == DOMAIN Limit
Ends == {"succeeded", "failed", "killed"}
Try == Steps \ {"unwind"}

Needed == IF route = "independent" THEN Leases ELSE {"main"}
Active(l) == lease[l].state = "active"
Endpoint == IF route = "managed" THEN Target ELSE wire

\* The device was found, or not; its MAC is known or not; the interface that
\* the operator named was enumerated once.
Init ==
  /\ route \in {"managed", "independent", "unowned"} /\ mac \in BOOLEAN
  /\ named \in Boards /\ (route = "unowned" => named = Target) /\ wire = named
  /\ board \in [Boards -> [runs : {Old, New}, fresh : {FALSE}]]
  /\ tool = "none" /\ at = "acquire" /\ left = AcquireTime
  /\ lease = [l \in Leases |-> [state |-> "none", ttl |-> 0]]
  /\ held = {} /\ noted = {} /\ leaked = {} /\ written = {} /\ restarted = FALSE
  /\ since = 0

Goes(step) == at' = step /\ left' = Limit[step]
Stops(end) == at' = end /\ left' = 0
Grants(l) == lease' = [lease EXCEPT ![l] = [state |-> "active", ttl |-> Ttl]]
Releases(l) == lease' = [lease EXCEPT ![l].state = "released"]

\* An exception, an interrupt or a limit: the leases are unwound.
Fails == Goes("unwind")

----------------------------------------------------------------------------
(* The leases.                                                             *)

\* acquire_maintenance_lease, then acquire_endpoint_maintenance_lease for the
\* independent interface, which is then enumerated again.
AcquireMain ==
  /\ at = "acquire" /\ Grants("main") /\ held' = {"main"}
  /\ Goes(IF route = "independent" THEN "acquire_aux" ELSE "renew")
  /\ UNCHANGED <<given, desk, noted, history>>

AcquireAux ==
  /\ at = "acquire_aux" /\ Grants("aux") /\ held' = held \cup {"aux"}
  /\ IF wire = named THEN Goes("renew") ELSE Fails
  /\ UNCHANGED <<given, desk, noted, history>>

\* The Gateway grants it too late, or without an endpoint to write, and then the
\* abort may fail in silence.
Leak ==
  \E l \in Leases :
    /\ at = (IF l = "main" THEN "acquire" ELSE "acquire_aux")
    /\ Grants(l) /\ leaked' = leaked \cup {l} /\ Fails
    /\ UNCHANGED <<given, desk, held, noted, written, restarted, since>>

\* How long a lease lives when it is renewed, and versions without
\* the margin, and with it twice.
RenewedBare == FlashTime
RenewedAgain == Ttl + Margin
Renewed == Ttl

Renews(l) == Active(l) /\ lease' = [lease EXCEPT ![l].ttl = Renewed]

Probed == mac /\ route # "managed"
AfterRenewal == IF Probed THEN "probe" ELSE "prepare"

Renew ==
  /\ \/ at = "renew" /\ Renews("main")
        /\ Goes(IF route = "independent" THEN "renew_aux" ELSE AfterRenewal)
     \/ at = "renew_aux" /\ Renews("aux") /\ Goes(AfterRenewal)
  /\ UNCHANGED <<given, desk, held, noted, history>>

----------------------------------------------------------------------------
(* The flash tool.                                                         *)

\* read_rom_hardware_mac: another board than the one selected ends the run.
Probe ==
  /\ at = "probe" /\ wire = Target /\ Goes("prepare")
  /\ UNCHANGED <<given, desk, lease, held, noted, history>>

StartTool ==
  /\ at = "prepare" /\ tool' = "running" /\ Goes("flash")
  /\ board' = [board EXCEPT ![Endpoint].runs = Old]
  /\ UNCHANGED <<given, wire, lease, held, noted, history>>

\* The board is written and starts.
Writes ==
  /\ board' = [board EXCEPT ![Endpoint] = [runs |-> New, fresh |-> TRUE]]
  /\ written' = written \cup {Endpoint} /\ tool' = "none"
  /\ UNCHANGED <<leaked, restarted, since>>

Flash ==
  /\ at = "flash" /\ tool = "running" /\ Writes /\ Goes("complete")
  /\ UNCHANGED <<given, wire, lease, held, noted>>

\* What the killed parent left behind ends by itself.
OrphanEnds ==
  /\ tool = "orphan"
  /\ Writes \/ (tool' = "none" /\ UNCHANGED <<board, history>>)
  /\ UNCHANGED <<given, wire, host, lease, held, noted>>

----------------------------------------------------------------------------
(* The acceptance and the end of the leases.                               *)

\* What the command takes for the recovered target, when the Gateway found the
\* prepared version on the interface of the main lease: the MAC if it is known,
\* and a new boot id if another interface was written.  And a version that does
\* not look at the boot id.
AcceptsVersion(b) == board[b].runs = New
Accepts(b) ==
  /\ board[b].runs = New
  /\ mac => b = Target
  /\ route = "independent" => b = Target /\ board[b].fresh

Verified == IF route = "unowned" THEN wire ELSE Target

\* finish_maintenance_lease: complete.
Complete ==
  /\ at = "complete" /\ Active("main") /\ Releases("main") /\ held' = held \ {"main"}
  /\ board[Verified].runs = New
  /\ \/ Accepts(Verified) /\ route = "independent" /\ Goes("release")
     \/ Accepts(Verified) /\ route # "independent" /\ Stops("succeeded")
     \/ ~Accepts(Verified) /\ Fails
  /\ UNCHANGED <<given, desk, noted, history>>

ReleaseAux ==
  /\ at = "release" /\ Releases("aux") /\ held' = {} /\ Stops("succeeded")
  /\ UNCHANGED <<given, desk, noted, history>>

\* The Gateway ends a lease and its answer is lost.
ReplyLost ==
  /\ at \in {"complete", "release"} /\ Fails
  /\ Releases(IF at = "complete" THEN "main" ELSE "aux")
  /\ UNCHANGED <<given, desk, held, noted, history>>

----------------------------------------------------------------------------
(* Failure.                                                                *)

\* Any call that fails or meets its limit, or an interrupt by the operator.
\* The tool's parent is killed, and the tool may outlive it.
Fail ==
  /\ at \in Try /\ Fails
  /\ tool' \in (IF at = "flash" THEN {"none", "orphan"} ELSE {tool})
  /\ UNCHANGED <<given, wire, board, lease, held, noted, history>>

\* What is left when a lease could not be finished: the others go on.  And a
\* version that ends there.
LeavesAll(l) == {}
Leaves(l) == held \ {l}

\* A lease is aborted, or it is reported as quarantined.
Unwind ==
  \E l \in held :
    /\ at = "unwind" /\ (l = "aux" => "main" \notin held)
    /\ \/ Releases(l) /\ held' = held \ {l} /\ noted' \in {noted, noted \cup {l}}
       \/ UNCHANGED lease /\ held' = Leaves(l) /\ noted' = noted \cup {l}
    /\ left' = FinishTime /\ UNCHANGED <<given, desk, at, history>>

Unwound ==
  /\ at = "unwind" /\ held = {} /\ Stops("failed")
  /\ UNCHANGED <<given, desk, lease, held, noted, history>>

\* The process is killed, or interrupted while it unwinds.
Killed ==
  /\ at \in Steps /\ Stops("killed")
  /\ tool' \in (IF at = "flash" THEN {"none", "orphan"} ELSE {tool})
  /\ UNCHANGED <<given, wire, board, lease, held, noted, history>>

----------------------------------------------------------------------------
(* The desk, and time.                                                     *)

\* The operator plugs another board into the interface, until the tool writes.
Replug ==
  /\ route # "managed" /\ at \in Try \ {"flash", "complete", "release"}
  /\ wire' \in Boards \ {wire}
  /\ UNCHANGED <<given, board, tool, host, lease, held, noted, history>>

Restarts ==
  /\ at # "acquire" /\ ~restarted /\ restarted' = TRUE
  /\ board' = [board EXCEPT ![Target].fresh = TRUE]
  /\ UNCHANGED <<given, wire, tool, host, lease, held, noted, leaked, written, since>>

\* A lease that outlived its time expires.
Aged(l) ==
  IF ~Active(l) THEN lease[l]
  ELSE IF lease[l].ttl = 0 THEN [lease[l] EXCEPT !.state = "expired"]
  ELSE [lease[l] EXCEPT !.ttl = @ - 1]

\* What delays the flash tool after the lease of the device was renewed.
Delays == {"renew_aux", "probe", "prepare"}

Tick ==
  /\ since' = IF at \in Delays THEN since + 1 ELSE since
  /\ IF at \in Steps THEN left > 0 /\ left' = left - 1
     ELSE (\E l \in Leases : Active(l)) /\ UNCHANGED left
  /\ lease' = [l \in Leases |-> Aged(l)]
  /\ UNCHANGED <<given, desk, at, held, noted, leaked, written, restarted>>

----------------------------------------------------------------------------
Command ==
  \/ AcquireMain \/ AcquireAux \/ Leak \/ Renew \/ Probe \/ StartTool \/ Flash
  \/ Complete \/ ReleaseAux \/ ReplyLost \/ Fail \/ Unwind \/ Unwound

Next == Command \/ Killed \/ OrphanEnds \/ Replug \/ Restarts \/ Tick

Spec == Init /\ [][Next]_vars

----------------------------------------------------------------------------
\* Types; the command holds no lease that it was not granted.
RecoverTypeOK ==
  /\ route \in {"managed", "independent", "unowned"} /\ mac \in BOOLEAN
  /\ named \in Boards /\ wire \in Boards
  /\ board \in [Boards -> [runs : {Old, New}, fresh : BOOLEAN]]
  /\ tool \in {"none", "running", "orphan"}
  /\ at \in Steps \cup Ends /\ left \in Nat /\ (at \in Steps => left <= Limit[at])
  /\ lease \in [Leases -> [state : {"none", "active", "released", "expired"}, ttl : 0..Ttl]]
  /\ held \subseteq Needed /\ noted \subseteq Needed /\ leaked \subseteq Needed
  /\ \A l \in held : lease[l].state # "none"
  /\ written \subseteq Boards /\ restarted \in BOOLEAN /\ since \in Nat

\* README.md:77-79: the reservations of both interfaces remain while the tool
\* writes, to the end of its own limit, as long as the calls between the
\* first renewal and the tool take no more than the margin together.
HeldWhileFlashing ==
  at \in {"prepare", "flash"} /\ since <= Margin => \A l \in Needed : Active(l)

\* README.md:90-92: success means that the board that was verified runs the
\* prepared Recovery and that the tool wrote it, and that it is the one the
\* operator named wherever anything but the interface identifies it.  With the
\* wrong board on the independent interface, only a target that ran it already
\* and started by itself passes for recovered.
SuccessIsFlashed ==
  at = "succeeded" =>
    /\ board[Verified].runs = New
    /\ Verified \in written \/ (route = "independent" /\ restarted)
    /\ mac \/ route # "unowned" => Verified = Target

\* README.md:93-95: a failed run leaves no lease behind that it knows of and
\* did not report.
FailureUnwinds == at = "failed" => \A l \in Leases : Active(l) => l \in noted \cup leaked
=============================================================================
