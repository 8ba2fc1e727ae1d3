--------------------------- MODULE RecoverProofs ---------------------------
(***************************************************************************)
(* The safety properties of RecoverCommand, for any boards, any limits of  *)
(* the calls and any margin of a lease.                                    *)
(***************************************************************************)
EXTENDS RecoverCommand, TLAPS

----------------------------------------------------------------------------
(* The inductive invariant.                                                *)

\* What the command holds, and what its tool does, at each of its steps.
Holding ==
  /\ at = "acquire" => held = {} /\ \A l \in Leases : ~Active(l)
  /\ at = "acquire_aux" => held = {"main"} /\ route = "independent" /\ ~Active("aux")
  /\ at = "renew_aux" => route = "independent"
  /\ at \in {"renew", "renew_aux", "probe", "prepare", "flash", "complete"} => held = Needed
  /\ at = "release" => held = {"aux"} /\ route = "independent" /\ ~Active("main")
  /\ at \in Try => noted = {} /\ leaked = {}
  /\ at = "failed" => held = {}
  /\ at = "flash" <=> tool = "running"
  /\ tool = "orphan" => at \in {"unwind", "failed", "killed"}

\* Every lease that runs is one to finish, reported or never heard of, unless
\* the process is gone.
Accounted == at # "killed" => \A l \in Leases : Active(l) => l \in held \cup noted \cup leaked

\* What is left of a renewed lease, while the margin is not used up, covers what
\* is left to do before the tool ends.
Kept(l) == since <= Margin => Active(l) /\ lease[l].ttl + since >= Ttl
Outlasts(l) == since <= Margin => Active(l) /\ lease[l].ttl + since >= Margin + left

Covers ==
  /\ at = "renew_aux" => Kept("main")
  /\ at \in {"probe", "prepare"} => \A l \in Needed : Kept(l)
  /\ at = "flash" => \A l \in Needed : Outlasts(l)
  /\ at \in {"acquire", "acquire_aux", "renew"} => since = 0

\* A board that counts as started was written, or started by itself; after the
\* tool the interface it wrote has the prepared version.
Written ==
  /\ board[Target].fresh => Target \in written \/ restarted
  /\ at = "complete" => Endpoint \in written /\ board[Endpoint].runs = New
  /\ at = "release" => board[Target].runs = New /\ (Target \in written \/ restarted)

RecoverInv ==
  RecoverTypeOK /\ Holding /\ Accounted /\ Covers /\ Written /\ SuccessIsFlashed

----------------------------------------------------------------------------
(* Constants, and what the helpers of the actions do.                      *)

LEMMA Constants ==
  /\ Target \in Boards /\ Old # New
  /\ AcquireTime \in Nat /\ RenewTime \in Nat /\ ProbeTime \in Nat /\ PrepareTime \in Nat
  /\ FlashTime \in Nat /\ FinishTime \in Nat /\ Margin \in Nat
  /\ Ttl \in Nat /\ Ttl = FlashTime + Margin
BY RecoverAssumption DEF Ttl

LEMMA LimitsDo ==
  /\ Steps = {"acquire", "acquire_aux", "renew", "renew_aux", "probe", "prepare", "flash",
              "complete", "release", "unwind"}
  /\ Limit \in [Steps -> Nat]
  /\ Limit["renew_aux"] = RenewTime /\ Limit["probe"] = ProbeTime
  /\ Limit["prepare"] = PrepareTime /\ Limit["flash"] = FlashTime
BY Constants DEF Limit, Steps

LEMMA TryIs == Try = {"acquire", "acquire_aux", "renew", "renew_aux", "probe", "prepare", "flash",
                      "complete", "release"}
BY LimitsDo DEF Try

LEMMA GoesDoes ==
  ASSUME NEW step \in Steps, Goes(step)
  PROVE  at' = step /\ left' = Limit[step] /\ left' \in Nat /\ left' <= Limit[at']
BY LimitsDo DEF Goes

LeaseRecords == [Leases -> [state : {"none", "active", "released", "expired"}, ttl : 0..Ttl]]

LEMMA GrantsDoes ==
  ASSUME RecoverTypeOK, NEW l \in Leases, Grants(l)
  PROVE  /\ lease' \in LeaseRecords /\ lease'[l].state = "active" /\ lease'[l].ttl = Ttl
         /\ \A k \in Leases \ {l} : lease'[k] = lease[k]
BY Constants DEF RecoverTypeOK, Grants, LeaseRecords

LEMMA ReleasesDoes ==
  ASSUME RecoverTypeOK, NEW l \in Leases, Releases(l)
  PROVE  /\ lease' \in LeaseRecords /\ lease'[l].state = "released"
         /\ \A k \in Leases \ {l} : lease'[k] = lease[k]
BY DEF RecoverTypeOK, Releases, LeaseRecords

LEMMA RenewsDoes ==
  ASSUME RecoverTypeOK, NEW l \in Leases, Renews(l)
  PROVE  /\ lease' \in LeaseRecords /\ Active(l) /\ lease'[l].state = "active"
         /\ lease'[l].ttl = Ttl /\ \A k \in Leases \ {l} : lease'[k] = lease[k]
BY Constants DEF RecoverTypeOK, Renews, Renewed, Active, LeaseRecords

LEMMA AgedDoes ==
  ASSUME RecoverTypeOK, NEW l \in Leases
  PROVE  /\ Aged(l) \in [state : {"none", "active", "released", "expired"}, ttl : 0..Ttl]
         /\ Aged(l).state # "none" <=> lease[l].state # "none"
         /\ Aged(l).state = "active" => Active(l)
         /\ Active(l) /\ lease[l].ttl > 0 =>
              Aged(l).state = "active" /\ Aged(l).ttl = lease[l].ttl - 1
BY Constants DEF RecoverTypeOK, Aged, Active

----------------------------------------------------------------------------
(* One lemma for each action.                                              *)

LEMMA AcquireMainKeeps == RecoverInv /\ AcquireMain => RecoverInv'
<1> SUFFICES ASSUME RecoverInv, AcquireMain PROVE RecoverInv'
  OBVIOUS
<1> USE DEF RecoverInv, AcquireMain, given, desk, history, Active, Needed, Leases, Endpoint
<1>1. left' \in Nat /\ left' <= Limit[at'] /\ at' \in {"acquire_aux", "renew"}
  BY GoesDoes, LimitsDo DEF Goes
<1>2. lease' \in LeaseRecords /\ lease'["main"].state = "active" /\ lease'["aux"] = lease["aux"]
  BY GrantsDoes
<1>3. RecoverTypeOK'
  BY <1>1, <1>2, LimitsDo DEF RecoverTypeOK, LeaseRecords
<1>4. Holding' /\ Accounted' /\ Covers'
  <2>1. Holding'
    BY <1>1, <1>2, TryIs DEF Holding, Goes, Stops, Fails
  <2>2. Accounted'
    BY <1>1, <1>2 DEF Holding, Accounted, Goes, Stops, Fails
  <2>3. Covers'
    BY <1>1, <1>2 DEF Holding, Covers, Goes, Stops, Fails
  <2> QED
    BY <2>1, <2>2, <2>3
<1>5. Written' /\ SuccessIsFlashed'
  BY <1>1 DEF Written, SuccessIsFlashed, Verified
<1> QED
  BY <1>3, <1>4, <1>5

LEMMA AcquireAuxKeeps == RecoverInv /\ AcquireAux => RecoverInv'
<1> SUFFICES ASSUME RecoverInv, AcquireAux PROVE RecoverInv'
  OBVIOUS
<1> USE DEF RecoverInv, AcquireAux, given, desk, history, Active, Needed, Leases, Endpoint
<1>1. left' \in Nat /\ left' <= Limit[at'] /\ at' \in {"renew", "unwind"}
  BY GoesDoes, LimitsDo DEF Goes, Fails
<1>2. lease' \in LeaseRecords /\ lease'["aux"].state = "active" /\ lease'["main"] = lease["main"]
  BY GrantsDoes
<1>3. RecoverTypeOK'
  BY <1>1, <1>2, LimitsDo DEF RecoverTypeOK, LeaseRecords, Holding
<1>4. Holding' /\ Accounted' /\ Covers'
  <2>1. Holding'
    BY <1>1, <1>2, TryIs DEF Holding, Goes, Stops, Fails
  <2>2. Accounted'
    BY <1>1, <1>2 DEF Holding, Accounted, Goes, Stops, Fails
  <2>3. Covers'
    BY <1>1, <1>2 DEF Holding, Covers, Goes, Stops, Fails
  <2> QED
    BY <2>1, <2>2, <2>3
<1>5. Written' /\ SuccessIsFlashed'
  BY <1>1 DEF Written, SuccessIsFlashed, Verified
<1> QED
  BY <1>3, <1>4, <1>5

LEMMA LeakKeeps == RecoverInv /\ Leak => RecoverInv'
<1> SUFFICES ASSUME RecoverInv, Leak PROVE RecoverInv'
  OBVIOUS
<1> USE DEF RecoverInv, given, desk, Active, Needed, Leases, Endpoint
<1> PICK l \in Leases :
      /\ at = (IF l = "main" THEN "acquire" ELSE "acquire_aux")
      /\ Grants(l) /\ leaked' = leaked \cup {l} /\ Fails
      /\ UNCHANGED <<given, desk, held, noted, written, restarted, since>>
  BY DEF Leak
<1>1. left' \in Nat /\ left' <= Limit[at'] /\ at' = "unwind"
  BY GoesDoes, LimitsDo DEF Fails
<1>2. /\ lease' \in LeaseRecords /\ lease'[l].state = "active"
      /\ \A k \in Leases \ {l} : lease'[k] = lease[k]
  BY GrantsDoes
<1>3. l \in Needed
  BY DEF Holding
<1>4. RecoverTypeOK'
  BY <1>1, <1>2, <1>3, LimitsDo DEF RecoverTypeOK, LeaseRecords
<1>5. Holding' /\ Accounted' /\ Covers'
  <2>1. Holding'
    BY <1>1, <1>2, TryIs DEF Holding, Goes, Stops, Fails
  <2>2. Accounted'
    BY <1>1, <1>2 DEF Holding, Accounted, Goes, Stops, Fails
  <2>3. Covers'
    BY <1>1, <1>2 DEF Holding, Covers, Goes, Stops, Fails
  <2> QED
    BY <2>1, <2>2, <2>3
<1>6. Written' /\ SuccessIsFlashed'
  BY <1>1 DEF Written, SuccessIsFlashed, Verified
<1> QED
  BY <1>4, <1>5, <1>6

LEMMA RenewKeeps == RecoverInv /\ Renew => RecoverInv'
<1> SUFFICES ASSUME RecoverInv, Renew PROVE RecoverInv'
  OBVIOUS
<1> USE DEF RecoverInv, given, desk, history, Active, Needed, Leases, Endpoint
<1>1. AfterRenewal \in {"probe", "prepare"}
  BY DEF AfterRenewal
<1>2. left' \in Nat /\ left' <= Limit[at'] /\ at' \in {"renew_aux", "probe", "prepare"}
  BY <1>1, GoesDoes, LimitsDo DEF Goes, Renew
<1>3. PICK l \in Leases : Renews(l) /\ l = (IF at = "renew" THEN "main" ELSE "aux")
  BY DEF Renew
<1>4. /\ lease' \in LeaseRecords /\ lease[l].state = "active" /\ lease'[l].state = "active"
      /\ lease'[l].ttl = Ttl /\ \A k \in Leases \ {l} : lease'[k] = lease[k]
  BY <1>3, RenewsDoes
<1>5. RecoverTypeOK'
  BY <1>2, <1>4, LimitsDo DEF RecoverTypeOK, LeaseRecords, Renew
<1>6. Holding'
  <2>1. at' = "renew_aux" => route = "independent"
    BY <1>1 DEF Renew, Goes
  <2>2. held = Needed /\ held' = held /\ noted' = noted /\ leaked' = leaked /\ tool' = tool
    BY DEF Holding, Renew
  <2>3. noted = {} /\ leaked = {} /\ tool # "running" /\ tool # "orphan" /\ route' = route
    BY TryIs DEF Holding, Renew
  <2> QED
    BY <1>2, <2>1, <2>2, <2>3 DEF Holding
<1>7. Accounted'
  BY <1>2, <1>4 DEF Accounted, Renew
<1>8. Covers'
  <2>1. since' = since /\ since \in Nat
    BY DEF Renew, RecoverTypeOK
  <2>2. CASE at = "renew"
    <3>1. since = 0 /\ l = "main" /\ (at' = "renew_aux" \/ route # "independent")
      BY <2>2, <1>3 DEF Covers, Renew, Goes
    <3> QED
      BY <1>2, <1>4, <2>1, <3>1, Constants DEF Covers, Kept, Renew
  <2>3. CASE at = "renew_aux"
    <3>1. l = "aux" /\ at' \in {"probe", "prepare"} /\ Kept("main")
      BY <2>3, <1>1, <1>3 DEF Covers, Renew, Goes
    <3> QED
      BY <1>4, <2>1, <3>1, Constants DEF Covers, Kept
  <2> QED
    BY <2>2, <2>3 DEF Renew
<1>9. Written' /\ SuccessIsFlashed'
  BY <1>2 DEF Written, SuccessIsFlashed, Verified, Renew
<1> QED
  BY <1>5, <1>6, <1>7, <1>8, <1>9

LEMMA ProbeKeeps == RecoverInv /\ Probe => RecoverInv'
<1> SUFFICES ASSUME RecoverInv, Probe PROVE RecoverInv'
  OBVIOUS
<1> USE DEF RecoverInv, Probe, given, desk, history, Active, Needed, Leases, Endpoint
<1>1. left' = PrepareTime /\ at' = "prepare"
  BY LimitsDo DEF Goes
<1>2. RecoverTypeOK'
  BY <1>1, Constants, LimitsDo DEF RecoverTypeOK
<1>3. Holding' /\ Accounted'
  <2>1. Holding'
    BY <1>1, TryIs DEF Holding, Goes, Stops, Fails
  <2>2. Accounted'
    BY <1>1 DEF Holding, Accounted, Goes, Stops, Fails
  <2> QED
    BY <2>1, <2>2
<1>4. Covers'
  <2>1. \A l \in Leases : lease[l].ttl \in Nat
    BY Constants DEF RecoverTypeOK
  <2>2. since \in Nat
    BY DEF RecoverTypeOK
  <2> QED
    BY <1>1, <2>1, <2>2, Constants DEF Covers, Kept, Outlasts
<1>5. Written' /\ SuccessIsFlashed'
  BY <1>1 DEF Written, SuccessIsFlashed, Verified
<1> QED
  BY <1>2, <1>3, <1>4, <1>5

LEMMA EndpointIsBoard ==
  ASSUME RecoverTypeOK
  PROVE  Endpoint \in Boards
BY Constants DEF RecoverTypeOK, Endpoint

LEMMA StartToolKeeps == RecoverInv /\ StartTool => RecoverInv'
<1> SUFFICES ASSUME RecoverInv, StartTool PROVE RecoverInv'
  OBVIOUS
<1> USE DEF RecoverInv, StartTool, given, history, Active, Needed, Leases
<1>1. left' = FlashTime /\ at' = "flash" /\ tool' = "running"
  BY LimitsDo DEF Goes
<1>2. /\ board' \in [Boards -> [runs : {Old, New}, fresh : BOOLEAN]]
      /\ board'[Target].fresh = board[Target].fresh
  BY EndpointIsBoard, Constants DEF RecoverTypeOK
<1>3. RecoverTypeOK'
  BY <1>1, <1>2, Constants, LimitsDo DEF RecoverTypeOK
<1>4. Holding' /\ Accounted'
  <2>1. Holding'
    BY <1>1, TryIs DEF Holding, Goes, Stops, Fails
  <2>2. Accounted'
    BY <1>1 DEF Holding, Accounted, Goes, Stops, Fails
  <2> QED
    BY <2>1, <2>2
<1>5. Covers'
  <2>1. \A l \in Leases : lease[l].ttl \in Nat
    BY Constants DEF RecoverTypeOK
  <2>2. since \in Nat
    BY DEF RecoverTypeOK
  <2> QED
    BY <1>1, <2>1, <2>2, Constants DEF Covers, Kept, Outlasts
<1>6. Written' /\ SuccessIsFlashed'
  BY <1>1, <1>2 DEF Written, SuccessIsFlashed
<1> QED
  BY <1>3, <1>4, <1>5, <1>6

LEMMA WritesDoes ==
  ASSUME RecoverTypeOK, Writes
  PROVE  /\ board' \in [Boards -> [runs : {Old, New}, fresh : BOOLEAN]]
         /\ written' = written \cup {Endpoint} /\ written' \subseteq Boards
         /\ board'[Endpoint].runs = New /\ Endpoint \in Boards
         /\ \A b \in Boards \ {Endpoint} : board'[b] = board[b]
         /\ tool' = "none" /\ leaked' = leaked /\ restarted' = restarted /\ since' = since
BY EndpointIsBoard DEF RecoverTypeOK, Writes

LEMMA FlashKeeps == RecoverInv /\ Flash => RecoverInv'
<1> SUFFICES ASSUME RecoverInv, Flash PROVE RecoverInv'
  OBVIOUS
<1> USE DEF RecoverInv, Flash, given, Active, Needed, Leases
<1>1. left' \in Nat /\ left' <= Limit[at'] /\ at' = "complete"
  BY GoesDoes, LimitsDo
<1> DEFINE B == [Boards -> [runs : {Old, New}, fresh : BOOLEAN]]
<1>2. /\ board' \in B /\ written' = written \cup {Endpoint} /\ written' \subseteq Boards
      /\ board'[Endpoint].runs = New /\ \A b \in Boards \ {Endpoint} : board'[b] = board[b]
      /\ tool' = "none" /\ leaked' = leaked /\ restarted' = restarted /\ since' = since
  BY WritesDoes
<1>3. RecoverTypeOK'
  BY <1>1, <1>2, LimitsDo DEF RecoverTypeOK
<1>4. Holding' /\ Accounted' /\ Covers'
  <2>1. Holding'
    BY <1>1, <1>2, TryIs DEF Holding, Goes, Stops, Fails
  <2>2. Accounted'
    BY <1>1, <1>2 DEF Holding, Accounted, Goes, Stops, Fails
  <2>3. Covers'
    BY <1>1, <1>2 DEF Holding, Covers, Goes, Stops, Fails
  <2> QED
    BY <2>1, <2>2, <2>3
<1>5. Written' /\ SuccessIsFlashed'
  BY <1>1, <1>2, Constants DEF Written, SuccessIsFlashed, Endpoint
<1> QED
  BY <1>3, <1>4, <1>5

LEMMA OrphanEndsKeeps == RecoverInv /\ OrphanEnds => RecoverInv'
<1> SUFFICES ASSUME RecoverInv, OrphanEnds PROVE RecoverInv'
  OBVIOUS
<1> USE DEF RecoverInv, given, host, history, Active, Needed, Leases
<1>1. at \in {"unwind", "failed", "killed"} /\ tool' = "none"
  BY DEF OrphanEnds, Holding, Writes
<1>2. CASE Writes
  <2> DEFINE B == [Boards -> [runs : {Old, New}, fresh : BOOLEAN]]
  <2>1. /\ board' \in B /\ written' = written \cup {Endpoint} /\ written' \subseteq Boards
        /\ board'[Endpoint].runs = New /\ \A b \in Boards \ {Endpoint} : board'[b] = board[b]
        /\ tool' = "none" /\ leaked' = leaked /\ restarted' = restarted /\ since' = since
    BY <1>2, WritesDoes
  <2>2. RecoverTypeOK'
    BY <2>1 DEF RecoverTypeOK, OrphanEnds
  <2>3. Holding' /\ Accounted' /\ Covers'
    <3>1. Holding'
      BY <1>1, <2>1, TryIs DEF Holding, OrphanEnds, Goes, Stops, Fails
    <3>2. Accounted'
      BY <1>1, <2>1 DEF Holding, Accounted, OrphanEnds, Goes, Stops, Fails
    <3>3. Covers'
      BY <1>1, <2>1 DEF Holding, Covers, OrphanEnds, Goes, Stops, Fails
    <3> QED
      BY <3>1, <3>2, <3>3
  <2>4. Written' /\ SuccessIsFlashed'
    BY <1>1, <2>1, Constants DEF Written, SuccessIsFlashed, OrphanEnds
  <2> QED
    BY <2>2, <2>3, <2>4
<1>3. CASE UNCHANGED <<board, history>>
  <2>1. RecoverTypeOK'
    BY <1>1, <1>3 DEF RecoverTypeOK, OrphanEnds
  <2>2. Holding' /\ Accounted' /\ Covers'
    <3>1. Holding'
      BY <1>1, <1>3, TryIs DEF Holding, OrphanEnds, Goes, Stops, Fails
    <3>2. Accounted'
      BY <1>1, <1>3 DEF Holding, Accounted, OrphanEnds, Goes, Stops, Fails
    <3>3. Covers'
      BY <1>1, <1>3 DEF Holding, Covers, OrphanEnds, Goes, Stops, Fails
    <3> QED
      BY <3>1, <3>2, <3>3
  <2>3. Written' /\ SuccessIsFlashed'
    BY <1>1, <1>3 DEF Written, SuccessIsFlashed, OrphanEnds
  <2> QED
    BY <2>1, <2>2, <2>3
<1> QED
  BY <1>2, <1>3 DEF OrphanEnds

LEMMA CompleteKeeps == RecoverInv /\ Complete => RecoverInv'
<1> SUFFICES ASSUME RecoverInv, Complete PROVE RecoverInv'
  OBVIOUS
<1> USE DEF RecoverInv, Complete, given, desk, history, Active, Needed, Leases
<1>1. /\ left' \in Nat /\ at' \in {"release", "succeeded", "unwind"}
      /\ at' \in Steps => left' <= Limit[at']
  BY GoesDoes, LimitsDo DEF Goes, Stops, Fails
<1>2. lease' \in LeaseRecords /\ lease'["main"].state = "released" /\ lease'["aux"] = lease["aux"]
  BY ReleasesDoes
<1>3. RecoverTypeOK'
  BY <1>1, <1>2, LimitsDo DEF RecoverTypeOK, LeaseRecords, Ends
<1>4. Holding'
  BY <1>1, <1>2, TryIs DEF Holding, Goes, Stops, Fails
<1>5. Accounted' /\ Covers'
  BY <1>1, <1>2 DEF Holding, Accounted, Covers
<1>6. Written' /\ SuccessIsFlashed'
  <2>1. Endpoint \in written
    BY DEF Written
  <2>2. CASE at' = "unwind"
    BY <2>2 DEF Written, SuccessIsFlashed
  <2>3. CASE at' # "unwind"
    <3>1. Accepts(Verified) /\ board[Verified].runs = New
      BY <2>3 DEF Fails, Goes
    <3>2. CASE route = "independent"
      <4>1. Verified = Target /\ board[Target].fresh
        BY <3>1, <3>2 DEF Accepts
      <4>2. at' = "release"
        BY <2>3, <3>2 DEF Fails, Goes
      <4> QED
        BY <3>1, <4>1, <4>2 DEF Written, SuccessIsFlashed
    <3>3. CASE route # "independent"
      <4>1. Verified = Endpoint /\ at' = "succeeded"
        BY <2>3, <3>3 DEF Verified, Endpoint, Stops, Fails, Goes, RecoverTypeOK
      <4>2. mac \/ route # "unowned" => Verified = Target
        BY <3>1 DEF Accepts, Verified
      <4> QED
        BY <2>1, <3>1, <4>1, <4>2 DEF Written, SuccessIsFlashed, Verified
    <3> QED
      BY <3>2, <3>3
  <2> QED
    BY <2>2, <2>3
<1> QED
  BY <1>3, <1>4, <1>5, <1>6

LEMMA ReleaseAuxKeeps == RecoverInv /\ ReleaseAux => RecoverInv'
<1> SUFFICES ASSUME RecoverInv, ReleaseAux PROVE RecoverInv'
  OBVIOUS
<1> USE DEF RecoverInv, ReleaseAux, given, desk, history, Active, Needed, Leases, Stops
<1>1. lease' \in LeaseRecords /\ lease'["aux"].state = "released" /\ lease'["main"] = lease["main"]
  BY ReleasesDoes
<1>2. RecoverTypeOK'
  BY <1>1, LimitsDo DEF RecoverTypeOK, LeaseRecords, Ends
<1>3. Holding' /\ Accounted' /\ Covers'
  <2>1. Holding'
    BY <1>1, TryIs DEF Holding, Goes, Stops, Fails
  <2>2. Accounted'
    BY <1>1 DEF Holding, Accounted, Goes, Stops, Fails
  <2>3. Covers'
    BY <1>1 DEF Holding, Covers, Goes, Stops, Fails
  <2> QED
    BY <2>1, <2>2, <2>3
<1>4. Written' /\ SuccessIsFlashed'
  BY DEF Written, SuccessIsFlashed, Verified, Holding, RecoverTypeOK
<1> QED
  BY <1>2, <1>3, <1>4

LEMMA ReplyLostKeeps == RecoverInv /\ ReplyLost => RecoverInv'
<1> SUFFICES ASSUME RecoverInv, ReplyLost PROVE RecoverInv'
  OBVIOUS
<1> USE DEF RecoverInv, ReplyLost, given, desk, history, Active, Needed, Leases
<1>1. left' \in Nat /\ left' <= Limit[at'] /\ at' = "unwind"
  BY GoesDoes, LimitsDo DEF Fails
<1>2. PICK l \in Leases : Releases(l)
  OBVIOUS
<1>3. /\ lease' \in LeaseRecords /\ lease'[l].state = "released"
      /\ \A k \in Leases \ {l} : lease'[k] = lease[k]
  BY <1>2, ReleasesDoes
<1>4. RecoverTypeOK'
  BY <1>1, <1>3, LimitsDo DEF RecoverTypeOK, LeaseRecords
<1>5. Holding' /\ Accounted' /\ Covers'
  <2>1. Holding'
    BY <1>1, <1>3, TryIs DEF Holding, Goes, Stops, Fails
  <2>2. Accounted'
    BY <1>1, <1>3 DEF Holding, Accounted, Goes, Stops, Fails
  <2>3. Covers'
    BY <1>1, <1>3 DEF Holding, Covers, Goes, Stops, Fails
  <2> QED
    BY <2>1, <2>2, <2>3
<1>6. Written' /\ SuccessIsFlashed'
  BY <1>1 DEF Written, SuccessIsFlashed
<1> QED
  BY <1>4, <1>5, <1>6

LEMMA FailKeeps == RecoverInv /\ Fail => RecoverInv'
<1> SUFFICES ASSUME RecoverInv, Fail PROVE RecoverInv'
  OBVIOUS
<1> USE DEF RecoverInv, Fail, given, history, Active, Needed, Leases
<1>1. left' \in Nat /\ left' <= Limit[at'] /\ at' = "unwind"
  BY GoesDoes, LimitsDo DEF Fails
<1>2. tool' \in {"none", "orphan"}
  BY DEF Holding, RecoverTypeOK
<1>3. RecoverTypeOK'
  BY <1>1, <1>2, LimitsDo DEF RecoverTypeOK
<1>4. Holding' /\ Accounted' /\ Covers'
  <2>1. Holding'
    BY <1>1, <1>2, LimitsDo, TryIs DEF Holding, Goes, Stops, Fails
  <2>2. Accounted'
    BY <1>1, <1>2, TryIs DEF Holding, Accounted
  <2>3. Covers'
    BY <1>1, <1>2, LimitsDo DEF Holding, Covers, Goes, Stops, Fails
  <2> QED
    BY <2>1, <2>2, <2>3
<1>5. Written' /\ SuccessIsFlashed'
  BY <1>1 DEF Written, SuccessIsFlashed
<1> QED
  BY <1>3, <1>4, <1>5

LEMMA UnwindKeeps == RecoverInv /\ Unwind => RecoverInv'
<1> SUFFICES ASSUME RecoverInv, Unwind PROVE RecoverInv'
  OBVIOUS
<1> USE DEF RecoverInv, given, desk, history, Active, Needed, Leases
<1> PICK l \in held :
      /\ at = "unwind"
      /\ \/ Releases(l) /\ held' = held \ {l} /\ noted' \in {noted, noted \cup {l}}
         \/ UNCHANGED lease /\ held' = Leaves(l) /\ noted' = noted \cup {l}
      /\ left' = FinishTime /\ UNCHANGED <<given, desk, at, history>>
  BY DEF Unwind
<1>1. l \in Leases /\ l \in Needed
  BY DEF RecoverTypeOK
<1>2. /\ lease' \in LeaseRecords /\ \A k \in Leases \ {l} : lease'[k] = lease[k]
      /\ lease'[l].state = "active" => l \in noted'
      /\ lease'[l].state # "none"
  BY <1>1, ReleasesDoes DEF RecoverTypeOK, LeaseRecords
<1>3. left' \in Nat /\ left' <= Limit["unwind"]
  BY Constants DEF Limit
<1>4. RecoverTypeOK'
  BY <1>1, <1>2, <1>3 DEF RecoverTypeOK, LeaseRecords, Leaves
<1>5. Holding' /\ Covers'
  <2>1. Holding'
    BY TryIs DEF Holding, Goes, Stops, Fails
  <2>2. Covers'
    BY DEF Holding, Covers, Goes, Stops, Fails
  <2> QED
    BY <2>1, <2>2
<1>6. Accounted'
  BY <1>1, <1>2 DEF Accounted, Leaves
<1>7. Written' /\ SuccessIsFlashed'
  BY DEF Written, SuccessIsFlashed
<1> QED
  BY <1>4, <1>5, <1>6, <1>7

LEMMA UnwoundKeeps == RecoverInv /\ Unwound => RecoverInv'
<1> SUFFICES ASSUME RecoverInv, Unwound PROVE RecoverInv'
  OBVIOUS
<1> USE DEF RecoverInv, Unwound, given, desk, history, Active, Needed, Leases, Stops
<1>1. RecoverTypeOK'
  BY LimitsDo DEF RecoverTypeOK, Ends
<1>2. Holding' /\ Accounted' /\ Covers'
  <2>1. Holding'
    BY TryIs DEF Holding, Goes, Stops, Fails
  <2>2. Accounted'
    BY DEF Holding, Accounted, Goes, Stops, Fails
  <2>3. Covers'
    BY DEF Holding, Covers, Goes, Stops, Fails
  <2> QED
    BY <2>1, <2>2, <2>3
<1>3. Written' /\ SuccessIsFlashed'
  BY DEF Written, SuccessIsFlashed
<1> QED
  BY <1>1, <1>2, <1>3

LEMMA KilledKeeps == RecoverInv /\ Killed => RecoverInv'
<1> SUFFICES ASSUME RecoverInv, Killed PROVE RecoverInv'
  OBVIOUS
<1> USE DEF RecoverInv, Killed, given, history, Active, Needed, Leases, Stops
<1>1. tool' \in {"none", "orphan"}
  BY DEF Holding, RecoverTypeOK
<1>2. RecoverTypeOK'
  BY <1>1, LimitsDo DEF RecoverTypeOK, Ends
<1>3. Holding' /\ Accounted' /\ Covers'
  <2>1. Holding'
    BY <1>1, TryIs DEF Holding, Goes, Stops, Fails
  <2>2. Accounted'
    BY <1>1 DEF Holding, Accounted, Goes, Stops, Fails
  <2>3. Covers'
    BY <1>1 DEF Holding, Covers, Goes, Stops, Fails
  <2> QED
    BY <2>1, <2>2, <2>3
<1>4. Written' /\ SuccessIsFlashed'
  BY DEF Written, SuccessIsFlashed
<1> QED
  BY <1>2, <1>3, <1>4

LEMMA ReplugKeeps == RecoverInv /\ Replug => RecoverInv'
<1> SUFFICES ASSUME RecoverInv, Replug PROVE RecoverInv'
  OBVIOUS
<1> USE DEF RecoverInv, Replug, given, host, history, Active, Needed, Leases
<1>1. RecoverTypeOK'
  BY DEF RecoverTypeOK
<1>2. Holding' /\ Accounted' /\ Covers'
  <2>1. Holding'
    BY TryIs DEF Holding, Goes, Stops, Fails
  <2>2. Accounted'
    BY DEF Holding, Accounted, Goes, Stops, Fails
  <2>3. Covers'
    BY DEF Covers, Kept, Outlasts
  <2> QED
    BY <2>1, <2>2, <2>3
<1>3. Written' /\ SuccessIsFlashed'
  BY TryIs DEF Written, SuccessIsFlashed
<1> QED
  BY <1>1, <1>2, <1>3

LEMMA RestartsKeeps == RecoverInv /\ Restarts => RecoverInv'
<1> SUFFICES ASSUME RecoverInv, Restarts PROVE RecoverInv'
  OBVIOUS
<1> USE DEF RecoverInv, Restarts, given, host, Active, Needed, Leases
<1>1. /\ board' \in [Boards -> [runs : {Old, New}, fresh : BOOLEAN]]
      /\ \A b \in Boards : board'[b].runs = board[b].runs
  BY Constants DEF RecoverTypeOK
<1>2. RecoverTypeOK'
  BY <1>1 DEF RecoverTypeOK
<1>3. Holding' /\ Accounted' /\ Covers'
  <2>1. Holding'
    BY TryIs DEF Holding, Goes, Stops, Fails
  <2>2. Accounted'
    BY DEF Holding, Accounted, Goes, Stops, Fails
  <2>3. Covers'
    BY DEF Covers, Kept, Outlasts
  <2> QED
    BY <2>1, <2>2, <2>3
<1>4. Written' /\ SuccessIsFlashed'
  BY <1>1, EndpointIsBoard, Constants
     DEF Written, SuccessIsFlashed, Verified, Endpoint, RecoverTypeOK
<1> QED
  BY <1>2, <1>3, <1>4

LEMMA TickKeeps == RecoverInv /\ Tick => RecoverInv'
<1> SUFFICES ASSUME RecoverInv, Tick PROVE RecoverInv'
  OBVIOUS
<1> USE DEF RecoverInv, Tick, given, desk, history, Needed, Leases
<1>1. at' = at /\ left' \in Nat /\ (at \in Steps => left > 0 /\ left' = left - 1)
  BY DEF RecoverTypeOK
<1>2. at \in Steps => left' <= Limit[at']
  BY <1>1, LimitsDo DEF RecoverTypeOK
<1>3. \A l \in Leases :
        /\ lease'[l] \in [state : {"none", "active", "released", "expired"}, ttl : 0..Ttl]
        /\ lease'[l].state # "none" <=> lease[l].state # "none"
        /\ Active(l)' => Active(l)
        /\ Active(l) /\ lease[l].ttl > 0 => Active(l)' /\ lease'[l].ttl = lease[l].ttl - 1
  BY AgedDoes DEF Active
<1>4. lease' \in LeaseRecords
  BY <1>3 DEF LeaseRecords
<1>5. RecoverTypeOK'
  BY <1>1, <1>2, <1>3, <1>4 DEF RecoverTypeOK, LeaseRecords
<1>6. Holding' /\ Accounted'
  <2>1. Holding'
    BY <1>1, <1>3, TryIs DEF Holding, Goes, Stops, Fails
  <2>2. Accounted'
    BY <1>1, <1>3 DEF Holding, Accounted, Goes, Stops, Fails
  <2> QED
    BY <2>1, <2>2
<1>7. Covers'
  <2>1. since \in Nat /\ \A l \in Leases : lease[l].ttl \in Nat
    BY Constants DEF RecoverTypeOK
  <2>2. ASSUME NEW l \in Leases, at \in Delays, Kept(l) PROVE Kept(l)'
    <3>1. since' = since + 1
      BY <2>2
    <3>2. since' <= Margin => Active(l) /\ lease[l].ttl > 0 /\ lease[l].ttl + since >= Ttl
      BY <2>1, <2>2, <3>1, Constants DEF Kept
    <3> QED
      BY <1>3, <2>1, <3>1, <3>2, Constants DEF Kept
  <2>3. ASSUME NEW l \in Leases, at = "flash", Outlasts(l) PROVE Outlasts(l)'
    <3>1. since' = since /\ left \in Nat /\ left > 0 /\ left' = left - 1
      BY <1>1, <2>3, LimitsDo DEF Delays, RecoverTypeOK
    <3>2. since <= Margin => Active(l) /\ lease[l].ttl > 0 /\ lease[l].ttl + since >= Margin + left
      BY <2>1, <2>3, <3>1, Constants DEF Outlasts
    <3> QED
      BY <1>3, <2>1, <3>1, <3>2, Constants DEF Outlasts
  <2>4. at \in {"acquire", "acquire_aux", "renew"} => since' = since
    BY DEF Delays
  <2>5. Needed' = Needed
    OBVIOUS
  <2> QED
    BY <1>1, <2>2, <2>3, <2>4, <2>5 DEF Covers, Delays
<1>8. Written' /\ SuccessIsFlashed'
  BY <1>1 DEF Written, SuccessIsFlashed, Verified, Endpoint
<1> QED
  BY <1>5, <1>6, <1>7, <1>8

----------------------------------------------------------------------------
LEMMA RecoverInit == Init => RecoverInv
<1> SUFFICES ASSUME Init PROVE RecoverInv
  OBVIOUS
<1> USE DEF Init, Active, Needed, Leases
<1>1. RecoverTypeOK
  <2>1. lease \in LeaseRecords
    BY Constants DEF LeaseRecords
  <2>2. board \in [Boards -> [runs : {Old, New}, fresh : BOOLEAN]]
    <3>1. [runs : {Old, New}, fresh : {FALSE}] \subseteq [runs : {Old, New}, fresh : BOOLEAN]
      OBVIOUS
    <3> HIDE DEF Init
    <3>2. board \in [Boards -> [runs : {Old, New}, fresh : {FALSE}]]
      BY DEF Init
    <3> QED
      BY <3>1, <3>2
  <2>3. at \in Steps /\ left \in Nat /\ left <= Limit[at]
    <3>1. Limit["acquire"] = AcquireTime
      BY DEF Limit
    <3> QED
      BY <3>1, Constants, LimitsDo
  <2> QED
    BY <2>1, <2>2, <2>3 DEF RecoverTypeOK, LeaseRecords
<1>2. Holding /\ Accounted /\ Covers
  BY TryIs DEF Holding, Accounted, Covers
<1>3. Written /\ SuccessIsFlashed
  BY Constants DEF Written, SuccessIsFlashed
<1> QED
  BY <1>1, <1>2, <1>3 DEF RecoverInv

LEMMA RecoverNext == RecoverInv /\ [Next]_vars => RecoverInv'
<1> SUFFICES ASSUME RecoverInv, [Next]_vars PROVE RecoverInv'
  OBVIOUS
<1>1. CASE Command
  BY <1>1, AcquireMainKeeps, AcquireAuxKeeps, LeakKeeps, RenewKeeps, ProbeKeeps, StartToolKeeps,
     FlashKeeps, CompleteKeeps, ReleaseAuxKeeps, ReplyLostKeeps, FailKeeps, UnwindKeeps,
     UnwoundKeeps DEF Command
<1>2. CASE Killed \/ OrphanEnds \/ Replug \/ Restarts \/ Tick
  BY <1>2, KilledKeeps, OrphanEndsKeeps, ReplugKeeps, RestartsKeeps, TickKeeps
<1>3. CASE UNCHANGED vars
  BY <1>3 DEF vars, given, desk, host, history, RecoverInv, RecoverTypeOK, Holding, Accounted,
     Covers, Kept, Outlasts, Written, SuccessIsFlashed, Active, Needed, Endpoint, Verified
<1> QED
  BY <1>1, <1>2, <1>3 DEF Next

\* RecoverInv holds in every reachable state of recover.
THEOREM RecoverInvariance == Spec => []RecoverInv
BY RecoverInit, RecoverNext, PTL DEF Spec

\* The types of recover, and that it holds no lease that it was not granted.
THEOREM RecoverTypeCorrect == Spec => []RecoverTypeOK
<1>1. RecoverInv => RecoverTypeOK
  BY DEF RecoverInv
<1> QED
  BY <1>1, RecoverInvariance, PTL

\* Whatever the limits of the calls and the margin, the reservations outlast the
\* flash tool and its whole limit in every run in which the calls between the first
\* renewal and the tool took no longer than the margin.
THEOREM ReservationsHeld == Spec => []HeldWhileFlashing
<1>1. RecoverInv => HeldWhileFlashing
  BY DEF RecoverInv, Covers, Kept, Outlasts, HeldWhileFlashing
<1> QED
  BY <1>1, RecoverInvariance, PTL

\* A reported success runs the prepared Recovery, written by this run or, on the
\* independent interface, started by itself; and it is the board that was named
\* wherever its MAC or its managed connection identifies it.
THEOREM SuccessFlashed == Spec => []SuccessIsFlashed
<1>1. RecoverInv => SuccessIsFlashed
  BY DEF RecoverInv
<1> QED
  BY <1>1, RecoverInvariance, PTL

\* A failed run leaves no lease behind that it knows of and did not report.
THEOREM FailureUnwound == Spec => []FailureUnwinds
<1>1. RecoverInv => FailureUnwinds
  BY DEF RecoverInv, Holding, Accounted, FailureUnwinds
<1> QED
  BY <1>1, RecoverInvariance, PTL
=============================================================================
