---------------------------- MODULE NetworkProofs ----------------------------
(***************************************************************************)
(* The safety properties of Network, for any networks and any number of    *)
(* calls and of faults.                                                    *)
(***************************************************************************)
EXTENDS Network, TLAPS

----------------------------------------------------------------------------
(* The inductive invariant, over what the event loop still has to handle.  *)

Events == {"scan_done", "disconnected", "got_ip"}

Gone == \E i \in DOMAIN events : events[i] = "disconnected"
Got == \E i \in DOMAIN events : events[i] = "got_ip"
Scanned == \E i \in DOMAIN events : events[i] = "scan_done"
ScanOnce ==
  \A i, j \in DOMAIN events : events[i] = "scan_done" /\ events[j] = "scan_done" => i = j

\* Every address in the queue is taken back by an event behind it.
GotGone ==
  \A i \in DOMAIN events : events[i] = "got_ip" =>
    \E j \in DOMAIN events : j > i /\ events[j] = "disconnected"

Calling == \E c \in Callers : call[c].at \in {"scan", "unscan"}
OneCalling ==
  \A c, d \in Callers :
    call[c].at \in {"scan", "unscan"} /\ call[d].at \in {"scan", "unscan"} => c = d

\* An address, shown or queued, belongs to a link that is up, or its end is queued.
LinkInv ==
  /\ At(Main, "start") => radio.link = "off"
  /\ state = "connected" => radio.link = "up" \/ Gone
  /\ radio.link = "up" \/ GotGone

\* ScanAccounted, said of the queue as a whole.
ScanInv ==
  /\ scanning <=> radio.scan \/ Scanned \/ Calling
  /\ radio.scan => ~Scanned
  /\ Calling => ~radio.scan /\ ~Scanned
  /\ ScanOnce
  /\ OneCalling

\* After a forget nothing under way saves or loads credentials.
ForgottenInv ==
  forgotten =>
    /\ stored = None /\ ~saved /\ pending = None
    /\ handler.at \notin Saving /\ ~At(Main, "loaded")

\* Until the network of a lone connect answers, whatever joins, joins it.
Joining == {"disconnect", "configure", "announce", "join"}
AwaitedInv ==
  awaited # None =>
    /\ At(Main, "idle") /\ handler.at \notin Saving /\ ~Got /\ radio.link # "up"
    /\ \A c \in Callers :
         /\ call[c].at \in Joining => call[c].net = awaited
         /\ call[c].at \in {"announce", "join"} => radio.config = awaited
    /\ radio.link = "joining" \/ Gone \/ handler.at = "rejoin" => radio.config = awaited

NetInv == TypeOK /\ LinkInv /\ ScanInv /\ ForgottenInv /\ AwaitedInv

----------------------------------------------------------------------------
(* Constants, and what the helpers of the actions do.                      *)

Radios == [link : Linked, config : Keys, scan : BOOLEAN]
Handlers == [at : Saving \cup {"idle", "rejoin", "failed"}, net : Networks \cup {None}]
Calls == [Callers -> [at : Stages, net : Pairs \cup {None}]]

LEMMA Constants ==
  /\ Main # Screen /\ Main # Rpc /\ Screen # Rpc
  /\ Main \in Callers /\ Screen \in Callers
  /\ "none" \notin Tags /\ MaxRequests \in Nat /\ MaxFaults \in Nat
BY NetworkAssumption DEF Callers, Tags

LEMMA Nets ==
  /\ Networks \subseteq Pairs /\ Pairs \subseteq Keys /\ None \in Keys
  /\ None \notin Pairs /\ None \notin Networks
  /\ \A t \in Known : Network(t) \in Keys
<1>1. Offered \subseteq Tags /\ Known \subseteq Tags
  BY DEF Tags
<1>2. \A t \in Tags : Network(t) \in Pairs
  BY DEF Network, Pairs
<1>3. Pairs \subseteq Keys /\ None \in Keys
  BY DEF Pairs, Keys, None
<1>4. None \notin Pairs
  BY Constants DEF Pairs, None
<1> QED
  BY <1>1, <1>2, <1>3, <1>4 DEF Networks

LEMMA Parts ==
  ASSUME TypeOK
  PROVE  /\ radio \in Radios /\ handler \in Handlers /\ call \in Calls
         /\ events \in Seq(Events) /\ requests \in 0..MaxRequests /\ faults \in 0..MaxFaults
         /\ stored \in Keys /\ pending \in Networks \cup {None}
BY DEF TypeOK, Radios, Handlers, Calls, Events

\* The types, by part.
Types ==
  /\ state \in States /\ saved \in BOOLEAN /\ scanning \in BOOLEAN /\ late \in BOOLEAN
  /\ pending \in Networks \cup {None} /\ stored \in Keys
  /\ radio \in Radios /\ events \in Seq(Events) /\ handler \in Handlers /\ call \in Calls
  /\ handler.at \in Saving => handler.net \in Networks
  /\ requests \in 0..MaxRequests /\ faults \in 0..MaxFaults
  /\ awaited \in Networks \cup {None} /\ forgotten \in BOOLEAN

LEMMA TypesAre == (TypeOK <=> Types) /\ (TypeOK' <=> Types')
BY DEF TypeOK, Types, Radios, Handlers, Calls, Events

\* A step of one caller: what the others do stays, and who scans follows.
LEMMA CallsSame ==
  ASSUME call' = call
  PROVE  (Calling' <=> Calling) /\ (OneCalling' <=> OneCalling)
BY DEF Calling, OneCalling

Moved(c) ==
  /\ call[c].at \in {"scan", "unscan"} => Calling
  /\ call[c].at \notin {"scan", "unscan"} /\ call'[c].at \notin {"scan", "unscan"}
       => (Calling' <=> Calling) /\ (OneCalling => OneCalling')
  /\ /\ call'[c].at \in {"scan", "unscan"} /\ OneCalling
     /\ call[c].at \in {"scan", "unscan"} \/ ~Calling
     => Calling' /\ OneCalling'
  /\ /\ call[c].at \in {"scan", "unscan"} /\ call'[c].at \notin {"scan", "unscan"}
     /\ OneCalling
     => ~Calling' /\ OneCalling'

LEMMA MoveDoes ==
  ASSUME NEW c \in Callers, \A d \in Callers \ {c} : call'[d] = call[d]
  PROVE  (Main = c \/ call'[Main] = call[Main]) /\ Moved(c)
<1>1. Main \in Callers
  BY Constants
<1>2. \A d \in Callers : d = c \/ call'[d] = call[d]
  OBVIOUS
<1>3. Main = c \/ call'[Main] = call[Main]
  BY <1>1, <1>2
<1>4. call[c].at \in {"scan", "unscan"} => Calling
  BY DEF Calling
<1>5. call[c].at \notin {"scan", "unscan"} /\ call'[c].at \notin {"scan", "unscan"}
        => (Calling' <=> Calling) /\ (OneCalling => OneCalling')
  BY <1>2 DEF Calling, OneCalling
<1>6. /\ call'[c].at \in {"scan", "unscan"} /\ OneCalling
      /\ call[c].at \in {"scan", "unscan"} \/ ~Calling
      => Calling' /\ OneCalling'
  BY <1>2 DEF Calling, OneCalling
<1>7. /\ call[c].at \in {"scan", "unscan"} /\ call'[c].at \notin {"scan", "unscan"}
      /\ OneCalling
      => ~Calling' /\ OneCalling'
  BY <1>2 DEF Calling, OneCalling
<1> QED
  BY <1>3, <1>4, <1>5, <1>6, <1>7 DEF Moved

LEMMA GoesDoes ==
  ASSUME NEW c \in Callers, NEW stage \in Stages, call \in Calls, Goes(c, stage)
  PROVE  /\ call' \in Calls /\ call'[c].at = stage /\ call'[c].net = call[c].net
         /\ \A d \in Callers \ {c} : call'[d] = call[d]
BY DEF Goes, Calls

LEMMA LeavesDoes ==
  ASSUME NEW c \in Callers, NEW stage \in Stages, call \in Calls, Leaves(c, stage)
  PROVE  /\ call' \in Calls /\ call'[c].at = stage
         /\ \A d \in Callers \ {c} : call'[d] = call[d]
BY DEF Leaves, Calls

LEMMA AsksDoes ==
  ASSUME requests \in 0..MaxRequests, Asks
  PROVE  requests' \in 0..MaxRequests /\ faults' = faults
BY Constants DEF Asks

LEMMA FaultDoes ==
  ASSUME faults \in 0..MaxFaults, Fault
  PROVE  faults' \in 0..MaxFaults /\ requests' = requests
BY Constants DEF Fault

\* The queue: as it is, with one event more, and with its first one handled.
QueueKept ==
  /\ (Gone' <=> Gone) /\ (Got' <=> Got) /\ (Scanned' <=> Scanned)
  /\ (ScanOnce' <=> ScanOnce) /\ (GotGone' <=> GotGone)

LEMMA EventsSame ==
  ASSUME events' = events
  PROVE  QueueKept
BY DEF QueueKept, Gone, Got, Scanned, ScanOnce, GotGone

LEMMA PostDoes ==
  ASSUME events \in Seq(Events), NEW e \in Events, Post(e)
  PROVE  /\ events' \in Seq(Events)
         /\ Gone' <=> Gone \/ e = "disconnected"
         /\ Got' <=> Got \/ e = "got_ip"
         /\ Scanned' <=> Scanned \/ e = "scan_done"
         /\ e = "disconnected" \/ (e = "scan_done" /\ GotGone) => GotGone'
         /\ ScanOnce /\ (e = "scan_done" => ~Scanned) => ScanOnce'
<1> DEFINE n == Len(events)
<1>1. n \in Nat /\ DOMAIN events = 1..n
  OBVIOUS
<1>2. /\ events' \in Seq(Events) /\ Len(events') = n + 1 /\ DOMAIN events' = 1..(n + 1)
      /\ events'[n + 1] = e /\ \A i \in 1..n : events'[i] = events[i]
  BY DEF Post
<1> HIDE DEF n
<1>3. /\ \A i \in 1..n : i \in 1..(n + 1) /\ i < n + 1
      /\ n + 1 \in 1..(n + 1) /\ \A i \in 1..(n + 1) : i \in 1..n \/ i = n + 1
  BY <1>1
<1>4. /\ Gone' <=> Gone \/ e = "disconnected"
      /\ Got' <=> Got \/ e = "got_ip"
      /\ Scanned' <=> Scanned \/ e = "scan_done"
  BY <1>1, <1>2, <1>3 DEF Gone, Got, Scanned
<1>5. e = "disconnected" => GotGone'
  BY <1>1, <1>2, <1>3 DEF GotGone
<1>6. e = "scan_done" /\ GotGone => GotGone'
  BY <1>1, <1>2, <1>3 DEF GotGone
<1>7. ScanOnce /\ (e = "scan_done" => ~Scanned) => ScanOnce'
  BY <1>1, <1>2, <1>3 DEF ScanOnce, Scanned
<1> QED
  BY <1>2, <1>4, <1>5, <1>6, <1>7

LEMMA HandlesDoes ==
  ASSUME events \in Seq(Events), NEW e \in Events, Handles(e)
  PROVE  /\ events' \in Seq(Events)
         /\ Gone' => Gone
         /\ e # "disconnected" /\ Gone => Gone'
         /\ Got' => Got
         /\ Scanned' => Scanned
         /\ e # "scan_done" /\ Scanned => Scanned'
         /\ e = "scan_done" => Scanned
         /\ e = "disconnected" => Gone
         /\ e = "got_ip" => Got
         /\ GotGone => GotGone'
         /\ e = "got_ip" /\ GotGone => Gone'
         /\ ScanOnce => ScanOnce'
         /\ e = "scan_done" /\ ScanOnce => ~Scanned'
<1> DEFINE n == Len(events)
<1>1. n \in Nat /\ DOMAIN events = 1..n /\ n > 0 /\ events[1] = e
  BY DEF Handles
<1>2. /\ events' \in Seq(Events) /\ DOMAIN events' = 1..(n - 1)
      /\ \A i \in 1..(n - 1) : events'[i] = events[i + 1]
  BY <1>1 DEF Handles
<1> HIDE DEF n
<1>3. /\ 1 \in 1..n /\ \A i \in 1..(n - 1) : i + 1 \in 1..n /\ i + 1 # 1
      /\ \A i \in 1..n : i = 1 \/ (i - 1 \in 1..(n - 1) /\ events'[i - 1] = events[i])
  BY <1>1, <1>2
<1>4. /\ Gone' => Gone
      /\ Got' => Got
      /\ Scanned' => Scanned
  <2>1. Gone' => Gone
    BY <1>1, <1>2, <1>3 DEF Gone
  <2>2. Got' => Got
    BY <1>1, <1>2, <1>3 DEF Got
  <2>3. Scanned' => Scanned
    BY <1>1, <1>2, <1>3 DEF Scanned
  <2> QED
    BY <2>1, <2>2, <2>3
<1>5. /\ e = "scan_done" => Scanned
      /\ e = "disconnected" => Gone
      /\ e = "got_ip" => Got
  BY <1>1, <1>3 DEF Gone, Got, Scanned
<1>6. /\ e # "disconnected" /\ Gone => Gone'
      /\ e # "scan_done" /\ Scanned => Scanned'
  BY <1>1, <1>2, <1>3 DEF Gone, Scanned
<1>7. GotGone => GotGone'
  <2> SUFFICES ASSUME GotGone, NEW i \in 1..(n - 1), events'[i] = "got_ip"
               PROVE  \E j \in 1..(n - 1) : j > i /\ events'[j] = "disconnected"
    BY <1>2 DEF GotGone
  <2>1. PICK j \in 1..n : j > i + 1 /\ events[j] = "disconnected"
    BY <1>1, <1>2, <1>3 DEF GotGone
  <2>2. j - 1 \in 1..(n - 1) /\ j - 1 > i /\ events'[j - 1] = "disconnected"
    BY <1>1, <1>3, <2>1
  <2> QED
    BY <2>2
<1>8. e = "got_ip" /\ GotGone => Gone'
  <2> SUFFICES ASSUME e = "got_ip", GotGone PROVE Gone'
    OBVIOUS
  <2>1. PICK j \in 1..n : j > 1 /\ events[j] = "disconnected"
    BY <1>1, <1>3 DEF GotGone
  <2>2. j - 1 \in 1..(n - 1) /\ events'[j - 1] = "disconnected"
    BY <1>1, <1>3, <2>1
  <2> QED
    BY <1>2, <2>2 DEF Gone
<1>9. ScanOnce => ScanOnce'
  <2> SUFFICES ASSUME ScanOnce, NEW i \in 1..(n - 1), NEW j \in 1..(n - 1),
                      events'[i] = "scan_done", events'[j] = "scan_done"
               PROVE  i = j
    BY <1>2 DEF ScanOnce
  <2>1. events[i + 1] = "scan_done" /\ events[j + 1] = "scan_done"
    BY <1>2
  <2>2. i + 1 = j + 1
    BY <1>1, <1>3, <2>1 DEF ScanOnce
  <2> QED
    BY <2>2, <1>1
<1>10. e = "scan_done" /\ ScanOnce => ~Scanned'
  <2> SUFFICES ASSUME e = "scan_done", ScanOnce, NEW i \in 1..(n - 1), events'[i] = "scan_done"
               PROVE  FALSE
    BY <1>2 DEF Scanned
  <2>1. events[i + 1] = "scan_done" /\ i + 1 \in 1..n /\ i + 1 # 1
    BY <1>2, <1>3
  <2> QED
    BY <1>1, <1>3, <2>1 DEF ScanOnce
<1> QED
  BY <1>2, <1>4, <1>5, <1>6, <1>7, <1>8, <1>9, <1>10

\* The driver.
LEMMA JoinDoes ==
  ASSUME radio \in Radios, Join
  PROVE  /\ radio' \in Radios /\ radio.link = "idle" /\ radio'.link = "joining"
         /\ radio'.config = radio.config /\ radio'.scan = radio.scan
BY DEF Join, Radios, Linked

\* What a disconnect leaves of the link and of the queue.
Unlinked ==
  /\ radio' \in Radios /\ radio'.config = radio.config /\ radio'.scan = radio.scan
  /\ radio'.link \notin {"joining", "up"} /\ events' \in Seq(Events)
  /\ radio.link = "off" <=> radio'.link = "off"
  /\ Gone' <=> Gone \/ radio.link \in {"joining", "up"}
  /\ (Got' <=> Got) /\ (Scanned' <=> Scanned) /\ (ScanOnce' <=> ScanOnce)
  /\ GotGone \/ radio.link = "up" => GotGone'

LEMMA DisconnectDoes ==
  ASSUME radio \in Radios, events \in Seq(Events), ScanOnce, Disconnect
  PROVE  Unlinked
<1>1. CASE radio.link \in {"joining", "up"}
  <2>1. radio' = [radio EXCEPT !.link = "idle"] /\ Post("disconnected")
    BY <1>1 DEF Disconnect
  <2>2. /\ events' \in Seq(Events) /\ Gone' /\ (Got' <=> Got) /\ (Scanned' <=> Scanned)
        /\ GotGone' /\ ScanOnce'
    BY <2>1, PostDoes DEF Events
  <2>3. /\ radio' \in Radios /\ radio'.config = radio.config /\ radio'.scan = radio.scan
        /\ radio'.link = "idle"
    BY <2>1 DEF Radios, Linked
  <2> QED
    BY <1>1, <2>2, <2>3 DEF Unlinked
<1>2. CASE radio.link \notin {"joining", "up"}
  <2>1. radio' = radio /\ events' = events
    BY <1>2 DEF Disconnect
  <2> QED
    BY <1>2, <2>1, EventsSame DEF Unlinked, QueueKept
<1> QED
  BY <1>1, <1>2

----------------------------------------------------------------------------
(* One lemma for each action.                                              *)

Elsewhere == UNCHANGED <<snapshot, stored, handler, call, asked>>

LEMMA RadioUpKeeps == NetInv /\ RadioUp /\ Elsewhere => NetInv'
<1> SUFFICES ASSUME NetInv, RadioUp /\ Elsewhere PROVE NetInv'
  OBVIOUS
<1>1. /\ TypeOK /\ LinkInv /\ ScanInv /\ ForgottenInv /\ AwaitedInv
      /\ radio \in Radios /\ handler \in Handlers /\ call \in Calls /\ events \in Seq(Events)
  BY Parts DEF NetInv
<1>2. /\ radio.link = "joining" /\ radio' = [radio EXCEPT !.link = "up"] /\ Post("got_ip")
      /\ awaited' = (IF radio.config = awaited THEN None ELSE awaited) /\ forgotten' = forgotten
      /\ state' = state /\ saved' = saved /\ scanning' = scanning /\ pending' = pending
      /\ late' = late /\ stored' = stored /\ handler' = handler /\ call' = call
      /\ requests' = requests /\ faults' = faults
  BY DEF RadioUp, Elsewhere, snapshot, asked
<1>3. /\ radio' \in Radios /\ radio'.link = "up" /\ radio'.config = radio.config
      /\ radio'.scan = radio.scan
  BY <1>1, <1>2 DEF Radios, Linked
<1>4. /\ events' \in Seq(Events) /\ (Gone' <=> Gone) /\ (Scanned' <=> Scanned)
      /\ Got' /\ (ScanOnce => ScanOnce')
  BY <1>1, <1>2, PostDoes DEF Events
<1>5. (Calling' <=> Calling) /\ (OneCalling' <=> OneCalling)
  BY <1>1, <1>2, CallsSame
<1>6. TypeOK'
  BY <1>1, <1>2, <1>3, <1>4, <1>5, Nets, TypesAre DEF Types, Saving
<1>7. LinkInv'
  BY <1>1, <1>2, <1>3, <1>4 DEF LinkInv, At
<1>8. ScanInv'
  BY <1>1, <1>2, <1>4, <1>5 DEF ScanInv
<1>9. ForgottenInv'
  BY <1>1, <1>2, <1>4, <1>5 DEF ForgottenInv, At
<1>10. AwaitedInv'
  BY <1>1, <1>2 DEF AwaitedInv, At
<1> QED
  BY <1>6, <1>7, <1>8, <1>9, <1>10 DEF NetInv

LEMMA RadioDownKeeps == NetInv /\ RadioDown /\ Elsewhere => NetInv'
<1> SUFFICES ASSUME NetInv, RadioDown /\ Elsewhere PROVE NetInv'
  OBVIOUS
<1>1. /\ TypeOK /\ LinkInv /\ ScanInv /\ ForgottenInv /\ AwaitedInv
      /\ radio \in Radios /\ handler \in Handlers /\ call \in Calls /\ events \in Seq(Events)
  BY Parts DEF NetInv
<1>2. /\ radio.link \in {"joining", "up"} /\ Disconnect
      /\ state' = state /\ saved' = saved /\ scanning' = scanning /\ pending' = pending
      /\ late' = late /\ stored' = stored /\ handler' = handler /\ call' = call
      /\ requests' = requests /\ faults' = faults /\ awaited' = awaited /\ forgotten' = forgotten
  BY DEF RadioDown, Elsewhere, snapshot, asked, history
<1>3. Unlinked
  BY <1>1, <1>2, DisconnectDoes DEF ScanInv
<1>4. (Calling' <=> Calling) /\ (OneCalling' <=> OneCalling)
  BY <1>1, <1>2, CallsSame
<1>5. TypeOK'
  BY <1>1, <1>2, <1>3, <1>4, TypesAre DEF Types, Saving, Unlinked
<1>6. LinkInv'
  BY <1>1, <1>2, <1>3 DEF LinkInv, At, Unlinked
<1>7. ScanInv'
  BY <1>1, <1>2, <1>3, <1>4 DEF ScanInv, Unlinked
<1>8. ForgottenInv'
  BY <1>1, <1>2, <1>3, <1>4 DEF ForgottenInv, At, Saving, Unlinked
<1>9. AwaitedInv'
  BY <1>1, <1>2, <1>3 DEF AwaitedInv, At, Unlinked
<1> QED
  BY <1>5, <1>6, <1>7, <1>8, <1>9 DEF NetInv

LEMMA RadioScannedKeeps == NetInv /\ RadioScanned /\ Elsewhere => NetInv'
<1> SUFFICES ASSUME NetInv, RadioScanned /\ Elsewhere PROVE NetInv'
  OBVIOUS
<1>1. /\ TypeOK /\ LinkInv /\ ScanInv /\ ForgottenInv /\ AwaitedInv
      /\ radio \in Radios /\ handler \in Handlers /\ call \in Calls /\ events \in Seq(Events)
  BY Parts DEF NetInv
<1>2. /\ radio.scan /\ radio' = [radio EXCEPT !.scan = FALSE] /\ Post("scan_done")
      /\ state' = state /\ saved' = saved /\ scanning' = scanning /\ pending' = pending
      /\ late' = late /\ stored' = stored /\ handler' = handler /\ call' = call
      /\ requests' = requests /\ faults' = faults /\ awaited' = awaited /\ forgotten' = forgotten
  BY DEF RadioScanned, Elsewhere, snapshot, asked, history
<1>3. /\ radio' \in Radios /\ radio'.link = radio.link /\ radio'.config = radio.config
      /\ radio'.scan = FALSE
  BY <1>1, <1>2 DEF Radios
<1>4. /\ events' \in Seq(Events) /\ (Gone' <=> Gone) /\ (Got' <=> Got) /\ Scanned'
      /\ (GotGone => GotGone') /\ (~Scanned /\ ScanOnce => ScanOnce')
  BY <1>1, <1>2, PostDoes DEF Events
<1>5. (Calling' <=> Calling) /\ (OneCalling' <=> OneCalling)
  BY <1>1, <1>2, CallsSame
<1>6. TypeOK'
  BY <1>1, <1>2, <1>3, <1>4, <1>5, TypesAre DEF Types, Saving
<1>7. LinkInv'
  BY <1>1, <1>2, <1>3, <1>4 DEF LinkInv, At
<1>8. ScanInv'
  BY <1>1, <1>2, <1>4, <1>5 DEF ScanInv
<1>9. ForgottenInv'
  BY <1>1, <1>2, <1>4, <1>5 DEF ForgottenInv, At
<1>10. AwaitedInv'
  BY <1>1, <1>2, <1>4 DEF AwaitedInv, At
<1> QED
  BY <1>6, <1>7, <1>8, <1>9, <1>10 DEF NetInv

LEMMA ElapseKeeps == NetInv /\ Elapse => NetInv'
<1> SUFFICES ASSUME NetInv, Elapse PROVE NetInv'
  OBVIOUS
<1>1. /\ TypeOK /\ LinkInv /\ ScanInv /\ ForgottenInv /\ AwaitedInv
      /\ radio \in Radios /\ handler \in Handlers /\ call \in Calls /\ events \in Seq(Events)
  BY Parts DEF NetInv
<1>2. /\ late' = TRUE
      /\ state' = state /\ saved' = saved /\ scanning' = scanning /\ pending' = pending
      /\ stored' = stored /\ radio' = radio /\ events' = events /\ handler' = handler
      /\ call' = call /\ requests' = requests /\ faults' = faults /\ awaited' = awaited
      /\ forgotten' = forgotten
  BY DEF Elapse, asked, history
<1>3. (Calling' <=> Calling) /\ (OneCalling' <=> OneCalling)
  BY <1>1, <1>2, CallsSame
<1>4. QueueKept
  BY <1>1, <1>2, EventsSame
<1>5. TypeOK'
  BY <1>1, <1>2, <1>3, <1>4, TypesAre DEF Types, Saving
<1>6. LinkInv'
  BY <1>1, <1>2, <1>4 DEF LinkInv, At, QueueKept
<1>7. ScanInv'
  BY <1>1, <1>2, <1>3, <1>4 DEF ScanInv, QueueKept
<1>8. ForgottenInv'
  BY <1>1, <1>2, <1>3, <1>4 DEF ForgottenInv, At, Saving
<1>9. AwaitedInv'
  BY <1>1, <1>2, <1>4 DEF AwaitedInv, At, Saving, QueueKept
<1> QED
  BY <1>5, <1>6, <1>7, <1>8, <1>9 DEF NetInv

LEMMA ScanDoneKeeps == NetInv /\ ScanDone => NetInv'
<1> SUFFICES ASSUME NetInv, ScanDone PROVE NetInv'
  OBVIOUS
<1>1. /\ TypeOK /\ LinkInv /\ ScanInv /\ ForgottenInv /\ AwaitedInv
      /\ radio \in Radios /\ handler \in Handlers /\ call \in Calls /\ events \in Seq(Events)
  BY Parts DEF NetInv
<1>2. /\ Handles("scan_done") /\ handler.at = "idle"
      /\ scanning' = FALSE
      /\ state' = state /\ saved' = saved /\ pending' = pending /\ late' = late
      /\ stored' = stored /\ radio' = radio /\ handler' = handler /\ call' = call
      /\ requests' = requests /\ faults' = faults /\ awaited' = awaited /\ forgotten' = forgotten
  BY DEF ScanDone, Handles, asked, history
<1>3. /\ events' \in Seq(Events) /\ (Gone' => Gone) /\ (Got' => Got) /\ (Scanned' => Scanned)
      /\ (GotGone => GotGone') /\ (ScanOnce => ScanOnce')
      /\ (Gone => Gone') /\ Scanned /\ (ScanOnce => ~Scanned')
  BY <1>1, <1>2, HandlesDoes DEF Events
<1>4. (Calling' <=> Calling) /\ (OneCalling' <=> OneCalling)
  BY <1>1, <1>2, CallsSame
<1>5. TypeOK'
  BY <1>1, <1>2, <1>3, <1>4, TypesAre DEF Types, Saving
<1>6. LinkInv'
  BY <1>1, <1>2, <1>3, <1>4 DEF LinkInv, At
<1>7. ScanInv'
  BY <1>1, <1>2, <1>3, <1>4 DEF ScanInv
<1>8. ForgottenInv'
  BY <1>1, <1>2, <1>3, <1>4 DEF ForgottenInv, At, Saving
<1>9. AwaitedInv'
  BY <1>1, <1>2, <1>3, <1>4 DEF AwaitedInv, At, Saving
<1> QED
  BY <1>5, <1>6, <1>7, <1>8, <1>9 DEF NetInv

LEMMA DisconnectedKeeps == NetInv /\ Disconnected => NetInv'
<1> SUFFICES ASSUME NetInv, Disconnected PROVE NetInv'
  OBVIOUS
<1>1. /\ TypeOK /\ LinkInv /\ ScanInv /\ ForgottenInv /\ AwaitedInv
      /\ radio \in Radios /\ handler \in Handlers /\ call \in Calls /\ events \in Seq(Events)
  BY Parts DEF NetInv
<1>2. /\ Handles("disconnected") /\ handler.at = "idle"
      /\ saved' = saved /\ scanning' = scanning /\ pending' = pending /\ stored' = stored
      /\ radio' = radio /\ call' = call /\ requests' = requests /\ faults' = faults
      /\ awaited' = awaited /\ forgotten' = forgotten
  BY DEF Disconnected, Handles, asked, history
<1>3. /\ events' \in Seq(Events) /\ (Gone' => Gone) /\ (Got' => Got) /\ (Scanned' => Scanned)
      /\ (GotGone => GotGone') /\ (ScanOnce => ScanOnce')
      /\ (Scanned => Scanned') /\ Gone
  BY <1>1, <1>2, HandlesDoes DEF Events
<1>4. handler' \in Handlers /\ handler'.at \in {"idle", "rejoin"}
  BY <1>1, <1>2 DEF Disconnected, Handlers, Saving
<1>5. late' \in BOOLEAN /\ state' \in {"connecting", "failed"}
  BY <1>1, <1>2 DEF Disconnected, ShownRetrying, ConnectionEnded, TypeOK
<1>6. (Calling' <=> Calling) /\ (OneCalling' <=> OneCalling)
  BY <1>1, <1>2, CallsSame
<1>7. TypeOK'
  BY <1>1, <1>2, <1>3, <1>4, <1>5, <1>6, TypesAre DEF Types, Saving, States
<1>8. LinkInv'
  BY <1>1, <1>2, <1>3, <1>4, <1>5, <1>6 DEF LinkInv, At
<1>9. ScanInv'
  BY <1>1, <1>2, <1>3, <1>5, <1>6 DEF ScanInv
<1>10. ForgottenInv'
  BY <1>1, <1>2, <1>3, <1>4, <1>6 DEF ForgottenInv, At, Saving
<1>11. AwaitedInv'
  BY <1>1, <1>2, <1>3, <1>4 DEF AwaitedInv, At, Joining, Saving
<1> QED
  BY <1>7, <1>8, <1>9, <1>10, <1>11 DEF NetInv

LEMMA RejoinKeeps == NetInv /\ Rejoin => NetInv'
<1> SUFFICES ASSUME NetInv, Rejoin PROVE NetInv'
  OBVIOUS
<1>1. /\ TypeOK /\ LinkInv /\ ScanInv /\ ForgottenInv /\ AwaitedInv
      /\ radio \in Radios /\ handler \in Handlers /\ call \in Calls /\ events \in Seq(Events)
  BY Parts DEF NetInv
<1>2. /\ handler.at = "rejoin" /\ handler' = Idle /\ handler' \in Handlers /\ handler'.at = "idle"
      /\ state' = state /\ saved' = saved /\ scanning' = scanning /\ pending' = pending
      /\ late' = late /\ stored' = stored /\ events' = events /\ call' = call
      /\ requests' = requests /\ awaited' = awaited /\ forgotten' = forgotten
  BY DEF Rejoin, snapshot, history, Idle, Handlers
<1>3. CASE Join /\ faults' = faults
  <2>1. /\ radio' \in Radios /\ radio.link = "idle" /\ radio'.link = "joining"
        /\ radio'.config = radio.config /\ radio'.scan = radio.scan
    BY <1>1, <1>2, <1>3, JoinDoes
  <2>2. (Calling' <=> Calling) /\ (OneCalling' <=> OneCalling)
    BY <1>1, <1>2, <1>3, CallsSame
  <2>3. QueueKept
    BY <1>1, <1>2, <1>3, EventsSame
  <2>4. TypeOK'
    BY <1>1, <1>2, <1>3, <2>1, <2>2, <2>3, TypesAre DEF Types, Saving, Idle
  <2>5. LinkInv'
    BY <1>1, <1>2, <1>3, <2>1, <2>3 DEF LinkInv, At, QueueKept
  <2>6. ScanInv'
    BY <1>1, <1>2, <2>1, <2>2, <2>3 DEF ScanInv, QueueKept
  <2>7. ForgottenInv'
    BY <1>1, <1>2, <2>1, <2>2, <2>3 DEF ForgottenInv, At, Saving
  <2>8. AwaitedInv'
    BY <1>1, <1>2, <2>1, <2>3 DEF AwaitedInv, At, Joining, Saving, QueueKept
  <2> QED
    BY <2>4, <2>5, <2>6, <2>7, <2>8 DEF NetInv
<1>4. CASE radio' = radio /\ faults' = faults
  <2>1. (Calling' <=> Calling) /\ (OneCalling' <=> OneCalling)
    BY <1>1, <1>2, <1>4, CallsSame
  <2>2. QueueKept
    BY <1>1, <1>2, <1>4, EventsSame
  <2>3. TypeOK'
    BY <1>1, <1>2, <1>4, <2>1, <2>2, TypesAre DEF Types, Saving
  <2>4. LinkInv'
    BY <1>1, <1>2, <1>4, <2>2 DEF LinkInv, At, QueueKept
  <2>5. ScanInv'
    BY <1>1, <1>2, <1>4, <2>1, <2>2 DEF ScanInv, QueueKept
  <2>6. ForgottenInv'
    BY <1>1, <1>2, <1>4, <2>1, <2>2 DEF ForgottenInv, At, Saving
  <2>7. AwaitedInv'
    BY <1>1, <1>2, <1>4, <2>2 DEF AwaitedInv, At, Joining, Saving, QueueKept
  <2> QED
    BY <2>3, <2>4, <2>5, <2>6, <2>7 DEF NetInv
<1>5. CASE Fault /\ radio' = radio
  <2>1. faults' \in 0..MaxFaults /\ requests' = requests
    BY <1>1, <1>2, <1>5, FaultDoes, Parts
  <2>2. (Calling' <=> Calling) /\ (OneCalling' <=> OneCalling)
    BY <1>1, <1>2, <1>5, CallsSame
  <2>3. QueueKept
    BY <1>1, <1>2, <1>5, EventsSame
  <2>4. TypeOK'
    BY <1>1, <1>2, <1>5, <2>1, <2>2, <2>3, TypesAre DEF Types, Saving
  <2>5. LinkInv'
    BY <1>1, <1>2, <1>5, <2>1, <2>3 DEF LinkInv, At, QueueKept
  <2>6. ScanInv'
    BY <1>1, <1>2, <1>5, <2>2, <2>3 DEF ScanInv, QueueKept
  <2>7. ForgottenInv'
    BY <1>1, <1>2, <1>5, <2>2, <2>3 DEF ForgottenInv, At, Saving
  <2>8. AwaitedInv'
    BY <1>1, <1>2, <1>5, <2>3 DEF AwaitedInv, At, Joining, Saving, QueueKept
  <2> QED
    BY <2>4, <2>5, <2>6, <2>7, <2>8 DEF NetInv
<1> QED
  BY <1>2, <1>3, <1>4, <1>5 DEF Rejoin

LEMMA GotIpKeeps == NetInv /\ GotIp => NetInv'
<1> SUFFICES ASSUME NetInv, GotIp PROVE NetInv'
  OBVIOUS
<1>1. /\ TypeOK /\ LinkInv /\ ScanInv /\ ForgottenInv /\ AwaitedInv
      /\ radio \in Radios /\ handler \in Handlers /\ call \in Calls /\ events \in Seq(Events)
  BY Parts DEF NetInv
<1>2. /\ Handles("got_ip") /\ handler.at = "idle"
      /\ state' = "connected" /\ pending' = None
      /\ saved' = saved /\ scanning' = scanning /\ late' = late /\ stored' = stored
      /\ radio' = radio /\ call' = call /\ requests' = requests /\ faults' = faults
      /\ awaited' = awaited /\ forgotten' = forgotten
  BY DEF GotIp, Handles, asked, history
<1>3. /\ events' \in Seq(Events) /\ (Gone' => Gone) /\ (Got' => Got) /\ (Scanned' => Scanned)
      /\ (GotGone => GotGone') /\ (ScanOnce => ScanOnce')
      /\ (Gone => Gone') /\ (Scanned => Scanned') /\ Got /\ (GotGone => Gone')
  BY <1>1, <1>2, HandlesDoes DEF Events
<1>4. /\ handler' \in Handlers /\ handler'.at \in {"idle", "ssid"}
      /\ (handler'.at \in Saving => handler'.net \in Networks /\ pending # None)
  BY <1>1, <1>2 DEF GotIp, SavesPending, Handlers, Saving, Idle, TypeOK
<1>5. (Calling' <=> Calling) /\ (OneCalling' <=> OneCalling)
  BY <1>1, <1>2, CallsSame
<1>6. TypeOK'
  BY <1>1, <1>2, <1>3, <1>4, <1>5, Nets, TypesAre DEF Types, Saving, States
<1>7. LinkInv'
  BY <1>1, <1>2, <1>3, <1>4, <1>5 DEF LinkInv, At
<1>8. ScanInv'
  BY <1>1, <1>2, <1>3, <1>5 DEF ScanInv
<1>9. ForgottenInv'
  BY <1>1, <1>2, <1>3, <1>4, <1>5 DEF ForgottenInv, At
<1>10. AwaitedInv'
  BY <1>1, <1>2, <1>3, <1>4, <1>5 DEF AwaitedInv, At
<1> QED
  BY <1>6, <1>7, <1>8, <1>9, <1>10 DEF NetInv

LEMMA SaveKeyKeeps == NetInv /\ SaveKey => NetInv'
<1> SUFFICES ASSUME NetInv, SaveKey PROVE NetInv'
  OBVIOUS
<1>1. /\ TypeOK /\ LinkInv /\ ScanInv /\ ForgottenInv /\ AwaitedInv
      /\ radio \in Radios /\ handler \in Handlers /\ call \in Calls /\ events \in Seq(Events)
  BY Parts DEF NetInv
<1>2. /\ handler.at \in Saving /\ handler.at \in {"ssid", "password"}
      /\ state' = state /\ saved' = saved /\ scanning' = scanning /\ pending' = pending
      /\ late' = late /\ radio' = radio /\ events' = events /\ call' = call
      /\ requests' = requests /\ awaited' = awaited /\ forgotten' = forgotten
  BY DEF SaveKey, snapshot, history, Saving
<1>3. /\ handler' \in Handlers /\ handler'.net = handler.net /\ handler'.at # "rejoin"
      /\ faults' \in 0..MaxFaults
  BY <1>1, <1>2, FaultDoes, Parts DEF SaveKey, Handlers, Saving
<1>4. handler.net \in Pairs
  BY <1>1, <1>2, Nets DEF TypeOK
<1>5. stored' \in Keys
  BY <1>1, <1>2, Parts, <1>4 DEF SaveKey, Keys, Pairs
<1>6. (Calling' <=> Calling) /\ (OneCalling' <=> OneCalling)
  BY <1>1, <1>2, CallsSame
<1>7. QueueKept
  BY <1>1, <1>2, EventsSame
<1>8. TypeOK'
  BY <1>1, <1>2, <1>3, <1>4, <1>5, <1>6, <1>7, TypesAre DEF Types, Saving
<1>9. LinkInv'
  BY <1>1, <1>2, <1>3, <1>5, <1>7 DEF LinkInv, At, QueueKept
<1>10. ScanInv'
  BY <1>1, <1>2, <1>6, <1>7 DEF ScanInv, QueueKept
<1>11. ForgottenInv'
  BY <1>1, <1>2, <1>6, <1>7 DEF ForgottenInv, At
<1>12. AwaitedInv'
  BY <1>1, <1>2 DEF AwaitedInv
<1> QED
  BY <1>8, <1>9, <1>10, <1>11, <1>12 DEF NetInv

LEMMA SaveEndsKeeps == NetInv /\ SaveEnds => NetInv'
<1> SUFFICES ASSUME NetInv, SaveEnds PROVE NetInv'
  OBVIOUS
<1>1. /\ TypeOK /\ LinkInv /\ ScanInv /\ ForgottenInv /\ AwaitedInv
      /\ radio \in Radios /\ handler \in Handlers /\ call \in Calls /\ events \in Seq(Events)
  BY Parts DEF NetInv
<1>2. /\ handler.at \in {"result", "failed"} /\ handler' = Idle
      /\ saved' = (handler.at = "result") /\ saved' \in BOOLEAN
      /\ handler' \in Handlers /\ handler'.at = "idle"
      /\ state' = state /\ scanning' = scanning /\ pending' = pending /\ late' = late
      /\ stored' = stored /\ radio' = radio /\ events' = events /\ call' = call
      /\ requests' = requests /\ faults' = faults /\ awaited' = awaited /\ forgotten' = forgotten
  BY DEF SaveEnds, asked, history, Idle, Handlers
<1>3. (Calling' <=> Calling) /\ (OneCalling' <=> OneCalling)
  BY <1>1, <1>2, CallsSame
<1>4. QueueKept
  BY <1>1, <1>2, EventsSame
<1>5. TypeOK'
  BY <1>1, <1>2, <1>3, <1>4, TypesAre DEF Types, Saving
<1>6. LinkInv'
  BY <1>1, <1>2, <1>4 DEF LinkInv, At, QueueKept
<1>7. ScanInv'
  BY <1>1, <1>2, <1>3, <1>4 DEF ScanInv, QueueKept
<1>8. ForgottenInv'
  BY <1>1, <1>2, <1>3, <1>4 DEF ForgottenInv, At, Saving
<1>9. AwaitedInv'
  BY <1>1, <1>2, <1>4 DEF AwaitedInv, At, Joining, Saving, QueueKept
<1> QED
  BY <1>5, <1>6, <1>7, <1>8, <1>9 DEF NetInv

LEMMA StartWifiKeeps == NetInv /\ StartWifi => NetInv'
<1> SUFFICES ASSUME NetInv, StartWifi PROVE NetInv'
  OBVIOUS
<1>1. /\ TypeOK /\ LinkInv /\ ScanInv /\ ForgottenInv /\ AwaitedInv
      /\ radio \in Radios /\ handler \in Handlers /\ call \in Calls /\ events \in Seq(Events)
  BY Parts DEF NetInv
<1>2. /\ call[Main].at = "start"
      /\ state' = state /\ saved' = saved /\ scanning' = scanning /\ pending' = pending
      /\ late' = late /\ stored' = stored /\ events' = events /\ handler' = handler
      /\ awaited' = awaited /\ forgotten' = forgotten
  BY DEF StartWifi, At, snapshot, history
<1>3. CASE radio' = [radio EXCEPT !.link = "idle"] /\ Goes(Main, "open") /\ UNCHANGED asked
  <2>1. /\ call' \in Calls /\ call'[Main].at = "open" /\ call'[Main].net = call[Main].net
        /\ \A d \in Callers \ {Main} : call'[d] = call[d]
    BY <1>1, <1>2, <1>3, GoesDoes, Constants DEF Stages
  <2>2. /\ radio' \in Radios /\ radio'.link = "idle" /\ radio'.config = radio.config
        /\ radio'.scan = radio.scan
    BY <1>1, <1>2, <1>3 DEF Radios, Linked
  <2>3. /\ Main = Main \/ call'[Main] = call[Main]
        /\ \A d \in Callers : d = Main \/ call'[d] = call[d]
    BY <1>1, <1>2, <1>3, <2>1, <2>2, MoveDoes
  <2>4. Moved(Main)
    BY <1>1, <1>2, <1>3, <2>1, <2>2, <2>3, MoveDoes, Constants
  <2>5. QueueKept
    BY <1>1, <1>2, <1>3, EventsSame
  <2>6. TypeOK'
    BY <1>1, <1>2, <1>3, <2>1, <2>2, <2>3, <2>4, <2>5, TypesAre DEF Types, Saving, asked
  <2>7. LinkInv'
    BY <1>1, <1>2, <1>3, <2>1, <2>2, <2>5 DEF LinkInv, At, QueueKept
  <2>8. ScanInv'
    BY <1>1, <1>2, <2>1, <2>2, <2>4, <2>5 DEF ScanInv, Moved, QueueKept
  <2>9. ForgottenInv'
    BY <1>1, <1>2, <2>1, <2>2, <2>4, <2>5 DEF ForgottenInv, At, Saving
  <2>10. AwaitedInv'
    BY <1>1, <1>2, <2>1, Constants DEF AwaitedInv, At
  <2> QED
    BY <2>6, <2>7, <2>8, <2>9, <2>10 DEF NetInv
<1>4. CASE Fault /\ Returns(Main) /\ UNCHANGED radio
  <2>1. /\ call' \in Calls /\ call'[Main].at = "idle"
        /\ \A d \in Callers \ {Main} : call'[d] = call[d]
    BY <1>1, <1>2, <1>4, LeavesDoes, Constants DEF Stages, Returns
  <2>2. faults' \in 0..MaxFaults /\ requests' = requests
    BY <1>1, <1>2, <1>4, FaultDoes, Parts
  <2>3. /\ Main = Main \/ call'[Main] = call[Main]
        /\ \A d \in Callers : d = Main \/ call'[d] = call[d]
    BY <1>1, <1>2, <1>4, <2>1, <2>2, MoveDoes
  <2>4. Moved(Main)
    BY <1>1, <1>2, <1>4, <2>1, <2>2, <2>3, MoveDoes, Constants
  <2>5. QueueKept
    BY <1>1, <1>2, <1>4, EventsSame
  <2>6. TypeOK'
    BY <1>1, <1>2, <1>4, <2>1, <2>2, <2>3, <2>4, <2>5, TypesAre DEF Types, Saving
  <2>7. LinkInv'
    BY <1>1, <1>2, <1>4, <2>1, <2>2, <2>5 DEF LinkInv, At, QueueKept
  <2>8. ScanInv'
    BY <1>1, <1>2, <1>4, <2>1, <2>4, <2>5 DEF ScanInv, Moved, QueueKept
  <2>9. ForgottenInv'
    BY <1>1, <1>2, <1>4, <2>1, <2>4, <2>5 DEF ForgottenInv, At, Saving
  <2>10. AwaitedInv'
    BY <1>1, <1>2, <2>1, Constants DEF AwaitedInv, At
  <2> QED
    BY <2>6, <2>7, <2>8, <2>9, <2>10 DEF NetInv
<1> QED
  BY <1>2, <1>3, <1>4 DEF StartWifi

LEMMA OpenKeeps == NetInv /\ Open => NetInv'
<1> SUFFICES ASSUME NetInv, Open PROVE NetInv'
  OBVIOUS
<1>1. /\ TypeOK /\ LinkInv /\ ScanInv /\ ForgottenInv /\ AwaitedInv
      /\ radio \in Radios /\ handler \in Handlers /\ call \in Calls /\ events \in Seq(Events)
  BY Parts DEF NetInv
<1>2. /\ call[Main].at = "open" /\ state' = "no_credentials" /\ Goes(Main, "load")
      /\ saved' = saved /\ scanning' = scanning /\ pending' = pending /\ late' = late
      /\ stored' = stored /\ radio' = radio /\ events' = events /\ handler' = handler
      /\ requests' = requests /\ faults' = faults /\ awaited' = awaited /\ forgotten' = forgotten
  BY DEF Open, At, asked, history
<1>3. /\ call' \in Calls /\ call'[Main].at = "load" /\ call'[Main].net = call[Main].net
      /\ \A d \in Callers \ {Main} : call'[d] = call[d]
  BY <1>1, <1>2, GoesDoes, Constants DEF Stages
<1>4. /\ Main = Main \/ call'[Main] = call[Main]
      /\ \A d \in Callers : d = Main \/ call'[d] = call[d]
  BY <1>1, <1>2, <1>3, MoveDoes
<1>5. Moved(Main)
  BY <1>1, <1>2, <1>3, <1>4, MoveDoes, Constants
<1>6. QueueKept
  BY <1>1, <1>2, EventsSame
<1>7. TypeOK'
  BY <1>1, <1>2, <1>3, <1>4, <1>5, <1>6, TypesAre DEF Types, Saving, States
<1>8. LinkInv'
  BY <1>1, <1>2, <1>3, <1>6 DEF LinkInv, At, QueueKept
<1>9. ScanInv'
  BY <1>1, <1>2, <1>3, <1>5, <1>6 DEF ScanInv, Moved, QueueKept
<1>10. ForgottenInv'
  BY <1>1, <1>2, <1>3, <1>5, <1>6 DEF ForgottenInv, At, Saving
<1>11. AwaitedInv'
  BY <1>1, <1>2, <1>3 DEF AwaitedInv, At
<1> QED
  BY <1>7, <1>8, <1>9, <1>10, <1>11 DEF NetInv

LEMMA LoadKeeps == NetInv /\ Load => NetInv'
<1> SUFFICES ASSUME NetInv, Load PROVE NetInv'
  OBVIOUS
<1>1. /\ TypeOK /\ LinkInv /\ ScanInv /\ ForgottenInv /\ AwaitedInv
      /\ radio \in Radios /\ handler \in Handlers /\ call \in Calls /\ events \in Seq(Events)
  BY Parts DEF NetInv
<1>2. /\ call[Main].at = "load"
      /\ state' = state /\ saved' = saved /\ scanning' = scanning /\ pending' = pending
      /\ late' = late /\ stored' = stored /\ radio' = radio /\ events' = events
      /\ handler' = handler /\ awaited' = awaited /\ forgotten' = forgotten
  BY DEF Load, At, snapshot, history
<1>3. CASE /\ stored \in Pairs /\ UNCHANGED asked
           /\ call' = [call EXCEPT ![Main] = [at |-> "loaded", net |-> stored]]
  <2>1. /\ call' \in Calls /\ call'[Main].at = "loaded"
        /\ \A d \in Callers \ {Main} : call'[d] = call[d]
    BY <1>1, <1>2, <1>3, Constants DEF Calls, Stages
  <2>2. /\ Main = Main \/ call'[Main] = call[Main]
        /\ \A d \in Callers : d = Main \/ call'[d] = call[d]
    BY <1>1, <1>2, <1>3, <2>1, MoveDoes
  <2>3. Moved(Main)
    BY <1>1, <1>2, <1>3, <2>1, <2>2, MoveDoes, Constants
  <2>4. QueueKept
    BY <1>1, <1>2, <1>3, EventsSame
  <2>5. TypeOK'
    BY <1>1, <1>2, <1>3, <2>1, <2>2, <2>3, <2>4, TypesAre DEF Types, Saving, asked
  <2>6. LinkInv'
    BY <1>1, <1>2, <1>3, <2>1, <2>4 DEF LinkInv, At, QueueKept
  <2>7. ScanInv'
    BY <1>1, <1>2, <2>1, <2>3, <2>4 DEF ScanInv, Moved, QueueKept
  <2>8. ForgottenInv'
    BY <1>1, <1>2, <1>3, <2>1, <2>3, <2>4, Nets DEF ForgottenInv, At
  <2>9. AwaitedInv'
    BY <1>1, <1>2, <1>3 DEF AwaitedInv, At
  <2> QED
    BY <2>5, <2>6, <2>7, <2>8, <2>9 DEF NetInv
<1>4. CASE stored \notin Pairs /\ Goes(Main, "rescan") /\ UNCHANGED asked
  <2>1. /\ call' \in Calls /\ call'[Main].at = "rescan" /\ call'[Main].net = call[Main].net
        /\ \A d \in Callers \ {Main} : call'[d] = call[d]
    BY <1>1, <1>2, <1>4, GoesDoes, Constants DEF Stages
  <2>2. /\ Main = Main \/ call'[Main] = call[Main]
        /\ \A d \in Callers : d = Main \/ call'[d] = call[d]
    BY <1>1, <1>2, <1>4, <2>1, MoveDoes
  <2>3. Moved(Main)
    BY <1>1, <1>2, <1>4, <2>1, <2>2, MoveDoes, Constants
  <2>4. QueueKept
    BY <1>1, <1>2, <1>4, EventsSame
  <2>5. TypeOK'
    BY <1>1, <1>2, <1>4, <2>1, <2>2, <2>3, <2>4, TypesAre DEF Types, Saving, asked
  <2>6. LinkInv'
    BY <1>1, <1>2, <1>4, <2>1, <2>4 DEF LinkInv, At, QueueKept
  <2>7. ScanInv'
    BY <1>1, <1>2, <2>1, <2>3, <2>4 DEF ScanInv, Moved, QueueKept
  <2>8. ForgottenInv'
    BY <1>1, <1>2, <2>1, <2>3, <2>4 DEF ForgottenInv, At, Saving
  <2>9. AwaitedInv'
    BY <1>1, <1>2, <2>1 DEF AwaitedInv, At
  <2> QED
    BY <2>5, <2>6, <2>7, <2>8, <2>9 DEF NetInv
<1>5. CASE Fault /\ Goes(Main, "unreadable")
  <2>1. /\ call' \in Calls /\ call'[Main].at = "unreadable" /\ call'[Main].net = call[Main].net
        /\ \A d \in Callers \ {Main} : call'[d] = call[d]
    BY <1>1, <1>2, <1>5, GoesDoes, Constants DEF Stages
  <2>2. faults' \in 0..MaxFaults /\ requests' = requests
    BY <1>1, <1>2, <1>5, FaultDoes, Parts
  <2>3. /\ Main = Main \/ call'[Main] = call[Main]
        /\ \A d \in Callers : d = Main \/ call'[d] = call[d]
    BY <1>1, <1>2, <1>5, <2>1, <2>2, MoveDoes
  <2>4. Moved(Main)
    BY <1>1, <1>2, <1>5, <2>1, <2>2, <2>3, MoveDoes, Constants
  <2>5. QueueKept
    BY <1>1, <1>2, <1>5, EventsSame
  <2>6. TypeOK'
    BY <1>1, <1>2, <1>5, <2>1, <2>2, <2>3, <2>4, <2>5, TypesAre DEF Types, Saving
  <2>7. LinkInv'
    BY <1>1, <1>2, <2>1, <2>2, <2>5 DEF LinkInv, At, QueueKept
  <2>8. ScanInv'
    BY <1>1, <1>2, <2>1, <2>4, <2>5 DEF ScanInv, Moved, QueueKept
  <2>9. ForgottenInv'
    BY <1>1, <1>2, <2>1, <2>4, <2>5 DEF ForgottenInv, At, Saving
  <2>10. AwaitedInv'
    BY <1>1, <1>2, <2>1 DEF AwaitedInv, At
  <2> QED
    BY <2>6, <2>7, <2>8, <2>9, <2>10 DEF NetInv
<1> QED
  BY <1>2, <1>3, <1>4, <1>5 DEF Load

LEMMA LoadedKeeps == NetInv /\ Loaded => NetInv'
<1> SUFFICES ASSUME NetInv, Loaded PROVE NetInv'
  OBVIOUS
<1>1. /\ TypeOK /\ LinkInv /\ ScanInv /\ ForgottenInv /\ AwaitedInv
      /\ radio \in Radios /\ handler \in Handlers /\ call \in Calls /\ events \in Seq(Events)
  BY Parts DEF NetInv
<1>2. /\ call[Main].at = "loaded" /\ saved' = TRUE /\ Goes(Main, "configure")
      /\ state' = state /\ scanning' = scanning /\ pending' = pending /\ late' = late
      /\ stored' = stored /\ radio' = radio /\ events' = events /\ handler' = handler
      /\ requests' = requests /\ faults' = faults /\ awaited' = awaited /\ forgotten' = forgotten
  BY DEF Loaded, At, asked, history
<1>3. /\ call' \in Calls /\ call'[Main].at = "configure" /\ call'[Main].net = call[Main].net
      /\ \A d \in Callers \ {Main} : call'[d] = call[d]
  BY <1>1, <1>2, GoesDoes, Constants DEF Stages
<1>4. /\ Main = Main \/ call'[Main] = call[Main]
      /\ \A d \in Callers : d = Main \/ call'[d] = call[d]
  BY <1>1, <1>2, <1>3, MoveDoes
<1>5. Moved(Main)
  BY <1>1, <1>2, <1>3, <1>4, MoveDoes, Constants
<1>6. QueueKept
  BY <1>1, <1>2, EventsSame
<1>7. TypeOK'
  BY <1>1, <1>2, <1>3, <1>4, <1>5, <1>6, TypesAre DEF Types, Saving
<1>8. LinkInv'
  BY <1>1, <1>2, <1>3, <1>6 DEF LinkInv, At, QueueKept
<1>9. ScanInv'
  BY <1>1, <1>2, <1>3, <1>5, <1>6 DEF ScanInv, Moved, QueueKept
<1>10. ForgottenInv'
  BY <1>1, <1>2, <1>3, <1>5, <1>6 DEF ForgottenInv, At, Saving
<1>11. AwaitedInv'
  BY <1>1, <1>2 DEF AwaitedInv, At
<1> QED
  BY <1>7, <1>8, <1>9, <1>10, <1>11 DEF NetInv

LEMMA UnreadableKeeps == NetInv /\ Unreadable => NetInv'
<1> SUFFICES ASSUME NetInv, Unreadable PROVE NetInv'
  OBVIOUS
<1>1. /\ TypeOK /\ LinkInv /\ ScanInv /\ ForgottenInv /\ AwaitedInv
      /\ radio \in Radios /\ handler \in Handlers /\ call \in Calls /\ events \in Seq(Events)
  BY Parts DEF NetInv
<1>2. /\ call[Main].at = "unreadable" /\ state' = "failed" /\ Goes(Main, "rescan")
      /\ saved' = saved /\ scanning' = scanning /\ pending' = pending /\ late' = late
      /\ stored' = stored /\ radio' = radio /\ events' = events /\ handler' = handler
      /\ requests' = requests /\ faults' = faults /\ awaited' = awaited /\ forgotten' = forgotten
  BY DEF Unreadable, At, asked, history
<1>3. /\ call' \in Calls /\ call'[Main].at = "rescan" /\ call'[Main].net = call[Main].net
      /\ \A d \in Callers \ {Main} : call'[d] = call[d]
  BY <1>1, <1>2, GoesDoes, Constants DEF Stages
<1>4. /\ Main = Main \/ call'[Main] = call[Main]
      /\ \A d \in Callers : d = Main \/ call'[d] = call[d]
  BY <1>1, <1>2, <1>3, MoveDoes
<1>5. Moved(Main)
  BY <1>1, <1>2, <1>3, <1>4, MoveDoes, Constants
<1>6. QueueKept
  BY <1>1, <1>2, EventsSame
<1>7. TypeOK'
  BY <1>1, <1>2, <1>3, <1>4, <1>5, <1>6, TypesAre DEF Types, Saving, States
<1>8. LinkInv'
  BY <1>1, <1>2, <1>3, <1>6 DEF LinkInv, At, QueueKept
<1>9. ScanInv'
  BY <1>1, <1>2, <1>3, <1>5, <1>6 DEF ScanInv, Moved, QueueKept
<1>10. ForgottenInv'
  BY <1>1, <1>2, <1>3, <1>5, <1>6 DEF ForgottenInv, At, Saving
<1>11. AwaitedInv'
  BY <1>1, <1>2, <1>3 DEF AwaitedInv, At
<1> QED
  BY <1>7, <1>8, <1>9, <1>10, <1>11 DEF NetInv

LEMMA ConnectKeeps ==
  ASSUME NEW c \in Callers, NEW net \in Networks
  PROVE  NetInv /\ Connect(c, net) => NetInv'
<1> SUFFICES ASSUME NetInv, Connect(c, net) PROVE NetInv'
  OBVIOUS
<1>1. /\ TypeOK /\ LinkInv /\ ScanInv /\ ForgottenInv /\ AwaitedInv
      /\ radio \in Radios /\ handler \in Handlers /\ call \in Calls /\ events \in Seq(Events)
  BY Parts DEF NetInv
<1>2. /\ c # Main /\ call[c].at = "idle" /\ Asks /\ pending' = net /\ forgotten' = FALSE
      /\ call' = [call EXCEPT ![c] = [at |-> "disconnect", net |-> net]]
      /\ awaited' = (IF Quiet THEN net ELSE None)
      /\ state' = state /\ saved' = saved /\ scanning' = scanning /\ late' = late
      /\ stored' = stored /\ radio' = radio /\ events' = events /\ handler' = handler
  BY DEF Connect, At
<1>3. /\ call' \in Calls /\ call'[c] = [at |-> "disconnect", net |-> net]
      /\ \A d \in Callers \ {c} : call'[d] = call[d]
  BY <1>1, <1>2, Nets DEF Calls, Stages
<1>4. requests' \in 0..MaxRequests /\ faults' = faults
  BY <1>1, <1>2, AsksDoes, Parts
<1>5. Quiet => ~Got /\ ~Gone /\ radio.link \notin {"joining", "up"} /\ handler.at = "idle"
  BY <1>1, <1>2 DEF Quiet, Got, Gone
<1>6. Quiet => \A d \in Callers : call[d].at = "idle"
  BY <1>1, <1>2 DEF Quiet, At
<1>7. /\ Main = c \/ call'[Main] = call[Main]
      /\ \A d \in Callers : d = c \/ call'[d] = call[d]
  BY <1>1, <1>2, <1>3, <1>4, <1>5, <1>6, MoveDoes
<1>8. Moved(c)
  BY <1>1, <1>2, <1>3, <1>4, <1>5, <1>6, <1>7, MoveDoes, Constants
<1>9. QueueKept
  BY <1>1, <1>2, EventsSame
<1>10. TypeOK'
  BY <1>1, <1>2, <1>3, <1>4, <1>5, <1>6, <1>7, <1>8, <1>9, Nets, TypesAre DEF Types, Saving
<1>11. LinkInv'
  BY <1>1, <1>2, <1>3, <1>4, <1>9 DEF LinkInv, At, QueueKept
<1>12. ScanInv'
  BY <1>1, <1>2, <1>8, <1>9 DEF ScanInv, Moved, QueueKept
<1>13. ForgottenInv'
  BY <1>1, <1>2, <1>8, <1>9, Nets DEF ForgottenInv, At
<1>14. AwaitedInv'
  BY <1>2, <1>5, <1>6, <1>9, Constants DEF AwaitedInv, At, Joining, Saving, QueueKept
<1> QED
  BY <1>10, <1>11, <1>12, <1>13, <1>14 DEF NetInv

LEMMA DisconnectsKeeps == ASSUME NEW c \in Callers PROVE NetInv /\ Disconnects(c) => NetInv'
<1> SUFFICES ASSUME NetInv, Disconnects(c) PROVE NetInv'
  OBVIOUS
<1>1. /\ TypeOK /\ LinkInv /\ ScanInv /\ ForgottenInv /\ AwaitedInv
      /\ radio \in Radios /\ handler \in Handlers /\ call \in Calls /\ events \in Seq(Events)
  BY Parts DEF NetInv
<1>2. /\ call[c].at = "disconnect" /\ Disconnect /\ Goes(c, "configure")
      /\ state' = state /\ saved' = saved /\ scanning' = scanning /\ pending' = pending
      /\ late' = late /\ stored' = stored /\ handler' = handler /\ requests' = requests
      /\ faults' = faults /\ awaited' = awaited /\ forgotten' = forgotten
  BY DEF Disconnects, At, snapshot, asked, history
<1>3. /\ call' \in Calls /\ call'[c].at = "configure" /\ call'[c].net = call[c].net
      /\ \A d \in Callers \ {c} : call'[d] = call[d]
  BY <1>1, <1>2, GoesDoes, Constants DEF Stages
<1>4. Unlinked
  BY <1>1, <1>2, DisconnectDoes DEF ScanInv
<1>5. /\ Main = c \/ call'[Main] = call[Main]
      /\ \A d \in Callers : d = c \/ call'[d] = call[d]
  BY <1>1, <1>2, <1>3, <1>4, MoveDoes
<1>6. Moved(c)
  BY <1>1, <1>2, <1>3, <1>4, <1>5, MoveDoes, Constants
<1>7. TypeOK'
  BY <1>1, <1>2, <1>3, <1>4, <1>5, <1>6, TypesAre DEF Types, Saving, Unlinked
<1>8. LinkInv'
  BY <1>1, <1>2, <1>3, <1>4, <1>5 DEF LinkInv, At, Unlinked
<1>9. ScanInv'
  BY <1>1, <1>2, <1>3, <1>4, <1>5, <1>6 DEF ScanInv, Unlinked, Moved
<1>10. ForgottenInv'
  BY <1>1, <1>2, <1>3, <1>4, <1>5, <1>6 DEF ForgottenInv, At, Saving, Unlinked
<1>11. AwaitedInv'
  BY <1>1, <1>2, <1>3, <1>4, <1>5 DEF AwaitedInv, At, Joining, Unlinked
<1> QED
  BY <1>7, <1>8, <1>9, <1>10, <1>11 DEF NetInv

LEMMA ConfigureKeeps == ASSUME NEW c \in Callers PROVE NetInv /\ Configure(c) => NetInv'
<1> SUFFICES ASSUME NetInv, Configure(c) PROVE NetInv'
  OBVIOUS
<1>1. /\ TypeOK /\ LinkInv /\ ScanInv /\ ForgottenInv /\ AwaitedInv
      /\ radio \in Radios /\ handler \in Handlers /\ call \in Calls /\ events \in Seq(Events)
  BY Parts DEF NetInv
<1>2. /\ call[c].at = "configure"
      /\ state' = state /\ saved' = saved /\ scanning' = scanning /\ pending' = pending
      /\ late' = late /\ stored' = stored /\ events' = events /\ handler' = handler
      /\ awaited' = awaited /\ forgotten' = forgotten
  BY DEF Configure, At, snapshot, history
<1>3. CASE /\ radio.link # "joining" /\ radio' = [radio EXCEPT !.config = call[c].net]
           /\ Goes(c, "announce") /\ UNCHANGED asked
  <2>1. /\ call' \in Calls /\ call'[c].at = "announce" /\ call'[c].net = call[c].net
        /\ \A d \in Callers \ {c} : call'[d] = call[d]
    BY <1>1, <1>2, <1>3, GoesDoes, Constants DEF Stages
  <2>2. /\ radio' \in Radios /\ radio'.link = radio.link /\ radio'.config = call[c].net
        /\ radio'.scan = radio.scan
    BY <1>1, <1>2, <1>3, Nets DEF Radios, Calls
  <2>3. /\ Main = c \/ call'[Main] = call[Main]
        /\ \A d \in Callers : d = c \/ call'[d] = call[d]
    BY <1>1, <1>2, <1>3, <2>1, <2>2, MoveDoes
  <2>4. Moved(c)
    BY <1>1, <1>2, <1>3, <2>1, <2>2, <2>3, MoveDoes, Constants
  <2>5. QueueKept
    BY <1>1, <1>2, <1>3, EventsSame
  <2>6. TypeOK'
    BY <1>1, <1>2, <1>3, <2>1, <2>2, <2>3, <2>4, <2>5, TypesAre DEF Types, Saving, asked
  <2>7. LinkInv'
    BY <1>1, <1>2, <1>3, <2>1, <2>2, <2>3, <2>5 DEF LinkInv, At, QueueKept
  <2>8. ScanInv'
    BY <1>1, <1>2, <2>1, <2>2, <2>3, <2>4, <2>5 DEF ScanInv, Moved, QueueKept
  <2>9. ForgottenInv'
    BY <1>1, <1>2, <2>1, <2>2, <2>3, <2>4, <2>5 DEF ForgottenInv, At, Saving
  <2>10. AwaitedInv'
    BY <1>1, <1>2, <2>1, <2>2, <2>3, <2>5 DEF AwaitedInv, At, Joining, QueueKept
  <2> QED
    BY <2>6, <2>7, <2>8, <2>9, <2>10 DEF NetInv
<1>4. CASE Refused(c) /\ UNCHANGED <<radio, asked>>
  <2>1. /\ call' \in Calls /\ call'[c].at = "idle"
        /\ \A d \in Callers \ {c} : call'[d] = call[d]
    BY <1>1, <1>2, <1>4, LeavesDoes, Constants DEF Stages, Refused
  <2>2. /\ Main = c \/ call'[Main] = call[Main]
        /\ \A d \in Callers : d = c \/ call'[d] = call[d]
    BY <1>1, <1>2, <1>4, <2>1, MoveDoes
  <2>3. Moved(c)
    BY <1>1, <1>2, <1>4, <2>1, <2>2, MoveDoes, Constants
  <2>4. QueueKept
    BY <1>1, <1>2, <1>4, EventsSame
  <2>5. TypeOK'
    BY <1>1, <1>2, <1>4, <2>1, <2>2, <2>3, <2>4, TypesAre DEF Types, Saving, asked
  <2>6. LinkInv'
    BY <1>1, <1>2, <1>4, <2>1, <2>2, <2>4 DEF LinkInv, At, QueueKept
  <2>7. ScanInv'
    BY <1>1, <1>2, <1>4, <2>1, <2>2, <2>3, <2>4 DEF ScanInv, Moved, QueueKept
  <2>8. ForgottenInv'
    BY <1>1, <1>2, <1>4, <2>1, <2>2, <2>3, <2>4 DEF ForgottenInv, At, Saving
  <2>9. AwaitedInv'
    BY <1>1, <1>2, <1>4, <2>1, <2>2, <2>4 DEF AwaitedInv, At, Joining, Saving, QueueKept
  <2> QED
    BY <2>5, <2>6, <2>7, <2>8, <2>9 DEF NetInv
<1>5. CASE Fault /\ Refused(c) /\ UNCHANGED radio
  <2>1. /\ call' \in Calls /\ call'[c].at = "idle"
        /\ \A d \in Callers \ {c} : call'[d] = call[d]
    BY <1>1, <1>2, <1>5, LeavesDoes, Constants DEF Stages, Refused
  <2>2. faults' \in 0..MaxFaults /\ requests' = requests
    BY <1>1, <1>2, <1>5, FaultDoes, Parts
  <2>3. /\ Main = c \/ call'[Main] = call[Main]
        /\ \A d \in Callers : d = c \/ call'[d] = call[d]
    BY <1>1, <1>2, <1>5, <2>1, <2>2, MoveDoes
  <2>4. Moved(c)
    BY <1>1, <1>2, <1>5, <2>1, <2>2, <2>3, MoveDoes, Constants
  <2>5. QueueKept
    BY <1>1, <1>2, <1>5, EventsSame
  <2>6. TypeOK'
    BY <1>1, <1>2, <1>5, <2>1, <2>2, <2>3, <2>4, <2>5, TypesAre DEF Types, Saving
  <2>7. LinkInv'
    BY <1>1, <1>2, <1>5, <2>1, <2>2, <2>3, <2>5 DEF LinkInv, At, QueueKept
  <2>8. ScanInv'
    BY <1>1, <1>2, <1>5, <2>1, <2>3, <2>4, <2>5 DEF ScanInv, Moved, QueueKept
  <2>9. ForgottenInv'
    BY <1>1, <1>2, <1>5, <2>1, <2>3, <2>4, <2>5 DEF ForgottenInv, At, Saving
  <2>10. AwaitedInv'
    BY <1>1, <1>2, <1>5, <2>1, <2>3, <2>5 DEF AwaitedInv, At, Joining, QueueKept
  <2> QED
    BY <2>6, <2>7, <2>8, <2>9, <2>10 DEF NetInv
<1> QED
  BY <1>2, <1>3, <1>4, <1>5 DEF Configure

LEMMA AnnounceKeeps == ASSUME NEW c \in Callers PROVE NetInv /\ Announce(c) => NetInv'
<1> SUFFICES ASSUME NetInv, Announce(c) PROVE NetInv'
  OBVIOUS
<1>1. /\ TypeOK /\ LinkInv /\ ScanInv /\ ForgottenInv /\ AwaitedInv
      /\ radio \in Radios /\ handler \in Handlers /\ call \in Calls /\ events \in Seq(Events)
  BY Parts DEF NetInv
<1>2. /\ call[c].at = "announce" /\ state' = "connecting" /\ late' = FALSE /\ Goes(c, "join")
      /\ saved' = saved /\ scanning' = scanning /\ pending' = pending /\ stored' = stored
      /\ radio' = radio /\ events' = events /\ handler' = handler /\ requests' = requests
      /\ faults' = faults /\ awaited' = awaited /\ forgotten' = forgotten
  BY DEF Announce, At, asked, history
<1>3. /\ call' \in Calls /\ call'[c].at = "join" /\ call'[c].net = call[c].net
      /\ \A d \in Callers \ {c} : call'[d] = call[d]
  BY <1>1, <1>2, GoesDoes, Constants DEF Stages
<1>4. /\ Main = c \/ call'[Main] = call[Main]
      /\ \A d \in Callers : d = c \/ call'[d] = call[d]
  BY <1>1, <1>2, <1>3, MoveDoes
<1>5. Moved(c)
  BY <1>1, <1>2, <1>3, <1>4, MoveDoes, Constants
<1>6. QueueKept
  BY <1>1, <1>2, EventsSame
<1>7. TypeOK'
  BY <1>1, <1>2, <1>3, <1>4, <1>5, <1>6, TypesAre DEF Types, Saving, States
<1>8. LinkInv'
  BY <1>1, <1>2, <1>3, <1>4, <1>6 DEF LinkInv, At, QueueKept
<1>9. ScanInv'
  BY <1>1, <1>2, <1>3, <1>4, <1>5, <1>6 DEF ScanInv, Moved, QueueKept
<1>10. ForgottenInv'
  BY <1>1, <1>2, <1>3, <1>4, <1>5, <1>6 DEF ForgottenInv, At, Saving
<1>11. AwaitedInv'
  BY <1>1, <1>2, <1>3, <1>4, <1>6 DEF AwaitedInv, At, Joining, Saving, QueueKept
<1> QED
  BY <1>7, <1>8, <1>9, <1>10, <1>11 DEF NetInv

LEMMA JoinNetworkKeeps == ASSUME NEW c \in Callers PROVE NetInv /\ JoinNetwork(c) => NetInv'
<1> SUFFICES ASSUME NetInv, JoinNetwork(c) PROVE NetInv'
  OBVIOUS
<1>1. /\ TypeOK /\ LinkInv /\ ScanInv /\ ForgottenInv /\ AwaitedInv
      /\ radio \in Radios /\ handler \in Handlers /\ call \in Calls /\ events \in Seq(Events)
  BY Parts DEF NetInv
<1>2. /\ call[c].at = "join"
      /\ state' = state /\ saved' = saved /\ scanning' = scanning /\ pending' = pending
      /\ late' = late /\ stored' = stored /\ events' = events /\ handler' = handler
      /\ awaited' = awaited /\ forgotten' = forgotten
  BY DEF JoinNetwork, At, snapshot, history
<1>3. CASE Join /\ Leaves(c, IF c = Main THEN "rescan" ELSE "idle") /\ UNCHANGED asked
  <2>1. /\ call' \in Calls
        /\ call'[c].at \in {"rescan", "idle"}
        /\ call'[c].at = "rescan" => c = Main
        /\ \A d \in Callers \ {c} : call'[d] = call[d]
    BY <1>1, <1>2, <1>3, LeavesDoes DEF Stages
  <2>2. /\ radio' \in Radios /\ radio.link = "idle" /\ radio'.link = "joining"
        /\ radio'.config = radio.config /\ radio'.scan = radio.scan
    BY <1>1, <1>2, <1>3, JoinDoes
  <2>3. /\ Main = c \/ call'[Main] = call[Main]
        /\ \A d \in Callers : d = c \/ call'[d] = call[d]
    BY <1>1, <1>2, <1>3, <2>1, <2>2, MoveDoes
  <2>4. Moved(c)
    BY <1>1, <1>2, <1>3, <2>1, <2>2, <2>3, MoveDoes, Constants
  <2>5. QueueKept
    BY <1>1, <1>2, <1>3, EventsSame
  <2>6. TypeOK'
    BY <1>1, <1>2, <1>3, <2>1, <2>2, <2>3, <2>4, <2>5, TypesAre DEF Types, Saving, asked
  <2>7. LinkInv'
    BY <1>1, <1>2, <1>3, <2>1, <2>2, <2>3, <2>5 DEF LinkInv, At, QueueKept
  <2>8. ScanInv'
    BY <1>1, <1>2, <2>1, <2>2, <2>3, <2>4, <2>5 DEF ScanInv, Moved, QueueKept
  <2>9. ForgottenInv'
    BY <1>1, <1>2, <2>1, <2>2, <2>3, <2>4, <2>5 DEF ForgottenInv, At, Saving
  <2>10. AwaitedInv'
    BY <1>1, <1>2, <2>1, <2>2, <2>3, <2>5 DEF AwaitedInv, At, Joining, QueueKept
  <2> QED
    BY <2>6, <2>7, <2>8, <2>9, <2>10 DEF NetInv
<1>4. CASE Returns(c) /\ UNCHANGED <<radio, asked>>
  <2>1. /\ call' \in Calls /\ call'[c].at = "idle"
        /\ \A d \in Callers \ {c} : call'[d] = call[d]
    BY <1>1, <1>2, <1>4, LeavesDoes, Constants DEF Stages, Returns
  <2>2. /\ Main = c \/ call'[Main] = call[Main]
        /\ \A d \in Callers : d = c \/ call'[d] = call[d]
    BY <1>1, <1>2, <1>4, <2>1, MoveDoes
  <2>3. Moved(c)
    BY <1>1, <1>2, <1>4, <2>1, <2>2, MoveDoes, Constants
  <2>4. QueueKept
    BY <1>1, <1>2, <1>4, EventsSame
  <2>5. TypeOK'
    BY <1>1, <1>2, <1>4, <2>1, <2>2, <2>3, <2>4, TypesAre DEF Types, Saving, asked
  <2>6. LinkInv'
    BY <1>1, <1>2, <1>4, <2>1, <2>2, <2>4 DEF LinkInv, At, QueueKept
  <2>7. ScanInv'
    BY <1>1, <1>2, <1>4, <2>1, <2>2, <2>3, <2>4 DEF ScanInv, Moved, QueueKept
  <2>8. ForgottenInv'
    BY <1>1, <1>2, <1>4, <2>1, <2>2, <2>3, <2>4 DEF ForgottenInv, At, Saving
  <2>9. AwaitedInv'
    BY <1>1, <1>2, <1>4, <2>1, <2>2, <2>4 DEF AwaitedInv, At, Joining, Saving, QueueKept
  <2> QED
    BY <2>5, <2>6, <2>7, <2>8, <2>9 DEF NetInv
<1>5. CASE Fault /\ Returns(c) /\ UNCHANGED radio
  <2>1. /\ call' \in Calls /\ call'[c].at = "idle"
        /\ \A d \in Callers \ {c} : call'[d] = call[d]
    BY <1>1, <1>2, <1>5, LeavesDoes, Constants DEF Stages, Returns
  <2>2. faults' \in 0..MaxFaults /\ requests' = requests
    BY <1>1, <1>2, <1>5, FaultDoes, Parts
  <2>3. /\ Main = c \/ call'[Main] = call[Main]
        /\ \A d \in Callers : d = c \/ call'[d] = call[d]
    BY <1>1, <1>2, <1>5, <2>1, <2>2, MoveDoes
  <2>4. Moved(c)
    BY <1>1, <1>2, <1>5, <2>1, <2>2, <2>3, MoveDoes, Constants
  <2>5. QueueKept
    BY <1>1, <1>2, <1>5, EventsSame
  <2>6. TypeOK'
    BY <1>1, <1>2, <1>5, <2>1, <2>2, <2>3, <2>4, <2>5, TypesAre DEF Types, Saving
  <2>7. LinkInv'
    BY <1>1, <1>2, <1>5, <2>1, <2>2, <2>3, <2>5 DEF LinkInv, At, QueueKept
  <2>8. ScanInv'
    BY <1>1, <1>2, <1>5, <2>1, <2>3, <2>4, <2>5 DEF ScanInv, Moved, QueueKept
  <2>9. ForgottenInv'
    BY <1>1, <1>2, <1>5, <2>1, <2>3, <2>4, <2>5 DEF ForgottenInv, At, Saving
  <2>10. AwaitedInv'
    BY <1>1, <1>2, <1>5, <2>1, <2>3, <2>5 DEF AwaitedInv, At, Joining, QueueKept
  <2> QED
    BY <2>6, <2>7, <2>8, <2>9, <2>10 DEF NetInv
<1> QED
  BY <1>2, <1>3, <1>4, <1>5 DEF JoinNetwork

LEMMA ForgetKeeps == ASSUME NEW c \in Callers PROVE NetInv /\ Forget(c) => NetInv'
<1> SUFFICES ASSUME NetInv, Forget(c) PROVE NetInv'
  OBVIOUS
<1>1. /\ TypeOK /\ LinkInv /\ ScanInv /\ ForgottenInv /\ AwaitedInv
      /\ radio \in Radios /\ handler \in Handlers /\ call \in Calls /\ events \in Seq(Events)
  BY Parts DEF NetInv
<1>2. /\ c = Screen /\ call[c].at = "idle" /\ Asks
      /\ state' = state /\ saved' = saved /\ scanning' = scanning /\ pending' = pending
      /\ late' = late /\ radio' = radio /\ events' = events /\ handler' = handler
      /\ awaited' = awaited /\ forgotten' = forgotten
  BY DEF Forget, At, snapshot, history
<1>3. requests' \in 0..MaxRequests /\ faults' = faults
  BY <1>1, <1>2, AsksDoes, Parts
<1>4. /\ call' \in Calls /\ call'[c].at \in {"idle", "clear"}
      /\ \A d \in Callers \ {c} : call'[d] = call[d]
  BY <1>1, <1>2, GoesDoes DEF Forget, Stages, At
<1>5. stored' \in Keys /\ (stored = None => stored' = None)
  BY <1>1, <1>2, Parts, Nets DEF Forget, Keys, None
<1>6. /\ Main = c \/ call'[Main] = call[Main]
      /\ \A d \in Callers : d = c \/ call'[d] = call[d]
  BY <1>1, <1>2, <1>3, <1>4, <1>5, MoveDoes
<1>7. Moved(c)
  BY <1>1, <1>2, <1>3, <1>4, <1>5, <1>6, MoveDoes, Constants
<1>8. QueueKept
  BY <1>1, <1>2, EventsSame
<1>9. TypeOK'
  BY <1>1, <1>2, <1>3, <1>4, <1>5, <1>6, <1>7, <1>8, TypesAre DEF Types, Saving
<1>10. LinkInv'
  BY <1>1, <1>2, <1>3, <1>4, <1>5, <1>8, Constants DEF LinkInv, At, QueueKept
<1>11. ScanInv'
  BY <1>1, <1>2, <1>4, <1>7, <1>8 DEF ScanInv, Moved, QueueKept
<1>12. ForgottenInv'
  BY <1>1, <1>2, <1>4, <1>5, <1>7, <1>8, Constants DEF ForgottenInv, At
<1>13. AwaitedInv'
  BY <1>1, <1>2, <1>4, <1>5, <1>8, Constants DEF AwaitedInv, At, Joining, QueueKept
<1> QED
  BY <1>9, <1>10, <1>11, <1>12, <1>13 DEF NetInv

LEMMA ClearKeeps == ASSUME NEW c \in Callers PROVE NetInv /\ Clear(c) => NetInv'
<1> SUFFICES ASSUME NetInv, Clear(c) PROVE NetInv'
  OBVIOUS
<1>1. /\ TypeOK /\ LinkInv /\ ScanInv /\ ForgottenInv /\ AwaitedInv
      /\ radio \in Radios /\ handler \in Handlers /\ call \in Calls /\ events \in Seq(Events)
  BY Parts DEF NetInv
<1>2. /\ call[c].at = "clear" /\ Goes(c, "drop") /\ pending' = None /\ saved' = FALSE
      /\ state' = "no_credentials" /\ forgotten' = Removed /\ awaited' = awaited
      /\ scanning' = scanning /\ late' = late /\ stored' = stored /\ radio' = radio
      /\ events' = events /\ handler' = handler /\ requests' = requests /\ faults' = faults
  BY DEF Clear, At, PendingCleared, asked
<1>3. /\ call' \in Calls /\ call'[c].at = "drop" /\ call'[c].net = call[c].net
      /\ \A d \in Callers \ {c} : call'[d] = call[d]
  BY <1>1, <1>2, GoesDoes, Constants DEF Stages
<1>4. forgotten' \in BOOLEAN
  BY <1>1, <1>2 DEF Removed
<1>5. /\ Main = c \/ call'[Main] = call[Main]
      /\ \A d \in Callers : d = c \/ call'[d] = call[d]
  BY <1>1, <1>2, <1>3, <1>4, MoveDoes
<1>6. Moved(c)
  BY <1>1, <1>2, <1>3, <1>4, <1>5, MoveDoes, Constants
<1>7. QueueKept
  BY <1>1, <1>2, EventsSame
<1>8. TypeOK'
  BY <1>1, <1>2, <1>3, <1>4, <1>5, <1>6, <1>7, TypesAre DEF Types, Saving, States
<1>9. LinkInv'
  BY <1>1, <1>2, <1>3, <1>4, <1>5, <1>7 DEF LinkInv, At, QueueKept
<1>10. ScanInv'
  BY <1>1, <1>2, <1>3, <1>5, <1>6, <1>7 DEF ScanInv, Moved, QueueKept
<1>11. ForgottenInv'
  BY <1>1, <1>2, <1>3, <1>5, <1>6, <1>7 DEF ForgottenInv, At, Saving, Removed
<1>12. AwaitedInv'
  BY <1>1, <1>2, <1>3, <1>5, <1>7 DEF AwaitedInv, At, Joining, Saving, QueueKept
<1> QED
  BY <1>8, <1>9, <1>10, <1>11, <1>12 DEF NetInv

LEMMA DropKeeps == ASSUME NEW c \in Callers PROVE NetInv /\ Drop(c) => NetInv'
<1> SUFFICES ASSUME NetInv, Drop(c) PROVE NetInv'
  OBVIOUS
<1>1. /\ TypeOK /\ LinkInv /\ ScanInv /\ ForgottenInv /\ AwaitedInv
      /\ radio \in Radios /\ handler \in Handlers /\ call \in Calls /\ events \in Seq(Events)
  BY Parts DEF NetInv
<1>2. /\ call[c].at = "drop" /\ Disconnect /\ Goes(c, "rescan")
      /\ state' = state /\ saved' = saved /\ scanning' = scanning /\ pending' = pending
      /\ late' = late /\ stored' = stored /\ handler' = handler /\ requests' = requests
      /\ faults' = faults /\ awaited' = awaited /\ forgotten' = forgotten
  BY DEF Drop, At, snapshot, asked, history
<1>3. /\ call' \in Calls /\ call'[c].at = "rescan" /\ call'[c].net = call[c].net
      /\ \A d \in Callers \ {c} : call'[d] = call[d]
  BY <1>1, <1>2, GoesDoes, Constants DEF Stages
<1>4. Unlinked
  BY <1>1, <1>2, DisconnectDoes DEF ScanInv
<1>5. /\ Main = c \/ call'[Main] = call[Main]
      /\ \A d \in Callers : d = c \/ call'[d] = call[d]
  BY <1>1, <1>2, <1>3, <1>4, MoveDoes
<1>6. Moved(c)
  BY <1>1, <1>2, <1>3, <1>4, <1>5, MoveDoes, Constants
<1>7. TypeOK'
  BY <1>1, <1>2, <1>3, <1>4, <1>5, <1>6, TypesAre DEF Types, Saving, Unlinked
<1>8. LinkInv'
  BY <1>1, <1>2, <1>3, <1>4, <1>5 DEF LinkInv, At, Unlinked
<1>9. ScanInv'
  BY <1>1, <1>2, <1>3, <1>4, <1>5, <1>6 DEF ScanInv, Unlinked, Moved
<1>10. ForgottenInv'
  BY <1>1, <1>2, <1>3, <1>4, <1>5, <1>6 DEF ForgottenInv, At, Saving, Unlinked
<1>11. AwaitedInv'
  BY <1>1, <1>2, <1>3, <1>4, <1>5 DEF AwaitedInv, At, Joining, Unlinked
<1> QED
  BY <1>7, <1>8, <1>9, <1>10, <1>11 DEF NetInv

LEMMA RequestScanKeeps == ASSUME NEW c \in Callers PROVE NetInv /\ RequestScan(c) => NetInv'
<1> SUFFICES ASSUME NetInv, RequestScan(c) PROVE NetInv'
  OBVIOUS
<1>1. /\ TypeOK /\ LinkInv /\ ScanInv /\ ForgottenInv /\ AwaitedInv
      /\ radio \in Radios /\ handler \in Handlers /\ call \in Calls /\ events \in Seq(Events)
  BY Parts DEF NetInv
<1>2. /\ call[c].at \in {"idle", "rescan"} /\ (call[c].at = "idle" => c = Screen)
      /\ requests' \in 0..MaxRequests /\ faults' = faults
      /\ state' = state /\ saved' = saved /\ pending' = pending /\ late' = late
      /\ stored' = stored /\ radio' = radio /\ events' = events /\ handler' = handler
      /\ awaited' = awaited /\ forgotten' = forgotten
  BY AsksDoes, Parts DEF RequestScan, At, asked, history, NetInv
<1>3. CASE ScanFree /\ scanning' = TRUE /\ Goes(c, "scan")
  <2>1. /\ call' \in Calls /\ call'[c].at = "scan" /\ call'[c].net = call[c].net
        /\ \A d \in Callers \ {c} : call'[d] = call[d]
    BY <1>1, <1>2, <1>3, GoesDoes, Constants DEF Stages
  <2>2. /\ Main = c \/ call'[Main] = call[Main]
        /\ \A d \in Callers : d = c \/ call'[d] = call[d]
    BY <1>1, <1>2, <1>3, <2>1, MoveDoes
  <2>3. Moved(c)
    BY <1>1, <1>2, <1>3, <2>1, <2>2, MoveDoes, Constants
  <2>4. QueueKept
    BY <1>1, <1>2, <1>3, EventsSame
  <2>5. TypeOK'
    BY <1>1, <1>2, <1>3, <2>1, <2>2, <2>3, <2>4, TypesAre DEF Types, Saving
  <2>6. LinkInv'
    BY <1>1, <1>2, <1>3, <2>1, <2>2, <2>4 DEF LinkInv, At, QueueKept
  <2>7. ScanInv'
    BY <1>1, <1>2, <1>3, <2>1, <2>2, <2>3, <2>4 DEF ScanInv, ScanFree, Moved, QueueKept
  <2>8. ForgottenInv'
    BY <1>1, <1>2, <1>3, <2>1, <2>2, <2>3, <2>4 DEF ForgottenInv, At, Saving
  <2>9. AwaitedInv'
    BY <1>1, <1>2, <2>1, <2>2, <2>4, Constants DEF AwaitedInv, At, Joining, Saving, QueueKept
  <2> QED
    BY <2>5, <2>6, <2>7, <2>8, <2>9 DEF NetInv
<1>4. CASE Returns(c) /\ scanning' = scanning
  <2>1. /\ call' \in Calls /\ call'[c].at = "idle"
        /\ \A d \in Callers \ {c} : call'[d] = call[d]
    BY <1>1, <1>2, <1>4, LeavesDoes, Constants DEF Stages, Returns
  <2>2. /\ Main = c \/ call'[Main] = call[Main]
        /\ \A d \in Callers : d = c \/ call'[d] = call[d]
    BY <1>1, <1>2, <1>4, <2>1, MoveDoes
  <2>3. Moved(c)
    BY <1>1, <1>2, <1>4, <2>1, <2>2, MoveDoes, Constants
  <2>4. QueueKept
    BY <1>1, <1>2, <1>4, EventsSame
  <2>5. TypeOK'
    BY <1>1, <1>2, <1>4, <2>1, <2>2, <2>3, <2>4, TypesAre DEF Types, Saving
  <2>6. LinkInv'
    BY <1>1, <1>2, <1>4, <2>1, <2>2, <2>4 DEF LinkInv, At, QueueKept
  <2>7. ScanInv'
    BY <1>1, <1>2, <1>4, <2>1, <2>2, <2>3, <2>4 DEF ScanInv, Moved, QueueKept
  <2>8. ForgottenInv'
    BY <1>1, <1>2, <1>4, <2>1, <2>2, <2>3, <2>4 DEF ForgottenInv, At, Saving
  <2>9. AwaitedInv'
    BY <1>1, <1>2, <2>1, <2>2, <2>4, Constants DEF AwaitedInv, At, Joining, Saving, QueueKept
  <2> QED
    BY <2>5, <2>6, <2>7, <2>8, <2>9 DEF NetInv
<1> QED
  BY <1>2, <1>3, <1>4 DEF RequestScan

LEMMA ScanStartKeeps == ASSUME NEW c \in Callers PROVE NetInv /\ ScanStart(c) => NetInv'
<1> SUFFICES ASSUME NetInv, ScanStart(c) PROVE NetInv'
  OBVIOUS
<1>1. /\ TypeOK /\ LinkInv /\ ScanInv /\ ForgottenInv /\ AwaitedInv
      /\ radio \in Radios /\ handler \in Handlers /\ call \in Calls /\ events \in Seq(Events)
  BY Parts DEF NetInv
<1>2. /\ call[c].at = "scan"
      /\ state' = state /\ saved' = saved /\ scanning' = scanning /\ pending' = pending
      /\ late' = late /\ stored' = stored /\ events' = events /\ handler' = handler
      /\ awaited' = awaited /\ forgotten' = forgotten
  BY DEF ScanStart, At, snapshot, history
<1>3. CASE /\ radio' = [radio EXCEPT !.scan = TRUE]
           /\ Returns(c) /\ UNCHANGED asked
  <2>1. /\ call' \in Calls /\ call'[c].at = "idle"
        /\ \A d \in Callers \ {c} : call'[d] = call[d]
    BY <1>1, <1>2, <1>3, LeavesDoes, Constants DEF Stages, Returns
  <2>2. /\ radio' \in Radios /\ radio'.link = radio.link /\ radio'.config = radio.config
        /\ radio'.scan = TRUE
    BY <1>1, <1>2, <1>3 DEF Radios
  <2>3. /\ Main = c \/ call'[Main] = call[Main]
        /\ \A d \in Callers : d = c \/ call'[d] = call[d]
    BY <1>1, <1>2, <1>3, <2>1, <2>2, MoveDoes
  <2>4. Moved(c)
    BY <1>1, <1>2, <1>3, <2>1, <2>2, <2>3, MoveDoes, Constants
  <2>5. QueueKept
    BY <1>1, <1>2, <1>3, EventsSame
  <2>6. TypeOK'
    BY <1>1, <1>2, <1>3, <2>1, <2>2, <2>3, <2>4, <2>5, TypesAre DEF Types, Saving, asked
  <2>7. LinkInv'
    BY <1>1, <1>2, <1>3, <2>1, <2>2, <2>3, <2>5 DEF LinkInv, At, QueueKept
  <2>8. ScanInv'
    BY <1>1, <1>2, <2>1, <2>2, <2>3, <2>4, <2>5 DEF ScanInv, Moved, QueueKept
  <2>9. ForgottenInv'
    BY <1>1, <1>2, <2>1, <2>2, <2>3, <2>4, <2>5 DEF ForgottenInv, At, Saving
  <2>10. AwaitedInv'
    BY <1>1, <1>2, <2>1, <2>2, <2>3, <2>5 DEF AwaitedInv, At, Joining, QueueKept
  <2> QED
    BY <2>6, <2>7, <2>8, <2>9, <2>10 DEF NetInv
<1>4. CASE Goes(c, "unscan") /\ UNCHANGED <<radio, asked>>
  <2>1. /\ call' \in Calls /\ call'[c].at = "unscan" /\ call'[c].net = call[c].net
        /\ \A d \in Callers \ {c} : call'[d] = call[d]
    BY <1>1, <1>2, <1>4, GoesDoes, Constants DEF Stages
  <2>2. /\ Main = c \/ call'[Main] = call[Main]
        /\ \A d \in Callers : d = c \/ call'[d] = call[d]
    BY <1>1, <1>2, <1>4, <2>1, MoveDoes
  <2>3. Moved(c)
    BY <1>1, <1>2, <1>4, <2>1, <2>2, MoveDoes, Constants
  <2>4. QueueKept
    BY <1>1, <1>2, <1>4, EventsSame
  <2>5. TypeOK'
    BY <1>1, <1>2, <1>4, <2>1, <2>2, <2>3, <2>4, TypesAre DEF Types, Saving, asked
  <2>6. LinkInv'
    BY <1>1, <1>2, <1>4, <2>1, <2>2, <2>4 DEF LinkInv, At, QueueKept
  <2>7. ScanInv'
    BY <1>1, <1>2, <1>4, <2>1, <2>2, <2>3, <2>4 DEF ScanInv, Moved, QueueKept
  <2>8. ForgottenInv'
    BY <1>1, <1>2, <1>4, <2>1, <2>2, <2>3, <2>4 DEF ForgottenInv, At, Saving
  <2>9. AwaitedInv'
    BY <1>1, <1>2, <1>4, <2>1, <2>2, <2>4 DEF AwaitedInv, At, Joining, Saving, QueueKept
  <2> QED
    BY <2>5, <2>6, <2>7, <2>8, <2>9 DEF NetInv
<1>5. CASE Fault /\ Goes(c, "unscan") /\ UNCHANGED radio
  <2>1. /\ call' \in Calls /\ call'[c].at = "unscan" /\ call'[c].net = call[c].net
        /\ \A d \in Callers \ {c} : call'[d] = call[d]
    BY <1>1, <1>2, <1>5, GoesDoes, Constants DEF Stages
  <2>2. faults' \in 0..MaxFaults /\ requests' = requests
    BY <1>1, <1>2, <1>5, FaultDoes, Parts
  <2>3. /\ Main = c \/ call'[Main] = call[Main]
        /\ \A d \in Callers : d = c \/ call'[d] = call[d]
    BY <1>1, <1>2, <1>5, <2>1, <2>2, MoveDoes
  <2>4. Moved(c)
    BY <1>1, <1>2, <1>5, <2>1, <2>2, <2>3, MoveDoes, Constants
  <2>5. QueueKept
    BY <1>1, <1>2, <1>5, EventsSame
  <2>6. TypeOK'
    BY <1>1, <1>2, <1>5, <2>1, <2>2, <2>3, <2>4, <2>5, TypesAre DEF Types, Saving
  <2>7. LinkInv'
    BY <1>1, <1>2, <1>5, <2>1, <2>2, <2>3, <2>5 DEF LinkInv, At, QueueKept
  <2>8. ScanInv'
    BY <1>1, <1>2, <1>5, <2>1, <2>3, <2>4, <2>5 DEF ScanInv, Moved, QueueKept
  <2>9. ForgottenInv'
    BY <1>1, <1>2, <1>5, <2>1, <2>3, <2>4, <2>5 DEF ForgottenInv, At, Saving
  <2>10. AwaitedInv'
    BY <1>1, <1>2, <1>5, <2>1, <2>3, <2>5 DEF AwaitedInv, At, Joining, QueueKept
  <2> QED
    BY <2>6, <2>7, <2>8, <2>9, <2>10 DEF NetInv
<1> QED
  BY <1>2, <1>3, <1>4, <1>5 DEF ScanStart

LEMMA UnscanKeeps == ASSUME NEW c \in Callers PROVE NetInv /\ Unscan(c) => NetInv'
<1> SUFFICES ASSUME NetInv, Unscan(c) PROVE NetInv'
  OBVIOUS
<1>1. /\ TypeOK /\ LinkInv /\ ScanInv /\ ForgottenInv /\ AwaitedInv
      /\ radio \in Radios /\ handler \in Handlers /\ call \in Calls /\ events \in Seq(Events)
  BY Parts DEF NetInv
<1>2. /\ call[c].at = "unscan" /\ scanning' = FALSE /\ Returns(c)
      /\ state' = state /\ saved' = saved /\ pending' = pending /\ late' = late
      /\ stored' = stored /\ radio' = radio /\ events' = events /\ handler' = handler
      /\ requests' = requests /\ faults' = faults /\ awaited' = awaited /\ forgotten' = forgotten
  BY DEF Unscan, At, asked, history
<1>3. /\ call' \in Calls /\ call'[c].at = "idle"
      /\ \A d \in Callers \ {c} : call'[d] = call[d]
  BY <1>1, <1>2, LeavesDoes, Constants DEF Stages, Returns
<1>4. /\ Main = c \/ call'[Main] = call[Main]
      /\ \A d \in Callers : d = c \/ call'[d] = call[d]
  BY <1>1, <1>2, <1>3, MoveDoes
<1>5. Moved(c)
  BY <1>1, <1>2, <1>3, <1>4, MoveDoes, Constants
<1>6. QueueKept
  BY <1>1, <1>2, EventsSame
<1>7. TypeOK'
  BY <1>1, <1>2, <1>3, <1>4, <1>5, <1>6, TypesAre DEF Types, Saving
<1>8. LinkInv'
  BY <1>1, <1>2, <1>3, <1>4, <1>6 DEF LinkInv, At, QueueKept
<1>9. ScanInv'
  BY <1>1, <1>2, <1>3, <1>4, <1>5, <1>6 DEF ScanInv, Moved, QueueKept
<1>10. ForgottenInv'
  BY <1>1, <1>2, <1>3, <1>4, <1>5, <1>6 DEF ForgottenInv, At, Saving
<1>11. AwaitedInv'
  BY <1>1, <1>2, <1>3, <1>4, <1>6 DEF AwaitedInv, At, Joining, Saving, QueueKept
<1> QED
  BY <1>7, <1>8, <1>9, <1>10, <1>11 DEF NetInv

----------------------------------------------------------------------------
(* The whole program, and the theorems.                                    *)

\* After power-on nothing is queued, shown or under way.
LEMMA BootKeeps ==
  ASSUME stored' \in Keys, requests' \in 0..MaxRequests, faults' \in 0..MaxFaults,
         awaited' = None, forgotten' \in BOOLEAN, forgotten' => stored' = None,
         Booted
  PROVE  NetInv'
<1>1. /\ state' = "stopped" /\ saved' = FALSE /\ scanning' = FALSE /\ pending' = None
      /\ late' = FALSE /\ radio' \in Radios /\ radio'.link = "off" /\ radio'.scan = FALSE
      /\ events' = << >> /\ handler' \in Handlers /\ handler'.at = "idle" /\ call' \in Calls
  BY Nets DEF Booted, Radios, Linked, Handlers, Idle, Calls, Stages
<1>2. /\ call'[Main].at = "start"
      /\ \A c \in Callers : c = Main \/ call'[c].at = "idle"
  BY Constants DEF Booted, Idle
<1>3. ~Gone' /\ ~Got' /\ ~Scanned' /\ ScanOnce' /\ GotGone' /\ events' \in Seq(Events)
  BY <1>1 DEF Gone, Got, Scanned, ScanOnce, GotGone
<1>4. ~Calling' /\ OneCalling'
  BY <1>2 DEF Calling, OneCalling
<1>5. TypeOK'
  BY <1>1, <1>3, TypesAre DEF Types, States, Saving
<1>6. LinkInv' /\ ScanInv'
  BY <1>1, <1>2, <1>3, <1>4 DEF LinkInv, ScanInv, At
<1>7. ForgottenInv' /\ AwaitedInv'
  BY <1>1, <1>2 DEF ForgottenInv, AwaitedInv, At, Saving
<1> QED
  BY <1>5, <1>6, <1>7 DEF NetInv

LEMMA InitNet == Init => NetInv
<1> SUFFICES ASSUME Init PROVE NetInv
  OBVIOUS
<1>1. /\ state = "stopped" /\ saved = FALSE /\ scanning = FALSE /\ pending = None
      /\ late = FALSE /\ radio \in Radios /\ radio.link = "off" /\ radio.scan = FALSE
      /\ events = << >> /\ handler \in Handlers /\ handler.at = "idle" /\ call \in Calls
  BY Nets DEF Init, Radios, Linked, Handlers, Idle, Calls, Stages
<1>2. /\ call[Main].at = "start"
      /\ \A c \in Callers : c = Main \/ call[c].at = "idle"
  BY Constants DEF Init, Idle
<1>3. ~Gone /\ ~Got /\ ~Scanned /\ ScanOnce /\ GotGone /\ events \in Seq(Events)
  BY <1>1 DEF Gone, Got, Scanned, ScanOnce, GotGone
<1>4. ~Calling /\ OneCalling
  BY <1>2 DEF Calling, OneCalling
<1>5. /\ stored \in Keys /\ requests \in 0..MaxRequests /\ faults \in 0..MaxFaults
      /\ awaited = None /\ forgotten = FALSE
  BY Nets, Constants DEF Init
<1>6. TypeOK
  BY <1>1, <1>3, <1>5, TypesAre DEF Types, States, Saving
<1>7. LinkInv /\ ScanInv
  BY <1>1, <1>2, <1>3, <1>4 DEF LinkInv, ScanInv, At
<1>8. ForgottenInv /\ AwaitedInv
  BY <1>1, <1>2, <1>5 DEF ForgottenInv, AwaitedInv, At, Saving
<1> QED
  BY <1>6, <1>7, <1>8 DEF NetInv

LEMMA CallStepKeeps == ASSUME NEW c \in Callers PROVE NetInv /\ CallStep(c) => NetInv'
<1> SUFFICES ASSUME NetInv, CallStep(c) PROVE NetInv'
  OBVIOUS
<1>1. CASE ConnectStep(c)
  BY <1>1, DisconnectsKeeps, ConfigureKeeps, AnnounceKeeps, JoinNetworkKeeps DEF ConnectStep
<1>2. CASE ForgetStep(c)
  BY <1>2, ClearKeeps, DropKeeps DEF ForgetStep
<1>3. CASE ScanStep(c)
  BY <1>3, RequestScanKeeps, ScanStartKeeps, UnscanKeeps DEF ScanStep
<1> QED
  BY <1>1, <1>2, <1>3 DEF CallStep

LEMMA RequestKeeps == ASSUME NEW c \in Callers PROVE NetInv /\ Request(c) => NetInv'
BY ConnectKeeps, ForgetKeeps, RequestScanKeeps DEF Request

LEMMA StutterKeeps == NetInv /\ UNCHANGED vars => NetInv'
<1> SUFFICES ASSUME NetInv, UNCHANGED vars PROVE NetInv'
  OBVIOUS
<1>1. /\ state' = state /\ saved' = saved /\ scanning' = scanning /\ pending' = pending
      /\ late' = late /\ stored' = stored /\ radio' = radio /\ events' = events
      /\ handler' = handler /\ call' = call /\ requests' = requests /\ faults' = faults
      /\ awaited' = awaited /\ forgotten' = forgotten
  BY DEF vars, snapshot, asked, history
<1>2. TypeOK'
  BY <1>1, TypesAre DEF NetInv, Types
<1>3. QueueKept
  BY <1>1, EventsSame
<1>4. LinkInv' /\ ScanInv'
  BY <1>1, <1>3, CallsSame DEF QueueKept, NetInv, LinkInv, ScanInv, At
<1>5. ForgottenInv' /\ AwaitedInv'
  BY <1>1, <1>3 DEF QueueKept, NetInv, ForgottenInv, AwaitedInv, At
<1> QED
  BY <1>2, <1>4, <1>5 DEF NetInv

LEMMA NextKeeps == NetInv /\ [Next]_vars => NetInv'
<1> SUFFICES ASSUME NetInv, [Next]_vars PROVE NetInv'
  OBVIOUS
<1>1. CASE Radio
  BY <1>1, RadioUpKeeps, RadioDownKeeps, RadioScannedKeeps DEF Radio, Elsewhere
<1>2. CASE Elapse
  BY <1>2, ElapseKeeps
<1>3. CASE Handler
  BY <1>3, ScanDoneKeeps, DisconnectedKeeps, RejoinKeeps, GotIpKeeps, SaveKeyKeeps, SaveEndsKeeps
     DEF Handler
<1>4. CASE Start
  BY <1>4, StartWifiKeeps, OpenKeeps, LoadKeeps, LoadedKeeps, UnreadableKeeps DEF Start
<1>5. CASE Restart
  <2>1. /\ stored' = stored /\ requests' = requests /\ faults' = faults
        /\ forgotten' = forgotten /\ awaited' = None /\ Booted
    BY <1>5 DEF Restart, asked
  <2>2. Types /\ ForgottenInv
    BY TypesAre DEF NetInv
  <2> QED
    BY <2>1, <2>2, BootKeeps DEF Types, ForgottenInv
<1>6. ASSUME NEW c \in Callers, CallStep(c) \/ Request(c) PROVE NetInv'
  BY <1>6, CallStepKeeps, RequestKeeps
<1>7. CASE UNCHANGED vars
  BY <1>7, StutterKeeps
<1> QED
  BY <1>1, <1>2, <1>3, <1>4, <1>5, <1>6, <1>7 DEF Next

\* What the station shows, scans, forgets and saves stays in step with the
\* driver, the queue and the calls under way, whatever the callers ask for and
\* whichever call of the driver or of NVS fails.
THEOREM NetworkInvariance == Spec => []NetInv
<1>1. Init => NetInv
  BY InitNet
<1>2. NetInv /\ [Next]_vars => NetInv'
  BY NextKeeps
<1> QED
  BY <1>1, <1>2, PTL DEF Spec

\* The variables keep their types; a save under way has a network to save.
THEOREM NetworkTypeCorrect == Spec => []TypeOK
<1>1. NetInv => TypeOK
  BY DEF NetInv
<1> QED
  BY <1>1, NetworkInvariance, PTL

\* A connection shown is a link that is up, or one whose end is still queued.
THEOREM LinkIsShown == Spec => []LinkShown
<1>1. NetInv => LinkShown
  BY DEF NetInv, LinkInv, LinkShown, Gone
<1> QED
  BY <1>1, NetworkInvariance, PTL

\* The scanning flag stands for exactly one scan, asked for, running or done.
THEOREM ScansAccounted == Spec => []ScanAccounted
<1>1. NetInv => ScanAccounted
  <2> SUFFICES ASSUME NetInv PROVE ScanAccounted
    OBVIOUS
  <2>1. ScanInv
    BY DEF NetInv
  <2>2. Scanned <=> \E i \in DOMAIN events : ScanQueued(i)
    BY DEF Scanned, ScanQueued
  <2>3. Calling <=> \E c \in Callers : ScanCalled(c)
    BY DEF Calling, ScanCalled
  <2>4. \A i, j \in DOMAIN events : ScanQueued(i) /\ ScanQueued(j) => i = j
    BY <2>1 DEF ScanInv, ScanOnce, ScanQueued
  <2>5. \A c, d \in Callers : ScanCalled(c) /\ ScanCalled(d) => c = d
    BY <2>1 DEF ScanInv, OneCalling, ScanCalled
  <2> QED
    BY <2>1, <2>2, <2>3, <2>4, <2>5 DEF ScanInv, ScanAccounted
<1> QED
  BY <1>1, NetworkInvariance, PTL

\* What a forget removed stays away until somebody asks for a network.
THEOREM ForgetIsKept == Spec => []StaysForgotten
<1>1. NetInv => StaysForgotten
  BY DEF NetInv, ForgottenInv, StaysForgotten
<1> QED
  BY <1>1, NetworkInvariance, PTL

\* The credentials a lone connect brought are saved after their network answered.
THEOREM SavedOnceAnswered == Spec => []SavedAnswered
<1>1. NetInv => SavedAnswered
  <2> SUFFICES ASSUME NetInv, handler.at \in Saving PROVE handler.net # awaited
    BY DEF SavedAnswered
  <2>1. handler.net \in Networks
    BY DEF NetInv, TypeOK
  <2>2. awaited = None
    BY DEF NetInv, AwaitedInv
  <2> QED
    BY <2>1, <2>2, Nets
<1> QED
  BY <1>1, NetworkInvariance, PTL

----------------------------------------------------------------------------
(* An attempt to connect ends.  While it lasts, a tuple of naturals sinks: *)
(* the requests and the steps of the calls that may still come, the time   *)
(* to connect, and what the radio and the event task have left to do.      *)

StageSteps(stage) ==
  CASE stage = "unscan"     -> 1
    [] stage = "scan"       -> 2
    [] stage = "rescan"     -> 3
    [] stage \in {"join", "drop", "unreadable"} -> 4
    [] stage \in {"announce", "clear"}          -> 5
    [] stage = "configure"  -> 6
    [] stage \in {"disconnect", "loaded"}       -> 7
    [] stage = "load"       -> 8
    [] stage = "open"       -> 9
    [] stage = "start"      -> 10
    [] OTHER                -> 0

Steps(c) == StageSteps(call[c].at)
CallsLeft == Steps(Main) + Steps(Screen) + Steps(Rpc) + 11 * (MaxRequests - requests)

TimeLeft == IF late THEN 0 ELSE 1

HandlerSteps ==
  CASE handler.at = "rejoin"             -> 6
    [] handler.at = "ssid"               -> 3
    [] handler.at = "password"           -> 2
    [] handler.at \in {"result", "failed"} -> 1
    [] OTHER                             -> 0

RadioSteps ==
  (CASE radio.link = "joining" -> 5 [] radio.link = "up" -> 2 [] OTHER -> 0)
    + (IF radio.scan THEN 2 ELSE 0)

\* Counted once the time to connect is over: until then an attempt may fail and
\* be made again and again.
WorkLeft == IF late THEN HandlerSteps + RadioSteps + Len(events) ELSE 0

NetRank == <<CallsLeft, TimeLeft, WorkLeft>>

NetSinks ==
  /\ NetRank \in Nat \X Nat \X Nat /\ NetRank' \in Nat \X Nat \X Nat
  /\ \/ CallsLeft' < CallsLeft
     \/ /\ CallsLeft' = CallsLeft
        /\ \/ TimeLeft' < TimeLeft
           \/ TimeLeft' = TimeLeft /\ WorkLeft' < WorkLeft

Trying == state = "connecting" /\ Attempting

LEMMA StepsAre == \A stage : StageSteps(stage) \in 0..10
BY DEF StageSteps

LEMMA NetRankIs == TypeOK => NetRank \in Nat \X Nat \X Nat
<1> SUFFICES ASSUME TypeOK PROVE NetRank \in Nat \X Nat \X Nat
  OBVIOUS
<1>1. CallsLeft \in Nat
  <2>1. Steps(Main) \in Nat /\ Steps(Screen) \in Nat /\ Steps(Rpc) \in Nat
    BY StepsAre DEF Steps
  <2>2. requests \in Nat /\ MaxRequests \in Nat /\ requests <= MaxRequests
    BY Constants, Parts
  <2> HIDE DEF Steps
  <2> QED
    BY <2>1, <2>2 DEF CallsLeft
<1>2. TimeLeft \in Nat
  BY DEF TimeLeft
<1>3. HandlerSteps \in Nat /\ RadioSteps \in Nat /\ Len(events) \in Nat
  BY Parts DEF HandlerSteps, RadioSteps
<1>4. WorkLeft \in Nat
  BY <1>3 DEF WorkLeft
<1> QED
  BY <1>1, <1>2, <1>4 DEF NetRank

\* One call goes on, or a new one is made.
LEMMA CallMoves ==
  ASSUME requests \in 0..MaxRequests, NEW c \in Callers,
         \A d \in Callers \ {c} : call'[d] = call[d],
         \/ requests' = requests /\ Steps(c)' < Steps(c)
         \/ requests' = requests + 1
  PROVE  CallsLeft' < CallsLeft
<1>1. /\ Steps(Main) \in 0..10 /\ Steps(Screen) \in 0..10 /\ Steps(Rpc) \in 0..10
      /\ Steps(Main)' \in 0..10 /\ Steps(Screen)' \in 0..10 /\ Steps(Rpc)' \in 0..10
  BY StepsAre DEF Steps
<1>2. \A d \in Callers \ {c} : Steps(d)' = Steps(d)
  BY DEF Steps
<1>3. Main # Screen /\ Main # Rpc /\ Screen # Rpc /\ Callers = {Main, Screen, Rpc} /\ MaxRequests \in Nat
  BY Constants DEF Callers
<1> HIDE DEF Steps
<1>4. CASE c = Main
  BY <1>1, <1>2, <1>3, <1>4 DEF CallsLeft
<1>5. CASE c = Screen
  BY <1>1, <1>2, <1>3, <1>5 DEF CallsLeft
<1>6. CASE c = Rpc
  BY <1>1, <1>2, <1>3, <1>6 DEF CallsLeft
<1> QED
  BY <1>3, <1>4, <1>5, <1>6

LEMMA CallsSink ==
  ASSUME TypeOK, Start \/ \E c \in Callers : CallStep(c) \/ Request(c)
  PROVE  CallsLeft' < CallsLeft
<1>0. call \in Calls /\ requests \in 0..MaxRequests /\ Main \in Callers
  BY Parts, Constants
<1>1. ASSUME NEW c \in Callers, NEW stage \in Stages, Goes(c, stage) \/ Leaves(c, stage)
      PROVE  call'[c].at = stage /\ \A d \in Callers \ {c} : call'[d] = call[d]
  BY <1>0, <1>1, GoesDoes, LeavesDoes
<1>2. ASSUME Start PROVE CallsLeft' < CallsLeft
  <2>1. requests' = requests
    BY <1>2 DEF Start, StartWifi, Open, Load, Loaded, Unreadable, Fault, asked
  <2>2. Steps(Main)' < Steps(Main) /\ \A d \in Callers \ {Main} : call'[d] = call[d]
    <3>1. CASE StartWifi
      BY <1>0, <1>1, <3>1 DEF StartWifi, At, Returns, Steps, StageSteps, Stages
    <3>2. CASE Open
      BY <1>0, <1>1, <3>2 DEF Open, At, Steps, StageSteps, Stages
    <3>3. CASE Load
      <4>1. CASE call' = [call EXCEPT ![Main] = [at |-> "loaded", net |-> stored]]
        BY <1>0, <3>3, <4>1 DEF Load, At, Steps, StageSteps, Calls
      <4>2. CASE Goes(Main, "rescan") \/ Goes(Main, "unreadable")
        BY <1>0, <1>1, <3>3, <4>2 DEF Load, At, Steps, StageSteps, Stages
      <4> QED
        BY <3>3, <4>1, <4>2 DEF Load
    <3>4. CASE Loaded
      BY <1>0, <1>1, <3>4 DEF Loaded, At, Steps, StageSteps, Stages
    <3>5. CASE Unreadable
      BY <1>0, <1>1, <3>5 DEF Unreadable, At, Steps, StageSteps, Stages
    <3> QED
      BY <1>2, <3>1, <3>2, <3>3, <3>4, <3>5 DEF Start
  <2> QED
    BY <1>0, <2>1, <2>2, CallMoves
<1>3. ASSUME NEW c \in Callers, CallStep(c) PROVE CallsLeft' < CallsLeft
  <2>1. requests' = requests
    BY <1>3 DEF CallStep, ConnectStep, Disconnects, Configure, Announce, JoinNetwork, ForgetStep, Clear, Drop,
                ScanStep, RequestScan, ScanStart, Unscan, Fault, asked, At
  <2>2. Steps(c)' < Steps(c) /\ \A d \in Callers \ {c} : call'[d] = call[d]
    <3>1. CASE Disconnects(c) \/ Announce(c) \/ Clear(c) \/ Drop(c) \/ Unscan(c)
      BY <1>0, <1>1, <3>1 DEF Disconnects, Announce, Clear, Drop, Unscan, At, Returns, Steps, StageSteps, Stages
    <3>2. CASE Configure(c)
      BY <1>0, <1>1, <3>2 DEF Configure, Refused, At, Steps, StageSteps, Stages
    <3>3. CASE JoinNetwork(c)
      BY <1>0, <1>1, <3>3 DEF JoinNetwork, At, Returns, Steps, StageSteps, Stages
    <3>4. CASE At(c, "rescan") /\ RequestScan(c)
      BY <1>0, <1>1, <3>4 DEF RequestScan, At, Returns, Steps, StageSteps, Stages
    <3>5. CASE ScanStart(c)
      BY <1>0, <1>1, <3>5 DEF ScanStart, At, Returns, Steps, StageSteps, Stages
    <3> QED
      BY <1>3, <3>1, <3>2, <3>3, <3>4, <3>5 DEF CallStep, ConnectStep, ForgetStep, ScanStep
  <2> QED
    BY <1>0, <2>1, <2>2, CallMoves
<1>4. ASSUME NEW c \in Callers, Request(c) PROVE CallsLeft' < CallsLeft
  <2>1. CASE \E net \in Networks : Connect(c, net)
    <3>1. requests' = requests + 1 /\ \A d \in Callers \ {c} : call'[d] = call[d]
      BY <1>0, <2>1 DEF Connect, Asks, Calls
    <3> QED
      BY <1>0, <3>1, CallMoves
  <2>2. CASE Forget(c)
    <3>1. requests' = requests + 1 /\ \A d \in Callers \ {c} : call'[d] = call[d]
      BY <1>0, <1>1, <2>2 DEF Forget, Asks, Stages
    <3> QED
      BY <1>0, <3>1, CallMoves
  <2>3. CASE At(c, "idle") /\ RequestScan(c)
    <3>1. requests' = requests + 1 /\ \A d \in Callers \ {c} : call'[d] = call[d]
      BY <1>0, <1>1, <2>3 DEF RequestScan, Asks, Returns, At, Stages
    <3> QED
      BY <1>0, <3>1, CallMoves
  <2> QED
    BY <1>4, <2>1, <2>2, <2>3 DEF Request
<1> QED
  BY <1>2, <1>3, <1>4

\* Once the time to connect is over, the radio and the event task run out of
\* work: an attempt that is lost now is not made again.
LEMMA WorkSinks ==
  ASSUME TypeOK, Trying, Trying', late, Radio \/ Handler
  PROVE  WorkLeft' < WorkLeft /\ late' = late
<1>0. /\ radio \in Radios /\ handler \in Handlers /\ events \in Seq(Events)
      /\ state = "connecting" /\ state' = "connecting" /\ late = TRUE
  BY Parts DEF Trying, TypeOK
<1>1. Len(events) \in Nat /\ HandlerSteps \in Nat /\ RadioSteps \in Nat
  BY <1>0 DEF HandlerSteps, RadioSteps
<1>2. ASSUME NEW e, Post(e) PROVE Len(events') = Len(events) + 1
  BY <1>0, <1>2 DEF Post
<1>3. ASSUME NEW e, Handles(e) PROVE Len(events') = Len(events) - 1 /\ radio' = radio
  BY <1>0, <1>3 DEF Handles
<1>4. CASE Radio
  <2>1. handler' = handler /\ late' = late /\ HandlerSteps' = HandlerSteps
    BY <1>4 DEF Radio, snapshot, HandlerSteps
  <2>2. Len(events') = Len(events) + 1
    BY <1>2, <1>4 DEF Radio, RadioUp, RadioDown, RadioScanned, Disconnect
  <2>3. RadioSteps' \in Nat /\ RadioSteps' + 1 < RadioSteps
    <3>1. CASE RadioUp
      BY <1>0, <3>1 DEF RadioUp, Radios, RadioSteps
    <3>2. CASE RadioDown
      BY <1>0, <3>2 DEF RadioDown, Disconnect, Radios, RadioSteps
    <3>3. CASE RadioScanned
      BY <1>0, <3>3 DEF RadioScanned, Radios, RadioSteps
    <3> QED
      BY <1>4, <3>1, <3>2, <3>3 DEF Radio
  <2>4. WorkLeft = HandlerSteps + RadioSteps + Len(events)
    BY <1>0 DEF WorkLeft
  <2>5. WorkLeft' = HandlerSteps + RadioSteps' + (Len(events) + 1)
    BY <1>0, <2>1, <2>2 DEF WorkLeft
  <2>6. WorkLeft' < WorkLeft
    <3>1. \A h, r, n, q \in Nat : q + 1 < r => h + q + (n + 1) < h + r + n
      OBVIOUS
    <3> QED
      BY <1>1, <2>3, <2>4, <2>5, <3>1
  <2> QED
    BY <2>1, <2>6
<1>5. CASE ScanDone
  <2>1. Len(events') = Len(events) - 1 /\ radio' = radio /\ handler' = handler /\ late' = late
    BY <1>3, <1>5 DEF ScanDone
  <2>2. HandlerSteps' = HandlerSteps /\ RadioSteps' = RadioSteps
    BY <2>1 DEF HandlerSteps, RadioSteps
  <2> QED
    BY <1>0, <1>1, <2>1, <2>2 DEF WorkLeft
<1>6. ~Disconnected /\ ~GotIp
  BY <1>0 DEF Disconnected, GotIp, Retries, ConnectionEnded
<1>7. CASE Rejoin
  <2>1. events' = events /\ late' = late /\ handler'.at = "idle" /\ handler.at = "rejoin"
    BY <1>7 DEF Rejoin, snapshot, Idle
  <2>2. RadioSteps' \in Nat /\ RadioSteps' <= RadioSteps + 5
    BY <1>0, <1>7 DEF Rejoin, Join, Radios, RadioSteps
  <2>3. HandlerSteps' = 0 /\ HandlerSteps = 6
    BY <2>1 DEF HandlerSteps
  <2> QED
    BY <1>0, <1>1, <2>1, <2>2, <2>3 DEF WorkLeft
<1>8. CASE SaveKey \/ SaveEnds
  <2>1. events' = events /\ late' = late /\ radio' = radio
    BY <1>8 DEF SaveKey, SaveEnds, snapshot
  <2>2. HandlerSteps' \in Nat /\ HandlerSteps' < HandlerSteps
    <3>1. CASE SaveKey
      BY <1>0, <3>1 DEF SaveKey, HandlerSteps, Handlers
    <3>2. CASE SaveEnds
      BY <3>2 DEF SaveEnds, HandlerSteps, Idle
    <3> QED
      BY <1>8, <3>1, <3>2
  <2>3. RadioSteps' = RadioSteps
    BY <2>1 DEF RadioSteps
  <2> QED
    BY <1>0, <1>1, <2>1, <2>2, <2>3 DEF WorkLeft
<1> QED
  BY <1>4, <1>5, <1>6, <1>7, <1>8 DEF Handler

\* While the station tries, no step raises the rank; the time that passes sinks
\* it, and so does whatever the radio and the event task do after that.
LEMMA TryingSinks ==
  ASSUME TypeOK, NetRank' \in Nat \X Nat \X Nat, Trying, Trying', [Next]_vars
  PROVE  /\ NetSinks \/ UNCHANGED NetRank
         /\ Elapse => NetSinks
         /\ late /\ (Radio \/ Handler) => NetSinks
<1>0. NetRank \in Nat \X Nat \X Nat /\ late \in BOOLEAN
  BY NetRankIs DEF TypeOK
<1>1. CallsLeft' < CallsLeft => NetSinks
  BY <1>0 DEF NetSinks
<1>2. UNCHANGED <<call, asked>> \/ (call' = call /\ requests' = requests) => CallsLeft' = CallsLeft
  BY DEF CallsLeft, Steps, asked
<1>3. CASE Start \/ \E c \in Callers : CallStep(c) \/ Request(c)
  <2>1. NetSinks
    BY <1>1, <1>3, CallsSink
  <2> QED
    BY <2>1
<1>4. Elapse => NetSinks
  <2> SUFFICES ASSUME Elapse PROVE NetSinks
    OBVIOUS
  <2>1. CallsLeft' = CallsLeft /\ TimeLeft' < TimeLeft
    BY <1>2 DEF Elapse, TimeLeft
  <2> QED
    BY <1>0, <2>1 DEF NetSinks
<1>5. Radio \/ Handler => call' = call /\ requests' = requests
  BY DEF Radio, Handler, ScanDone, Disconnected, Rejoin, GotIp, SaveKey, SaveEnds, Handles, Fault, asked
<1>6. late /\ (Radio \/ Handler) => NetSinks
  <2> SUFFICES ASSUME late, Radio \/ Handler PROVE NetSinks
    OBVIOUS
  <2>1. CallsLeft' = CallsLeft
    BY <1>2, <1>5
  <2>2. WorkLeft' < WorkLeft /\ late' = late
    BY WorkSinks
  <2>3. TimeLeft' = TimeLeft
    BY <2>2 DEF TimeLeft
  <2> QED
    BY <1>0, <2>1, <2>2, <2>3 DEF NetSinks
<1>7. ~late /\ (Radio \/ Handler) => UNCHANGED NetRank
  <2> SUFFICES ASSUME ~late, Radio \/ Handler PROVE UNCHANGED NetRank
    OBVIOUS
  <2>1. CallsLeft' = CallsLeft
    BY <1>2, <1>5
  <2>2. late' = FALSE /\ late = FALSE
    BY <1>0 DEF Radio, Handler, ScanDone, Disconnected, Rejoin, GotIp, SaveKey, SaveEnds, snapshot
  <2> QED
    BY <2>1, <2>2 DEF NetRank, TimeLeft, WorkLeft
<1>8. ~Restart
  BY DEF Restart, Booted, Trying
<1>9. UNCHANGED vars => UNCHANGED NetRank
  BY DEF vars, snapshot, asked, NetRank, CallsLeft, Steps, TimeLeft, WorkLeft, HandlerSteps, RadioSteps
<1>10. NetSinks \/ UNCHANGED NetRank
  <2>1. Elapse \/ Radio \/ Handler \/ UNCHANGED vars => NetSinks \/ UNCHANGED NetRank
    BY <1>4, <1>6, <1>7, <1>9
  <2>2. (Start \/ \E c \in Callers : CallStep(c) \/ Request(c)) => NetSinks
    BY <1>1, CallsSink
  <2> QED
    BY <1>8, <2>1, <2>2 DEF Next
<1> QED
  BY <1>4, <1>6, <1>10

\* Only the event task takes its own work away.
LEMMA HandlingStays ==
  ASSUME TypeOK, Handling, Trying, Trying', [Next]_vars
  PROVE  Handling' \/ Handler
<1>0. events \in Seq(Events)
  BY Parts
<1>1. ASSUME NEW e, Post(e) PROVE events' # << >>
  BY <1>0, <1>1 DEF Post
<1>2. events' = events \/ events' # << >> => (handler' = handler => Handling')
  BY DEF Handling
<1>3. Disconnect => events' = events \/ events' # << >>
  BY <1>1 DEF Disconnect
<1>4. CASE Radio
  BY <1>1, <1>2, <1>3, <1>4 DEF Radio, RadioUp, RadioDown, RadioScanned
<1>5. CASE Elapse \/ Start \/ UNCHANGED vars
  BY <1>2, <1>5 DEF Elapse, Start, StartWifi, Open, Load, Loaded, Unreadable, vars
<1>6. ASSUME NEW c \in Callers, CallStep(c) \/ Request(c) PROVE Handling'
  BY <1>2, <1>3, <1>6 DEF CallStep, ConnectStep, Disconnects, Configure, Announce, JoinNetwork, ForgetStep, Clear, Drop,
     ScanStep, RequestScan, ScanStart, Unscan, Request, Connect, Forget
<1>7. ~Restart
  BY DEF Restart, Booted, Trying
<1> QED
  BY <1>4, <1>5, <1>6, <1>7 DEF Next

\* A rank that never rises settles: no tuple of naturals sinks for ever.  True of
\* every behaviour, by induction over the naturals.
NetRankSettles == <>[][NetSinks]_NetRank => <>[][FALSE]_NetRank

\* An attempt to connect ends, for any number of networks and of requests on the
\* way, and whatever the driver refuses.  NetReady and NetRankSettles are all
\* that is taken from ENABLED and from induction.
THEOREM ConnectingComesToAnEnd == FairSpec /\ []NetReady /\ NetRankSettles => ConnectingEnds
<1> DEFINE Typed == NetRank \in Nat \X Nat \X Nat
           Early == ~late
           Held == [FALSE]_NetRank
           Joins == radio.link = "joining"
<1>1. TypeOK /\ Typed' /\ Trying /\ [Next]_vars => ~Trying' \/ [NetSinks]_NetRank
  BY TryingSinks
<1>2. NetSinks => ~Held
  BY DEF NetSinks, NetRank
<1>3. TypeOK /\ Typed' /\ Trying /\ Trying' /\ Held /\ [Next]_vars =>
        /\ ~<<Elapse>>_vars /\ (~Early => ~<<Handler>>_vars /\ ~<<JoinEnds>>_vars)
  BY <1>2, TryingSinks DEF JoinEnds
<1>4. TypeOK /\ Held => (Early' <=> Early)
  BY DEF TypeOK, NetRank, TimeLeft
<1>5. TypeOK /\ Handling /\ Trying /\ [Next]_vars => Handling' \/ ~Trying' \/ <<Handler>>_vars
  BY HandlingStays DEF Handling, vars
<1>6. Trying /\ ~Handling => Joins
  BY DEF Trying, Attempting, Handling
<1>7. /\ NetReady /\ Early => ENABLED <<Elapse>>_vars
      /\ NetReady /\ Handling => ENABLED <<Handler>>_vars
      /\ NetReady /\ Joins => ENABLED <<JoinEnds>>_vars
  BY DEF NetReady
<1>8. TypeOK => Typed
  BY NetRankIs
<1>9. /\ Trying <=> (state = "connecting" /\ Attempting)
      /\ ~Trying <=> (state # "connecting" \/ ~Attempting)
  BY DEF Trying
<1> HIDE DEF Typed, Early, Joins
<1> QED
  BY <1>1, <1>3, <1>4, <1>5, <1>6, <1>7, <1>8, <1>9, NetworkTypeCorrect, PTL
     DEF FairSpec, Spec, Fairness, HandlerRuns, TimePasses, JoinsEnd, NetRankSettles, ConnectingEnds

=============================================================================
