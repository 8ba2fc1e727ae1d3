------------------------------ MODULE Network ------------------------------
(***************************************************************************)
(* The station of the Recovery (firmware/recovery/main/factory_network.c): *)
(* main starts it, the Wi-Fi pages and the control RPC ask for a network,  *)
(* the screen forgets it or asks for a scan, and the event task follows    *)
(* what the radio reports.  Calls and handlers share a snapshot under a    *)
(* mutex they give back before every call of the Wi-Fi driver or of NVS.   *)
(* A network is an SSID and its password, named by one tag: only a pair of *)
(* keys half written mixes two.                                            *)
(***************************************************************************)
EXTENDS Naturals, Sequences

CONSTANTS
  Main, Screen, Rpc,  \* app_main, the display task, the RPC task
  Known, Offered,     \* tags of the networks NVS may hold at first, and of those
                      \* that calls name
  MaxRequests,        \* bound: calls of connect, forget and request_scan
  MaxFaults           \* bound: driver and NVS calls that fail

ASSUME NetworkAssumption ==
  /\ Main # Screen /\ Main # Rpc /\ Screen # Rpc
  /\ "none" \notin Known \cup Offered /\ MaxRequests \in Nat /\ MaxFaults \in Nat

VARIABLES
  state,      \* snapshot.state
  saved,      \* snapshot.credentials_saved
  scanning,   \* snapshot.scanning
  pending,    \* pending_ssid, pending_password; None: pending_credentials is off
  late,       \* the connection timeout passed since connect_started_us
  stored,     \* the keys of the wifi namespace
  radio,      \* the driver: link, station configuration, scan
  events,     \* posted to the event loop and not handled
  handler,    \* network_event, between two of its lock regions
  call,       \* where each caller stands, and the network it asks for
  requests, faults,
  awaited,    \* history: the network of a connect that met nothing else, until
              \* it gives an address
  forgotten   \* history: a forget removed everything, nothing asked for since

asked == <<requests, faults>>
history == <<awaited, forgotten>>
snapshot == <<state, saved, scanning, pending, late>>
vars == <<snapshot, stored, radio, events, handler, call, asked, history>>

Callers == {Main, Screen, Rpc}
None == [ssid |-> "none", password |-> "none"]
Tags == Known \cup Offered
Network(t) == [ssid |-> t, password |-> t]
Networks == {Network(t) : t \in Offered}
Pairs == [ssid : Tags, password : Tags]
Keys == [ssid : Tags \cup {"none"}, password : Tags \cup {"none"}]

Linked == {"off", "idle", "joining", "up"}
States == {"stopped", "no_credentials", "connecting", "connected", "failed"}
Stages == {"idle", "start", "open", "load", "loaded", "unreadable", "disconnect", "configure",
           "announce", "join", "clear", "drop", "rescan", "scan", "unscan"}
Saving == {"ssid", "password", "result"}

Idle == [at |-> "idle", net |-> None]

\* After power-on, with the mutex created.
Booted ==
  /\ state' = "stopped" /\ saved' = FALSE /\ scanning' = FALSE /\ pending' = None
  /\ late' = FALSE /\ radio' = [link |-> "off", config |-> None, scan |-> FALSE]
  /\ events' = << >> /\ handler' = Idle
  /\ call' = [c \in Callers |-> IF c = Main THEN [Idle EXCEPT !.at = "start"] ELSE Idle]

Init ==
  /\ state = "stopped" /\ saved = FALSE /\ scanning = FALSE /\ pending = None
  /\ late = FALSE /\ radio = [link |-> "off", config |-> None, scan |-> FALSE]
  /\ events = << >> /\ handler = Idle
  /\ call = [c \in Callers |-> IF c = Main THEN [Idle EXCEPT !.at = "start"] ELSE Idle]
  /\ stored \in {None} \cup {Network(t) : t \in Known}
  /\ requests = 0 /\ faults = 0
  /\ awaited = None /\ forgotten = FALSE

At(c, stage) == call[c].at = stage
Goes(c, stage) == call' = [call EXCEPT ![c].at = stage]
Leaves(c, stage) == call' = [call EXCEPT ![c] = [at |-> stage, net |-> None]]
Returns(c) == Leaves(c, "idle")
Fault == faults < MaxFaults /\ faults' = faults + 1 /\ UNCHANGED requests
Asks == requests < MaxRequests /\ requests' = requests + 1 /\ UNCHANGED faults

----------------------------------------------------------------------------
(* The driver.                                                             *)

Post(event) == events' = Append(events, event)

\* esp_wifi_disconnect: the link goes, and the event says so later.
Disconnect ==
  IF radio.link \in {"joining", "up"}
    THEN radio' = [radio EXCEPT !.link = "idle"] /\ Post("disconnected")
    ELSE UNCHANGED <<radio, events>>

\* esp_wifi_connect joins from an idle link alone.
Join == radio.link = "idle" /\ radio' = [radio EXCEPT !.link = "joining"]

RadioUp ==
  /\ radio.link = "joining" /\ radio' = [radio EXCEPT !.link = "up"] /\ Post("got_ip")
  /\ awaited' = IF radio.config = awaited THEN None ELSE awaited
  /\ UNCHANGED forgotten

RadioDown ==
  /\ radio.link \in {"joining", "up"} /\ Disconnect
  /\ UNCHANGED history

RadioScanned ==
  /\ radio.scan /\ radio' = [radio EXCEPT !.scan = FALSE] /\ Post("scan_done")
  /\ UNCHANGED history

Radio ==
  /\ RadioUp \/ RadioDown \/ RadioScanned
  /\ UNCHANGED <<snapshot, stored, handler, call, asked>>

Elapse ==
  /\ ~late /\ late' = TRUE
  /\ UNCHANGED <<state, saved, scanning, pending, stored, radio, events, handler, call, asked,
                 history>>

----------------------------------------------------------------------------
(* network_event, on the event task.                                       *)

Handles(event) ==
  /\ handler.at = "idle" /\ events # << >> /\ Head(events) = event /\ events' = Tail(events)
  /\ UNCHANGED <<stored, radio, call, asked, history>>

\* scan_results_update, with the results or with an error.
ScanDone ==
  /\ Handles("scan_done") /\ scanning' = FALSE
  /\ UNCHANGED <<state, saved, pending, late, handler>>

\* What restarts the time to connect: the end of a connection.  And a version
\* that starts it again with every attempt.
EveryAttempt == TRUE
ConnectionEnded == state = "connected"

\* What a lost link shows while it is tried again, and a version that leaves
\* the address shown.
ShownUntouched == state
ShownRetrying == "connecting"

Retries == (saved \/ pending # None) /\ (ConnectionEnded \/ ~late)

Disconnected ==
  /\ Handles("disconnected")
  /\ late' = (late /\ ~ConnectionEnded)
  /\ state' = IF Retries THEN ShownRetrying ELSE "failed"
  /\ handler' = [handler EXCEPT !.at = IF Retries THEN "rejoin" ELSE "idle"]
  /\ UNCHANGED <<saved, scanning, pending>>

Rejoin ==
  /\ handler.at = "rejoin" /\ handler' = Idle
  /\ \/ Join /\ UNCHANGED faults
     \/ radio.link # "idle" /\ UNCHANGED <<radio, faults>>
     \/ Fault /\ UNCHANGED radio
  /\ UNCHANGED <<snapshot, stored, events, call, requests, history>>

\* When an address saves credentials: when a request waits for it.  And a
\* version that saves every time.
SavesEver == TRUE
SavesPending == pending # None

GotIp ==
  /\ Handles("got_ip") /\ state' = "connected" /\ pending' = None
  /\ handler' = IF SavesPending THEN [at |-> "ssid", net |-> pending] ELSE Idle
  /\ UNCHANGED <<saved, scanning, late>>

\* credentials_save: the keys one by one.  What was set stays when a later
\* step fails.
SaveKey ==
  \E key \in {"ssid", "password"} :
    /\ handler.at = key
    /\ \/ /\ stored' = [stored EXCEPT ![key] = handler.net[key]] /\ UNCHANGED faults
          /\ handler' = [handler EXCEPT !.at = IF key = "ssid" THEN "password" ELSE "result"]
       \/ /\ Fault /\ handler' = [handler EXCEPT !.at = "failed"]
          /\ stored' \in {stored, [stored EXCEPT ![key] = handler.net[key]]}
    /\ UNCHANGED <<snapshot, radio, events, call, requests, history>>

SaveEnds ==
  /\ handler.at \in {"result", "failed"} /\ handler' = Idle
  /\ saved' = (handler.at = "result")
  /\ UNCHANGED <<state, scanning, pending, late, stored, radio, events, call, asked, history>>

Handler == ScanDone \/ Disconnected \/ Rejoin \/ GotIp \/ SaveKey \/ SaveEnds

----------------------------------------------------------------------------
(* factory_network_start, after the mutex.                                 *)

StartWifi ==
  /\ At(Main, "start")
  /\ \/ radio' = [radio EXCEPT !.link = "idle"] /\ Goes(Main, "open") /\ UNCHANGED asked
     \/ Fault /\ Returns(Main) /\ UNCHANGED radio
  /\ UNCHANGED <<snapshot, stored, events, handler, history>>

Open ==
  /\ At(Main, "open") /\ state' = "no_credentials" /\ Goes(Main, "load")
  /\ UNCHANGED <<saved, scanning, pending, late, stored, radio, events, handler, asked, history>>

\* credentials_load: both keys, or nothing is known.
Load ==
  /\ At(Main, "load")
  /\ \/ /\ stored \in Pairs /\ UNCHANGED asked
        /\ call' = [call EXCEPT ![Main] = [at |-> "loaded", net |-> stored]]
     \/ stored \notin Pairs /\ Goes(Main, "rescan") /\ UNCHANGED asked
     \/ Fault /\ Goes(Main, "unreadable")
  /\ UNCHANGED <<snapshot, stored, radio, events, handler, history>>

Loaded ==
  /\ At(Main, "loaded") /\ saved' = TRUE /\ Goes(Main, "configure")
  /\ UNCHANGED <<state, scanning, pending, late, stored, radio, events, handler, asked, history>>

Unreadable ==
  /\ At(Main, "unreadable") /\ state' = "failed" /\ Goes(Main, "rescan")
  /\ UNCHANGED <<saved, scanning, pending, late, stored, radio, events, handler, asked, history>>

Start == StartWifi \/ Open \/ Load \/ Loaded \/ Unreadable

----------------------------------------------------------------------------
(* factory_network_connect                                                 *)

\* Nothing else is going on.
Quiet ==
  /\ radio.link \in {"off", "idle"} /\ events = << >> /\ handler.at = "idle"
  /\ \A c \in Callers : At(c, "idle")

\* A network the screen or an RPC names, once its sizes were found legal.
Connect(c, net) ==
  /\ c # Main /\ At(c, "idle") /\ Asks
  /\ pending' = net /\ call' = [call EXCEPT ![c] = [at |-> "disconnect", net |-> net]]
  /\ awaited' = (IF Quiet THEN net ELSE None) /\ forgotten' = FALSE
  /\ UNCHANGED <<state, saved, scanning, late, stored, radio, events, handler>>

Disconnects(c) ==
  /\ At(c, "disconnect") /\ Disconnect /\ Goes(c, "configure")
  /\ UNCHANGED <<snapshot, stored, handler, asked, history>>

\* What follows a refused configuration: the call returns.  And a version that
\* does not look.
RefusedGoesOn(c) == Goes(c, "announce")
Refused(c) == Leaves(c, "idle")

\* apply_station_config.  The driver takes no configuration while it joins.
Configure(c) ==
  /\ At(c, "configure")
  /\ \/ /\ radio.link # "joining" /\ radio' = [radio EXCEPT !.config = call[c].net]
        /\ Goes(c, "announce") /\ UNCHANGED asked
     \/ radio.link \in {"joining", "off"} /\ Refused(c) /\ UNCHANGED <<radio, asked>>
     \/ Fault /\ Refused(c) /\ UNCHANGED radio
  /\ UNCHANGED <<snapshot, stored, events, handler, history>>

Announce(c) ==
  /\ At(c, "announce") /\ state' = "connecting" /\ late' = FALSE /\ Goes(c, "join")
  /\ UNCHANGED <<saved, scanning, pending, stored, radio, events, handler, asked, history>>

\* Main looks for networks once it has begun to join.
JoinNetwork(c) ==
  /\ At(c, "join")
  /\ \/ Join /\ Leaves(c, IF c = Main THEN "rescan" ELSE "idle") /\ UNCHANGED asked
     \/ radio.link # "idle" /\ Returns(c) /\ UNCHANGED <<radio, asked>>
     \/ Fault /\ Returns(c) /\ UNCHANGED radio
  /\ UNCHANGED <<snapshot, stored, events, handler, history>>

ConnectStep(c) == Disconnects(c) \/ Configure(c) \/ Announce(c) \/ JoinNetwork(c)

----------------------------------------------------------------------------
(* factory_network_forget                                                  *)

\* credentials_erase, whole or up to an error.
Forget(c) ==
  /\ c = Screen /\ At(c, "idle") /\ Asks
  /\ \/ stored' = None /\ Goes(c, "clear")
     \/ /\ stored' \in {stored} \cup {[stored EXCEPT ![key] = "none"] : key \in {"ssid", "password"}}
        /\ UNCHANGED call
  /\ UNCHANGED <<snapshot, radio, events, handler, history>>

\* What a forget leaves of a request, and a version that leaves it alone.
PendingKept == pending
PendingCleared == None

\* Nothing brings the credentials back: no save, no start, is under way.
Removed == stored = None /\ handler.at \notin Saving /\ ~At(Main, "loaded")

Clear(c) ==
  /\ At(c, "clear") /\ Goes(c, "drop")
  /\ pending' = PendingCleared /\ saved' = FALSE /\ state' = "no_credentials"
  /\ forgotten' = Removed
  /\ UNCHANGED <<scanning, late, stored, radio, events, handler, asked, awaited>>

Drop(c) ==
  /\ At(c, "drop") /\ Disconnect /\ Goes(c, "rescan")
  /\ UNCHANGED <<snapshot, stored, handler, asked, history>>

ForgetStep(c) == Clear(c) \/ Drop(c)

----------------------------------------------------------------------------
(* factory_network_request_scan                                            *)

\* When a scan begins: when none is shown.  And a version without the flag.
ScanEver == TRUE
ScanFree == ~scanning

RequestScan(c) ==
  /\ \/ c = Screen /\ At(c, "idle") /\ Asks
     \/ At(c, "rescan") /\ UNCHANGED asked
  /\ \/ ScanFree /\ scanning' = TRUE /\ Goes(c, "scan")
     \/ ~ScanFree /\ Returns(c) /\ UNCHANGED scanning
  /\ UNCHANGED <<state, saved, pending, late, stored, radio, events, handler, history>>

\* esp_wifi_scan_start, refused while the station joins.
ScanStart(c) ==
  /\ At(c, "scan")
  /\ \/ /\ radio.link \in {"idle", "up"} /\ radio' = [radio EXCEPT !.scan = TRUE]
        /\ Returns(c) /\ UNCHANGED asked
     \/ radio.link \in {"off", "joining"} /\ Goes(c, "unscan") /\ UNCHANGED <<radio, asked>>
     \/ Fault /\ Goes(c, "unscan") /\ UNCHANGED radio
  /\ UNCHANGED <<snapshot, stored, events, handler, history>>

Unscan(c) ==
  /\ At(c, "unscan") /\ scanning' = FALSE /\ Returns(c)
  /\ UNCHANGED <<state, saved, pending, late, stored, radio, events, handler, asked, history>>

ScanStep(c) == (At(c, "rescan") /\ RequestScan(c)) \/ ScanStart(c) \/ Unscan(c)

----------------------------------------------------------------------------
\* Power loss, or the restart after an update: what NVS holds stays.
Restart == Booted /\ awaited' = None /\ UNCHANGED <<stored, asked, forgotten>>

CallStep(c) == ConnectStep(c) \/ ForgetStep(c) \/ ScanStep(c)

Request(c) ==
  \/ \E net \in Networks : Connect(c, net)
  \/ Forget(c)
  \/ At(c, "idle") /\ RequestScan(c)

Next ==
  \/ Radio \/ Elapse \/ Handler \/ Start \/ Restart
  \/ \E c \in Callers : CallStep(c) \/ Request(c)

\* The event task goes on, the time to connect passes, and an attempt to join
\* comes to an end.  Nothing is asked of the callers.
JoinEnds == Radio /\ radio.link = "joining" /\ radio'.link # "joining"
HandlerRuns == WF_vars(Handler)
TimePasses == WF_vars(Elapse)
JoinsEnd == WF_vars(JoinEnds)
Fairness == HandlerRuns /\ TimePasses /\ JoinsEnd

Spec == Init /\ [][Next]_vars
FairSpec == Spec /\ Fairness

----------------------------------------------------------------------------
\* Types; only the credentials of a request are handled.
TypeOK ==
  /\ state \in States /\ saved \in BOOLEAN /\ scanning \in BOOLEAN /\ late \in BOOLEAN
  /\ pending \in Networks \cup {None} /\ stored \in Keys
  /\ radio \in [link : Linked, config : Keys, scan : BOOLEAN]
  /\ events \in Seq({"scan_done", "disconnected", "got_ip"})
  /\ handler \in [at : Saving \cup {"idle", "rejoin", "failed"}, net : Networks \cup {None}]
  /\ call \in [Callers -> [at : Stages, net : Pairs \cup {None}]]
  /\ handler.at \in Saving => handler.net \in Networks
  /\ requests \in 0..MaxRequests /\ faults \in 0..MaxFaults
  /\ awaited \in Networks \cup {None} /\ forgotten \in BOOLEAN

\* The snapshot never shows a connection that is gone for good: the link is
\* up, or the event that says it is down has not been handled yet.
LinkShown ==
  state = "connected" => radio.link = "up" \/ \E i \in DOMAIN events : events[i] = "disconnected"

\* snapshot.scanning is set exactly while one scan is asked for, runs or waits
\* for its results, so that the page neither waits for ever nor scans twice.
ScanQueued(i) == i \in DOMAIN events /\ events[i] = "scan_done"
ScanCalled(c) == c \in Callers /\ call[c].at \in {"scan", "unscan"}
ScanAccounted ==
  /\ scanning <=> radio.scan \/ (\E i \in DOMAIN events : ScanQueued(i))
                    \/ (\E c \in Callers : ScanCalled(c))
  /\ radio.scan => ~ \E i \in DOMAIN events : ScanQueued(i)
  /\ \A c \in Callers : ScanCalled(c) => ~radio.scan /\ ~ \E i \in DOMAIN events : ScanQueued(i)
  /\ \A i, j \in DOMAIN events : ScanQueued(i) /\ ScanQueued(j) => i = j
  /\ \A c, d \in Callers : ScanCalled(c) /\ ScanCalled(d) => c = d

\* A forget that met no save and no start keeps its word: whatever events were
\* still under way, the credentials stay away until somebody asks for a network.
StaysForgotten == forgotten => stored = None /\ ~saved /\ pending = None

\* What is written to NVS was seen to work, when the request for it met nothing
\* else: the last connect found no link, no event and no other call.
SavedAnswered == handler.at \in Saving => handler.net # awaited

\* An attempt to connect ends, with an address or with a failure, whenever
\* the driver follows the requests: an attempt that it refuses ends nowhere.
Attempting == radio.link = "joining" \/ events # << >> \/ handler.at = "rejoin"
ConnectingEnds == (state = "connecting" /\ Attempting) ~> state # "connecting" \/ ~Attempting

\* The event task, the clock and the radio can go on whenever they have
\* something to do: none of them waits for a caller.
Handling == handler.at # "idle" \/ events # << >>
NetReady ==
  /\ Handling => ENABLED <<Handler>>_vars
  /\ ~late => ENABLED <<Elapse>>_vars
  /\ radio.link = "joining" => ENABLED <<JoinEnds>>_vars
=============================================================================
