------------------------------ MODULE WifiSta ------------------------------
(***************************************************************************)
(* The Wi-Fi station, src/app/demo/iot_demo/iot_sta.c.  The task DemoEntry *)
(* brings the station up (WifiStaReadyWait); after that every event of the *)
(* driver runs WpaEventCB in a task of its own, and DISCONNECTED rebuilds  *)
(* the station inside that callback (wifi_reconnected).                    *)
(*                                                                         *)
(* The driver and lwIP are external and modelled as the code uses them.    *)
(* The driver runs one callback at a time: while one is running, the next  *)
(* event waits about a second and is then dropped.  Nothing asks it to     *)
(* reconnect by itself.  wifi_status is written and never read: left out.  *)
(***************************************************************************)
EXTENDS Naturals

CONSTANTS Demo,      \* the task DemoEntry
          Handler,   \* the task that runs WpaEventCB for the current event
          None,      \* no event
          Faults     \* what may go wrong besides the loss of a working link

Task == {Demo, Handler}

(* "call": a call into the driver fails; "join": the access point refuses  *)
(* or is not found; "link": the link breaks while it is being set up;      *)
(* "event": no memory for the task that would run the callback.            *)
Fault == {"call", "join", "link", "event"}

ASSUME StaTaskAssumption == Demo # Handler
ASSUME FaultsAssumption == Faults \subseteq Fault

VARIABLES
  pc,          \* pc[t]: where the task t is
  event,       \* the event WpaEventCB is running for, or None
  registered,  \* hi_wifi_register_event_callback succeeded once
  gLwipNetif,  \* gLwipNetif # NULL
  gScanDone,
  wifi_first_connecting,
  wifi_second_connecting,
  wifi_second_connected,
  station,     \* driver: the station interface exists
  scanning,    \* driver: a scan is under way
  link,        \* driver: association with the access point
  posting,     \* driver: the event it is waiting to deliver, or None
  dhcp,        \* lwIP: the DHCP client of the interface runs
  addr         \* lwIP: the interface has an address

flags == <<wifi_first_connecting, wifi_second_connecting, wifi_second_connected>>
driver == <<station, scanning, link>>
ip == <<dhcp, addr>>
sta == <<registered, gLwipNetif>>
world == <<driver, posting, ip>>
vars == <<pc, event, sta, gScanDone, flags, world>>

WIFI_CONNECT_STATUS == 2

Event == {"SCAN_DONE", "CONNECTED", "DISCONNECTED"}

ASSUME NoneAssumption == None \notin Event

Init ==
  /\ pc = [t \in Task |-> IF t = Demo THEN "start" ELSE "idle"]
  /\ event = None
  /\ registered = FALSE
  /\ gLwipNetif = FALSE
  /\ gScanDone = FALSE
  /\ wifi_first_connecting = 0
  /\ wifi_second_connecting = FALSE
  /\ wifi_second_connected = FALSE
  /\ station = FALSE
  /\ scanning = FALSE
  /\ link = "down"
  /\ posting = None
  /\ dhcp = FALSE
  /\ addr = FALSE

Goto(t, l) == pc' = [pc EXCEPT ![t] = l]

(* Where hi_wifi_start_sta returns to; neither caller looks at the result. *)
AfterStart(t) == IF t = Demo THEN "dhcpwait" ELSE "dhcpstart"

(* The handler is rebuilding the station.                                  *)
Rebuilding == pc[Handler] \notin {"idle", "event", "reconnect"}

-----------------------------------------------------------------------------
(* hi_wifi_start_sta, called by both tasks.                                *)

(* hi_wifi_register_event_callback; a failure is only logged.              *)
Register ==
  \/ registered' = TRUE
  \/ "call" \in Faults /\ UNCHANGED registered

(* hi_wifi_init, hi_wifi_sta_start, the callback and the interface.        *)
StartSta(t) ==
  /\ pc[t] = "start"
  /\ \/ /\ ~station /\ station' = TRUE
        /\ Register
        /\ gLwipNetif' = TRUE
        /\ Goto(t, "scan")
     \/ /\ station \/ "call" \in Faults                \* no station
        /\ UNCHANGED <<station, sta>>
        /\ Goto(t, AfterStart(t))
     \/ /\ "call" \in Faults                            \* no interface
        /\ ~station /\ station' = TRUE
        /\ Register
        /\ gLwipNetif' = FALSE
        /\ Goto(t, AfterStart(t))
  /\ UNCHANGED <<event, gScanDone, flags, scanning, link, posting, ip>>

(* gScanDone is cleared before the scan is asked for.                      *)
Scan(t) ==
  /\ pc[t] = "scan"
  /\ gScanDone' = FALSE
  /\ \/ scanning' = TRUE /\ Goto(t, "second")
     \/ "call" \in Faults /\ UNCHANGED scanning /\ Goto(t, AfterStart(t))
  /\ UNCHANGED <<event, sta, flags, station, link, posting, ip>>

SecondWith(t, done) ==
  /\ pc[t] = "second"
  /\ gScanDone' = done
  /\ wifi_second_connected' = (wifi_second_connected \/ wifi_second_connecting)
  /\ wifi_second_connecting' = FALSE
  /\ Goto(t, "scanwait")
  /\ UNCHANGED <<event, sta, wifi_first_connecting, world>>

(* Mutant: gScanDone is cleared after the scan was asked for.              *)
ClearAfterScan(t) == SecondWith(t, wifi_second_connecting)

(* A reconnect closes the gate of iot_main.c and does not wait for the     *)
(* scan: its SCAN_DONE cannot arrive while the callback that waits runs.   *)
SecondConnecting(t) == SecondWith(t, gScanDone \/ wifi_second_connecting)

StaStartConnect ==
  \/ link' = "joining"
  \/ "call" \in Faults /\ UNCHANGED link

(* The wait for gScanDone, without timeout, then the association.  The     *)
(* scan results are only logged, but without them there is none.           *)
ListAndConnect(t) ==
  /\ pc[t] = "scanwait" /\ gScanDone
  /\ StaStartConnect
  /\ Goto(t, AfterStart(t))
  /\ UNCHANGED <<event, sta, gScanDone, flags, station, scanning, posting, ip>>

(* netifapi_netif_get_addr once a second until it is not 0.0.0.0; without  *)
(* an interface it changes nothing.                                        *)
PollAddr(t) ==
  /\ pc[t] = "dhcpwait"
  /\ Goto(t, IF gLwipNetif /\ addr THEN "gotaddr" ELSE "dhcpwait")
  /\ UNCHANGED <<event, sta, gScanDone, flags, world>>

-----------------------------------------------------------------------------
StaReadyAt(labels) ==
  /\ pc[Demo] \in labels
  /\ wifi_first_connecting' = WIFI_CONNECT_STATUS
  /\ Goto(Demo, "done")
  /\ UNCHANGED <<event, sta, gScanDone, wifi_second_connecting,
                 wifi_second_connected, world>>

(* Mutant: the address is not waited for.                                  *)
StaReadyEarly == StaReadyAt({"dhcpwait", "gotaddr"})

(* The end of WifiStaReadyWait.                                            *)
StaReady == StaReadyAt({"gotaddr"})

-----------------------------------------------------------------------------
(* WpaEventCB and wifi_reconnected.                                        *)

HandlerReturns == event' = None /\ Goto(Handler, "idle")

OnScanDone ==
  /\ pc[Handler] = "event" /\ event = "SCAN_DONE"
  /\ gScanDone' = TRUE
  /\ HandlerReturns
  /\ UNCHANGED <<sta, flags, world>>

(* netifapi_dhcp_start forgets the address the interface had.              *)
OnConnected ==
  /\ pc[Handler] = "event" /\ event = "CONNECTED"
  /\ dhcp' = (gLwipNetif \/ dhcp) /\ addr' = (addr /\ ~gLwipNetif)
  /\ wifi_second_connected' = FALSE
  /\ wifi_first_connecting' =
       IF wifi_second_connected THEN WIFI_CONNECT_STATUS ELSE wifi_first_connecting
  /\ HandlerReturns
  /\ UNCHANGED <<sta, gScanDone, wifi_second_connecting, driver, posting>>

(* netifapi_dhcp_stop and StaResetAddr.                                    *)
OnDisconnected ==
  /\ pc[Handler] = "event" /\ event = "DISCONNECTED"
  /\ dhcp' = (dhcp /\ ~gLwipNetif)
  /\ addr' = (addr /\ ~gLwipNetif)
  /\ Goto(Handler, "reconnect")
  /\ UNCHANGED <<event, sta, gScanDone, flags, driver, posting>>

ReconnectWith(guard, status) ==
  /\ pc[Handler] = "reconnect" /\ guard
  /\ wifi_second_connecting' = TRUE
  /\ wifi_first_connecting' = status
  /\ Goto(Handler, "stop")
  /\ UNCHANGED <<event, sta, gScanDone, wifi_second_connected, world>>

(* Mutants: the old connection still counts as complete, and a reconnect   *)
(* whatever the state of the first connection.                             *)
ReconnectKeepsStatus ==
  ReconnectWith(wifi_first_connecting = WIFI_CONNECT_STATUS, WIFI_CONNECT_STATUS)
ReconnectAnyway == ReconnectWith(TRUE, 0)

(* wifi_reconnected, entered only when the first connection is complete.   *)
Reconnect == ReconnectWith(wifi_first_connecting = WIFI_CONNECT_STATUS, 0)

NoReconnect ==
  /\ pc[Handler] = "reconnect"
  /\ wifi_first_connecting # WIFI_CONNECT_STATUS
  /\ HandlerReturns
  /\ UNCHANGED <<sta, gScanDone, flags, world>>

(* hi_wifi_stop_sta; failures of the driver are only logged.               *)
StopSta ==
  /\ pc[Handler] = "stop"
  /\ \/ station' = FALSE
     \/ "call" \in Faults /\ UNCHANGED station
  /\ scanning' = FALSE /\ link' = "down"
  /\ dhcp' = FALSE /\ addr' = FALSE
  /\ gLwipNetif' = FALSE
  /\ Goto(Handler, "start")
  /\ UNCHANGED <<event, registered, gScanDone, flags, posting>>

ReconnectDhcpWith(running, address) ==
  /\ pc[Handler] = "dhcpstart"
  /\ dhcp' = running /\ addr' = address
  /\ Goto(Handler, "dhcpwait")
  /\ UNCHANGED <<event, sta, gScanDone, flags, driver, posting>>

(* Mutant: the DHCP client is left to CONNECTED.                           *)
ReconnectNoDhcp == ReconnectDhcpWith(dhcp, addr)

(* The DHCP client is started at once, not when CONNECTED arrives.         *)
ReconnectDhcp == ReconnectDhcpWith(gLwipNetif \/ dhcp, addr /\ ~gLwipNetif)

ReconnectedWith(status, gate) ==
  /\ pc[Handler] = "gotaddr"
  /\ wifi_first_connecting' = status
  /\ wifi_second_connected' = gate
  /\ HandlerReturns
  /\ UNCHANGED <<sta, gScanDone, wifi_second_connecting, world>>

(* Mutants: the gate stays closed, and wifi_status's event number in the   *)
(* wrong flag.                                                             *)
ReconnectedGateClosed == ReconnectedWith(WIFI_CONNECT_STATUS, wifi_second_connected)
ReconnectedForgetsFlag == ReconnectedWith(1, FALSE)

(* The end of wifi_reconnected, and of WpaEventCB.                         *)
Reconnected == ReconnectedWith(WIFI_CONNECT_STATUS, FALSE)

-----------------------------------------------------------------------------
(* The driver and lwIP.  The driver does nothing else while it waits to    *)
(* deliver an event.                                                       *)

Deliver ==
  /\ posting # None /\ pc[Handler] = "idle" /\ registered
  /\ event' = posting /\ posting' = None
  /\ Goto(Handler, "event")
  /\ UNCHANGED <<sta, gScanDone, flags, driver, ip>>

(* The callback before it did not end in time, its task cannot be created, *)
(* or nobody registered.                                                   *)
Drop ==
  /\ posting # None
  /\ Rebuilding \/ "event" \in Faults \/ ~registered
  /\ posting' = None
  /\ UNCHANGED <<pc, event, sta, gScanDone, flags, driver, ip>>

ScanFinishes ==
  /\ posting = None /\ scanning
  /\ scanning' = FALSE
  /\ posting' = "SCAN_DONE"
  /\ UNCHANGED <<pc, event, sta, gScanDone, flags, station, link, ip>>

Joined ==
  /\ posting = None /\ link = "joining"
  /\ link' = "up"
  /\ posting' = "CONNECTED"
  /\ UNCHANGED <<pc, event, sta, gScanDone, flags, station, scanning, ip>>

(* Reported as DISCONNECTED, or by an event that WpaEventCB ignores.       *)
JoinFails ==
  /\ "join" \in Faults
  /\ posting = None /\ link = "joining"
  /\ link' = "down"
  /\ posting' \in {"DISCONNECTED", None}
  /\ UNCHANGED <<pc, event, sta, gScanDone, flags, station, scanning, ip>>

LinkLost ==
  /\ "link" \in Faults \/ wifi_first_connecting = WIFI_CONNECT_STATUS
  /\ posting = None /\ link = "up"
  /\ link' = "down"
  /\ posting' = "DISCONNECTED"
  /\ UNCHANGED <<pc, event, sta, gScanDone, flags, station, scanning, ip>>

AddressAssigned ==
  /\ dhcp /\ link = "up" /\ ~addr
  /\ addr' = TRUE
  /\ UNCHANGED <<pc, event, sta, gScanDone, flags, driver, posting, dhcp>>

-----------------------------------------------------------------------------
hi_wifi_start_sta(t) ==
  StartSta(t) \/ Scan(t) \/ SecondConnecting(t) \/ ListAndConnect(t)

DemoStep == hi_wifi_start_sta(Demo) \/ PollAddr(Demo) \/ StaReady

HandlerStep ==
  \/ OnScanDone \/ OnConnected \/ OnDisconnected
  \/ Reconnect \/ NoReconnect \/ StopSta \/ hi_wifi_start_sta(Handler)
  \/ ReconnectDhcp \/ PollAddr(Handler) \/ Reconnected

Next ==
  \/ DemoStep \/ HandlerStep
  \/ Deliver \/ Drop
  \/ ScanFinishes \/ Joined \/ JoinFails \/ LinkLost \/ AddressAssigned

Spec == Init /\ [][Next]_vars

(* The scheduler runs every ready task and the driver delivers or drops    *)
(* an event.  Of the world: a scan ends, an association that does not fail *)
(* succeeds, and the DHCP server answers.                                  *)
Fairness ==
  /\ WF_vars(DemoStep) /\ WF_vars(HandlerStep) /\ WF_vars(Deliver \/ Drop)
  /\ WF_vars(ScanFinishes) /\ WF_vars(Joined) /\ WF_vars(AddressAssigned)

FairSpec == Spec /\ Fairness

-----------------------------------------------------------------------------
StartPC == {"start", "scan", "second", "scanwait", "dhcpwait", "gotaddr"}
DemoPC == StartPC \cup {"done"}
HandlerPC == StartPC \cup {"idle", "event", "reconnect", "stop", "dhcpstart"}

TypeOK ==
  /\ pc \in [Task -> DemoPC \cup HandlerPC]
  /\ pc[Demo] \in DemoPC /\ pc[Handler] \in HandlerPC
  /\ event \in Event \cup {None} /\ posting \in Event \cup {None}
  /\ registered \in BOOLEAN /\ gLwipNetif \in BOOLEAN /\ gScanDone \in BOOLEAN
  /\ wifi_first_connecting \in {0, WIFI_CONNECT_STATUS}
  /\ wifi_second_connecting \in BOOLEAN /\ wifi_second_connected \in BOOLEAN
  /\ station \in BOOLEAN /\ scanning \in BOOLEAN
  /\ link \in {"down", "joining", "up"}
  /\ dhcp \in BOOLEAN /\ addr \in BOOLEAN

(* One task at a time rebuilds the station, although both run              *)
(* hi_wifi_start_sta on the same globals and nothing but the flags keeps   *)
(* the callback out while WifiStaReadyWait runs.                           *)
OneBuilder == Rebuilding => pc[Demo] = "done"

(* The gate of iot_main.c is closed only while the callback is rebuilding  *)
(* the station: whoever closed it is still there to open it again.         *)
GateHeld == wifi_second_connected => Rebuilding

(* A connection counted as complete has an interface and an open gate, and *)
(* nobody is taking it apart.                                              *)
CompleteIsUsable ==
  wifi_first_connecting = WIFI_CONNECT_STATUS =>
    gLwipNetif /\ ~wifi_second_connecting /\ ~wifi_second_connected /\ ~Rebuilding

(* No lost wakeup: a task waits for gScanDone only while the scan, its     *)
(* event or the flag is still to be seen, unless no callback can run.      *)
ScanIsAwaited ==
  \A t \in Task :
    pc[t] = "scanwait" /\ registered /\ "event" \notin Faults =>
      gScanDone \/ scanning \/ "SCAN_DONE" \in {posting, event}

(* A loss is never overlooked: as long as a link breaks only once it is    *)
(* complete and its event gets a task to run in, a complete connection     *)
(* that is no longer associated has its DISCONNECTED still on the way.     *)
LossIsNoticed ==
  /\ Faults \subseteq {"call", "join"} /\ registered
  /\ wifi_first_connecting = WIFI_CONNECT_STATUS /\ link # "up"
  => "DISCONNECTED" \in {posting, event}

Online ==
  /\ wifi_first_connecting = WIFI_CONNECT_STATUS
  /\ ~wifi_second_connected
  /\ link = "up" /\ addr

(* When only a working link is ever lost (Faults = {}), the station always *)
(* comes back: associated, with an address, the gate open and ready for    *)
(* the next loss, although CONNECTED and SCAN_DONE of every association    *)
(* after the first may be dropped.                                         *)
ComesBackOnline == []<>Online
=============================================================================
