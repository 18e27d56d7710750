--------------------------- MODULE WifiStaProofs ---------------------------
(***************************************************************************)
(* Safety of the Wi-Fi station, for every set of Faults.                   *)
(***************************************************************************)
EXTENDS WifiSta, TLAPS

(* The part of TypeOK about pc.                                            *)
PcOK ==
  /\ pc \in [Task -> DemoPC \cup HandlerPC]
  /\ pc[Demo] \in DemoPC /\ pc[Handler] \in HandlerPC

(* What keeps the two tasks and the flags together.  Until DemoEntry is    *)
(* done no flag is set and the callback never gets past its guard; while   *)
(* the callback rebuilds, no connection counts as complete, and one that   *)
(* fails before it closed the gate never gets an address.                  *)
StaInv ==
  /\ Rebuilding => pc[Demo] = "done" /\ wifi_first_connecting = 0
  /\ wifi_second_connecting =>
       /\ pc[Handler] \in {"stop", "start", "scan", "second", "dhcpstart", "dhcpwait"}
       /\ pc[Handler] # "stop" => link = "down" /\ ~addr
  /\ wifi_second_connected => Rebuilding
  /\ wifi_first_connecting = WIFI_CONNECT_STATUS => gLwipNetif /\ pc[Demo] = "done"
  /\ pc[Demo] = "gotaddr" => gLwipNetif
  /\ pc[Handler] = "gotaddr" => gLwipNetif

-----------------------------------------------------------------------------
LEMMA StaInitInv == Init => TypeOK /\ StaInv
<1> SUFFICES ASSUME Init PROVE TypeOK /\ StaInv
  OBVIOUS
<1>1. pc \in [Task -> DemoPC \cup HandlerPC] /\ pc[Demo] = "start" /\ pc[Handler] = "idle"
  BY StaTaskAssumption DEF Init, Task, DemoPC, HandlerPC, StartPC
<1>2. TypeOK
  BY <1>1, Zenon DEF Init, TypeOK, DemoPC, HandlerPC, StartPC
<1>3. StaInv
  BY <1>1 DEF Init, StaInv, Rebuilding, WIFI_CONNECT_STATUS
<1> QED
  BY <1>2, <1>3

(* hi_wifi_start_sta, in either task, keeps the invariant.                 *)
LEMMA StartStep ==
  ASSUME TypeOK, StaInv, NEW t \in Task, hi_wifi_start_sta(t) \/ PollAddr(t)
  PROVE  TypeOK' /\ StaInv'
<1> USE StaTaskAssumption
    DEF TypeOK, StaInv, Task, DemoPC, HandlerPC, StartPC, Rebuilding, Goto,
        AfterStart, WIFI_CONNECT_STATUS, flags, driver, ip, sta, world
<1>1. CASE StartSta(t)
  <2>1. PcOK'
    BY <1>1 DEF StartSta, PcOK
  <2>2. registered' \in BOOLEAN /\ gLwipNetif' \in BOOLEAN /\ station' \in BOOLEAN
    BY <1>1, Zenon DEF StartSta, Register
  <2>3. UNCHANGED <<event, gScanDone, flags, scanning, link, posting, ip>>
    BY <1>1 DEF StartSta
  <2>4. TypeOK'
    BY <2>1, <2>2, <2>3 DEF PcOK
  <2>5. StaInv'
    BY <1>1 DEF StartSta, Register
  <2> QED
    BY <2>4, <2>5
<1>2. CASE Scan(t)
  <2>1. PcOK'
    BY <1>2 DEF Scan, PcOK
  <2>2. gScanDone' \in BOOLEAN /\ scanning' \in BOOLEAN
    BY <1>2, Zenon DEF Scan
  <2>3. UNCHANGED <<event, sta, flags, station, link, posting, ip>>
    BY <1>2 DEF Scan
  <2>4. TypeOK'
    BY <2>1, <2>2, <2>3 DEF PcOK
  <2>5. StaInv'
    BY <1>2 DEF Scan
  <2> QED
    BY <2>4, <2>5
<1>3. CASE SecondConnecting(t)
  <2>1. PcOK'
    BY <1>3 DEF SecondConnecting, SecondWith, PcOK
  <2>2. /\ gScanDone' \in BOOLEAN /\ wifi_second_connecting' \in BOOLEAN
        /\ wifi_second_connected' \in BOOLEAN
    BY <1>3, Zenon DEF SecondConnecting, SecondWith
  <2>3. UNCHANGED <<event, sta, wifi_first_connecting, world>>
    BY <1>3 DEF SecondConnecting, SecondWith
  <2>4. TypeOK'
    BY <2>1, <2>2, <2>3 DEF PcOK
  <2>5. StaInv'
    BY <1>3 DEF SecondConnecting, SecondWith
  <2> QED
    BY <2>4, <2>5
<1>4. CASE ListAndConnect(t)
  <2>1. PcOK'
    BY <1>4 DEF ListAndConnect, PcOK
  <2>2. link' \in {"down", "joining", "up"}
    BY <1>4, Zenon DEF ListAndConnect, StaStartConnect
  <2>3. UNCHANGED <<event, sta, gScanDone, flags, station, scanning, posting, ip>>
    BY <1>4 DEF ListAndConnect
  <2>4. TypeOK'
    BY <2>1, <2>2, <2>3 DEF PcOK
  <2>5. StaInv'
    BY <1>4 DEF ListAndConnect, StaStartConnect
  <2> QED
    BY <2>4, <2>5
<1>5. CASE PollAddr(t)
  BY <1>5 DEF PollAddr
<1> QED
  BY <1>1, <1>2, <1>3, <1>4, <1>5 DEF hi_wifi_start_sta

(* So do WpaEventCB and wifi_reconnected.                                  *)
LEMMA CallbackStep ==
  ASSUME TypeOK, StaInv,
         \/ OnScanDone \/ OnConnected \/ OnDisconnected \/ Reconnect \/ NoReconnect
         \/ StopSta \/ ReconnectDhcp \/ Reconnected
  PROVE  TypeOK' /\ StaInv'
<1> USE StaTaskAssumption
    DEF TypeOK, StaInv, Task, DemoPC, HandlerPC, StartPC, Rebuilding, Goto,
        HandlerReturns, WIFI_CONNECT_STATUS, flags, driver, ip, sta, world
<1>1. CASE OnScanDone
  BY <1>1 DEF OnScanDone
<1>2. CASE OnConnected
  BY <1>2 DEF OnConnected
<1>3. CASE OnDisconnected
  BY <1>3 DEF OnDisconnected
<1>4. CASE Reconnect
  BY <1>4 DEF Reconnect, ReconnectWith
<1>5. CASE NoReconnect
  BY <1>5 DEF NoReconnect
<1>6. CASE StopSta
  <2>1. PcOK'
    BY <1>6 DEF StopSta, PcOK
  <2>2. TypeOK'
    BY <1>6, <2>1, ZenonT(60) DEF StopSta, PcOK
  <2>3. StaInv'
    BY <1>6 DEF StopSta
  <2> QED
    BY <2>2, <2>3
<1>7. CASE ReconnectDhcp
  BY <1>7 DEF ReconnectDhcp, ReconnectDhcpWith
<1>8. CASE Reconnected
  <2>1. PcOK'
    BY <1>8 DEF Reconnected, ReconnectedWith, PcOK
  <2>2. TypeOK'
    BY <1>8, <2>1, ZenonT(60) DEF Reconnected, ReconnectedWith, PcOK
  <2>3. StaInv'
    BY <1>8 DEF Reconnected, ReconnectedWith
  <2> QED
    BY <2>2, <2>3
<1> QED
  BY <1>1, <1>2, <1>3, <1>4, <1>5, <1>6, <1>7, <1>8

(* And the driver, lwIP and the end of WifiStaReadyWait.                   *)
LEMMA WorldStep ==
  ASSUME TypeOK, StaInv,
         \/ StaReady \/ Deliver \/ Drop
         \/ ScanFinishes \/ Joined \/ JoinFails \/ LinkLost \/ AddressAssigned
  PROVE  TypeOK' /\ StaInv'
<1> USE StaTaskAssumption
    DEF TypeOK, StaInv, Task, DemoPC, HandlerPC, StartPC, Rebuilding, Goto,
        WIFI_CONNECT_STATUS, flags, driver, ip, sta, world, Event
<1>1. CASE StaReady
  BY <1>1 DEF StaReady, StaReadyAt
<1>2. CASE Deliver
  BY <1>2 DEF Deliver
<1>3. CASE Drop
  BY <1>3 DEF Drop
<1>4. CASE ScanFinishes
  <2>1. PcOK'
    BY <1>4 DEF ScanFinishes, PcOK
  <2>2. TypeOK'
    BY <1>4, <2>1, ZenonT(60) DEF ScanFinishes, PcOK
  <2>3. StaInv'
    BY <1>4 DEF ScanFinishes
  <2> QED
    BY <2>2, <2>3
<1>5. CASE Joined
  BY <1>5 DEF Joined
<1>6. CASE JoinFails
  BY <1>6 DEF JoinFails
<1>7. CASE LinkLost
  BY <1>7 DEF LinkLost
<1>8. CASE AddressAssigned
  BY <1>8 DEF AddressAssigned
<1> QED
  BY <1>1, <1>2, <1>3, <1>4, <1>5, <1>6, <1>7, <1>8

LEMMA StaNextInv == TypeOK /\ StaInv /\ [Next]_vars => TypeOK' /\ StaInv'
<1> SUFFICES ASSUME TypeOK, StaInv, [Next]_vars
             PROVE  TypeOK' /\ StaInv'
  OBVIOUS
<1>1. CASE DemoStep
  BY <1>1, StartStep, WorldStep DEF DemoStep, Task
<1>2. CASE HandlerStep
  BY <1>2, StartStep, CallbackStep DEF HandlerStep, Task
<1>3. CASE Deliver \/ Drop \/ ScanFinishes \/ Joined \/ JoinFails \/ LinkLost
           \/ AddressAssigned
  BY <1>3, WorldStep
<1>4. CASE UNCHANGED vars
  BY <1>4 DEF vars, flags, driver, ip, sta, world, TypeOK, StaInv, Rebuilding
<1> QED
  BY <1>1, <1>2, <1>3, <1>4 DEF Next

LEMMA StaInvariant == Spec => [](TypeOK /\ StaInv)
<1>1. Init => TypeOK /\ StaInv
  BY StaInitInv
<1>2. TypeOK /\ StaInv /\ [Next]_vars => (TypeOK /\ StaInv)'
  BY StaNextInv
<1> QED
  BY <1>1, <1>2, PTL DEF Spec

-----------------------------------------------------------------------------
(* Every variable of the station keeps its type.                           *)
THEOREM StaTypeCorrect == Spec => []TypeOK
  BY StaInvariant, PTL

(* WpaEventCB rebuilds the station only when DemoEntry is done with it.    *)
THEOREM OneBuilderSafe == Spec => []OneBuilder
<1>1. StaInv => OneBuilder
  BY DEF StaInv, OneBuilder
<1> QED
  BY <1>1, StaInvariant, PTL

(* The gate of the MQTT client is closed only while wifi_reconnected runs. *)
THEOREM GateHeldSafe == Spec => []GateHeld
<1>1. StaInv => GateHeld
  BY DEF StaInv, GateHeld
<1> QED
  BY <1>1, StaInvariant, PTL

(* wifi_first_connecting = 0x02 promises an interface and an open gate.    *)
THEOREM CompleteIsUsableSafe == Spec => []CompleteIsUsable
<1>1. StaInv => CompleteIsUsable
  BY DEF StaInv, CompleteIsUsable, Rebuilding, WIFI_CONNECT_STATUS
<1> QED
  BY <1>1, StaInvariant, PTL

-----------------------------------------------------------------------------
(* What is still on the way.  The event that is handled; the scan of       *)
(* DemoEntry, whose SCAN_DONE nobody drops; the flag that keeps a reconnect *)
(* from waiting.                                                           *)
ScanOnTheWay == gScanDone \/ scanning \/ "SCAN_DONE" \in {posting, event}

ScanInv ==
  /\ pc[Handler] = "idle" => event = None
  /\ pc[Handler] \notin {"idle", "event"} => event = "DISCONNECTED"
  /\ pc[Handler] \in {"stop", "start", "scan", "second"} => wifi_second_connecting
  /\ pc[Handler] = "scanwait" => gScanDone
  /\ pc[Demo] \in {"second", "scanwait"} /\ registered /\ "event" \notin Faults => ScanOnTheWay

(* Until it has an address a connection is not complete, and a link that   *)
(* breaks only when it is complete does not break in between.              *)
LinkInv ==
  "link" \notin Faults =>
    /\ wifi_first_connecting # WIFI_CONNECT_STATUS /\ pc[Handler] # "stop" =>
         (addr => link = "up")
    /\ \A t \in Task : pc[t] \in {"start", "scan", "second", "scanwait"} =>
         link = "down" /\ ~addr
    /\ \A t \in Task : pc[t] = "gotaddr" => link = "up"

WayInv == ScanInv /\ LinkInv /\ LossIsNoticed

LEMMA WayStart == Init => WayInv
BY StaTaskAssumption
   DEF Init, WayInv, ScanInv, LinkInv, LossIsNoticed, Task, WIFI_CONNECT_STATUS

(* hi_wifi_start_sta                                                       *)
LEMMA WayStartStep ==
  ASSUME TypeOK, StaInv, WayInv, NEW t \in Task, hi_wifi_start_sta(t) \/ PollAddr(t)
  PROVE  WayInv'
<1> USE StaTaskAssumption, NoneAssumption
    DEF TypeOK, StaInv, Task, DemoPC, HandlerPC, StartPC, Rebuilding, Goto,
        AfterStart, WIFI_CONNECT_STATUS, flags, driver, ip, sta, world
<1>1. CASE StartSta(t)
  <2>1. ScanInv' BY <1>1 DEF StartSta, WayInv, ScanInv, ScanOnTheWay
  <2>2. LinkInv' BY <1>1 DEF StartSta, WayInv, LinkInv
  <2>3. LossIsNoticed' BY <1>1 DEF StartSta, LossIsNoticed
  <2> QED BY <2>1, <2>2, <2>3 DEF WayInv
<1>2. CASE Scan(t)
  <2>1. ScanInv' BY <1>2 DEF Scan, WayInv, ScanInv, ScanOnTheWay
  <2>2. LinkInv' BY <1>2 DEF Scan, WayInv, LinkInv
  <2>3. LossIsNoticed' BY <1>2 DEF Scan, WayInv, LossIsNoticed
  <2> QED BY <2>1, <2>2, <2>3 DEF WayInv
<1>3. CASE SecondConnecting(t)
  <2>1. ScanInv' BY <1>3 DEF SecondConnecting, SecondWith, WayInv, ScanInv, ScanOnTheWay
  <2>2. LinkInv' BY <1>3 DEF SecondConnecting, SecondWith, WayInv, LinkInv
  <2>3. LossIsNoticed' BY <1>3 DEF SecondConnecting, SecondWith, WayInv, LossIsNoticed
  <2> QED BY <2>1, <2>2, <2>3 DEF WayInv
<1>4. CASE ListAndConnect(t)
  <2>1. ScanInv' BY <1>4 DEF ListAndConnect, StaStartConnect, WayInv, ScanInv, ScanOnTheWay
  <2>2. LinkInv' BY <1>4 DEF ListAndConnect, StaStartConnect, WayInv, LinkInv
  <2>3. LossIsNoticed' BY <1>4 DEF ListAndConnect, StaStartConnect, WayInv, LossIsNoticed
  <2> QED BY <2>1, <2>2, <2>3 DEF WayInv
<1>5. CASE PollAddr(t)
  <2>1. ScanInv' BY <1>5 DEF PollAddr, WayInv, ScanInv, ScanOnTheWay
  <2>2. LinkInv' BY <1>5 DEF PollAddr, WayInv, LinkInv
  <2>3. LossIsNoticed' BY <1>5 DEF PollAddr, WayInv, LossIsNoticed
  <2> QED BY <2>1, <2>2, <2>3 DEF WayInv
<1> QED
  BY <1>1, <1>2, <1>3, <1>4, <1>5 DEF hi_wifi_start_sta

(* WpaEventCB and wifi_reconnected                                         *)
LEMMA WayCallbackStep ==
  ASSUME TypeOK, StaInv, WayInv,
         \/ OnScanDone \/ OnConnected \/ OnDisconnected \/ Reconnect \/ NoReconnect
         \/ StopSta \/ ReconnectDhcp \/ Reconnected
  PROVE  WayInv'
<1> USE StaTaskAssumption, NoneAssumption
    DEF TypeOK, StaInv, Task, DemoPC, HandlerPC, StartPC, Rebuilding, Goto,
        HandlerReturns, WIFI_CONNECT_STATUS, flags, driver, ip, sta, world
<1>1. CASE OnScanDone
  <2>1. ScanInv' BY <1>1 DEF OnScanDone, WayInv, ScanInv, ScanOnTheWay
  <2>2. LinkInv' BY <1>1 DEF OnScanDone, WayInv, LinkInv
  <2>3. LossIsNoticed' BY <1>1 DEF OnScanDone, WayInv, LossIsNoticed
  <2> QED BY <2>1, <2>2, <2>3 DEF WayInv
<1>2. CASE OnConnected
  <2>1. ScanInv' BY <1>2 DEF OnConnected, WayInv, ScanInv, ScanOnTheWay
  <2>2. LinkInv' BY <1>2 DEF OnConnected, WayInv, LinkInv
  <2>3. LossIsNoticed' BY <1>2 DEF OnConnected, WayInv, LossIsNoticed
  <2> QED BY <2>1, <2>2, <2>3 DEF WayInv
<1>3. CASE OnDisconnected
  <2>1. ScanInv' BY <1>3 DEF OnDisconnected, WayInv, ScanInv, ScanOnTheWay
  <2>2. LinkInv' BY <1>3 DEF OnDisconnected, WayInv, LinkInv
  <2>3. LossIsNoticed' BY <1>3 DEF OnDisconnected, WayInv, LossIsNoticed
  <2> QED BY <2>1, <2>2, <2>3 DEF WayInv
<1>4. CASE Reconnect
  <2>1. ScanInv' BY <1>4 DEF Reconnect, ReconnectWith, WayInv, ScanInv, ScanOnTheWay
  <2>2. LinkInv' BY <1>4 DEF Reconnect, ReconnectWith, WayInv, LinkInv
  <2>3. LossIsNoticed' BY <1>4 DEF Reconnect, ReconnectWith, LossIsNoticed
  <2> QED BY <2>1, <2>2, <2>3 DEF WayInv
<1>5. CASE NoReconnect
  <2>1. ScanInv' BY <1>5 DEF NoReconnect, WayInv, ScanInv, ScanOnTheWay
  <2>2. LinkInv' BY <1>5 DEF NoReconnect, WayInv, LinkInv
  <2>3. LossIsNoticed' BY <1>5 DEF NoReconnect, LossIsNoticed
  <2> QED BY <2>1, <2>2, <2>3 DEF WayInv
<1>6. CASE StopSta
  <2>1. ScanInv' BY <1>6 DEF StopSta, WayInv, ScanInv, ScanOnTheWay
  <2>2. LinkInv' BY <1>6 DEF StopSta, WayInv, LinkInv
  <2>3. LossIsNoticed' BY <1>6 DEF StopSta, LossIsNoticed
  <2> QED BY <2>1, <2>2, <2>3 DEF WayInv
<1>7. CASE ReconnectDhcp
  <2>1. ScanInv' BY <1>7 DEF ReconnectDhcp, ReconnectDhcpWith, WayInv, ScanInv, ScanOnTheWay
  <2>2. LinkInv' BY <1>7 DEF ReconnectDhcp, ReconnectDhcpWith, WayInv, LinkInv
  <2>3. LossIsNoticed' BY <1>7 DEF ReconnectDhcp, ReconnectDhcpWith, LossIsNoticed
  <2> QED BY <2>1, <2>2, <2>3 DEF WayInv
<1>8. CASE Reconnected
  <2>1. ScanInv' BY <1>8 DEF Reconnected, ReconnectedWith, WayInv, ScanInv, ScanOnTheWay
  <2>2. LinkInv' BY <1>8 DEF Reconnected, ReconnectedWith, WayInv, LinkInv
  <2>3. LossIsNoticed'
    BY <1>8 DEF Reconnected, ReconnectedWith, WayInv, LinkInv, LossIsNoticed
  <2> QED BY <2>1, <2>2, <2>3 DEF WayInv
<1> QED
  BY <1>1, <1>2, <1>3, <1>4, <1>5, <1>6, <1>7, <1>8

LEMMA WayWorldStep ==
  ASSUME TypeOK, StaInv, WayInv,
         \/ StaReady \/ Deliver \/ Drop
         \/ ScanFinishes \/ Joined \/ JoinFails \/ LinkLost \/ AddressAssigned
  PROVE  WayInv'
<1> USE StaTaskAssumption, NoneAssumption
    DEF TypeOK, StaInv, Task, DemoPC, HandlerPC, StartPC, Rebuilding, Goto,
        WIFI_CONNECT_STATUS, flags, driver, ip, sta, world, Event
<1>1. CASE StaReady
  <2>1. ScanInv' BY <1>1 DEF StaReady, StaReadyAt, WayInv, ScanInv, ScanOnTheWay
  <2>2. LinkInv' BY <1>1 DEF StaReady, StaReadyAt, WayInv, LinkInv
  <2>3. LossIsNoticed' BY <1>1 DEF StaReady, StaReadyAt, WayInv, LinkInv, LossIsNoticed
  <2> QED BY <2>1, <2>2, <2>3 DEF WayInv
<1>2. CASE Deliver
  <2>1. ScanInv' BY <1>2 DEF Deliver, WayInv, ScanInv, ScanOnTheWay
  <2>2. LinkInv' BY <1>2 DEF Deliver, WayInv, LinkInv
  <2>3. LossIsNoticed' BY <1>2 DEF Deliver, WayInv, ScanInv, LossIsNoticed
  <2> QED BY <2>1, <2>2, <2>3 DEF WayInv
<1>3. CASE Drop
  <2>1. ScanInv' BY <1>3 DEF Drop, WayInv, ScanInv, ScanOnTheWay
  <2>2. LinkInv' BY <1>3 DEF Drop, WayInv, LinkInv
  <2>3. LossIsNoticed' BY <1>3 DEF Drop, WayInv, LossIsNoticed
  <2> QED BY <2>1, <2>2, <2>3 DEF WayInv
<1>4. CASE ScanFinishes \/ AddressAssigned
  <2>1. ScanInv' BY <1>4 DEF ScanFinishes, AddressAssigned, WayInv, ScanInv, ScanOnTheWay
  <2>2. LinkInv' BY <1>4 DEF ScanFinishes, AddressAssigned, WayInv, LinkInv
  <2>3. LossIsNoticed' BY <1>4 DEF ScanFinishes, AddressAssigned, WayInv, LossIsNoticed
  <2> QED BY <2>1, <2>2, <2>3 DEF WayInv
<1>5. CASE Joined \/ JoinFails
  <2>1. ScanInv' BY <1>5 DEF Joined, JoinFails, WayInv, ScanInv, ScanOnTheWay
  <2>2. LinkInv' BY <1>5 DEF Joined, JoinFails, WayInv, LinkInv
  <2>3. LossIsNoticed' BY <1>5 DEF Joined, JoinFails, WayInv, LossIsNoticed
  <2> QED BY <2>1, <2>2, <2>3 DEF WayInv
<1>6. CASE LinkLost
  <2>1. ScanInv' BY <1>6 DEF LinkLost, WayInv, ScanInv, ScanOnTheWay
  <2>2. LinkInv' BY <1>6 DEF LinkLost, WayInv, LinkInv
  <2>3. LossIsNoticed' BY <1>6 DEF LinkLost, WayInv, LossIsNoticed
  <2> QED BY <2>1, <2>2, <2>3 DEF WayInv
<1> QED
  BY <1>1, <1>2, <1>3, <1>4, <1>5, <1>6

LEMMA WayStep == TypeOK /\ StaInv /\ WayInv /\ [Next]_vars => WayInv'
<1> SUFFICES ASSUME TypeOK, StaInv, WayInv, [Next]_vars PROVE WayInv' OBVIOUS
<1>1. CASE DemoStep
  BY <1>1, WayStartStep, WayWorldStep DEF DemoStep, Task
<1>2. CASE HandlerStep
  BY <1>2, WayStartStep, WayCallbackStep DEF HandlerStep, Task
<1>3. CASE Deliver \/ Drop \/ ScanFinishes \/ Joined \/ JoinFails \/ LinkLost
           \/ AddressAssigned
  BY <1>3, WayWorldStep
<1>4. CASE UNCHANGED vars
  BY <1>4 DEF vars, flags, driver, ip, sta, world, WayInv, ScanInv, ScanOnTheWay, LinkInv,
              LossIsNoticed
<1> QED
  BY <1>1, <1>2, <1>3, <1>4 DEF Next

LEMMA WayInvariant == Spec => []WayInv
BY WayStart, WayStep, StaInvariant, PTL DEF Spec

(* Nobody waits for gScanDone in vain while callbacks can run: the scan,   *)
(* SCAN_DONE or the flag is still to be seen (ScanIsAwaited).              *)
THEOREM ScanIsAwaitedSafe == Spec => []ScanIsAwaited
<1>1. WayInv => ScanIsAwaited
  BY DEF WayInv, ScanInv, ScanOnTheWay, ScanIsAwaited, Task
<1> QED
  BY <1>1, WayInvariant, PTL

(* A complete connection that is no longer associated has its DISCONNECTED *)
(* on the way to WpaEventCB (LossIsNoticed).                               *)
THEOREM LossIsNoticedSafe == Spec => []LossIsNoticed
<1>1. WayInv => LossIsNoticed
  BY DEF WayInv
<1> QED
  BY <1>1, WayInvariant, PTL
=============================================================================
