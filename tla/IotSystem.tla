----------------------------- MODULE IotSystem -----------------------------
(***************************************************************************)
(* The connectivity of the device: the MQTT client of iot_main.c on top of *)
(* the Wi-Fi station of iot_sta.c.  Each is the module of its own, with    *)
(* the other in the place of its environment; they meet in                 *)
(*   - the flag wifi_second_connected, the gate of CreateClient;           *)
(*   - the task DemoEntry, which calls IoTMain once WifiStaReadyWait has   *)
(*     returned;                                                           *)
(*   - the interface: a connection is made while it has an address and     *)
(*     dies when it loses it, which MQTTClient_isConnected tells only      *)
(*     after the keep-alive timeout.                                       *)
(***************************************************************************)
EXTENDS IotMain

CONSTANTS Demo, Handler, Faults       \* see WifiSta

VARIABLES
  staPc, event, registered, gLwipNetif, gScanDone, wifi_first_connecting,
  wifi_second_connecting, station, scanning, link, posting, dhcp, addr,
  socketAlive   \* the TCP connection of the client still has its interface

Sta == INSTANCE WifiSta WITH pc <- staPc

ASSUME SysTaskAssumption == Demo # Handler
ASSUME SysFaultsAssumption == Faults \subseteq Sta!Fault
ASSUME SysNoneAssumption == None \notin Sta!Event

mainVars == <<queueUp, msgCallBack, queue, kind, outbox, hand, replies, pc,
              held, client>>
staVars == <<staPc, event, registered, gLwipNetif, gScanDone,
             wifi_first_connecting, wifi_second_connecting, station, scanning,
             link, posting, dhcp, addr>>
sysVars == <<mainVars, staVars, wifi_second_connected, socketAlive>>

SysInit == Init /\ Sta!Init /\ socketAlive = FALSE

(* DemoEntry calls WifiStaReadyWait, then IoTMain; MQTTClient_connect      *)
(* needs an address, and a dead connection receives nothing.               *)
SysMainStep ==
  /\ ClientStep
  /\ pc = "unborn" /\ pc' # "unborn" => staPc[Demo] = "done"
  /\ client # "connected" /\ client' = "connected" => addr
  /\ outbox[Paho] = None /\ outbox'[Paho] # None => socketAlive
  /\ socketAlive' = (client' = "connected" /\ (socketAlive \/ client # "connected"))
  /\ UNCHANGED <<staVars, wifi_second_connected>>

SysStaStep ==
  /\ Sta!Next
  /\ socketAlive' = (socketAlive /\ addr')
  /\ UNCHANGED mainVars

SysNext == SysMainStep \/ SysStaStep

SysSpec == SysInit /\ [][SysNext]_sysVars

-----------------------------------------------------------------------------
(* The connection attempts that succeed.                                   *)
ConnectSucceeds == SysMainStep /\ pc = "connect" /\ pc' = "subscribe"
CreateSucceeds == SysMainStep /\ pc = "create" /\ pc' = "connect"
SubscribeSucceeds == SysMainStep /\ pc = "subscribe" /\ pc' = "session"
PrepareSucceeds == SysMainStep /\ pc = "credentials" /\ pc' = "create"
TaskIsCreated == SysMainStep /\ pc = "unborn" /\ pc' = "credentials"

(* The keep-alive of a connection without its interface times out.         *)
KeepAliveExpires == SysMainStep /\ ConnectionLost /\ ~socketAlive

(* The fairness of the two components; the world is as kind as Faults says *)
(* and the broker, the heap and the library do not fail for ever.          *)
SysFairness ==
  /\ WF_sysVars(SysMainStep /\ (ProcessQueueMsg \/ Session))
  /\ \A t \in Task : WF_sysVars(SysMainStep /\ SendReturns(t))
  /\ WF_sysVars(KeepAliveExpires) /\ WF_sysVars(TaskIsCreated)
  /\ SF_sysVars(PrepareSucceeds) /\ SF_sysVars(CreateSucceeds)
  /\ SF_sysVars(ConnectSucceeds) /\ SF_sysVars(SubscribeSucceeds)
  /\ WF_sysVars(SysStaStep /\ Sta!DemoStep)
  /\ WF_sysVars(SysStaStep /\ Sta!HandlerStep)
  /\ WF_sysVars(SysStaStep /\ (Sta!Deliver \/ Sta!Drop))
  /\ WF_sysVars(SysStaStep /\ Sta!ScanFinishes)
  /\ WF_sysVars(SysStaStep /\ Sta!Joined)
  /\ WF_sysVars(SysStaStep /\ Sta!AddressAssigned)

SysFairSpec == SysSpec /\ SysFairness

-----------------------------------------------------------------------------
(* The two components, each with the other as its environment, implement   *)
(* their specifications: what holds of one alone holds in the system.      *)
MainSpec == Spec
StaSpec == Sta!Spec

(* See WifiSta: the MQTT client does not get in the station's way.         *)
ComesBackOnline == Sta!ComesBackOnline

(* Whatever the link did before, once it stays up the device (if it could  *)
(* create its task at all) has a live, subscribed session again and again: *)
(* no stale client, closed gate or dead connection keeps it offline.       *)
Served ==
  /\ pc \in {"session", "wait", "dispatch", "callback"}
  /\ client = "connected" /\ socketAlive
ServiceIsRestored == <>[](Sta!Online /\ pc # "dead") => []<>Served
=============================================================================
