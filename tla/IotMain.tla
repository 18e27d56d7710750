------------------------------ MODULE IotMain ------------------------------
(***************************************************************************)
(* The MQTT client of the device, src/app/demo/src/iot_main.c: a bounded   *)
(* queue of heap-allocated messages between the tasks that report          *)
(* telemetry (IotSendMsg), the receive callback that the paho thread runs  *)
(* (MsgRcvCallBack) and the task "IoTMain" that drains the queue           *)
(* (ProcessQueueMsg) inside a session it opens, watches and closes         *)
(* (MainEntryProcess, MainEntry).                                          *)
(*                                                                         *)
(* Messages are identified by the heap block that holds them.  A failing   *)
(* hi_malloc in IotSendMsg or MsgRcvCallBack changes nothing that is       *)
(* modelled here: it is a stuttering step (see SkipReply for the one place *)
(* where it does).  hi_sleep and MQTTClient_yield only pass time: the paho *)
(* thread runs, so yield sleeps.                                           *)
(***************************************************************************)
EXTENDS Naturals, Sequences, FiniteSets

CONSTANTS Block,       \* heap blocks that messages are allocated in
          Reporter,    \* tasks other than IoTMain that call IotSendMsg
          Paho,        \* the paho thread, which runs MsgRcvCallBack
          Main,        \* the task "IoTMain"
          None,        \* a NULL message pointer
          QueueLen,    \* CN_QUEUE_MSGNUM, 16 in the code
          MaxReplies   \* most IotSendMsg calls one run of the command handler makes

Task == Reporter \cup {Paho, Main}

ASSUME QueueLenAssumption == QueueLen \in Nat \ {0}
ASSUME MaxRepliesAssumption == MaxReplies \in Nat
ASSUME TaskAssumption == Paho # Main /\ Paho \notin Reporter /\ Main \notin Reporter
ASSUME NoneAssumption == None \notin Block

VARIABLES
  queueUp,      \* hi_msg_queue_create succeeded
  msgCallBack,  \* gIoTAppCb.msgCallBack # NULL
  queue,        \* the blocks whose addresses are in the queue
  kind,         \* kind[b]: "free", or the type of the message in b
  outbox,       \* outbox[t]: the block t is trying to queue, or None
  hand,         \* the block ProcessQueueMsg holds (its local msg), or None
  replies,      \* IotSendMsg calls the running handler may still make
  pc,           \* where the task IoTMain is
  held,         \* which of clientID and userPwd are allocated
  client,       \* the MQTTClient handle
  wifi_second_connected \* iot_sta.c's flag: the second connection is not up yet

startVars == <<queueUp, msgCallBack>>
queueVars == <<queue, kind, outbox, hand>>
sessionVars == <<held, client>>
otherVars == <<startVars, replies, pc, sessionVars, wifi_second_connected>>
vars == <<queueVars, otherVars>>

Credential == {"clientID", "userPwd"}

Init ==
  /\ queueUp = FALSE
  /\ msgCallBack = FALSE
  /\ queue = <<>>
  /\ kind = [b \in Block |-> "free"]
  /\ outbox = [t \in Task |-> None]
  /\ hand = None
  /\ replies = 0
  /\ pc = "unborn"
  /\ held = {}
  /\ client = "none"
  /\ wifi_second_connected = FALSE

-----------------------------------------------------------------------------
(* Start-up, by the task DemoEntry.                                        *)

(* IoTMain(): a failure to create the queue is only logged, the task is    *)
(* created all the same; without the task nothing ever drains the queue.   *)
IoTMain ==
  /\ pc = "unborn"
  /\ queueUp' \in BOOLEAN
  /\ pc' \in {"credentials", "dead"}
  /\ UNCHANGED <<msgCallBack, queueVars, replies, sessionVars, wifi_second_connected>>

IoTSetMsgCallback ==
  /\ pc # "unborn" /\ ~msgCallBack
  /\ msgCallBack' = TRUE
  /\ UNCHANGED <<queueUp, queueVars, replies, pc, sessionVars, wifi_second_connected>>

-----------------------------------------------------------------------------
(* Sending to the queue: the part IotSendMsg and MsgRcvCallBack share.     *)
(* hi_msg_queue_send waits at most CN_QUEUE_WAITTIMEOUT for a free slot.   *)

Allocate(t, k) ==
  /\ outbox[t] = None
  /\ \E b \in Block :
       /\ kind[b] = "free"
       /\ kind' = [kind EXCEPT ![b] = k]
       /\ outbox' = [outbox EXCEPT ![t] = b]
  /\ UNCHANGED <<queue, hand>>

SendInto(t, room, q) ==
  /\ outbox[t] # None /\ queueUp /\ room
  /\ queue' = q
  /\ outbox' = [outbox EXCEPT ![t] = None]
  /\ UNCHANGED <<kind, hand, otherVars>>

(* Mutants: no check of the length, and the newest message first.          *)
EnqueueOverfull(t) == SendInto(t, Len(queue) <= QueueLen, Append(queue, outbox[t]))
EnqueueToFront(t) == SendInto(t, Len(queue) < QueueLen, <<outbox[t]>> \o queue)

(* hi_msg_queue_send succeeds.                                             *)
Enqueue(t) == SendInto(t, Len(queue) < QueueLen, Append(queue, outbox[t]))

GiveUp(t, refused, blocks) ==
  /\ outbox[t] # None /\ refused
  /\ kind' = blocks
  /\ outbox' = [outbox EXCEPT ![t] = None]
  /\ UNCHANGED <<queue, hand, otherVars>>

(* Mutants: the failed message is not freed, and a send that waits for     *)
(* ever instead of CN_QUEUE_WAITTIMEOUT.                                   *)
SendFailLeaks(t) == GiveUp(t, ~queueUp \/ Len(queue) = QueueLen, kind)
SendWaitsForever(t) == GiveUp(t, ~queueUp, [kind EXCEPT ![outbox[t]] = "free"])

(* The send fails: the sender frees the message.  A full queue makes it    *)
(* fail after the timeout, a queue that was never created at once.         *)
SendFail(t) ==
  GiveUp(t, ~queueUp \/ Len(queue) = QueueLen, [kind EXCEPT ![outbox[t]] = "free"])

(* IotSendMsg called by a reporting task, which starts once DemoEntry has  *)
(* registered the callback.                                                *)
Report(r) ==
  /\ msgCallBack
  /\ Allocate(r, "publish")
  /\ UNCHANGED otherVars

(* MsgRcvCallBack, run by the paho thread for a message of the broker.     *)
(* Whatever becomes of the copy, it returns 1: paho forgets the message.   *)
MsgRcvCallBack ==
  /\ client = "connected"
  /\ Allocate(Paho, "recv")
  /\ UNCHANGED otherVars

-----------------------------------------------------------------------------
(* ProcessQueueMsg, run by IoTMain.                                        *)

(* The next label of IoTMain.                                              *)
Goto(l) ==
  /\ pc' = l
  /\ UNCHANGED <<startVars, replies, wifi_second_connected>>

Take(b, rest) ==
  /\ pc = "wait" /\ queue # <<>>
  /\ hand' = b /\ queue' = rest
  /\ Goto("dispatch") /\ UNCHANGED <<kind, outbox, sessionVars>>

(* Mutant: the newest message is taken first.                              *)
TakeNewest == Take(queue[Len(queue)], SubSeq(queue, 1, Len(queue) - 1))

(* hi_msg_queue_wait hands over the oldest message.                        *)
TakeMsg == Take(Head(queue), Tail(queue))

(* hi_msg_queue_wait fails: timeout (1000 ms the first time, 0 afterwards) *)
(* on an empty queue, or no queue.  The loop ends, MQTTClient_yield sleeps.*)
QueueDrained ==
  /\ pc = "wait" /\ queue = <<>>
  /\ Goto("session") /\ UNCHANGED <<queueVars, sessionVars>>

Dispatching(type) == pc = "dispatch" /\ kind[hand] = type

(* The dispatched message is freed, whatever became of it.                 *)
FreeMsg(l) ==
  /\ kind' = [kind EXCEPT ![hand] = "free"]
  /\ hand' = None
  /\ Goto(l) /\ UNCHANGED <<queue, outbox, sessionVars>>

(* Mutant: a failed publish does not end the loop.                         *)
PublishIgnoresFailure == Dispatching("publish") /\ FreeMsg("wait")

(* A PUBLISH message goes to the broker.  MQTTClient_publishMessage's      *)
(* result is what the loop condition tests: a failure ends the loop.  On a *)
(* lost connection it always fails.                                        *)
Publish ==
  /\ Dispatching("publish")
  /\ \/ client = "connected" /\ FreeMsg("wait")
     \/ FreeMsg("session")

(* A RECV message goes to the registered handler, which may call           *)
(* IotSendMsg up to MaxReplies times before it returns.                    *)
HandleRecv ==
  /\ Dispatching("recv") /\ msgCallBack
  /\ pc' = "callback"
  /\ replies' \in 0 .. MaxReplies
  /\ UNCHANGED <<startVars, queueVars, sessionVars, wifi_second_connected>>

(* No handler registered yet: the message is freed unseen.                 *)
IgnoreRecv == Dispatching("recv") /\ ~msgCallBack /\ FreeMsg("wait")

(* IotSendMsg called by the handler, that is by the one task that drains   *)
(* the queue.                                                              *)
Reply ==
  /\ pc = "callback" /\ replies > 0
  /\ Allocate(Main, "publish")
  /\ replies' = replies - 1
  /\ UNCHANGED <<startVars, pc, sessionVars, wifi_second_connected>>

(* A reply that is never sent: no memory for it.                           *)
SkipReply ==
  /\ pc = "callback" /\ replies > 0 /\ outbox[Main] = None
  /\ replies' = replies - 1
  /\ UNCHANGED <<startVars, queueVars, pc, sessionVars, wifi_second_connected>>

HandlerReturns ==
  pc = "callback" /\ replies = 0 /\ outbox[Main] = None /\ FreeMsg("wait")

-----------------------------------------------------------------------------
(* MainEntryProcess: one session.  The goto labels of the code are values  *)
(* of pc.                                                                  *)

(* The two allocations, in the order of the code.                          *)
PrepareCredentials ==
  /\ pc = "credentials" /\ UNCHANGED <<queueVars, client>>
  /\ \/ held' = {} /\ Goto("sleep")                       \* EXIT_CLIENTID
     \/ held' = {"clientID"} /\ Goto("EXIT_USERPWD")
     \/ held' = Credential /\ Goto("create")

(* No client is created while iot_sta.c brings the second connection up.   *)
CreateClient ==
  /\ pc = "create" /\ UNCHANGED <<queueVars, held>>
  /\ \/ Goto("EXIT_CREATE") /\ UNCHANGED client           \* the gate, or a failure
     \/ ~wifi_second_connected /\ client' = "created" /\ Goto("connect")

(* MQTTClient_setCallbacks and MQTTClient_connect.                         *)
Connect ==
  /\ pc = "connect" /\ UNCHANGED <<queueVars, held>>
  /\ \/ Goto("EXIT_CONNECT") /\ UNCHANGED client
     \/ client' = "connected" /\ Goto("subscribe")

SubscribeOr(exit) ==
  /\ pc = "subscribe" /\ UNCHANGED <<queueVars, sessionVars>>
  /\ \/ Goto(exit)
     \/ client = "connected" /\ Goto("session")

(* Mutant: a failed subscription leaves by the wrong label.                *)
SubscribeSkipsDestroy == SubscribeOr("EXIT_CREATE")

(* MQTTClient_subscribeMany; it fails as well when the connection is gone  *)
(* (EXIT_SUBSCRIBE is EXIT_CONNECT).                                       *)
Subscribe == SubscribeOr("EXIT_CONNECT")

(* The condition of the session loop, MQTTClient_isConnected.              *)
CheckConnected ==
  /\ pc = "session" /\ UNCHANGED <<queueVars, sessionVars>>
  /\ Goto(IF client = "connected" THEN "wait" ELSE "disconnect")

Disconnect ==
  /\ pc = "disconnect" /\ UNCHANGED <<queueVars, held>>
  /\ client' = "closed" /\ Goto("EXIT_CONNECT")

DestroyClient ==
  /\ pc = "EXIT_CONNECT" /\ UNCHANGED <<queueVars, held>>
  /\ client' = "none" /\ Goto("EXIT_CREATE")

FreeUserPwd ==
  /\ pc = "EXIT_CREATE" /\ UNCHANGED <<queueVars, client>>
  /\ held' = held \ {"userPwd"} /\ Goto("EXIT_USERPWD")

FreeClientID ==
  /\ pc = "EXIT_USERPWD" /\ UNCHANGED <<queueVars, client>>
  /\ held' = held \ {"clientID"} /\ Goto("sleep")

(* MainEntry: five seconds after a session ended, the next one; stop is    *)
(* never set.                                                              *)
NextSession ==
  pc = "sleep" /\ Goto("credentials") /\ UNCHANGED <<queueVars, sessionVars>>

-----------------------------------------------------------------------------
(* The environment.                                                        *)

(* The connection breaks.  ConnLostCallBack only logs; what the session    *)
(* sees is MQTTClient_isConnected.  The paho thread notices the loss, so   *)
(* it is not in MsgRcvCallBack at that moment.                             *)
ConnectionLost ==
  /\ client = "connected" /\ outbox[Paho] = None
  /\ client' = "lost"
  /\ UNCHANGED <<startVars, queueVars, replies, pc, held, wifi_second_connected>>

(* iot_sta.c, here unconstrained.                                          *)
WifiFlag ==
  /\ wifi_second_connected' \in BOOLEAN
  /\ UNCHANGED <<startVars, queueVars, replies, pc, sessionVars>>

-----------------------------------------------------------------------------
Session ==
  \/ PrepareCredentials \/ CreateClient \/ Connect \/ Subscribe
  \/ CheckConnected \/ Disconnect \/ DestroyClient
  \/ FreeUserPwd \/ FreeClientID \/ NextSession

ProcessQueueMsg ==
  \/ TakeMsg \/ QueueDrained \/ Publish \/ HandleRecv \/ IgnoreRecv
  \/ Reply \/ SkipReply \/ HandlerReturns

(* hi_msg_queue_send returns.                                              *)
SendReturns(t) == Enqueue(t) \/ SendFail(t)

(* What the tasks of this component do.                                    *)
ClientStep ==
  \/ IoTMain \/ IoTSetMsgCallback
  \/ \E r \in Reporter : Report(r)
  \/ MsgRcvCallBack
  \/ \E t \in Task : SendReturns(t)
  \/ ProcessQueueMsg
  \/ Session
  \/ ConnectionLost

Next == ClientStep \/ WifiFlag

Spec == Init /\ [][Next]_vars

(* Every call a task blocks in has a timeout, and LiteOS runs every ready  *)
(* task of equal priority: IoTMain takes its next step, a blocked send     *)
(* returns.  Nothing is assumed of the network, the broker, the reporters  *)
(* or the start-up.                                                        *)
Fairness ==
  /\ WF_vars(ProcessQueueMsg \/ Session)
  /\ \A t \in Task : WF_vars(SendReturns(t))

FairSpec == Spec /\ Fairness

-----------------------------------------------------------------------------
PC == {"unborn", "dead", "credentials", "create", "connect", "subscribe",
       "session", "wait", "dispatch", "callback", "disconnect",
       "EXIT_CONNECT", "EXIT_CREATE", "EXIT_USERPWD", "sleep"}

TypeOK ==
  /\ queueUp \in BOOLEAN
  /\ msgCallBack \in BOOLEAN
  /\ queue \in Seq(Block)
  /\ Len(queue) <= QueueLen
  /\ kind \in [Block -> {"free", "publish", "recv"}]
  /\ outbox \in [Task -> Block \cup {None}]
  /\ hand \in Block \cup {None}
  /\ replies \in 0 .. MaxReplies
  /\ pc \in PC
  /\ held \in SUBSET Credential
  /\ client \in {"none", "created", "connected", "lost", "closed"}
  /\ wifi_second_connected \in BOOLEAN

-----------------------------------------------------------------------------
(* Ownership of the messages.  A block is passed from the task that        *)
(* allocates it to the queue, from the queue to ProcessQueueMsg, and freed *)
(* by whichever holds it last.                                             *)

InQueue(b) == \E i \in 1 .. Len(queue) : queue[i] = b

(* No leak: an allocated message can still be reached by the task that     *)
(* will free it.                                                           *)
NoLeak ==
  \A b \in Block :
    kind[b] # "free" =>
      InQueue(b) \/ hand = b \/ \E t \in Task : outbox[t] = b

(* No dangling pointer: whatever the queue, a sender or ProcessQueueMsg    *)
(* points to is allocated, so nothing is used or freed after it was freed. *)
NoDangling ==
  /\ \A i \in 1 .. Len(queue) : kind[queue[i]] # "free"
  /\ hand # None => kind[hand] # "free"
  /\ \A t \in Task : outbox[t] # None => kind[outbox[t]] # "free"

(* One owner: no message is pointed to from two places, so no message is   *)
(* handled twice or freed twice.                                           *)
OneOwner ==
  /\ \A i, j \in 1 .. Len(queue) : queue[i] = queue[j] => i = j
  /\ hand # None => ~InQueue(hand)
  /\ \A t \in Task : outbox[t] # None => ~InQueue(outbox[t]) /\ outbox[t] # hand
  /\ \A t, u \in Task : outbox[t] # None /\ outbox[t] = outbox[u] => t = u

(* Every message is owned by exactly one holder, which will free it.       *)
MessagesOwned == NoLeak /\ NoDangling /\ OneOwner

(* The session's resources follow its control flow: between two sessions   *)
(* IoTMain holds nothing, whichever of the exits of MainEntryProcess was   *)
(* taken, and it works on the queue only with a client that is neither     *)
(* closed nor destroyed and with the credentials that client points to.    *)
SessionResources ==
  /\ pc \in {"unborn", "dead", "sleep", "credentials"} => held = {} /\ client = "none"
  /\ pc \in {"session", "wait", "dispatch", "callback"} =>
       held = Credential /\ client \in {"connected", "lost"}

-----------------------------------------------------------------------------
(* A connection that broke is noticed and its client destroyed, whatever   *)
(* the reporters put into the queue meanwhile: draining stops at the first *)
(* PUBLISH that fails.                                                     *)
LostSessionIsClosed == (client = "lost") ~> (client = "none")

(* As long as sessions keep coming back, every queued message is taken in  *)
(* the end.                                                                *)
QueuedIsTaken ==
  []<>(pc = "wait") => \A b \in Block : InQueue(b) ~> ~InQueue(b)

(* The channel between the tasks, as the tasks see it.                     *)
Channel == INSTANCE MsgChannel WITH
  Item <- Block, Capacity <- QueueLen, Nothing <- None,
  open <- queueUp, accepted <- queue, taken <- hand,
  offered <- {outbox[t] : t \in Task} \ {None}

(* The queue, the callers' pointers and ProcessQueueMsg are a lossy FIFO:  *)
(* a send is refused only when the queue is full or was never created, and *)
(* what was accepted is handled once, in the order of acceptance.          *)
ChannelSafe == Channel!SafeSpec

(* Every send returns and every message taken is done with, although the   *)
(* task that drains the queue also sends to it, from the command handler:  *)
(* it does not wait for ever on a queue that only it could drain.          *)
ChannelLive == Channel!Live
=============================================================================
