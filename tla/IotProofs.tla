------------------------------ MODULE IotProofs ------------------------------
(***************************************************************************)
(* Proofs about the MQTT client alone (IotMain), for every number of       *)
(* blocks, reporters, queue slots and replies, and about the device        *)
(* (IotSystem): it implements each of its two components, so that what is  *)
(* proved of a component alone holds in the device.                        *)
(***************************************************************************)
EXTENDS IotSystem, TLAPS

(* The message in hand and the start-up, as the program counter of IoTMain *)
(* tells them.                                                             *)
ControlInv ==
  /\ hand # None <=> pc \in {"dispatch", "callback"}
  /\ pc = "unborn" =>
       /\ ~queueUp /\ ~msgCallBack /\ client = "none"
       /\ \A t \in Task : outbox[t] = None
  /\ outbox[Main] # None => pc = "callback"

(* What is held at every label of MainEntryProcess.                        *)
ResourceInv ==
  /\ pc \in {"unborn", "dead", "sleep", "credentials"} => held = {} /\ client = "none"
  /\ pc = "EXIT_USERPWD" => held = {"clientID"} /\ client = "none"
  /\ pc \in {"create", "EXIT_CREATE"} => held = Credential /\ client = "none"
  /\ pc = "connect" => held = Credential /\ client = "created"
  /\ pc \in {"subscribe", "session", "wait", "dispatch", "callback", "disconnect"} =>
       held = Credential /\ client \in {"connected", "lost"}
  /\ pc = "EXIT_CONNECT" => held = Credential
-----------------------------------------------------------------------------
(* What Append and Tail do to the elements of a sequence.                  *)
LEMMA AppendProps ==
  ASSUME NEW S, NEW s \in Seq(S), NEW e \in S
  PROVE  /\ Append(s, e) \in Seq(S)
         /\ Len(Append(s, e)) = Len(s) + 1
         /\ \A i \in 1 .. Len(s) : Append(s, e)[i] = s[i]
         /\ Append(s, e)[Len(s) + 1] = e
OBVIOUS

LEMMA TailProps ==
  ASSUME NEW S, NEW s \in Seq(S), s # <<>>
  PROVE  /\ Len(s) \in Nat \ {0}
         /\ Head(s) \in S
         /\ Head(s) = s[1]
         /\ Tail(s) \in Seq(S)
         /\ Len(Tail(s)) = Len(s) - 1
         /\ \A i \in 1 .. Len(s) - 1 : Tail(s)[i] = s[i + 1]
OBVIOUS

-----------------------------------------------------------------------------
(* The types: the queue never grows past CN_QUEUE_MSGNUM and holds only    *)
(* message addresses, whichever tasks send to it.                          *)
THEOREM TypeCorrect == Spec => []TypeOK
<1>1. Init => TypeOK
  <2>1. Init => queue \in Seq(Block) /\ Len(queue) <= QueueLen
    BY QueueLenAssumption DEF Init
  <2>2. Init => replies \in 0 .. MaxReplies
    BY MaxRepliesAssumption DEF Init
  <2>3. QED
    BY <2>1, <2>2, Zenon DEF Init, TypeOK, PC
<1>2. TypeOK /\ [Next]_vars => TypeOK'
  <2> SUFFICES ASSUME TypeOK, [Next]_vars PROVE TypeOK'
    OBVIOUS
  <2> USE DEF TypeOK, queueVars, sessionVars, otherVars, startVars, Goto
  <2>1. CASE IoTMain
    BY <2>1 DEF IoTMain, PC
  <2>2. CASE IoTSetMsgCallback
    BY <2>2 DEF IoTSetMsgCallback
  <2>3. ASSUME NEW r \in Reporter, Report(r) PROVE TypeOK'
    BY <2>3 DEF Report, Allocate, Task
  <2>4. CASE MsgRcvCallBack
    BY <2>4 DEF MsgRcvCallBack, Allocate, Task
  <2>5. ASSUME NEW t \in Task, Enqueue(t) PROVE TypeOK'
    BY <2>5, AppendProps, QueueLenAssumption DEF Enqueue, SendInto
  <2>6. ASSUME NEW t \in Task, SendFail(t) PROVE TypeOK'
    BY <2>6 DEF SendFail, GiveUp
  <2>7. CASE TakeMsg
    BY <2>7, TailProps, QueueLenAssumption DEF TakeMsg, Take, PC
  <2>8. CASE QueueDrained
    BY <2>8 DEF QueueDrained, PC
  <2>9. CASE Publish
    BY <2>9 DEF Publish, FreeMsg, Dispatching, PC
  <2>10. CASE HandleRecv
    BY <2>10 DEF HandleRecv, PC
  <2>11. CASE IgnoreRecv
    BY <2>11 DEF IgnoreRecv, FreeMsg, Dispatching, PC
  <2>12. CASE Reply
    BY <2>12, MaxRepliesAssumption DEF Reply, Allocate, Task
  <2>13. CASE SkipReply
    BY <2>13, MaxRepliesAssumption DEF SkipReply
  <2>14. CASE HandlerReturns
    BY <2>14 DEF HandlerReturns, FreeMsg, Dispatching, PC
  <2>15. CASE Session
    BY <2>15 DEF Session, PrepareCredentials, CreateClient, Connect, Subscribe, SubscribeOr,
                 CheckConnected, Disconnect, DestroyClient, FreeUserPwd,
                 FreeClientID, NextSession, PC, Credential
  <2>16. CASE ConnectionLost
    BY <2>16 DEF ConnectionLost
  <2>17. CASE WifiFlag
    BY <2>17 DEF WifiFlag
  <2>18. CASE UNCHANGED vars
    BY <2>18 DEF vars
  <2>19. QED
    BY <2>1, <2>2, <2>3, <2>4, <2>5, <2>6, <2>7, <2>8, <2>9, <2>10, <2>11, <2>12,
       <2>13, <2>14, <2>15, <2>16, <2>17, <2>18
       DEF Next, ClientStep, ProcessQueueMsg, SendReturns
<1>3. QED
  BY <1>1, <1>2, PTL DEF Spec

-----------------------------------------------------------------------------
(* Every exit of MainEntryProcess releases what the session allocated, and *)
(* the queue is served only with a live client.                            *)
LEMMA ResourceInit == Init => ResourceInv
BY DEF Init, ResourceInv

LEMMA ResourceStep == ResourceInv /\ [Next]_vars => ResourceInv'
<1> SUFFICES ASSUME ResourceInv, [Next]_vars PROVE ResourceInv'
  OBVIOUS
<1> USE DEF ResourceInv, sessionVars, otherVars, startVars, Goto, Credential
<1>1. CASE IoTMain
  BY <1>1 DEF IoTMain
<1>2. CASE IoTSetMsgCallback
  BY <1>2 DEF IoTSetMsgCallback
<1>3. ASSUME NEW r \in Reporter, Report(r) PROVE ResourceInv'
  BY <1>3 DEF Report
<1>4. CASE MsgRcvCallBack
  BY <1>4 DEF MsgRcvCallBack
<1>5. ASSUME NEW t \in Task, SendReturns(t) PROVE ResourceInv'
  BY <1>5 DEF SendReturns, Enqueue, SendInto, SendFail, GiveUp
<1>6. CASE ProcessQueueMsg
  BY <1>6 DEF ProcessQueueMsg, TakeMsg, Take, QueueDrained, Publish, FreeMsg, HandleRecv,
              IgnoreRecv, Reply, SkipReply, HandlerReturns, Dispatching
<1>7. CASE Session
  <2>1. CASE PrepareCredentials
    BY <2>1 DEF PrepareCredentials
  <2>2. CASE CreateClient
    BY <2>2 DEF CreateClient
  <2>3. CASE Connect
    BY <2>3 DEF Connect
  <2>4. CASE Subscribe
    BY <2>4 DEF Subscribe, SubscribeOr
  <2>5. CASE CheckConnected \/ NextSession
    BY <2>5 DEF CheckConnected, NextSession
  <2>6. CASE Disconnect \/ DestroyClient
    BY <2>6 DEF Disconnect, DestroyClient
  <2>7. CASE FreeUserPwd \/ FreeClientID
    BY <2>7 DEF FreeUserPwd, FreeClientID
  <2>8. QED
    BY <1>7, <2>1, <2>2, <2>3, <2>4, <2>5, <2>6, <2>7 DEF Session
<1>8. CASE ConnectionLost
  BY <1>8 DEF ConnectionLost
<1>9. CASE WifiFlag
  BY <1>9 DEF WifiFlag
<1>10. CASE UNCHANGED vars
  BY <1>10 DEF vars
<1>11. QED
  BY <1>1, <1>2, <1>3, <1>4, <1>5, <1>6, <1>7, <1>8, <1>9, <1>10 DEF Next, ClientStep

THEOREM SessionResourcesSafe == Spec => []SessionResources
<1>1. ResourceInv => SessionResources
  BY DEF ResourceInv, SessionResources
<1>2. QED
  BY <1>1, ResourceInit, ResourceStep, PTL DEF Spec

-----------------------------------------------------------------------------
(* IoTMain has a message in hand exactly while it dispatches one, and only *)
(* its command handler sends; before IoTMain() nobody sends at all.        *)
LEMMA ControlStep == TypeOK /\ ControlInv /\ [Next]_vars => ControlInv'
<1> SUFFICES ASSUME TypeOK, ControlInv, [Next]_vars PROVE ControlInv'
  OBVIOUS
<1> USE TaskAssumption, NoneAssumption
    DEF ControlInv, TypeOK, queueVars, sessionVars, otherVars, startVars, Task, Goto
<1>1. CASE IoTMain
  BY <1>1 DEF IoTMain
<1>2. CASE IoTSetMsgCallback
  BY <1>2 DEF IoTSetMsgCallback
<1>3. ASSUME NEW r \in Reporter, Report(r) PROVE ControlInv'
  BY <1>3 DEF Report, Allocate
<1>4. CASE MsgRcvCallBack
  BY <1>4 DEF MsgRcvCallBack, Allocate
<1>5. ASSUME NEW t \in Task, SendReturns(t) PROVE ControlInv'
  BY <1>5 DEF SendReturns, Enqueue, SendInto, SendFail, GiveUp
<1>6. CASE TakeMsg
  BY <1>6, TailProps DEF TakeMsg, Take
<1>7. CASE QueueDrained
  BY <1>7 DEF QueueDrained
<1>8. CASE Publish \/ HandleRecv \/ IgnoreRecv
  BY <1>8 DEF Publish, HandleRecv, IgnoreRecv, FreeMsg, Dispatching
<1>9. CASE Reply \/ SkipReply \/ HandlerReturns
  BY <1>9 DEF Reply, SkipReply, HandlerReturns, FreeMsg, Dispatching, Allocate
<1>10. CASE Session
  BY <1>10 DEF Session, PrepareCredentials, CreateClient, Connect, Subscribe, SubscribeOr,
               CheckConnected, Disconnect, DestroyClient, FreeUserPwd,
               FreeClientID, NextSession
<1>11. CASE ConnectionLost
  BY <1>11 DEF ConnectionLost
<1>12. CASE WifiFlag
  BY <1>12 DEF WifiFlag
<1>13. CASE UNCHANGED vars
  BY <1>13 DEF vars
<1>14. QED
  BY <1>1, <1>2, <1>3, <1>4, <1>5, <1>6, <1>7, <1>8, <1>9, <1>10, <1>11, <1>12, <1>13
     DEF Next, ClientStep, ProcessQueueMsg

LEMMA ControlInit == Init => ControlInv
BY TaskAssumption DEF Init, ControlInv, Task

-----------------------------------------------------------------------------
(* Ownership of the messages, one lemma per way a message changes hands.   *)

(* hi_malloc gives a block nothing points to.                              *)
LEMMA AllocateOwned ==
  ASSUME TypeOK, MessagesOwned, NEW t \in Task, NEW k \in {"publish", "recv"},
         Allocate(t, k)
  PROVE  MessagesOwned'
<1> USE NoneAssumption DEF TypeOK, MessagesOwned, NoLeak, NoDangling, OneOwner, InQueue
<1>1. PICK b \in Block : /\ kind[b] = "free"
                         /\ kind' = [kind EXCEPT ![b] = k]
                         /\ outbox' = [outbox EXCEPT ![t] = b]
  BY DEF Allocate
<1>2. queue' = queue /\ hand' = hand /\ outbox[t] = None
  BY DEF Allocate
<1>3. NoLeak'
  BY <1>1, <1>2
<1>4. NoDangling'
  BY <1>1, <1>2
<1>5. OneOwner'
  BY <1>1, <1>2
<1>6. QED
  BY <1>3, <1>4, <1>5

(* A sent message moves from its sender to the end of the queue.           *)
LEMMA EnqueueOwned ==
  ASSUME TypeOK, MessagesOwned, NEW t \in Task, Enqueue(t)
  PROVE  MessagesOwned'
<1> USE NoneAssumption DEF TypeOK, MessagesOwned
<1> DEFINE m == outbox[t]
<1>1. /\ m \in Block
      /\ queue' = Append(queue, m)
      /\ outbox' = [outbox EXCEPT ![t] = None]
      /\ kind' = kind /\ hand' = hand
  BY DEF Enqueue, SendInto
<1>2. /\ Len(queue') = Len(queue) + 1
      /\ \A i \in 1 .. Len(queue) : queue'[i] = queue[i]
      /\ queue'[Len(queue) + 1] = m
      /\ Len(queue) \in Nat
  BY <1>1, AppendProps
<1> HIDE DEF m
<1>3. \A b : InQueue(b)' <=> InQueue(b) \/ b = m
  <2>1. ASSUME NEW b, InQueue(b) PROVE InQueue(b)'
    BY <1>2, <2>1 DEF InQueue
  <2>2. ASSUME NEW b, b = m PROVE InQueue(b)'
    <3>1. Len(queue) + 1 \in 1 .. Len(queue') /\ queue'[Len(queue) + 1] = b
      BY <1>2, <2>2
    <3>2. QED
      BY <3>1 DEF InQueue
  <2>3. ASSUME NEW b, InQueue(b)' PROVE InQueue(b) \/ b = m
    BY <1>2, <2>3 DEF InQueue
  <2>4. QED
    BY <2>1, <2>2, <2>3
<1>4. NoLeak'
  BY <1>1, <1>3 DEF NoLeak, m
<1>5. NoDangling'
  BY <1>1, <1>2 DEF NoDangling, m
<1>6. OneOwner'
  <2>1. \A i, j \in 1 .. Len(queue') : queue'[i] = queue'[j] => i = j
    BY <1>1, <1>2 DEF OneOwner, InQueue, m
  <2>2. hand' # None => ~InQueue(hand)'
    BY <1>1, <1>3 DEF OneOwner, m
  <2>3. \A u \in Task : outbox'[u] # None => ~InQueue(outbox[u])' /\ outbox'[u] # hand'
    BY <1>1, <1>3 DEF OneOwner, m
  <2>4. \A u, v \in Task : outbox'[u] # None /\ outbox'[u] = outbox'[v] => u = v
    BY <1>1 DEF OneOwner
  <2>5. QED
    BY <2>1, <2>2, <2>3, <2>4 DEF OneOwner
<1>7. QED
  BY <1>4, <1>5, <1>6

(* A sender whose send failed frees a message nobody else points to.       *)
LEMMA SendFailOwned ==
  ASSUME TypeOK, MessagesOwned, NEW t \in Task, SendFail(t)
  PROVE  MessagesOwned'
<1> USE NoneAssumption DEF TypeOK, MessagesOwned, NoLeak, NoDangling, OneOwner, InQueue
<1>1. /\ outbox[t] # None
      /\ kind' = [kind EXCEPT ![outbox[t]] = "free"]
      /\ outbox' = [outbox EXCEPT ![t] = None]
      /\ queue' = queue /\ hand' = hand
  BY DEF SendFail, GiveUp
<1>2. NoLeak'
  BY <1>1
<1>3. NoDangling'
  BY <1>1
<1>4. OneOwner'
  BY <1>1
<1>5. QED
  BY <1>2, <1>3, <1>4

(* The oldest message moves from the queue to ProcessQueueMsg, whose hand  *)
(* is empty then.                                                          *)
LEMMA TakeOwned ==
  ASSUME TypeOK, ControlInv, MessagesOwned, TakeMsg
  PROVE  MessagesOwned'
<1> USE NoneAssumption DEF TypeOK, MessagesOwned
<1>1. /\ hand = None /\ queue # <<>>
      /\ hand' = Head(queue) /\ queue' = Tail(queue)
      /\ kind' = kind /\ outbox' = outbox
  BY DEF TakeMsg, Take, ControlInv
<1>2. /\ Len(queue) \in Nat \ {0}
      /\ hand' = queue[1] /\ hand' \in Block
      /\ Len(queue') = Len(queue) - 1
      /\ \A i \in 1 .. Len(queue) - 1 : queue'[i] = queue[i + 1]
  BY <1>1, TailProps
<1>3. \A b : InQueue(b) <=> InQueue(b)' \/ b = hand'
  <2>1. ASSUME NEW b, InQueue(b) PROVE InQueue(b)' \/ b = hand'
    <3>1. PICK i \in 1 .. Len(queue) : queue[i] = b
      BY <2>1 DEF InQueue
    <3>2. CASE i = 1
      BY <3>1, <3>2, <1>2
    <3>3. CASE i # 1
      <4>1. i - 1 \in 1 .. Len(queue') /\ queue'[i - 1] = b
        BY <3>1, <3>3, <1>2
      <4>2. QED
        BY <4>1 DEF InQueue
    <3>4. QED
      BY <3>2, <3>3
  <2>2. ASSUME NEW b, InQueue(b)' PROVE InQueue(b)
    <3>1. PICK i \in 1 .. Len(queue') : queue'[i] = b
      BY <2>2 DEF InQueue
    <3>2. i + 1 \in 1 .. Len(queue) /\ queue[i + 1] = b
      BY <3>1, <1>2
    <3>3. QED
      BY <3>2 DEF InQueue
  <2>3. InQueue(hand')
    BY <1>2 DEF InQueue
  <2>4. QED
    BY <2>1, <2>2, <2>3
<1>4. NoLeak'
  BY <1>1, <1>3 DEF NoLeak
<1>5. NoDangling'
  BY <1>1, <1>2 DEF NoDangling
<1>6. OneOwner'
  <2>1. \A i, j \in 1 .. Len(queue') : queue'[i] = queue'[j] => i = j
    <3>1. SUFFICES ASSUME NEW i \in 1 .. Len(queue'), NEW j \in 1 .. Len(queue'),
                          queue'[i] = queue'[j]
                   PROVE  i = j
      OBVIOUS
    <3>2. i + 1 \in 1 .. Len(queue) /\ j + 1 \in 1 .. Len(queue)
      BY <1>2
    <3>3. queue[i + 1] = queue[j + 1]
      BY <1>2, <3>1
    <3>4. i + 1 = j + 1
      BY <3>2, <3>3 DEF OneOwner
    <3>5. QED
      BY <3>4
  <2>2. ~InQueue(hand)'
    <3>1. SUFFICES ASSUME NEW i \in 1 .. Len(queue'), queue'[i] = hand' PROVE FALSE
      BY DEF InQueue
    <3>2. i + 1 \in 1 .. Len(queue) /\ queue[i + 1] = queue[1] /\ 1 \in 1 .. Len(queue)
      BY <1>2, <3>1
    <3>3. QED
      BY <3>2 DEF OneOwner
  <2>3. \A u \in Task : outbox'[u] # None => ~InQueue(outbox[u])' /\ outbox'[u] # hand'
    BY <1>1, <1>3 DEF OneOwner
  <2>4. \A u, v \in Task : outbox'[u] # None /\ outbox'[u] = outbox'[v] => u = v
    BY <1>1 DEF OneOwner
  <2>5. QED
    BY <2>1, <2>2, <2>3, <2>4 DEF OneOwner
<1>7. QED
  BY <1>4, <1>5, <1>6

(* ProcessQueueMsg frees the message it holds, which nobody else points to.*)
LEMMA FreeMsgOwned ==
  ASSUME TypeOK, MessagesOwned, hand # None, NEW l, FreeMsg(l)
  PROVE  MessagesOwned'
<1> USE NoneAssumption
        DEF TypeOK, MessagesOwned, NoLeak, NoDangling, OneOwner, InQueue, FreeMsg
<1>1. NoLeak'
  OBVIOUS
<1>2. NoDangling'
  OBVIOUS
<1>3. OneOwner'
  OBVIOUS
<1>4. QED
  BY <1>1, <1>2, <1>3

LEMMA OwnedInit == Init => MessagesOwned
BY NoneAssumption DEF Init, MessagesOwned, NoLeak, NoDangling, OneOwner, InQueue

LEMMA OwnedUnchanged ==
  ASSUME MessagesOwned, UNCHANGED queueVars
  PROVE  MessagesOwned'
BY DEF MessagesOwned, NoLeak, NoDangling, OneOwner, InQueue, queueVars

(* Every message is owned by exactly one holder: none leaks, none is used  *)
(* after it was freed, none is handled or freed twice, whatever the        *)
(* interleaving of reporters, the paho thread and IoTMain.                 *)
THEOREM MessagesOwnedSafe == Spec => []MessagesOwned
<1>1. TypeOK /\ ControlInv /\ MessagesOwned /\ [Next]_vars => MessagesOwned'
  <2> SUFFICES ASSUME TypeOK, ControlInv, MessagesOwned, [Next]_vars
               PROVE  MessagesOwned'
    OBVIOUS
  <2> USE DEF Task
  <2>1. ASSUME NEW r \in Reporter, Report(r) PROVE MessagesOwned'
    BY <2>1, AllocateOwned DEF Report
  <2>2. CASE MsgRcvCallBack
    BY <2>2, AllocateOwned DEF MsgRcvCallBack
  <2>3. ASSUME NEW t \in Task, SendReturns(t) PROVE MessagesOwned'
    BY <2>3, EnqueueOwned, SendFailOwned DEF SendReturns
  <2>4. CASE TakeMsg
    BY <2>4, TakeOwned
  <2>5. CASE Publish \/ IgnoreRecv \/ HandlerReturns
    BY <2>5, FreeMsgOwned
       DEF Publish, IgnoreRecv, HandlerReturns, Dispatching, ControlInv
  <2>6. CASE Reply
    BY <2>6, AllocateOwned DEF Reply
  <2>7. CASE IoTMain \/ IoTSetMsgCallback \/ QueueDrained \/ HandleRecv \/ SkipReply
             \/ ConnectionLost \/ WifiFlag
    BY <2>7, OwnedUnchanged DEF IoTMain, IoTSetMsgCallback, QueueDrained, HandleRecv,
       SkipReply, ConnectionLost, WifiFlag
  <2>8. CASE Session
    BY <2>8, OwnedUnchanged DEF Session, PrepareCredentials, CreateClient, Connect,
       Subscribe, SubscribeOr, CheckConnected, Disconnect, DestroyClient, FreeUserPwd,
       FreeClientID, NextSession
  <2>9. CASE UNCHANGED vars
    BY <2>9, OwnedUnchanged DEF vars, queueVars
  <2>10. QED
    BY <2>1, <2>2, <2>3, <2>4, <2>5, <2>6, <2>7, <2>8, <2>9
       DEF Next, ClientStep, ProcessQueueMsg
<1>2. QED
  BY <1>1, OwnedInit, ControlInit, ControlStep, TypeCorrect, PTL DEF Spec

-----------------------------------------------------------------------------
(* The queue, the senders' pointers and the message in hand implement the  *)
(* lossy FIFO of MsgChannel.                                               *)
Offered == {outbox[t] : t \in Task} \ {None}

(* What a returning send does to the set of offered messages: it removes   *)
(* exactly its own, since no other task holds that block.                  *)
LEMMA OfferedAfterSend ==
  ASSUME TypeOK, MessagesOwned, NEW t \in Task, outbox[t] # None,
         outbox' = [outbox EXCEPT ![t] = None]
  PROVE  outbox[t] \in Offered /\ Offered' = Offered \ {outbox[t]}
BY NoneAssumption DEF TypeOK, MessagesOwned, OneOwner, Offered

LEMMA AllocateOffers ==
  ASSUME TypeOK, ControlInv, MessagesOwned, NEW t \in Task,
         NEW k \in {"publish", "recv"}, Allocate(t, k), UNCHANGED queueUp
  PROVE  \E b \in Block : Channel!Offer(b)
<1>1. PICK b \in Block : /\ kind[b] = "free" /\ outbox[t] = None
                         /\ outbox' = [outbox EXCEPT ![t] = b]
                         /\ queue' = queue /\ hand' = hand
  BY DEF Allocate
<1>2. b \notin Offered /\ b # hand /\ ~InQueue(b)
  BY <1>1, NoneAssumption
     DEF TypeOK, MessagesOwned, NoDangling, Offered, InQueue
<1>3. b \notin Channel!InChannel
  BY <1>2 DEF Channel!InChannel, Offered, InQueue
<1>4. Offered' = Offered \cup {b}
  BY <1>1, NoneAssumption DEF TypeOK, Offered
<1>5. QED
  BY <1>1, <1>3, <1>4 DEF Channel!Offer, Offered

THEOREM ImplementsChannel == Spec => ChannelSafe
<1>1. Init => Channel!Init
  BY TaskAssumption DEF Init, Channel!Init, Task
<1>2. TypeOK /\ ControlInv /\ MessagesOwned /\ [Next]_vars => [Channel!Next]_(Channel!chanVars)
  <2> SUFFICES ASSUME TypeOK, ControlInv, MessagesOwned, [Next]_vars
               PROVE  [Channel!Next]_(Channel!chanVars)
    OBVIOUS
  <2> USE DEF Channel!Next, Channel!chanVars, queueVars, otherVars, startVars, Goto, Task
  <2>1. CASE IoTMain
    <3>1. Offered = {} /\ ~queueUp
      BY <2>1 DEF IoTMain, ControlInv, Offered
    <3>2. CASE queueUp'
      BY <2>1, <3>1, <3>2 DEF IoTMain, Channel!Open, Offered, TypeOK
    <3>3. CASE ~queueUp'
      BY <2>1, <3>1, <3>3 DEF IoTMain, TypeOK
    <3>4. QED
      BY <3>2, <3>3
  <2>2. ASSUME NEW t \in Task, NEW k \in {"publish", "recv"}, Allocate(t, k), UNCHANGED queueUp
        PROVE  Channel!Next
    BY <2>2, AllocateOffers
  <2>3. CASE (\E r \in Reporter : Report(r)) \/ MsgRcvCallBack \/ Reply
    BY <2>2, <2>3 DEF Report, MsgRcvCallBack, Reply
  <2>4. ASSUME NEW t \in Task, Enqueue(t) PROVE Channel!Next
    <3>1. PICK b \in Block : b = outbox[t]
      BY <2>4 DEF Enqueue, SendInto, TypeOK
    <3>2. Channel!Accept(b)
      BY <2>4, <3>1, OfferedAfterSend DEF Enqueue, SendInto, Channel!Accept, Offered
    <3>3. QED
      BY <3>1, <3>2 DEF Channel!Answer
  <2>5. ASSUME NEW t \in Task, SendFail(t) PROVE Channel!Next
    <3>1. PICK b \in Block : b = outbox[t]
      BY <2>5 DEF SendFail, GiveUp, TypeOK
    <3>2. Channel!Refuse(b)
      BY <2>5, <3>1, OfferedAfterSend DEF SendFail, GiveUp, Channel!Refuse, Offered
    <3>3. QED
      BY <3>1, <3>2 DEF Channel!Answer
  <2>6. CASE TakeMsg
    BY <2>6 DEF TakeMsg, Take, ControlInv, Channel!Take
  <2>7. CASE Publish \/ IgnoreRecv \/ HandlerReturns
    BY <2>7 DEF Publish, IgnoreRecv, HandlerReturns, FreeMsg, Dispatching, ControlInv, Channel!Settle
  <2>8. CASE IoTSetMsgCallback \/ QueueDrained \/ HandleRecv \/ SkipReply
             \/ ConnectionLost \/ WifiFlag
    BY <2>8 DEF IoTSetMsgCallback, QueueDrained, HandleRecv, SkipReply, ConnectionLost, WifiFlag
  <2>9. CASE Session
    BY <2>9 DEF Session, PrepareCredentials, CreateClient, Connect, Subscribe, SubscribeOr,
       CheckConnected, Disconnect, DestroyClient, FreeUserPwd, FreeClientID, NextSession
  <2>10. CASE UNCHANGED vars
    BY <2>10 DEF vars
  <2>11. QED
    BY <2>1, <2>3, <2>4, <2>5, <2>6, <2>7, <2>8, <2>9, <2>10
       DEF Next, ClientStep, ProcessQueueMsg, SendReturns
<1>3. Spec => [](TypeOK /\ ControlInv /\ MessagesOwned)
  BY TypeCorrect, MessagesOwnedSafe, ControlInit, ControlStep, PTL DEF Spec
<1>4. QED
  BY <1>1, <1>2, <1>3, PTL DEF Spec, ChannelSafe, Channel!SafeSpec

-----------------------------------------------------------------------------
(* The device.                                                             *)
StaProofs == INSTANCE WifiStaProofs WITH pc <- staPc

(* Every step of the system is a step of the station or leaves it alone:   *)
(* the MQTT client only reads its flag.                                    *)
LEMMA SysStepIsStaStep == [SysNext]_sysVars => [Sta!Next]_(Sta!vars)
  BY DEF SysNext, SysMainStep, SysStaStep, sysVars, staVars,
         Sta!vars, Sta!flags, Sta!driver, Sta!ip, Sta!sta, Sta!world

(* The system implements the station of iot_sta.c.                         *)
THEOREM ImplementsStation == SysSpec => StaSpec
<1>1. SysInit => Sta!Init
  BY DEF SysInit
<1> QED
  BY <1>1, SysStepIsStaStep, PTL DEF SysSpec, StaSpec, Sta!Spec

-----------------------------------------------------------------------------
(* The station the system is built from and the one WifiStaProofs is about *)
(* are two instances of the same definitions.                              *)
LEMMA SameInit == Sta!Init <=> StaProofs!Init
  BY DEF Sta!Init, StaProofs!Init, Sta!Task, StaProofs!Task

LEMMA SameNext == [Sta!Next]_(Sta!vars) <=> [StaProofs!Next]_(StaProofs!vars)
  BY DEF Sta!vars, Sta!flags, Sta!driver, Sta!ip, Sta!sta, Sta!world,
         Sta!Next, Sta!DemoStep, Sta!HandlerStep, Sta!hi_wifi_start_sta,
         Sta!Register, Sta!StartSta, Sta!Scan, Sta!SecondConnecting,
         Sta!SecondWith, Sta!StaStartConnect, Sta!ListAndConnect,
         Sta!PollAddr, Sta!StaReady, Sta!StaReadyAt, Sta!HandlerReturns,
         Sta!OnScanDone, Sta!OnConnected, Sta!OnDisconnected, Sta!Reconnect,
         Sta!ReconnectWith, Sta!NoReconnect, Sta!StopSta, Sta!ReconnectDhcp,
         Sta!ReconnectDhcpWith, Sta!Reconnected, Sta!ReconnectedWith,
         Sta!Deliver, Sta!Drop, Sta!ScanFinishes, Sta!Joined, Sta!JoinFails,
         Sta!LinkLost, Sta!AddressAssigned, Sta!Goto, Sta!AfterStart,
         Sta!Rebuilding, Sta!WIFI_CONNECT_STATUS, StaProofs!vars,
         StaProofs!flags, StaProofs!driver, StaProofs!ip, StaProofs!sta,
         StaProofs!world, StaProofs!Next, StaProofs!DemoStep,
         StaProofs!HandlerStep, StaProofs!hi_wifi_start_sta,
         StaProofs!Register, StaProofs!StartSta, StaProofs!Scan,
         StaProofs!SecondConnecting, StaProofs!SecondWith,
         StaProofs!StaStartConnect, StaProofs!ListAndConnect,
         StaProofs!PollAddr, StaProofs!StaReady, StaProofs!StaReadyAt,
         StaProofs!HandlerReturns, StaProofs!OnScanDone,
         StaProofs!OnConnected, StaProofs!OnDisconnected, StaProofs!Reconnect,
         StaProofs!ReconnectWith, StaProofs!NoReconnect, StaProofs!StopSta,
         StaProofs!ReconnectDhcp, StaProofs!ReconnectDhcpWith,
         StaProofs!Reconnected, StaProofs!ReconnectedWith, StaProofs!Deliver,
         StaProofs!Drop, StaProofs!ScanFinishes, StaProofs!Joined,
         StaProofs!JoinFails, StaProofs!LinkLost, StaProofs!AddressAssigned,
         StaProofs!Goto, StaProofs!AfterStart, StaProofs!Rebuilding,
         StaProofs!WIFI_CONNECT_STATUS

(* So the invariant of the station holds in the system.                    *)
LEMMA SysStaInvariant == SysSpec => [](StaProofs!TypeOK /\ StaProofs!StaInv)
<1>1. SysInit => StaProofs!TypeOK /\ StaProofs!StaInv
  BY SysTaskAssumption, SysFaultsAssumption, SysNoneAssumption, SameInit,
     StaProofs!StaInitInv
     DEF SysInit, Sta!Fault, StaProofs!Fault, Sta!Event, StaProofs!Event
<1>2. StaProofs!TypeOK /\ StaProofs!StaInv /\ [SysNext]_sysVars
      => (StaProofs!TypeOK /\ StaProofs!StaInv)'
  BY SysTaskAssumption, SysFaultsAssumption, SysNoneAssumption, SysStepIsStaStep, SameNext,
     StaProofs!StaNextInv DEF Sta!Fault, StaProofs!Fault, Sta!Event, StaProofs!Event
<1> QED
  BY <1>1, <1>2, PTL DEF SysSpec

-----------------------------------------------------------------------------
(* The system implements the MQTT client of IotMain: every step of it is a *)
(* step of the client alone or of the gate, which the client finds         *)
(* changed by the station at any time.                                     *)
THEOREM ImplementsMain == SysSpec => MainSpec
<1>1. SysInit => Init
  BY DEF SysInit
<1>2. StaProofs!TypeOK' /\ [SysNext]_sysVars => [Next]_vars
  <2> SUFFICES ASSUME StaProofs!TypeOK', [SysNext]_sysVars PROVE [Next]_vars
    OBVIOUS
  <2>1. CASE SysMainStep
    BY <2>1 DEF SysMainStep, Next
  <2>2. CASE SysStaStep
    <3>1. wifi_second_connected' \in BOOLEAN
      BY DEF StaProofs!TypeOK
    <3> QED
      BY <2>2, <3>1 DEF SysStaStep, mainVars, Next, WifiFlag, queueVars, sessionVars, startVars, otherVars
  <2>3. CASE UNCHANGED sysVars
    BY <2>3 DEF sysVars, mainVars, vars, queueVars, sessionVars, startVars, otherVars
  <2> QED
    BY <2>1, <2>2, <2>3 DEF SysNext
<1> QED
  BY <1>1, <1>2, SysStaInvariant, PTL DEF SysSpec, MainSpec, Spec

(* In the whole system, too, every message oc_mqtt_publish and the timers  *)
(* allocate has exactly one owner.                                         *)
THEOREM SystemMessagesOwned == SysSpec => []MessagesOwned
  BY ImplementsMain, MessagesOwnedSafe, PTL DEF MainSpec

(* In the whole system, too, whatever the station does to the gate         *)
(* meanwhile, every exit of MainEntryProcess has released what the session *)
(* allocated.                                                              *)
THEOREM SystemSessionResources == SysSpec => []SessionResources
  BY ImplementsMain, SessionResourcesSafe, PTL DEF MainSpec

(* In the whole system, too, the queue of the MQTT client is the lossy     *)
(* FIFO of MsgChannel.                                                     *)
THEOREM SystemChannel == SysSpec => ChannelSafe
  BY ImplementsMain, ImplementsChannel, PTL DEF MainSpec

-----------------------------------------------------------------------------
(* What is on the way to the station is on the way in the system.          *)
LEMMA SysWayInvariant == SysSpec => []StaProofs!WayInv
<1>1. SysInit => StaProofs!WayInv
  BY SysTaskAssumption, SysFaultsAssumption, SysNoneAssumption, SameInit, StaProofs!WayStart
     DEF SysInit, Sta!Fault, StaProofs!Fault, Sta!Event, StaProofs!Event
<1>2. StaProofs!TypeOK /\ StaProofs!StaInv /\ StaProofs!WayInv /\ [SysNext]_sysVars
      => StaProofs!WayInv'
  BY SysTaskAssumption, SysFaultsAssumption, SysNoneAssumption, SysStepIsStaStep, SameNext,
     StaProofs!WayStep DEF Sta!Fault, StaProofs!Fault, Sta!Event, StaProofs!Event
<1> QED
  BY <1>1, <1>2, SysStaInvariant, PTL DEF SysSpec

(* In the whole system, too, only one task builds the station, the gate    *)
(* that CreateClient tests is closed only while wifi_reconnected is there  *)
(* to open it, and a complete connection is usable.                        *)
THEOREM SystemStationWhole ==
  SysSpec => [](Sta!OneBuilder /\ Sta!GateHeld /\ Sta!CompleteIsUsable)
<1>1. StaProofs!StaInv => Sta!OneBuilder /\ Sta!GateHeld /\ Sta!CompleteIsUsable
  BY DEF StaProofs!StaInv, StaProofs!Rebuilding, StaProofs!WIFI_CONNECT_STATUS,
         Sta!OneBuilder, Sta!GateHeld, Sta!CompleteIsUsable, Sta!Rebuilding,
         Sta!WIFI_CONNECT_STATUS
<1> QED
  BY <1>1, SysStaInvariant, PTL

(* In the whole system, too, nobody waits for a scan in vain, and no loss  *)
(* of a complete connection is overlooked.                                 *)
THEOREM SystemStationAwaited == SysSpec => [](Sta!ScanIsAwaited /\ Sta!LossIsNoticed)
<1>1. StaProofs!WayInv => Sta!ScanIsAwaited /\ Sta!LossIsNoticed
  BY DEF StaProofs!WayInv, StaProofs!ScanInv, StaProofs!ScanOnTheWay, StaProofs!Task,
         StaProofs!LossIsNoticed, StaProofs!WIFI_CONNECT_STATUS,
         Sta!ScanIsAwaited, Sta!LossIsNoticed, Sta!Task, Sta!WIFI_CONNECT_STATUS
<1> QED
  BY <1>1, SysWayInvariant, PTL
=============================================================================
