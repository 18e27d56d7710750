----------------------------- MODULE MsgChannel -----------------------------
(***************************************************************************)
(* What the message channel of the IoT client promises to the tasks that   *)
(* use it, without saying how.  A task offers a message and gets an        *)
(* answer: accepted, or refused because the channel is full (or was never  *)
(* opened).  Accepted messages are taken one at a time, oldest first, each *)
(* exactly once; a message that was taken is settled (published, handed to *)
(* the command handler, or lost with a failed publish) and never returns   *)
(* to the channel.                                                         *)
(***************************************************************************)
EXTENDS Naturals, Sequences

CONSTANTS Item,      \* the messages (identified by the block that holds them)
          Capacity,  \* how many accepted messages the channel holds
          Nothing    \* "no message"

VARIABLES open,      \* the channel was created
          offered,   \* offered, not answered yet
          accepted,  \* accepted, not taken yet, oldest first
          taken      \* the message being handled, or Nothing

chanVars == <<open, offered, accepted, taken>>

InChannel == offered \cup {accepted[i] : i \in 1 .. Len(accepted)} \cup {taken}

Init ==
  /\ open = FALSE
  /\ offered = {}
  /\ accepted = <<>>
  /\ taken = Nothing

Open ==
  /\ ~open /\ offered = {}
  /\ open' = TRUE
  /\ UNCHANGED <<offered, accepted, taken>>

Offer(m) ==
  /\ m \notin InChannel
  /\ offered' = offered \cup {m}
  /\ UNCHANGED <<open, accepted, taken>>

Accept(m) ==
  /\ open /\ m \in offered
  /\ Len(accepted) < Capacity
  /\ offered' = offered \ {m}
  /\ accepted' = Append(accepted, m)
  /\ UNCHANGED <<open, taken>>

Refuse(m) ==
  /\ m \in offered
  /\ ~open \/ Len(accepted) = Capacity
  /\ offered' = offered \ {m}
  /\ UNCHANGED <<open, accepted, taken>>

Take ==
  /\ taken = Nothing
  /\ accepted # <<>>
  /\ taken' = Head(accepted)
  /\ accepted' = Tail(accepted)
  /\ UNCHANGED <<open, offered>>

Settle ==
  /\ taken # Nothing
  /\ taken' = Nothing
  /\ UNCHANGED <<open, offered, accepted>>

Answer(m) == Accept(m) \/ Refuse(m)

Next ==
  \/ Open
  \/ \E m \in Item : Offer(m) \/ Answer(m)
  \/ Take
  \/ Settle

SafeSpec == Init /\ [][Next]_chanVars

(* Every offer is answered, and the message being handled is settled.      *)
Live ==
  /\ \A m \in Item : (m \in offered) ~> (m \notin offered)
  /\ \A m \in Item : (taken = m) ~> (taken # m)
=============================================================================
