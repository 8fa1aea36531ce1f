--------------------------- MODULE MessageChannel ---------------------------
(***************************************************************************)
(* What one direction of a webson connection promises: a channel of whole  *)
(* messages.  A message is sent by a call that may fail; it counts as sent *)
(* at one instant, and messages arrive in the order of those instants,     *)
(* each at most once.  Nothing promises that a sent message arrives, as    *)
(* the connection may end; Transfer adds when it does.                     *)
(***************************************************************************)
EXTENDS Naturals, Sequences

CONSTANT Msgs

VARIABLES
  stage,      \* what the sender knows of each message
  sent,       \* the messages that were sent, in order
  delivered   \* the messages handed to the receiving application, in order

vars == <<stage, sent, delivered>>

Stages == {"idle", "sending", "sent", "failed"}

TypeOK ==
  /\ stage \in [Msgs -> Stages]
  /\ sent \in Seq(Msgs)
  /\ delivered \in Seq(Msgs)

Init ==
  /\ stage = [m \in Msgs |-> "idle"]
  /\ sent = << >>
  /\ delivered = << >>

Send(m) ==
  /\ stage[m] = "idle"
  /\ stage' = [stage EXCEPT ![m] = "sending"]
  /\ UNCHANGED <<sent, delivered>>

Commit(m) ==
  /\ stage[m] = "sending"
  /\ stage' = [stage EXCEPT ![m] = "sent"]
  /\ sent' = Append(sent, m)
  /\ UNCHANGED delivered

Fail(m) ==
  /\ stage[m] = "sending"
  /\ stage' = [stage EXCEPT ![m] = "failed"]
  /\ UNCHANGED <<sent, delivered>>

Deliver ==
  /\ Len(delivered) < Len(sent)
  /\ delivered' = Append(delivered, sent[Len(delivered) + 1])
  /\ UNCHANGED <<stage, sent>>

Next ==
  \/ \E m \in Msgs : Send(m) \/ Commit(m) \/ Fail(m)
  \/ Deliver

Spec == Init /\ [][Next]_vars

-----------------------------------------------------------------------------
(***************************************************************************)
(* No message arrives that its call did not send, none arrives twice, and  *)
(* they arrive in the order in which they were sent.                       *)
(***************************************************************************)
InOrderOnce ==
  /\ Len(delivered) <= Len(sent)
  /\ \A i \in 1 .. Len(delivered) : delivered[i] = sent[i]
  /\ \A i \in 1 .. Len(sent) : stage[sent[i]] = "sent"
  /\ \A i, j \in 1 .. Len(sent) : sent[i] = sent[j] => i = j
=============================================================================
