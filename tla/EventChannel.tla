---------------------------- MODULE EventChannel ----------------------------
(***************************************************************************)
(* What gdialServiceImpl promises to the callers of sendRequest() and      *)
(* notifyResponse(): the events that were queued are handed to the handler *)
(* one at a time, each once, in the order in which they were queued, and   *)
(* closing the channel lets at most one more event be taken.               *)
(*                                                                         *)
(* The promise has one limit, which the specification states: an event     *)
(* that is received while another one is being queued may spoil the        *)
(* channel (spoiled), and a spoiled channel promises nothing.  Nothing but *)
(* such an overlap spoils it.                                              *)
(***************************************************************************)
EXTENDS Sequences

CONSTANT Message        \* the events that can be queued

VARIABLES pending,      \* queued, not yet taken
          inHand,       \* taken, not yet delivered: <<>> or <<m>>
          delivered,    \* everything the handler has been given, in order
          sending,      \* an event is being queued: <<>> or <<m>>
          closed,       \* the channel was told to stop
          grace,        \* a closed channel may still take one event
          spoiled       \* a receive overlapped a send

vars == <<pending, inHand, delivered, sending, closed, grace, spoiled>>

Init ==
  /\ pending = <<>>
  /\ inHand = <<>>
  /\ delivered = <<>>
  /\ sending = <<>>
  /\ closed = FALSE
  /\ grace = FALSE
  /\ spoiled = FALSE

\* A sender starts to queue an event; senders exclude each other.
StartSend(m) ==
  /\ sending = <<>>
  /\ sending' = <<m>>
  /\ UNCHANGED <<pending, inHand, delivered, closed, grace, spoiled>>

\* The event is queued, behind all the others.
EndSend ==
  /\ sending # <<>>
  /\ pending' = pending \o sending
  /\ sending' = <<>>
  /\ UNCHANGED <<inHand, delivered, closed, grace, spoiled>>

\* The oldest event is taken.  A closed channel does so once, at most.
Take ==
  /\ inHand = <<>>
  /\ pending # <<>>
  /\ closed => grace
  /\ inHand' = <<Head(pending)>>
  /\ pending' = Tail(pending)
  /\ grace' = FALSE
  /\ UNCHANGED <<delivered, sending, closed, spoiled>>

\* The handler is given the event that was taken.
Deliver ==
  /\ inHand # <<>>
  /\ delivered' = delivered \o inHand
  /\ inHand' = <<>>
  /\ UNCHANGED <<pending, sending, closed, grace, spoiled>>

\* The channel is closed; a receive that is under way may complete.
Close ==
  /\ ~closed
  /\ closed' = TRUE
  /\ grace' \in BOOLEAN
  /\ UNCHANGED <<pending, inHand, delivered, sending, spoiled>>

\* The receive that was under way when the channel closed took nothing.
Expire ==
  /\ grace
  /\ grace' = FALSE
  /\ UNCHANGED <<pending, inHand, delivered, sending, closed, spoiled>>

\* A receive overlaps a send.
Spoil ==
  /\ ~spoiled
  /\ sending # <<>>
  /\ spoiled' = TRUE

\* A spoiled channel stays spoiled and may do anything.
Anything == spoiled /\ spoiled'

Next ==
  \/ \E m \in Message : StartSend(m)
  \/ EndSend
  \/ Take
  \/ Deliver
  \/ Close
  \/ Expire
  \/ Spoil
  \/ Anything

Spec == Init /\ [][Next]_vars
=============================================================================
