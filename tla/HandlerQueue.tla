---------------------------- MODULE HandlerQueue ----------------------------
(***************************************************************************)
(* The event queue between gdialServiceImpl and one of its handler         *)
(* threads.  gdialservice.cpp has the same code twice: sendRequest() and   *)
(* requestHandlerThread() for what the host tells the server,              *)
(* notifyResponse() and responseHandlerThread() for what the server asks   *)
(* of the host.  The definitions below are named and mapped after the      *)
(* request side; the response side differs in names only.                  *)
(*                                                                         *)
(* Senders hold the event mutex while they push, set Run and notify.  The  *)
(* thread holds it only while it waits for Run: it tests Exit, tests and   *)
(* pops the queue and clears Run without it.  Every such access is a step. *)
(* The mutex serialises the senders, so one critical section stands for    *)
(* any number of sending threads.                                          *)
(*                                                                         *)
(* std::queue is not safe for a push concurrent with empty(), front() or   *)
(* pop().  A thread step that falls inside a push (mutex = "push") is such *)
(* a data race: it sets the history variable raced, and what it reads or   *)
(* leaves behind is a choice over what the deque can produce.              *)
(***************************************************************************)
EXTENDS Naturals, Sequences

CONSTANTS Message,      \* events: RequestHandlerPayload values
          NoMessage,    \* the cleared local payload
          Garbage,      \* a payload read while it is being written
          MaxSends      \* bound on the number of events ever sent

ASSUME MessageAssumption ==
  /\ NoMessage \notin Message
  /\ Garbage \notin Message
  /\ Garbage # NoMessage
ASSUME MaxSendsAssumption == MaxSends \in Nat

VARIABLES run,          \* m_RequestHandlerThreadRun
          exit,         \* m_RequestHandlerThreadExit
          queue,        \* m_RequestHandlerQueue
          mutex,        \* m_RequestHandlerEventMutex: "free", or how far its holder is
          incoming,     \* the payload the holder of the mutex is pushing
          pc,           \* where the handler thread is
          item,         \* reqHdlrPayload
          stop,         \* how far stop_GDialServer() is with this thread
          sent,         \* history: everything pushed
          handled,      \* history: everything dispatched
          raced         \* history: the queue was accessed inside a push

vars == <<run, exit, queue, mutex, incoming, pc, item, stop, sent, handled, raced>>

\* "blocked" is inside m_RequestHandlerCV.wait(), off the mutex.
Locations ==
  {"loop", "lock", "blocked", "exitTest", "emptyTest", "clearRun", "take",
   "dispatch", "done"}

TypeOK ==
  /\ run \in BOOLEAN
  /\ exit \in BOOLEAN
  /\ queue \in Seq(Message)
  /\ mutex \in {"free", "push", "signal"}
  /\ incoming \in Message \cup {NoMessage}
  /\ mutex = "push" => incoming \in Message
  /\ pc \in Locations
  /\ item \in Message \cup {NoMessage, Garbage}
  /\ pc = "dispatch" => item # NoMessage
  /\ stop \in {"running", "exitSet", "notified"}
  /\ sent \in Seq(Message)
  /\ handled \in Seq(Message \cup {Garbage})
  /\ raced \in BOOLEAN

Init ==
  /\ run = FALSE
  /\ exit = FALSE
  /\ queue = <<>>
  /\ mutex = "free"
  /\ incoming = NoMessage
  /\ pc = "loop"
  /\ item = NoMessage
  /\ stop = "running"
  /\ sent = <<>>
  /\ handled = <<>>
  /\ raced = FALSE

-----------------------------------------------------------------------------
\* Senders.

\* notify_one(): only this thread ever waits on the condition variable.
NotifyOne == IF pc = "blocked" THEN "lock" ELSE pc

\* MUTANT of SendRequest: the payload is not copied.
SendRequestNoPayload(m) ==
  /\ mutex = "free"
  /\ Len(sent) < MaxSends
  /\ mutex' = "push"
  /\ UNCHANGED <<run, exit, queue, incoming, pc, item, stop, sent, handled, raced>>

\* A function of the API, or a request of the server to the host, has built a
\* payload; sendRequest() takes the mutex and begins to push.
SendRequest(m) ==
  /\ mutex = "free"
  /\ Len(sent) < MaxSends
  /\ mutex' = "push"
  /\ incoming' = m
  /\ UNCHANGED <<run, exit, queue, pc, item, stop, sent, handled, raced>>

\* The push is complete.
Push ==
  /\ mutex = "push"
  /\ mutex' = "signal"
  /\ queue' = Append(queue, incoming)
  /\ sent' = Append(sent, incoming)
  /\ incoming' = NoMessage
  /\ UNCHANGED <<run, exit, pc, item, stop, handled, raced>>

\* Run is set, the thread notified, the mutex released.
Signal ==
  /\ mutex = "signal"
  /\ mutex' = "free"
  /\ run' = TRUE
  /\ pc' = NotifyOne
  /\ UNCHANGED <<exit, queue, incoming, item, stop, sent, handled, raced>>

-----------------------------------------------------------------------------
\* stop_GDialServer().

\* Exit is set before the mutex is taken.
StopSetExit ==
  /\ stop = "running"
  /\ stop' = "exitSet"
  /\ exit' = TRUE
  /\ UNCHANGED <<run, queue, mutex, incoming, pc, item, sent, handled, raced>>

\* Under the mutex: Run is set so that the wait ends.
StopNotify ==
  /\ stop = "exitSet"
  /\ mutex = "free"
  /\ stop' = "notified"
  /\ run' = TRUE
  /\ pc' = NotifyOne
  /\ UNCHANGED <<exit, queue, mutex, incoming, item, sent, handled, raced>>

-----------------------------------------------------------------------------
\* The handler thread.

\* MUTANT of LoopTest: while (true).
LoopTestForever ==
  /\ pc = "loop"
  /\ pc' = "lock"
  /\ item' = NoMessage
  /\ UNCHANGED <<run, exit, queue, mutex, incoming, stop, sent, handled, raced>>

\* while (!m_RequestHandlerThreadExit), and the payload is cleared.
LoopTest ==
  /\ pc = "loop"
  /\ pc' = IF exit THEN "done" ELSE "lock"
  /\ item' = NoMessage
  /\ UNCHANGED <<run, exit, queue, mutex, incoming, stop, sent, handled, raced>>

\* The mutex is taken and the predicate tested: the thread goes on, or it
\* blocks and releases the mutex.
WaitForRun ==
  /\ pc = "lock"
  /\ mutex = "free"
  /\ pc' = IF run THEN "exitTest" ELSE "blocked"
  /\ UNCHANGED <<run, exit, queue, mutex, incoming, item, stop, sent, handled, raced>>

\* A condition variable may wake without a notification; the predicate is
\* then tested again.
SpuriousWakeup ==
  /\ pc = "blocked"
  /\ pc' = "lock"
  /\ UNCHANGED <<run, exit, queue, mutex, incoming, item, stop, sent, handled, raced>>

\* MUTANT of ExitTest: the test after the wait is missing.
ExitTestMissing ==
  /\ pc = "exitTest"
  /\ pc' = "emptyTest"
  /\ UNCHANGED <<run, exit, queue, mutex, incoming, item, stop, sent, handled, raced>>

\* Exit is tested again after the wait.
ExitTest ==
  /\ pc = "exitTest"
  /\ IF exit
     THEN run' = FALSE /\ pc' = "done"
     ELSE UNCHANGED run /\ pc' = "emptyTest"
  /\ UNCHANGED <<exit, queue, mutex, incoming, item, stop, sent, handled, raced>>

\* The queue is accessed while a sender is inside push().
Overlap == mutex = "push"

\* m_RequestHandlerQueue.empty().  An empty queue that is being pushed to may
\* already look non-empty.
EmptyTest ==
  /\ pc = "emptyTest"
  /\ \/ queue = <<>> /\ pc' = "clearRun" /\ UNCHANGED raced
     \/ queue # <<>> /\ pc' = "take" /\ UNCHANGED raced
     \/ queue = <<>> /\ Overlap /\ pc' = "take" /\ raced' = TRUE
  /\ UNCHANGED <<run, exit, queue, mutex, incoming, item, stop, sent, handled>>

\* Run is cleared, without the mutex, on what EmptyTest saw.
ClearRun ==
  /\ pc = "clearRun"
  /\ run' = FALSE
  /\ pc' = "loop"
  /\ UNCHANGED <<exit, queue, mutex, incoming, item, stop, sent, handled, raced>>

\* MUTANT of Take: front() without pop().
TakeWithoutPop ==
  /\ pc = "take"
  /\ queue # <<>>
  /\ pc' = "dispatch"
  /\ item' = Head(queue)
  /\ UNCHANGED <<run, exit, queue, mutex, incoming, stop, sent, handled, raced>>

\* front() and pop().  Inside a push, front() may copy a half-written
\* payload and the push may undo the pop (both write the deque's first
\* node); the same holds of an element seen too early by EmptyTest.
Take ==
  /\ pc = "take"
  /\ pc' = "dispatch"
  /\ \/ /\ queue # <<>>
        /\ item' = Head(queue)
        /\ queue' = Tail(queue)
        /\ UNCHANGED raced
     \/ /\ Overlap \/ queue = <<>>
        /\ raced' = TRUE
        /\ item' \in Message \cup {Garbage}
        /\ \/ UNCHANGED queue
           \/ queue # <<>> /\ queue' = Tail(queue)
  /\ UNCHANGED <<run, exit, mutex, incoming, stop, sent, handled>>

\* The switch over the event: the handler runs to completion.
Dispatch ==
  /\ pc = "dispatch"
  /\ pc' = "loop"
  /\ handled' = Append(handled, item)
  /\ item' = NoMessage
  /\ UNCHANGED <<run, exit, queue, mutex, incoming, stop, sent, raced>>

-----------------------------------------------------------------------------
\* One step of the loop that requestHandlerThread() and
\* responseHandlerThread() share.
HandlerThread ==
  \/ LoopTest
  \/ WaitForRun
  \/ ExitTest
  \/ EmptyTest
  \/ ClearRun
  \/ Take
  \/ Dispatch

\* The end of sendRequest(), or of notifyResponse().
Sender == Push \/ Signal

Next ==
  \/ \E m \in Message : SendRequest(m)
  \/ Sender
  \/ StopSetExit
  \/ StopNotify
  \/ SpuriousWakeup
  \/ HandlerThread

Spec == Init /\ [][Next]_vars

\* The scheduler runs every thread that can run, and the mutex is eventually
\* granted to the handler thread and to stop_GDialServer() (strong fairness
\* where a step needs it).  Nobody has to send, nobody has to stop, and no
\* wakeup is owed but by notify_one().
Fairness ==
  /\ WF_vars(Sender)
  /\ WF_vars(HandlerThread)
  /\ SF_vars(WaitForRun)
  /\ SF_vars(StopNotify)

FairSpec == Spec /\ Fairness
-----------------------------------------------------------------------------
(***************************************************************************)
(* Properties                                                              *)
(***************************************************************************)

\* What the thread has taken and not dispatched yet.
InHand == IF pc = "dispatch" THEN <<item>> ELSE <<>>

\* Events are neither lost, duplicated nor reordered between sendRequest()
\* and the handler, unless the thread touched the queue during a push: what
\* was sent is what was handled, then what is in hand, then what is queued.
FifoUnlessRaced == ~raced => sent = handled \o InHand \o queue

\* Once stop_GDialServer() has notified a thread, the thread cannot block
\* again: a Run flag that the thread clears afterwards is cleared on the way
\* to a test of Exit.  (stop_GDialServer() joins the thread next.)
StoppedThreadNeverBlocks ==
  stop = "notified" => pc # "blocked" /\ (pc = "lock" => run)

\* stop_GDialServer() terminates the thread.
StopTerminatesThread == stop = "exitSet" ~> pc = "done"

\* Line 638: "Wait for a message to be added to the queue".  The thread is
\* only blocked while the queue is empty, or a sender is about to notify it.
BlockedOnlyWhenEmpty ==
  pc = "blocked" => queue = <<>> \/ mutex = "signal"

\* The code implements the channel its callers rely on.
Channel == INSTANCE EventChannel WITH
  pending <- queue,
  inHand <- InHand,
  delivered <- handled,
  sending <- IF mutex = "push" THEN <<incoming>> ELSE <<>>,
  closed <- exit,
  grace <- exit /\ pc \in {"emptyTest", "take"},
  spoiled <- raced

ImplementsChannel == Channel!Spec
=============================================================================
