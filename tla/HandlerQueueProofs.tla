------------------------- MODULE HandlerQueueProofs -------------------------
(***************************************************************************)
(* Proofs about HandlerQueue, for any set of events and any number of      *)
(* sends: its invariants, and that it implements EventChannel.             *)
(***************************************************************************)
EXTENDS HandlerQueue, SequenceTheorems, TLAPS

-----------------------------------------------------------------------------
\* Facts about sequences.

\* The empty sequence is a sequence over any set.
LEMMA EmptyType ==
  ASSUME NEW S
  PROVE  <<>> \in Seq(S)
  OBVIOUS

\* Appending types: an appended sequence has the same kind of elements.
LEMMA AppendType ==
  ASSUME NEW S, NEW s \in Seq(S), NEW e \in S
  PROVE  Append(s, e) \in Seq(S)
  OBVIOUS

\* The tail of a non-empty sequence, and its head, stay in the set.
LEMMA HeadTailType ==
  ASSUME NEW S, NEW s \in Seq(S), s # <<>>
  PROVE  Head(s) \in S /\ Tail(s) \in Seq(S)
  OBVIOUS

\* A non-empty sequence is its head followed by its tail.
LEMMA HeadThenTail ==
  ASSUME NEW S, NEW s \in Seq(S), s # <<>>
  PROVE  <<Head(s)>> \o Tail(s) = s
  OBVIOUS

\* Take: the head may stand in the hand or in front of the queue.
LEMMA TakeConcat ==
  ASSUME NEW E, NEW h \in Seq(E), NEW q \in Seq(E), q # <<>>
  PROVE  h \o <<>> \o q = h \o <<Head(q)>> \o Tail(q)
<1>1. <<Head(q)>> \in Seq(E) /\ Tail(q) \in Seq(E)
  BY HeadTailType
<1>2. h \o <<>> = h
  BY ConcatEmptySeq
<1>3. <<Head(q)>> \o Tail(q) = q
  BY HeadThenTail
<1>4. (h \o <<Head(q)>>) \o Tail(q) = h \o (<<Head(q)>> \o Tail(q))
  BY <1>1, ConcatAssociative
<1> QED
  BY <1>2, <1>3, <1>4

\* Dispatch: what was in the hand is appended to what was handled.
LEMMA DispatchConcat ==
  ASSUME NEW E, NEW h \in Seq(E), NEW e \in E, NEW q
  PROVE  h \o <<e>> \o q = Append(h, e) \o <<>> \o q
<1>1. Append(h, e) \in Seq(E) /\ Append(h, e) = h \o <<e>>
  BY AppendType, AppendIsConcat
<1>2. Append(h, e) \o <<>> = Append(h, e)
  BY <1>1, ConcatEmptySeq
<1> QED
  BY <1>1, <1>2

-----------------------------------------------------------------------------
\* Type correctness: every step of the senders, of stop_GDialServer() and of
\* the handler thread keeps the variables well typed.
THEOREM TypeCorrect == Spec => []TypeOK
<1>1. Init => TypeOK
  <2> SUFFICES ASSUME Init PROVE TypeOK
    OBVIOUS
  <2>1. queue \in Seq(Message) /\ sent \in Seq(Message) /\ handled \in Seq(Message \cup {Garbage})
    BY EmptyType DEF Init
  <2> QED
    BY <2>1 DEF Init, TypeOK, Locations
<1>2. TypeOK /\ [Next]_vars => TypeOK'
  <2> SUFFICES ASSUME TypeOK, [Next]_vars PROVE TypeOK'
    OBVIOUS
  <2> USE DEF TypeOK, Locations
  <2>1. ASSUME NEW m \in Message, SendRequest(m) PROVE TypeOK'
    BY <2>1 DEF SendRequest
  <2>2. CASE Push
    BY <2>2, AppendType DEF Push
  <2>3. CASE Signal
    BY <2>3 DEF Signal, NotifyOne
  <2>4. CASE StopSetExit
    BY <2>4 DEF StopSetExit
  <2>5. CASE StopNotify
    BY <2>5 DEF StopNotify, NotifyOne
  <2>6. CASE SpuriousWakeup
    BY <2>6 DEF SpuriousWakeup
  <2>7. CASE LoopTest
    BY <2>7 DEF LoopTest
  <2>8. CASE WaitForRun
    BY <2>8 DEF WaitForRun
  <2>9. CASE ExitTest
    BY <2>9 DEF ExitTest
  <2>10. CASE EmptyTest
    BY <2>10 DEF EmptyTest
  <2>11. CASE ClearRun
    BY <2>11 DEF ClearRun
  <2>12. CASE Take
    BY <2>12, HeadTailType, MessageAssumption DEF Take
  <2>13. CASE Dispatch
    <3>1. handled' \in Seq(Message \cup {Garbage})
      BY <2>13, AppendType DEF Dispatch
    <3> QED
      BY <2>13, <3>1 DEF Dispatch
  <2>14. CASE UNCHANGED vars
    BY <2>14 DEF vars
  <2> QED
    BY <2>1, <2>2, <2>3, <2>4, <2>5, <2>6, <2>7, <2>8, <2>9, <2>10, <2>11,
       <2>12, <2>13, <2>14 DEF Next, Sender, HandlerThread
<1> QED
  BY <1>1, <1>2, PTL DEF Spec

-----------------------------------------------------------------------------
(***************************************************************************)
(* First in, first out.  FifoUnlessRaced is not inductive: Take assumes    *)
(* that the queue is still as non-empty as EmptyTest saw it.  The handler  *)
(* thread is the only one that removes events, so it is.                   *)
(***************************************************************************)
TakeFindsEvent == ~raced /\ pc = "take" => queue # <<>>

FifoInv == FifoUnlessRaced /\ TakeFindsEvent

\* A race is remembered.
LEMMA RacedStays == TypeOK /\ [Next]_vars /\ raced => raced'
<1> SUFFICES ASSUME TypeOK, [Next]_vars, raced PROVE raced'
  OBVIOUS
<1>1. ASSUME NEW m \in Message, SendRequest(m) PROVE raced'
  BY <1>1 DEF SendRequest
<1>2. CASE Sender \/ StopSetExit \/ StopNotify \/ SpuriousWakeup
  BY <1>2 DEF Sender, Push, Signal, StopSetExit, StopNotify, SpuriousWakeup
<1>3. CASE LoopTest \/ WaitForRun \/ ExitTest \/ ClearRun \/ Dispatch
  BY <1>3 DEF LoopTest, WaitForRun, ExitTest, ClearRun, Dispatch
<1>4. CASE EmptyTest
  BY <1>4 DEF EmptyTest
<1>5. CASE Take
  BY <1>5 DEF Take
<1>6. CASE UNCHANGED vars
  BY <1>6 DEF vars
<1> QED
  BY <1>1, <1>2, <1>3, <1>4, <1>5, <1>6 DEF Next, HandlerThread

\* FifoInv is inductive, relative to TypeOK: no step that stays outside a
\* push loses, duplicates or reorders an event.
LEMMA FifoInductive == TypeOK /\ TypeOK' /\ FifoInv /\ [Next]_vars => FifoInv'
<1> SUFFICES ASSUME TypeOK, TypeOK', FifoInv, [Next]_vars, ~raced'
             PROVE  FifoInv'
  BY DEF FifoInv, FifoUnlessRaced, TakeFindsEvent
<1> DEFINE E == Message \cup {Garbage, NoMessage}
<1>1. /\ handled \in Seq(E) /\ queue \in Seq(E) /\ sent \in Seq(E)
      /\ InHand \in Seq(E) /\ item \in E /\ incoming \in E
  <2>1. queue \in Seq(E) /\ sent \in Seq(E) /\ handled \in Seq(E) /\ item \in E /\ incoming \in E
    BY DEF TypeOK
  <2>2. <<item>> \in Seq(E) /\ <<>> \in Seq(E)
    BY <2>1
  <2> QED
    BY <2>1, <2>2 DEF InHand
<1>2. ~raced /\ sent = handled \o InHand \o queue
  BY RacedStays DEF FifoInv, FifoUnlessRaced
<1> HIDE DEF E
<1>push. Append(handled \o InHand \o queue, incoming) = handled \o InHand \o Append(queue, incoming)
  <2>1. handled \o InHand \in Seq(E) /\ <<incoming>> \in Seq(E)
    BY <1>1, ConcatProperties
  <2>2. ASSUME NEW s \in Seq(E) PROVE Append(s \o queue, incoming) = s \o Append(queue, incoming)
    <3>1. s \o queue \in Seq(E)
      BY <1>1, ConcatProperties
    <3>2. Append(s \o queue, incoming) = (s \o queue) \o <<incoming>>
      BY <1>1, <3>1, AppendIsConcat
    <3>3. (s \o queue) \o <<incoming>> = s \o (queue \o <<incoming>>)
      BY <1>1, <2>1, ConcatAssociative
    <3>4. Append(queue, incoming) = queue \o <<incoming>>
      BY <1>1, AppendIsConcat
    <3> QED
      BY <3>2, <3>3, <3>4
  <2> QED
    BY <2>1, <2>2
<1>disp. handled \o <<item>> \o queue = Append(handled, item) \o <<>> \o queue
  <2>1. ASSUME NEW h \in Seq(E), NEW e \in E, NEW q \in Seq(E)
        PROVE  h \o <<e>> \o q = Append(h, e) \o <<>> \o q
    BY DispatchConcat
  <2> QED
    BY <1>1, <2>1
<1> USE DEF FifoInv, FifoUnlessRaced, TakeFindsEvent
<1>3. ASSUME UNCHANGED <<queue, sent, handled, item>>, (pc = "dispatch") = (pc' = "dispatch"),
             pc' = "take" => queue # <<>>
      PROVE  FifoInv'
  BY <1>2, <1>3 DEF InHand
<1>4. ASSUME NEW m \in Message, SendRequest(m) PROVE FifoInv'
  BY <1>4, <1>2, <1>3 DEF SendRequest
<1>5. CASE Push
  <2>1. Append(handled \o InHand \o queue, incoming) = handled \o InHand \o Append(queue, incoming)
    BY <1>push
  <2>2. InHand' = InHand
    BY <1>5 DEF Push, InHand
  <2>3. Append(queue, incoming) # <<>>
    BY <1>1, AppendProperties
  <2> QED
    BY <1>5, <1>2, <2>1, <2>2, <2>3 DEF Push
<1>6. CASE Signal
  BY <1>6, <1>2, <1>3 DEF Signal, NotifyOne
<1>7. CASE StopSetExit
  BY <1>7, <1>2, <1>3 DEF StopSetExit
<1>8. CASE StopNotify
  BY <1>8, <1>2, <1>3 DEF StopNotify, NotifyOne
<1>9. CASE SpuriousWakeup
  BY <1>9, <1>2, <1>3 DEF SpuriousWakeup
<1>10. CASE LoopTest
  BY <1>10, <1>2 DEF LoopTest, InHand
<1>11. CASE WaitForRun
  BY <1>11, <1>2, <1>3 DEF WaitForRun
<1>12. CASE ExitTest
  BY <1>12, <1>2, <1>3 DEF ExitTest
<1>13. CASE EmptyTest
  BY <1>13, <1>2, <1>3 DEF EmptyTest
<1>14. CASE ClearRun
  BY <1>14, <1>2, <1>3 DEF ClearRun
<1>15. CASE Take
  <2>1. queue # <<>> /\ item' = Head(queue) /\ queue' = Tail(queue) /\ pc' = "dispatch"
        /\ InHand = <<>> /\ InHand' = <<Head(queue)>> /\ UNCHANGED <<sent, handled>>
    BY <1>15, <1>2 DEF Take, InHand
  <2>2. handled \o <<>> \o queue = handled \o <<Head(queue)>> \o Tail(queue)
    BY <1>1, <2>1, TakeConcat, Zenon
  <2> QED
    BY <1>2, <2>1, <2>2
<1>16. CASE Dispatch
  <2>1. InHand = <<item>> /\ InHand' = <<>> /\ handled' = Append(handled, item)
        /\ UNCHANGED <<sent, queue>> /\ pc' # "take"
    BY <1>16 DEF Dispatch, InHand
  <2>2. handled \o <<item>> \o queue = Append(handled, item) \o <<>> \o queue
    BY <1>disp
  <2> QED
    BY <1>2, <2>1, <2>2
<1>17. CASE UNCHANGED vars
  BY <1>17, <1>2, <1>3 DEF vars
<1> QED
  BY <1>4, <1>5, <1>6, <1>7, <1>8, <1>9, <1>10, <1>11, <1>12, <1>13, <1>14,
     <1>15, <1>16, <1>17 DEF Next, Sender, HandlerThread

\* Whatever is sent and however the threads interleave, as long as the thread
\* has not touched the queue during a push: what was sent is what was handled,
\* then what is in hand, then what is queued.
THEOREM Fifo == Spec => []FifoUnlessRaced
<1>1. Init => FifoInv
  <2> SUFFICES ASSUME Init PROVE FifoInv
    OBVIOUS
  <2>1. <<>> \o <<>> \o <<>> = <<>>
    BY EmptyType, ConcatEmptySeq
  <2> QED
    BY <2>1 DEF Init, FifoInv, FifoUnlessRaced, TakeFindsEvent, InHand
<1>2. FifoInv => FifoUnlessRaced
  BY DEF FifoInv
<1> QED
  BY <1>1, <1>2, FifoInductive, TypeCorrect, PTL DEF Spec

-----------------------------------------------------------------------------
(***************************************************************************)
(* Stopping.  That a notified thread does not block rests on the order in  *)
(* stop_GDialServer(): Exit is set before Run is.                          *)
(***************************************************************************)
ExitFollowsStop == exit <=> stop # "running"

StopInv == StoppedThreadNeverBlocks /\ ExitFollowsStop

\* StopInv is inductive, relative to TypeOK.
LEMMA StopInductive == TypeOK /\ StopInv /\ [Next]_vars => StopInv'
<1> SUFFICES ASSUME TypeOK, StopInv, [Next]_vars PROVE StopInv'
  OBVIOUS
<1> USE DEF TypeOK, StopInv, StoppedThreadNeverBlocks, ExitFollowsStop
<1>1. ASSUME NEW m \in Message, SendRequest(m) PROVE StopInv'
  BY <1>1 DEF SendRequest
<1>2. CASE Push
  BY <1>2 DEF Push
<1>3. CASE Signal
  BY <1>3 DEF Signal, NotifyOne
<1>4. CASE StopSetExit
  BY <1>4 DEF StopSetExit
<1>5. CASE StopNotify
  BY <1>5 DEF StopNotify, NotifyOne
<1>6. CASE SpuriousWakeup
  BY <1>6 DEF SpuriousWakeup
<1>7. CASE LoopTest
  BY <1>7 DEF LoopTest
<1>8. CASE WaitForRun
  BY <1>8 DEF WaitForRun
<1>9. CASE ExitTest
  BY <1>9 DEF ExitTest
<1>10. CASE EmptyTest
  BY <1>10 DEF EmptyTest
<1>11. CASE ClearRun
  BY <1>11 DEF ClearRun
<1>12. CASE Take
  BY <1>12 DEF Take
<1>13. CASE Dispatch
  BY <1>13 DEF Dispatch
<1>14. CASE UNCHANGED vars
  BY <1>14 DEF vars
<1> QED
  BY <1>1, <1>2, <1>3, <1>4, <1>5, <1>6, <1>7, <1>8, <1>9, <1>10, <1>11,
     <1>12, <1>13, <1>14 DEF Next, Sender, HandlerThread

\* Once stop_GDialServer() has notified the thread, the thread never blocks
\* again, whatever Run flag it clears on its way.
THEOREM StopIsSafe == Spec => []StoppedThreadNeverBlocks
<1>1. Init => StopInv
  BY DEF Init, StopInv, StoppedThreadNeverBlocks, ExitFollowsStop
<1>2. StopInv => StoppedThreadNeverBlocks
  BY DEF StopInv
<1> QED
  BY <1>1, <1>2, StopInductive, TypeCorrect, PTL DEF Spec

\* The steps between a place in the loop and its end, for a thread that was told
\* to exit.
StepsLeft(place) ==
  CASE place = "done" -> 0
    [] place \in {"loop", "exitTest"} -> 1
    [] place \in {"lock", "clearRun", "dispatch"} -> 2
    [] place = "take" -> 3
    [] place = "emptyTest" -> 4
    [] OTHER -> 5

\* Once stop_GDialServer() has notified the thread, no send, wakeup or Run flag
\* takes the thread back: every move it makes brings it nearer to its end.
StoppedThreadGoesOn ==
  [][stop = "notified" => pc' = pc \/ StepsLeft(pc') < StepsLeft(pc)]_vars

\* The thread ends within four of its own steps; what StopTerminatesThread adds
\* is only that they are taken.
THEOREM StopIsFinite == Spec => StoppedThreadGoesOn /\ [](stop = "notified" => StepsLeft(pc) <= 4)
<1>1. TypeOK /\ StopInv /\ [Next]_vars =>
        [stop = "notified" => pc' = pc \/ StepsLeft(pc') < StepsLeft(pc)]_vars
  <2> SUFFICES ASSUME TypeOK, StopInv, Next, stop = "notified", pc' # pc
               PROVE  StepsLeft(pc') < StepsLeft(pc)
    BY DEF StoppedThreadGoesOn
  <2>0. exit /\ pc # "blocked" /\ (pc = "lock" => run)
    BY DEF StopInv, StoppedThreadNeverBlocks, ExitFollowsStop
  <2> USE DEF StepsLeft
  <2>1. CASE Signal \/ StopNotify \/ SpuriousWakeup
    BY <2>0, <2>1 DEF Signal, StopNotify, SpuriousWakeup, NotifyOne
  <2>2. CASE LoopTest
    BY <2>0, <2>2 DEF LoopTest
  <2>3. CASE WaitForRun
    BY <2>0, <2>3 DEF WaitForRun
  <2>4. CASE ExitTest
    BY <2>0, <2>4 DEF ExitTest
  <2>5. CASE EmptyTest
    BY <2>5 DEF EmptyTest
  <2>6. CASE ClearRun \/ Take \/ Dispatch
    BY <2>6 DEF ClearRun, Take, Dispatch
  <2>7. ASSUME (\E m \in Message : SendRequest(m)) \/ Push \/ StopSetExit PROVE FALSE
    BY <2>7 DEF SendRequest, Push, StopSetExit
  <2> QED
    BY <2>1, <2>2, <2>3, <2>4, <2>5, <2>6, <2>7 DEF Next, Sender, HandlerThread
<1>2. TypeOK /\ StopInv => (stop = "notified" => StepsLeft(pc) <= 4)
  BY DEF TypeOK, StopInv, StoppedThreadNeverBlocks, Locations, StepsLeft
<1>3. Init => StopInv
  BY DEF Init, StopInv, StoppedThreadNeverBlocks, ExitFollowsStop
<1> QED
  BY <1>1, <1>2, <1>3, StopInductive, TypeCorrect, PTL DEF Spec, StoppedThreadGoesOn

-----------------------------------------------------------------------------
(***************************************************************************)
(* Refinement.  Every step of the code is a step of EventChannel or leaves *)
(* its variables alone.                                                    *)
(***************************************************************************)

\* The initial state of the queue is that of the channel.
LEMMA ChannelInit == Init => Channel!Init
  BY DEF Init, Channel!Init, InHand

\* Every step of the code is allowed by the channel.
LEMMA ChannelStep ==
  TypeOK /\ FifoInv /\ StopInv /\ [Next]_vars => [Channel!Next]_(Channel!vars)
<1> SUFFICES ASSUME TypeOK, FifoInv, StopInv, [Next]_vars
             PROVE  Channel!Next \/ UNCHANGED Channel!vars
  OBVIOUS
<1>1. ASSUME NEW m \in Message, SendRequest(m) PROVE Channel!StartSend(m)
  BY <1>1 DEF SendRequest, Channel!StartSend, InHand
<1>2. CASE Push
  <2>1. Append(queue, incoming) = queue \o <<incoming>>
    BY <1>2, AppendIsConcat DEF Push, TypeOK
  <2>2. Channel!EndSend
    BY <1>2, <2>1 DEF Push, Channel!EndSend, InHand
  <2> QED
    BY <2>2 DEF Channel!Next
<1>3. CASE Signal
  <2>1. InHand' = InHand /\ (pc' \in {"emptyTest", "take"}) = (pc \in {"emptyTest", "take"})
    BY <1>3 DEF Signal, NotifyOne, InHand
  <2> QED
    BY <1>3, <2>1 DEF Signal, Channel!vars
<1>4. CASE StopSetExit
  <2>1. ~exit
    BY <1>4 DEF StopSetExit, StopInv, ExitFollowsStop
  <2>2. Channel!Close
    BY <1>4, <2>1 DEF StopSetExit, Channel!Close, InHand
  <2> QED
    BY <2>2 DEF Channel!Next
<1>5. CASE StopNotify
  <2>1. InHand' = InHand /\ (pc' \in {"emptyTest", "take"}) = (pc \in {"emptyTest", "take"})
    BY <1>5 DEF StopNotify, NotifyOne, InHand
  <2> QED
    BY <1>5, <2>1 DEF StopNotify, Channel!vars
<1>6. CASE SpuriousWakeup
  BY <1>6 DEF SpuriousWakeup, Channel!vars, InHand
<1>7. CASE LoopTest
  BY <1>7 DEF LoopTest, Channel!vars, InHand
<1>8. CASE WaitForRun
  BY <1>8 DEF WaitForRun, Channel!vars, InHand
<1>9. CASE ExitTest
  BY <1>9 DEF ExitTest, Channel!vars, InHand
<1>10. CASE EmptyTest
  <2>1. CASE pc' = "clearRun" /\ UNCHANGED raced /\ exit
    <3>1. Channel!Expire
      BY <1>10, <2>1 DEF EmptyTest, Channel!Expire, InHand
    <3> QED
      BY <3>1 DEF Channel!Next
  <2>2. CASE pc' = "clearRun" /\ UNCHANGED raced /\ ~exit
    BY <1>10, <2>2 DEF EmptyTest, Channel!vars, InHand
  <2>3. CASE pc' = "take" /\ UNCHANGED raced
    BY <1>10, <2>3 DEF EmptyTest, Channel!vars, InHand
  <2>4. CASE Overlap /\ raced' = TRUE
    BY <1>10, <2>4 DEF EmptyTest, Overlap, Channel!Spoil, Channel!Anything, Channel!Next
  <2> QED
    BY <1>10, <2>1, <2>2, <2>3, <2>4 DEF EmptyTest
<1>11. CASE ClearRun
  BY <1>11 DEF ClearRun, Channel!vars, InHand
<1>12. CASE Take
  <2>1. CASE queue # <<>> /\ item' = Head(queue) /\ queue' = Tail(queue) /\ UNCHANGED raced
    <3>1. Channel!Take
      BY <1>12, <2>1 DEF Take, Channel!Take, InHand
    <3> QED
      BY <3>1 DEF Channel!Next
  <2>2. CASE raced' = TRUE /\ raced
    BY <2>2 DEF Channel!Anything, Channel!Next
  <2>3. CASE raced' = TRUE /\ ~raced /\ (Overlap \/ queue = <<>>)
    <3>1. Overlap
      BY <1>12, <2>3 DEF Take, FifoInv, TakeFindsEvent
    <3> QED
      BY <2>3, <3>1 DEF Overlap, Channel!Spoil, Channel!Next
  <2> QED
    BY <1>12, <2>1, <2>2, <2>3 DEF Take
<1>13. CASE Dispatch
  <2>1. item \in Message \cup {Garbage} /\ handled \in Seq(Message \cup {Garbage})
    BY <1>13 DEF Dispatch, TypeOK
  <2>2. Append(handled, item) = handled \o <<item>>
    BY <2>1, AppendIsConcat
  <2>3. Channel!Deliver
    BY <1>13, <2>2 DEF Dispatch, Channel!Deliver, InHand
  <2> QED
    BY <2>3 DEF Channel!Next
<1>14. CASE UNCHANGED vars
  BY <1>14 DEF vars, Channel!vars, InHand
<1>15. ASSUME NEW m \in Message, SendRequest(m) PROVE Channel!Next
  BY <1>1, <1>15 DEF Channel!Next
<1> QED
  BY <1>15, <1>2, <1>3, <1>4, <1>5, <1>6, <1>7, <1>8, <1>9, <1>10, <1>11,
     <1>12, <1>13, <1>14 DEF Next, Sender, HandlerThread

\* sendRequest() and requestHandlerThread() implement the event channel that
\* their callers rely on.
THEOREM QueueImplementsChannel == Spec => ImplementsChannel
<1>1. Init => FifoInv /\ StopInv
  <2> SUFFICES ASSUME Init PROVE FifoInv /\ StopInv
    OBVIOUS
  <2>1. <<>> \o <<>> \o <<>> = <<>>
    BY EmptyType, ConcatEmptySeq
  <2>2. FifoInv
    BY <2>1 DEF Init, FifoInv, FifoUnlessRaced, TakeFindsEvent, InHand
  <2>3. StopInv
    BY DEF Init, StopInv, StoppedThreadNeverBlocks, ExitFollowsStop
  <2> QED
    BY <2>2, <2>3
<1> QED
  BY <1>1, ChannelInit, ChannelStep, FifoInductive, StopInductive, TypeCorrect, PTL
     DEF Spec, ImplementsChannel, Channel!Spec
=============================================================================
