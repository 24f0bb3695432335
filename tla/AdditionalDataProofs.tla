------------------------ MODULE AdditionalDataProofs ------------------------
(***************************************************************************)
(* Proofs about AdditionalData, for any applications and tables, and for   *)
(* any conversions that read a plain table back from its text.             *)
(***************************************************************************)
EXTENDS AdditionalData, SequenceTheorems, TLAPS

AnyText == UNION {Encode(t) : t \in Table}

\* The write in progress is a record.
OpIsRecord ==
  op \in [stage : {"idle", "delete", "create", "write"}, app : AppName \cup {NoFile},
          text : AnyText]

TypeInv == TypeOK /\ OpIsRecord

-----------------------------------------------------------------------------
\* The beginnings of a text.

\* What the assumptions say of the empty text.
LEMMA EmptyText == <<>> \in AnyText /\ <<>> # NoFile
<1>1. SubSeq(<<>>, 1, 0) = <<>> /\ Len(<<>>) = 0
  OBVIOUS
<1>2. <<>> \in Encode(EmptyTable) /\ EmptyTable \in Table
  BY TableAssumption
<1>3. NoFile # SubSeq(<<>>, 1, 0)
  <2>1. 0 \in 0..Len(<<>>)
    BY <1>1
  <2> QED
    BY <1>2, <2>1, NoneAssumption
<1> QED
  BY <1>1, <1>2, <1>3 DEF AnyText

\* A text is a sequence, and its longest beginning is the text; none is NoFile.
LEMMA TextIsSeq ==
  ASSUME NEW s \in AnyText
  PROVE  /\ s \in Seq(Range(s)) /\ Len(s) \in Nat
         /\ SubSeq(s, 1, Len(s)) = s
         /\ s # NoFile
<1>1. s \in Seq(Range(s))
  BY TextAssumption DEF AnyText
<1>2. Len(s) \in Nat /\ SubSeq(s, 1, Len(s)) = s
  BY <1>1, SubSeqFull, LenProperties
<1>3. Len(s) \in 0..Len(s)
  BY <1>2
<1> QED
  BY <1>1, <1>2, <1>3, NoneAssumption DEF AnyText

\* A beginning of a text, written to an empty file, is what the file holds.
LEMMA OverlayEmpty ==
  ASSUME NEW s \in AnyText, NEW i \in 0..Len(s)
  PROVE  Overlay(<<>>, SubSeq(s, 1, i)) = SubSeq(s, 1, i)
<1> DEFINE new == SubSeq(s, 1, i)
<1>1. new \in Seq(Range(s))
  BY TextIsSeq, SubSeqProperties
<1>2. Len(new) \in Nat
  BY <1>1, LenProperties
<1> HIDE DEF new
<1>3. Len(<<>>) = 0 /\ <<>> \in Seq(Range(s))
  OBVIOUS
<1>4. SubSeq(<<>>, Len(new) + 1, 0) = <<>>
  BY <1>2, <1>3, SubSeqEmpty
<1>5. new \o <<>> = new
  BY <1>1, ConcatEmptySeq
<1>6. Overlay(<<>>, new) = new
  BY <1>3, <1>4, <1>5 DEF Overlay
<1> QED
  BY <1>6 DEF new

-----------------------------------------------------------------------------
\* Type correctness of the initial states ...
LEMMA InitTypeInv == Init => TypeInv
<1> SUFFICES ASSUME Init PROVE TypeInv
  OBVIOUS
<1>1. OpIsRecord
  BY EmptyText DEF Init, OpIsRecord, NoOp
<1> QED
  BY <1>1, TableAssumption DEF Init, TypeInv, TypeOK, NoOp, Idle

\* ... and of one step.
LEMMA TypeInvInductive == TypeInv /\ [Next]_vars => TypeInv'
<1> SUFFICES ASSUME TypeInv, [Next]_vars PROVE TypeInv'
  OBVIOUS
<1> USE DEF TypeInv, TypeOK, OpIsRecord, Idle, Name
<1>0. NoOp \in [stage : {"idle", "delete", "create", "write"}, app : AppName \cup {NoFile},
                text : AnyText] /\ NoOp.stage = "idle"
  BY EmptyText DEF NoOp
<1>1. ASSUME NEW n \in Name, GetApp(n) PROVE TypeInv'
  BY <1>1 DEF GetApp, Keep, Forget
<1>2. ASSUME NEW n \in Name, Drop(n) PROVE TypeInv'
  BY <1>2 DEF Drop, Forget
<1>3. ASSUME NEW a \in AppName, Launch(a) PROVE TypeInv'
  BY <1>3 DEF Launch, Keep
<1>4. ASSUME NEW a \in AppName, NEW t \in Table, PostDialData(a, t) PROVE TypeInv'
  <2>1. PICK s \in Encode(t) : op' = [stage |-> "delete", app |-> a, text |-> s]
    BY <1>4 DEF PostDialData
  <2>2. OpIsRecord'
    BY <2>1 DEF AnyText
  <2>3. posted' \in [Name -> Table] /\ posted'[a] = t
    BY <1>4 DEF PostDialData
  <2>4. ever' \in [Name -> SUBSET Table]
    BY <1>4 DEF PostDialData
  <2> QED
    BY <1>4, <2>1, <2>2, <2>3, <2>4 DEF PostDialData
<1>5. CASE DeleteFile
  <2>1. CASE file' = [file EXCEPT ![op.app] = NoFile] /\ GoTo("create")
    BY <1>5, <2>1 DEF DeleteFile, GoTo
  <2>2. CASE End(FALSE) /\ UNCHANGED file
    BY <1>0, <1>5, <2>2 DEF DeleteFile, End
  <2> QED
    BY <1>5, <2>1, <2>2 DEF DeleteFile
<1>6. CASE CreateFile
  <2>1. CASE file' = [file EXCEPT ![op.app] = <<>>] /\ GoTo("write")
    BY <1>6, <2>1 DEF CreateFile, GoTo
  <2>2. CASE End(FALSE) /\ UNCHANGED file
    BY <1>0, <1>6, <2>2 DEF CreateFile, End
  <2> QED
    BY <1>6, <2>1, <2>2 DEF CreateFile
<1>7. CASE WriteFile
  BY <1>0, <1>7 DEF WriteFile, End
<1>8. CASE Crash
  BY <1>0, <1>8 DEF Crash
<1>9. CASE Reboot
  BY <1>0, <1>9, TableAssumption DEF Reboot
<1>10. CASE UNCHANGED vars
  BY <1>10 DEF vars
<1> QED
  BY <1>1, <1>2, <1>3, <1>4, <1>5, <1>6, <1>7, <1>8, <1>9, <1>10 DEF Next

\* Type correctness: the write in progress is that of the table last posted,
\* and at each of its stages the file is in the state that the stage expects.
THEOREM AdditionalDataTypeCorrect == Spec => []TypeOK
<1>1. TypeInv => TypeOK
  BY DEF TypeInv
<1> QED
  BY <1>1, InitTypeInv, TypeInvInductive, PTL DEF Spec

-----------------------------------------------------------------------------
(***************************************************************************)
(* Data of one post.  A write puts a beginning of the text of the table    *)
(* last posted into a file that was created empty, and a read sees what is *)
(* in the file.                                                            *)
(***************************************************************************)
WritesAPost == ~Idle => posted[op.app] \in ever[op.app]

OnePostInv == WritesAPost /\ DataIsOfOnePost

\* Whatever a request finds or reads is data of one post.
LEMMA FoundIsOfOnePost ==
  ASSUME DataIsOfOnePost, NEW n \in Name, NEW f \in FindOrNew(n), f.table # NoInstance
  PROVE  f.table \in ever[n] \cup {EmptyTable} \cup {Decode(s) : s \in PartsOfPosts(n)}
BY DEF FindOrNew, Refresh, DataIsOfOnePost

\* OnePostInv is inductive, relative to TypeInv.
LEMMA OnePostInductive == TypeInv /\ OnePostInv /\ [Next]_vars => OnePostInv'
<1> SUFFICES ASSUME TypeInv, OnePostInv, [Next]_vars PROVE OnePostInv'
  OBVIOUS
<1> USE DEF TypeInv, TypeOK, OpIsRecord, Idle, OnePostInv, WritesAPost
<1>0. ASSUME UNCHANGED <<file, ever, posted>>, op'.stage # "idle" => op' = op,
             \A n \in Name : inst'[n] \in {inst[n], NoInstance}
      PROVE  OnePostInv'
  BY <1>0 DEF DataIsOfOnePost, PartsOfPosts, Texts
<1>1. ASSUME NEW n \in Name, NEW f \in FindOrNew(n), Keep(n, f),
             UNCHANGED <<file, ever, posted, op>>
      PROVE  OnePostInv'
  <2>1. \A m \in Name : inst'[m] = IF m = n THEN f.table ELSE inst[m]
    BY <1>1 DEF Keep
  <2>2. \A m \in Name : PartsOfPosts(m)' = PartsOfPosts(m)
    BY <1>1 DEF PartsOfPosts, Texts
  <2> QED
    BY <1>1, <2>1, <2>2, FoundIsOfOnePost DEF DataIsOfOnePost
<1>2. ASSUME NEW n \in Name, Forget(n), UNCHANGED <<file, ever, posted, op>> PROVE OnePostInv'
  BY <1>0, <1>2 DEF Forget
<1>3. ASSUME NEW n \in Name, GetApp(n) PROVE OnePostInv'
  BY <1>1, <1>2, <1>3 DEF GetApp
<1>4. ASSUME NEW n \in Name, Drop(n) PROVE OnePostInv'
  BY <1>2, <1>4 DEF Drop
<1>5. ASSUME NEW a \in AppName, Launch(a) PROVE OnePostInv'
  BY <1>1, <1>5 DEF Launch, Name
<1>6. ASSUME NEW a \in AppName, NEW t \in Table, PostDialData(a, t) PROVE OnePostInv'
  <2>1. /\ \A n \in Name : ever[n] \subseteq ever'[n]
        /\ t \in ever'[a] /\ posted'[a] = t /\ op'.app = a
        /\ \A n \in Name : inst'[n] = IF n = a THEN t ELSE inst[n]
    BY <1>6 DEF PostDialData, Name
  <2>2. \A n \in Name : PartsOfPosts(n) \subseteq PartsOfPosts(n)'
    BY <2>1 DEF PartsOfPosts, Texts
  <2> QED
    BY <1>6, <2>1, <2>2 DEF DataIsOfOnePost, PostDialData, Name
<1>7. ASSUME UNCHANGED <<inst, ever, posted>>, op.app \in AppName,
             op'.stage # "idle" => op'.app = op.app, op.stage # "idle",
             NEW v, file' = [file EXCEPT ![op.app] = v], v = NoFile \/ v \in PartsOfPosts(op.app)
      PROVE  OnePostInv'
  <2>1. \A n \in Name : PartsOfPosts(n)' = PartsOfPosts(n)
    BY <1>7 DEF PartsOfPosts, Texts
  <2> QED
    BY <1>7, <2>1 DEF DataIsOfOnePost
<1>8. CASE DeleteFile
  <2>1. CASE file' = [file EXCEPT ![op.app] = NoFile] /\ GoTo("create")
    BY <1>7, <1>8, <2>1 DEF DeleteFile, GoTo
  <2>2. CASE End(FALSE) /\ UNCHANGED file
    BY <1>0, <1>8, <2>2 DEF DeleteFile, End, NoOp
  <2> QED
    BY <1>8, <2>1, <2>2 DEF DeleteFile
<1>9. CASE CreateFile
  <2>1. CASE file' = [file EXCEPT ![op.app] = <<>>] /\ GoTo("write")
    <3>1. <<>> \in PartsOfPosts(op.app)
      BY DEF PartsOfPosts
    <3>2. /\ UNCHANGED <<inst, ever, posted>> /\ op.app \in AppName
          /\ op'.app = op.app /\ op.stage # "idle"
      BY <1>9, <2>1 DEF CreateFile, GoTo
    <3> QED
      BY <1>7, <2>1, <3>1, <3>2
  <2>2. CASE End(FALSE) /\ UNCHANGED file
    BY <1>0, <1>9, <2>2 DEF CreateFile, End, NoOp
  <2> QED
    BY <1>9, <2>1, <2>2 DEF CreateFile
<1>10. CASE WriteFile
  <2>1. PICK i \in 0..Len(op.text) :
          file' = [file EXCEPT ![op.app] = Overlay(@, SubSeq(op.text, 1, i))]
    BY <1>10 DEF WriteFile
  <2>2. Overlay(file[op.app], SubSeq(op.text, 1, i)) = SubSeq(op.text, 1, i)
    BY <1>10, OverlayEmpty DEF WriteFile
  <2>3. SubSeq(op.text, 1, i) \in PartsOfPosts(op.app)
    <3>1. op.text \in Texts(op.app)
      BY <1>10 DEF WriteFile, Texts
    <3>2. SubSeq(op.text, 1, i) \in Parts(op.text)
      BY DEF Parts
    <3> QED
      BY <3>1, <3>2 DEF PartsOfPosts
  <2>4. file' = [file EXCEPT ![op.app] = SubSeq(op.text, 1, i)]
    BY <2>1, <2>2
  <2>5. /\ UNCHANGED <<inst, ever, posted>> /\ op.app \in AppName
        /\ op'.stage = "idle" /\ op.stage # "idle"
    BY <1>10 DEF WriteFile, End, NoOp
  <2> QED
    BY <1>7, <2>3, <2>4, <2>5
<1>11. CASE Crash
  BY <1>0, <1>11 DEF Crash, NoOp
<1>12. CASE Reboot
  BY <1>12 DEF Reboot, NoOp, DataIsOfOnePost
<1>13. CASE UNCHANGED vars
  BY <1>0, <1>13 DEF vars
<1> QED
  BY <1>3, <1>4, <1>5, <1>6, <1>8, <1>9, <1>10, <1>11, <1>12, <1>13 DEF Next

\* Whatever fails or crashes, the data of an application comes from one post
\* of its own, or from the beginning of its text.
THEOREM DataOfOnePost == Spec => []DataIsOfOnePost
<1>1. Init => OnePostInv
  BY DEF Init, OnePostInv, WritesAPost, Idle, NoOp, DataIsOfOnePost
<1>2. OnePostInv => DataIsOfOnePost
  BY DEF OnePostInv
<1> QED
  BY <1>1, <1>2, InitTypeInv, TypeInvInductive, OnePostInductive, PTL DEF Spec

-----------------------------------------------------------------------------
(***************************************************************************)
(* What a GET shows.  Of an application whose last write did not fail the  *)
(* file holds the whole text of what was posted, except while it is being  *)
(* written; an instance that could read its file has the table posted; and *)
(* nothing that was shown before a post counts after it.                   *)
(***************************************************************************)
FileIsWhole ==
  \A a \in AppName \ spoiled : Idle \/ op.app # a =>
    IF file[a] = NoFile THEN posted[a] = EmptyTable ELSE file[a] \in Encode(posted[a])
InstanceIsPosted ==
  \A a \in AppName \ spoiled :
    Plain(posted[a]) /\ inst[a] # NoInstance /\ a \notin blank => inst[a] = posted[a]
WriterHasPosted == ~Idle => inst[op.app] = posted[op.app] /\ shown = NoAnswer

ShownInv == FileIsWhole /\ InstanceIsPosted /\ WriterHasPosted /\ GetShowsPosted

\* What a request finds is the table posted, or it could not be read.
LEMMA FoundIsPosted ==
  ASSUME TypeInv, ShownInv, Idle, NEW a \in AppName \ spoiled, Plain(posted[a]),
         NEW f \in FindOrNew(a), ~f.unread
  PROVE  f.table = posted[a]
<1>1. CASE inst[a] # NoInstance
  <2>1. f = [table |-> inst[a], unread |-> a \in blank]
    BY <1>1 DEF FindOrNew
  <2>2. a \notin blank
    <3>1. f.unread = (a \in blank)
      BY <2>1, Zenon
    <3> QED
      BY <3>1
  <2> QED
    BY <1>1, <2>1, <2>2 DEF ShownInv, InstanceIsPosted
<1>2. CASE inst[a] = NoInstance
  <2>1. f.table = Refresh(a)
    BY <1>2 DEF FindOrNew
  <2>2. Refresh(a) = posted[a]
    BY PlainAssumption DEF Refresh, ShownInv, FileIsWhole, TypeInv, TypeOK, Name
  <2> QED
    BY <2>1, <2>2
<1> QED
  BY <1>1, <1>2

\* ShownInv is inductive, relative to TypeInv.
LEMMA ShownInductive == TypeInv /\ ShownInv /\ [Next]_vars => ShownInv'
<1> SUFFICES ASSUME TypeInv, ShownInv, [Next]_vars PROVE ShownInv'
  OBVIOUS
<1>1. ASSUME NEW n \in Name, NEW f \in FindOrNew(n), Idle, Keep(n, f),
             UNCHANGED <<file, op, posted, spoiled>>
      PROVE  FileIsWhole' /\ InstanceIsPosted' /\ WriterHasPosted'
  <2>1. FileIsWhole' /\ WriterHasPosted'
    BY <1>1 DEF ShownInv, FileIsWhole, WriterHasPosted, Idle
  <2>2. ASSUME NEW a \in AppName \ spoiled, Plain(posted[a]), a \notin blank'
        PROVE  inst'[a] # NoInstance => inst'[a] = posted[a]
    <3>1. CASE a = n
      BY <1>1, <2>2, <3>1, FoundIsPosted DEF Keep, TypeInv, TypeOK
    <3>2. CASE a # n
      BY <1>1, <2>2, <3>2 DEF Keep, ShownInv, InstanceIsPosted, TypeInv, TypeOK, Name
    <3> QED
      BY <3>1, <3>2
  <2> QED
    BY <1>1, <2>1, <2>2 DEF InstanceIsPosted
<1>2. ASSUME NEW n \in Name, Idle, Forget(n), UNCHANGED <<file, op, posted, spoiled>>
      PROVE  FileIsWhole' /\ InstanceIsPosted' /\ WriterHasPosted'
  BY <1>2 DEF Forget, ShownInv, FileIsWhole, InstanceIsPosted, WriterHasPosted, Idle,
              TypeInv, TypeOK, Name
<1>3. ASSUME UNCHANGED <<shown, posted, spoiled>> PROVE GetShowsPosted'
  BY <1>3 DEF ShownInv, GetShowsPosted
<1>4. ASSUME NEW n \in Name, GetApp(n) PROVE ShownInv'
  <2>1. PICK f \in FindOrNew(n) :
          /\ shown' = [app |-> n, table |-> f.table, unread |-> f.unread]
          /\ Keep(n, f) \/ Forget(n)
    BY <1>4 DEF GetApp
  <2>2. GetShowsPosted'
    BY <1>4, <2>1, FoundIsPosted DEF GetApp, GetShowsPosted
  <2> QED
    BY <1>1, <1>2, <1>4, <2>1, <2>2 DEF GetApp, ShownInv
<1>5. ASSUME NEW n \in Name, Drop(n) PROVE ShownInv'
  BY <1>2, <1>3, <1>5 DEF Drop, ShownInv
<1>6. ASSUME NEW a \in AppName, Launch(a) PROVE ShownInv'
  BY <1>1, <1>3, <1>6 DEF Launch, ShownInv, Name
<1>7. ASSUME NEW a \in AppName, NEW t \in Table, PostDialData(a, t) PROVE ShownInv'
  <2>1. /\ op'.app = a /\ op'.stage = "delete" /\ shown' = NoAnswer /\ Idle
        /\ inst'[a] = t /\ posted'[a] = t /\ blank' = blank \ {a} /\ UNCHANGED <<file, spoiled>>
        /\ \A n \in Name \ {a} : inst'[n] = inst[n] /\ posted'[n] = posted[n]
    BY <1>7 DEF PostDialData, TypeInv, TypeOK, Name
  <2>2. FileIsWhole'
    BY <2>1 DEF ShownInv, FileIsWhole, Idle, Name
  <2>3. InstanceIsPosted'
    BY <2>1 DEF ShownInv, InstanceIsPosted, Name
  <2>4. WriterHasPosted' /\ GetShowsPosted'
    BY <2>1 DEF WriterHasPosted, GetShowsPosted
  <2> QED
    BY <2>2, <2>3, <2>4 DEF ShownInv
<1>8. ASSUME ~Idle, UNCHANGED <<inst, shown, posted, blank, spoiled>>,
             op'.app = op.app, op'.stage # "idle",
             NEW v, file' = [file EXCEPT ![op.app] = v]
      PROVE  ShownInv'
  BY <1>8 DEF ShownInv, FileIsWhole, InstanceIsPosted, WriterHasPosted, GetShowsPosted, Idle,
              TypeInv, TypeOK, Name
<1>9. ASSUME ~Idle, UNCHANGED <<file, inst, shown, posted, blank>>, End(FALSE) PROVE ShownInv'
  BY <1>9 DEF End, NoOp, ShownInv, FileIsWhole, InstanceIsPosted, WriterHasPosted,
              GetShowsPosted, Idle
<1>10. CASE DeleteFile
  <2>1. CASE file' = [file EXCEPT ![op.app] = NoFile] /\ GoTo("create")
    BY <1>8, <1>10, <2>1 DEF DeleteFile, GoTo, Idle, TypeInv, OpIsRecord
  <2>2. CASE End(FALSE) /\ UNCHANGED file
    BY <1>9, <1>10, <2>2 DEF DeleteFile, Idle
  <2> QED
    BY <1>10, <2>1, <2>2 DEF DeleteFile
<1>11. CASE CreateFile
  <2>1. CASE file' = [file EXCEPT ![op.app] = <<>>] /\ GoTo("write")
    BY <1>8, <1>11, <2>1 DEF CreateFile, GoTo, Idle, TypeInv, OpIsRecord
  <2>2. CASE End(FALSE) /\ UNCHANGED file
    BY <1>9, <1>11, <2>2 DEF CreateFile, Idle
  <2> QED
    BY <1>11, <2>1, <2>2 DEF CreateFile
<1>12. CASE WriteFile
  <2>1. PICK i \in 0..Len(op.text) :
          /\ file' = [file EXCEPT ![op.app] = Overlay(@, SubSeq(op.text, 1, i))]
          /\ End(i = Len(op.text))
    BY <1>12 DEF WriteFile
  <2>2. /\ ~Idle /\ op.app \in AppName /\ op.text \in AnyText /\ op' = NoOp
        /\ op.text \in Encode(posted[op.app])
        /\ UNCHANGED <<inst, shown, posted, blank>> /\ shown = NoAnswer
    BY <1>12, <2>1 DEF WriteFile, End, Idle, TypeInv, TypeOK, OpIsRecord, ShownInv, WriterHasPosted
  <2>3. GetShowsPosted' /\ WriterHasPosted'
    BY <2>2 DEF GetShowsPosted, WriterHasPosted, Idle, NoOp
  <2>4. InstanceIsPosted'
    BY <2>1, <2>2 DEF End, ShownInv, InstanceIsPosted, WriterHasPosted
  <2>5. FileIsWhole'
    <3>1. op.app \notin spoiled' => file'[op.app] = op.text
      <4>1. CASE i = Len(op.text)
        <5>1. Overlay(file[op.app], SubSeq(op.text, 1, i)) = op.text
          <6>1. SubSeq(op.text, 1, i) = op.text
            BY <2>2, <4>1, TextIsSeq
          <6>2. Overlay(<<>>, SubSeq(op.text, 1, i)) = SubSeq(op.text, 1, i)
            BY <2>2, OverlayEmpty
          <6> QED
            BY <1>12, <6>1, <6>2 DEF WriteFile, TypeInv, TypeOK
        <5> QED
          BY <2>1, <2>2, <5>1 DEF TypeInv, TypeOK, Name
      <4>2. CASE i # Len(op.text)
        BY <2>1, <4>2 DEF End
      <4> QED
        BY <4>1, <4>2
    <3>2. ASSUME NEW a \in AppName \ spoiled'
          PROVE  IF file'[a] = NoFile THEN posted[a] = EmptyTable ELSE file'[a] \in Encode(posted[a])
      <4>1. CASE a = op.app
        BY <2>2, <3>1, <3>2, <4>1, TextIsSeq
      <4>2. CASE a # op.app
        BY <2>1, <2>2, <3>2, <4>2 DEF End, ShownInv, FileIsWhole, TypeInv, TypeOK, Name
      <4> QED
        BY <4>1, <4>2
    <3> QED
      BY <2>2, <3>2 DEF FileIsWhole
  <2> QED
    BY <2>3, <2>4, <2>5 DEF ShownInv
<1>13. CASE Crash
  BY <1>13 DEF Crash, NoOp, Idle, ShownInv, FileIsWhole, InstanceIsPosted, WriterHasPosted,
               GetShowsPosted, Name
<1>14. CASE Reboot
  BY <1>14 DEF Reboot, NoOp, Idle, ShownInv, FileIsWhole, InstanceIsPosted, WriterHasPosted,
               GetShowsPosted, Name
<1>15. CASE UNCHANGED vars
  BY <1>15 DEF vars, Idle, ShownInv, FileIsWhole, InstanceIsPosted, WriterHasPosted,
               GetShowsPosted
<1> QED
  BY <1>4, <1>5, <1>6, <1>7, <1>10, <1>11, <1>12, <1>13, <1>14, <1>15 DEF Next

\* A GET shows the data last posted, through new instances and after crashes,
\* unless a write or a read failed, for every table that its text carries.
THEOREM GetsShowPosted == Spec => []GetShowsPosted
<1>1. Init => ShownInv
  BY DEF Init, ShownInv, FileIsWhole, InstanceIsPosted, WriterHasPosted, GetShowsPosted, Idle,
         NoOp, Name
<1>2. ShownInv => GetShowsPosted
  BY DEF ShownInv
<1> QED
  BY <1>1, <1>2, InitTypeInv, TypeInvInductive, ShownInductive, PTL DEF Spec
=============================================================================
