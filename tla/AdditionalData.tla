--------------------------- MODULE AdditionalData ---------------------------
(***************************************************************************)
(* The additional data of applications: what an application posts to its   *)
(* additionalDataUrl is kept in its instance (gdial-app.c), written to a   *)
(* file named after it under /tmp, and read back when a later request      *)
(* creates the instance again.                                             *)
(*                                                                         *)
(* One thread handles the requests, so the steps of a handler are split    *)
(* only where a crash leaves something behind: at each file operation of   *)
(* gdial_app_write_additional_dial_data.  Each of them may fail; the       *)
(* handler answers 200 all the same.  Which instances exist depends on the *)
(* states of the applications, which are free here (RestServer has them).  *)
(***************************************************************************)
EXTENDS Naturals, Sequences, SequencesExt

CONSTANTS AppName,      \* names of the registered applications
          OtherName,    \* further names that a URL may give to one of them
          Table,        \* the tables that applications post
          EmptyTable,   \* the table without a key
          Encode(_),    \* the texts of a table
          Decode(_),    \* the table that is read from a text
          Plain(_),     \* the tables whose text can be read back
          NoFile, NoInstance, NoAnswer

Name == AppName \cup OtherName

ASSUME NamesAssumption == AppName \cap OtherName = {}
ASSUME TableAssumption == EmptyTable \in Table /\ Encode(EmptyTable) = {<<>>}
ASSUME TextAssumption == \A t \in Table : \A s \in Encode(t) : s \in Seq(Range(s))
ASSUME PlainAssumption ==
  /\ Decode(<<>>) = EmptyTable
  /\ \A t \in Table : Plain(t) => \A s \in Encode(t) : Decode(s) = t
ASSUME NoneAssumption ==
  /\ \A t \in Table : \A s \in Encode(t) : \A i \in 0..Len(s) :
       NoFile # SubSeq(s, 1, i) /\ NoInstance # Decode(SubSeq(s, 1, i))
  /\ NoInstance \notin Table

VARIABLES file,         \* the files under GDIAL_APP_DIAL_DATA_DIR
          inst,         \* priv->additional_dial_data of the instances
          op,           \* the write in progress
          shown,        \* the last answer to a GET
          posted,       \* history: the table last posted
          ever,         \* history: the tables posted since the files were lost
          spoiled,      \* history: the last write of the file did not succeed
          blank         \* history: the instance could not read its file

vars == <<file, inst, op, shown, posted, ever, spoiled, blank>>

NoOp == [stage |-> "idle", app |-> NoFile, text |-> <<>>]
Idle == op.stage = "idle"

Texts(n) == UNION {Encode(t) : t \in ever[n]}

\* What a write that may stop early leaves of a text.
Parts(s) == {SubSeq(s, 1, i) : i \in 0..Len(s)}
PartsOfPosts(n) == {<<>>} \cup UNION {Parts(s) : s \in Texts(n)}

TypeOK ==
  /\ DOMAIN file = Name /\ DOMAIN inst = Name
  /\ op.stage \in {"idle", "delete", "create", "write"}
  /\ ~Idle => op.app \in AppName /\ op.text \in Encode(posted[op.app])
  /\ op.stage = "create" => file[op.app] = NoFile
  /\ op.stage = "write" => file[op.app] = <<>>
  /\ posted \in [Name -> Table]
  /\ ever \in [Name -> SUBSET Table]
  /\ spoiled \subseteq AppName /\ blank \subseteq Name

Init ==
  /\ file = [n \in Name |-> NoFile]
  /\ inst = [n \in Name |-> NoInstance]
  /\ op = NoOp
  /\ shown = NoAnswer
  /\ posted = [n \in Name |-> EmptyTable]
  /\ ever = [n \in Name |-> {}]
  /\ spoiled = {}
  /\ blank = {}

-----------------------------------------------------------------------------
\* Reading.

\* gdial_app_read_additional_dial_data and
\* gdial_app_refresh_additional_dial_data: without a file the table is empty.
Refresh(n) == IF file[n] = NoFile THEN EmptyTable ELSE Decode(file[n])

\* MUTANT of FindOrNew: gdial_app_new does not read the file.
FindOrNewUnread(n) ==
  {[table |-> IF inst[n] # NoInstance THEN inst[n] ELSE EmptyTable, unread |-> FALSE]}

\* A request finds the instance of name n, or gdial_app_new creates it and
\* reads its file; if that fails the table is empty (and unread is TRUE).
FindOrNew(n) ==
  IF inst[n] # NoInstance THEN {[table |-> inst[n], unread |-> n \in blank]}
  ELSE {[table |-> Refresh(n), unread |-> FALSE]}
         \cup {[table |-> EmptyTable, unread |-> TRUE] : x \in {file[n]} \ {NoFile}}

Keep(n, f) ==
  /\ inst' = [inst EXCEPT ![n] = f.table]
  /\ blank' = IF f.unread THEN blank \cup {n} ELSE blank \ {n}

Forget(n) ==
  /\ inst' = [inst EXCEPT ![n] = NoInstance]
  /\ blank' = blank \ {n}

\* GET under the name n, which the client chose: the answer shows the table.
\* The instance of an application that is not running is dropped at the end.
GetApp(n) ==
  /\ Idle
  /\ \E f \in FindOrNew(n) :
       /\ shown' = [app |-> n, table |-> f.table, unread |-> f.unread]
       /\ Keep(n, f) \/ Forget(n)
  /\ UNCHANGED <<file, op, posted, ever, spoiled>>

\* POST: a launch creates the instance under the name of the registry entry.
Launch(a) ==
  /\ Idle
  /\ inst[a] = NoInstance
  /\ \E f \in FindOrNew(a) : Keep(a, f)
  /\ UNCHANGED <<file, op, shown, posted, ever, spoiled>>

\* DELETE, a failed start, or the registration of other applications drops
\* the instance.
Drop(n) ==
  /\ Idle
  /\ inst[n] # NoInstance
  /\ Forget(n)
  /\ UNCHANGED <<file, op, shown, posted, ever, spoiled>>

-----------------------------------------------------------------------------
\* Writing.

\* POST of additional data: the instance, found or new, takes the table, and
\* its text is about to be written.  A POST without a body empties the table.
PostDialData(a, t) ==
  /\ Idle
  /\ inst' = [inst EXCEPT ![a] = t]
  /\ \E s \in Encode(t) : op' = [stage |-> "delete", app |-> a, text |-> s]
  /\ posted' = [posted EXCEPT ![a] = t]
  /\ ever' = [ever EXCEPT ![a] = @ \cup {t}]
  /\ blank' = blank \ {a}
  /\ shown' = NoAnswer
  /\ UNCHANGED <<file, spoiled>>

GoTo(stage) == op' = [op EXCEPT !.stage = stage] /\ UNCHANGED spoiled

\* The write ends; its result is not looked at.
End(ok) ==
  /\ op' = NoOp
  /\ spoiled' = IF ok THEN spoiled \ {op.app} ELSE spoiled \cup {op.app}

\* MUTANT of DeleteFile: a file that could not be deleted is written over.
DeleteFileGoesOn ==
  /\ op.stage = "delete"
  /\ \/ /\ file' = [file EXCEPT ![op.app] = NoFile]
        /\ GoTo("create")
     \/ /\ file[op.app] # NoFile
        /\ GoTo("write")
        /\ UNCHANGED file
  /\ UNCHANGED <<inst, shown, posted, ever, blank>>

\* g_file_delete, if there is a file.
DeleteFile ==
  /\ op.stage = "delete"
  /\ \/ /\ file' = [file EXCEPT ![op.app] = NoFile]
        /\ GoTo("create")
     \/ /\ file[op.app] # NoFile
        /\ End(FALSE)
        /\ UNCHANGED file
  /\ UNCHANGED <<inst, shown, posted, ever, blank>>

\* g_file_create_readwrite, which fails if there is a file.
CreateFile ==
  /\ op.stage = "create"
  /\ \/ /\ file[op.app] = NoFile
        /\ file' = [file EXCEPT ![op.app] = <<>>]
        /\ GoTo("write")
     \/ End(FALSE) /\ UNCHANGED file
  /\ UNCHANGED <<inst, shown, posted, ever, blank>>

\* A write at the start of a file.
Overlay(old, new) == new \o SubSeq(old, Len(new) + 1, Len(old))

\* g_output_stream_write may write less than all.
WriteFile ==
  /\ op.stage = "write"
  /\ \E i \in 0..Len(op.text) :
       /\ file' = [file EXCEPT ![op.app] = Overlay(@, SubSeq(op.text, 1, i))]
       /\ End(i = Len(op.text))
  /\ UNCHANGED <<inst, shown, posted, ever, blank>>

-----------------------------------------------------------------------------
\* The process ends, at any point, and is started again: the files stay.
Crash ==
  /\ inst' = [n \in Name |-> NoInstance]
  /\ op' = NoOp
  /\ shown' = NoAnswer
  /\ spoiled' = IF Idle THEN spoiled ELSE spoiled \cup {op.app}
  /\ blank' = {}
  /\ UNCHANGED <<file, posted, ever>>

\* The device restarts: /tmp is empty.
Reboot ==
  /\ file' = [n \in Name |-> NoFile]
  /\ inst' = [n \in Name |-> NoInstance]
  /\ op' = NoOp
  /\ shown' = NoAnswer
  /\ posted' = [n \in Name |-> EmptyTable]
  /\ ever' = [n \in Name |-> {}]
  /\ spoiled' = {}
  /\ blank' = {}

Next ==
  \/ \E n \in Name : GetApp(n) \/ Drop(n)
  \/ \E a \in AppName : Launch(a)
  \/ \E a \in AppName, t \in Table : PostDialData(a, t)
  \/ DeleteFile
  \/ CreateFile
  \/ WriteFile
  \/ Crash
  \/ Reboot

Spec == Init /\ [][Next]_vars

-----------------------------------------------------------------------------
\* A GET under an application's own name shows the data it last posted, also
\* through a new instance and after a crash, unless the file could not be
\* written as a whole, or not be read.
GetShowsPosted ==
  shown # NoAnswer /\ ~shown.unread /\ shown.app \in AppName \ spoiled
    /\ Plain(posted[shown.app]) => shown.table = posted[shown.app]

\* Whatever fails or crashes, the data of an application is what it posted
\* once, or what is read from the beginning of such a text: never a mixture
\* of two posts, and never the data of another application.
DataIsOfOnePost ==
  \A n \in Name :
    /\ file[n] # NoFile => file[n] \in PartsOfPosts(n)
    /\ inst[n] # NoInstance =>
         inst[n] \in ever[n] \cup {EmptyTable} \cup {Decode(s) : s \in PartsOfPosts(n)}

-----------------------------------------------------------------------------
\* What the code or its comments say and TLC refutes (README, section 5).

\* What the comment in gdial_rest_server_handle_POST_dial_data says the data
\* is kept for: "Cache dial_data so as to use on future queries."  Every table
\* that was written as a whole is shown as it was posted.
AnyTableIsShown ==
  shown # NoAnswer /\ ~shown.unread /\ shown.app \in AppName \ spoiled
    => shown.table = posted[shown.app]
=============================================================================
