-------------------------- MODULE UuidFilesProofs --------------------------
(***************************************************************************)
(* Proofs about UuidFiles, for any applications and any supply of uuids.   *)
(***************************************************************************)
EXTENDS UuidFiles, TLAPS

\* Type correctness: no registration, crash or reboot leaves a file, a URI or
\* the registration in progress ill typed.
THEOREM UuidFilesTypeCorrect == Spec => []TypeOK
<1>1. Init => TypeOK
  BY DEF Init, TypeOK, NoReg, NoPost
<1>2. TypeOK /\ [Next]_vars => TypeOK'
  <2> SUFFICES ASSUME TypeOK, [Next]_vars PROVE TypeOK'
    OBVIOUS
  <2> USE DEF TypeOK, Enter, NoReg
  <2>1. ASSUME NEW a \in Owner, ReadUuidFile(a) PROVE TypeOK'
    BY <2>1 DEF ReadUuidFile
  <2>2. ASSUME NEW a \in Owner, DrawUuid(a) PROVE TypeOK'
    BY <2>2 DEF DrawUuid
  <2>3. ASSUME NEW a \in Owner, HandOut(a) PROVE TypeOK'
    BY <2>3 DEF HandOut
  <2>4. ASSUME NEW a \in Owner, PostData(a) PROVE TypeOK'
    BY <2>4 DEF PostData, FindAppRegistryByUuid
  <2>5. CASE OpenUuidFile
    BY <2>5 DEF OpenUuidFile
  <2>6. CASE WriteUuidFile
    BY <2>6 DEF WriteUuidFile
  <2>7. CASE UnregisterAllApps
    BY <2>7 DEF UnregisterAllApps
  <2>8. CASE Crash
    BY <2>8 DEF Crash
  <2>9. CASE Reboot
    BY <2>9 DEF Reboot, NoPost, Owner
  <2>10. CASE UNCHANGED vars
    BY <2>10 DEF vars
  <2> QED
    BY <2>1, <2>2, <2>3, <2>4, <2>5, <2>6, <2>7, <2>8, <2>9, <2>10 DEF Next, Settle
<1> QED
  BY <1>1, <1>2, PTL DEF Spec

-----------------------------------------------------------------------------
(***************************************************************************)
(* Whose uuid it is.  A uuid stands in an owner's file, in its registry    *)
(* entry, in the URI that it handed out, or in its registration in         *)
(* progress.  A lookup finds the right entry because no uuid stands with   *)
(* two owners; that stays so because only a uuid never drawn is drawn.     *)
(***************************************************************************)
Holds(a, u) ==
  \/ file[a] = u
  \/ uri[a] = u
  \/ handed[a] = u
  \/ reg.app = a /\ reg.uuid = u

HeldByOne == \A a, b \in Owner, u \in Uuid : Holds(a, u) /\ Holds(b, u) => a = b
HeldWasDrawn == \A a \in Owner, u \in Uuid : Holds(a, u) => u \in drawn

OwnershipInv == HeldByOne /\ HeldWasDrawn /\ PostReachesItsOwnEntry

\* A step that only passes uuids on among what one owner holds keeps the
\* ownership.
LEMMA PassedOn ==
  ASSUME HeldByOne, HeldWasDrawn, drawn \subseteq drawn',
         \A a \in Owner, u \in Uuid : Holds(a, u)' => Holds(a, u)
  PROVE  HeldByOne' /\ HeldWasDrawn'
BY DEF HeldByOne, HeldWasDrawn

\* The ownership of the uuids is inductive, relative to TypeOK.
LEMMA OwnershipInductive == TypeOK /\ OwnershipInv /\ [Next]_vars => OwnershipInv'
<1> SUFFICES ASSUME TypeOK, OwnershipInv, [Next]_vars PROVE OwnershipInv'
  OBVIOUS
<1> USE DEF OwnershipInv
<1>0. ASSUME UNCHANGED delivered PROVE PostReachesItsOwnEntry'
  BY <1>0 DEF PostReachesItsOwnEntry
<1>1. ASSUME NEW a \in Owner, ReadUuidFile(a) PROVE OwnershipInv'
  <2>1. \A b \in Owner, u \in Uuid : Holds(b, u)' => Holds(b, u)
    BY <1>1, UuidAssumption DEF ReadUuidFile, Enter, NoReg, Holds, TypeOK
  <2> QED
    BY <1>0, <1>1, <2>1, PassedOn DEF ReadUuidFile
<1>2. ASSUME NEW a \in Owner, DrawUuid(a) PROVE OwnershipInv'
  <2>1. PICK u \in Uuid \ drawn : reg' = [stage |-> "open", app |-> a, uuid |-> u]
                                  /\ drawn' = drawn \cup {u}
    BY <1>2 DEF DrawUuid
  <2>2. \A b \in Owner, v \in Uuid : Holds(b, v)' => Holds(b, v) \/ (b = a /\ v = u)
    BY <1>2, <2>1 DEF DrawUuid, Holds
  <2>3. HeldByOne' /\ HeldWasDrawn'
    BY <2>1, <2>2 DEF HeldByOne, HeldWasDrawn
  <2> QED
    BY <1>0, <1>2, <2>3 DEF DrawUuid
<1>3. ASSUME NEW a \in Owner, HandOut(a) PROVE OwnershipInv'
  <2>1. \A b \in Owner, u \in Uuid : Holds(b, u)' => Holds(b, u)
    BY <1>3 DEF HandOut, Holds, TypeOK
  <2> QED
    BY <1>0, <1>3, <2>1, PassedOn DEF HandOut
<1>4. ASSUME NEW a \in Owner, PostData(a) PROVE OwnershipInv'
  <2>1. \A b \in Owner, u \in Uuid : Holds(b, u)' => Holds(b, u)
    BY <1>4 DEF PostData, Holds
  <2>2. \A e \in FindAppRegistryByUuid(handed[a]) : e = a
    <3> TAKE e \in FindAppRegistryByUuid(handed[a])
    <3>1. e \in Owner /\ uri[e] = handed[a] /\ handed[a] \in Uuid
      BY <1>4 DEF FindAppRegistryByUuid, PostData, TypeOK
    <3> QED
      BY <3>1 DEF HeldByOne, Holds
  <2>3. PostReachesItsOwnEntry'
    BY <1>4, <2>2 DEF PostData, PostReachesItsOwnEntry
  <2> QED
    BY <1>4, <2>1, <2>3, PassedOn DEF PostData
<1>5. CASE OpenUuidFile
  <2>1. \A b \in Owner, u \in Uuid : Holds(b, u)' => Holds(b, u)
    BY <1>5, UuidAssumption DEF OpenUuidFile, Enter, NoReg, Holds, TypeOK
  <2> QED
    BY <1>0, <1>5, <2>1, PassedOn DEF OpenUuidFile
<1>6. CASE WriteUuidFile
  <2>1. \A b \in Owner, u \in Uuid : Holds(b, u)' => Holds(b, u)
    BY <1>6, UuidAssumption DEF WriteUuidFile, Enter, NoReg, Holds, TypeOK
  <2> QED
    BY <1>0, <1>6, <2>1, PassedOn DEF WriteUuidFile
<1>7. CASE UnregisterAllApps
  <2>1. \A b \in Owner, u \in Uuid : Holds(b, u)' => Holds(b, u)
    BY <1>7, UuidAssumption DEF UnregisterAllApps, Holds
  <2> QED
    BY <1>0, <1>7, <2>1, PassedOn DEF UnregisterAllApps
<1>8. CASE Crash
  <2>1. \A b \in Owner, u \in Uuid : Holds(b, u)' => Holds(b, u)
    BY <1>8, UuidAssumption DEF Crash, NoReg, Holds
  <2> QED
    BY <1>0, <1>8, <2>1, PassedOn DEF Crash
<1>9. CASE Reboot
  <2>1. \A b \in Owner, u \in Uuid : Holds(b, u)' => Holds(b, u)
    BY <1>9, UuidAssumption DEF Reboot, NoReg, Holds
  <2>2. PostReachesItsOwnEntry'
    BY <1>9 DEF Reboot, NoPost, PostReachesItsOwnEntry
  <2> QED
    BY <1>9, <2>1, <2>2, PassedOn DEF Reboot
<1>10. CASE UNCHANGED vars
  <2>1. \A b \in Owner, u \in Uuid : Holds(b, u)' => Holds(b, u)
    BY <1>10 DEF vars, Holds
  <2> QED
    BY <1>0, <1>10, <2>1, PassedOn DEF vars
<1> QED
  BY <1>1, <1>2, <1>3, <1>4, <1>5, <1>6, <1>7, <1>8, <1>9, <1>10 DEF Next, Settle

\* What is posted to a URI that was handed out is taken by the entry it was
\* handed out for or by none, over any number of crashes, registrations and
\* lost files.
THEOREM PostsReachTheirOwnEntry == Spec => []PostReachesItsOwnEntry
<1>1. Init => OwnershipInv
  BY UuidAssumption DEF Init, OwnershipInv, HeldByOne, HeldWasDrawn, Holds, NoReg,
                        NoPost, PostReachesItsOwnEntry
<1>2. OwnershipInv => PostReachesItsOwnEntry
  BY DEF OwnershipInv
<1> QED
  BY <1>1, <1>2, OwnershipInductive, UuidFilesTypeCorrect, PTL DEF Spec

-----------------------------------------------------------------------------
(***************************************************************************)
(* What outlives the server is the file: unless an operation on it failed, *)
(* it holds the uuid of the entry and the one handed out, except while the *)
(* first registration writes it, and then nothing was handed out.          *)
(***************************************************************************)
FirstRegistration == reg.app # None =>
  reg.app \in Owner /\ reg.stage # "idle" /\ (reg.app \notin unkept => handed[reg.app] = None)
FileIsKept == \A a \in Owner \ unkept :
  reg.app # a => handed[a] \in {None, file[a]} /\ uri[a] \in {None, file[a]}

KeptInv == FirstRegistration /\ FileIsKept

\* KeptInv is inductive, relative to TypeOK.
LEMMA KeptInductive == TypeOK /\ KeptInv /\ [Next]_vars => KeptInv'
<1> SUFFICES ASSUME TypeOK, KeptInv, [Next]_vars PROVE KeptInv'
  OBVIOUS
<1> USE UuidAssumption DEF KeptInv, FirstRegistration, FileIsKept, TypeOK
<1>1. ASSUME NEW a \in Owner, ReadUuidFile(a) PROVE KeptInv'
  BY <1>1 DEF ReadUuidFile, Enter, NoReg
<1>2. ASSUME NEW a \in Owner, DrawUuid(a) PROVE KeptInv'
  BY <1>2 DEF DrawUuid
<1>3. ASSUME NEW a \in Owner, HandOut(a) PROVE KeptInv'
  BY <1>3 DEF HandOut
<1>4. ASSUME NEW a \in Owner, PostData(a) PROVE KeptInv'
  BY <1>4 DEF PostData
<1>5. CASE OpenUuidFile
  BY <1>5 DEF OpenUuidFile, Enter, NoReg
<1>6. CASE WriteUuidFile
  BY <1>6 DEF WriteUuidFile, Enter, NoReg
<1>7. CASE UnregisterAllApps
  BY <1>7 DEF UnregisterAllApps
<1>8. CASE Crash
  BY <1>8 DEF Crash, NoReg
<1>9. CASE Reboot
  BY <1>9 DEF Reboot, NoReg
<1>10. CASE UNCHANGED vars
  BY <1>10 DEF vars
<1> QED
  BY <1>1, <1>2, <1>3, <1>4, <1>5, <1>6, <1>7, <1>8, <1>9, <1>10 DEF Next, Settle

\* An application or the device itself keeps its URI over every restart,
\* unless its file could not be written or read.
THEOREM UrisOutliveTheServer == Spec => []UriOutlivesTheServer
<1>1. Init => KeptInv
  BY DEF Init, KeptInv, FirstRegistration, FileIsKept, NoReg
<1>2. TypeOK /\ KeptInv => UriOutlivesTheServer
  BY UuidAssumption DEF TypeOK, KeptInv, FirstRegistration, FileIsKept, UriOutlivesTheServer
<1> QED
  BY <1>1, <1>2, KeptInductive, UuidFilesTypeCorrect, PTL DEF Spec
=============================================================================
