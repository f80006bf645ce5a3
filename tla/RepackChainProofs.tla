------------------------- MODULE RepackChainProofs -------------------------
(***************************************************************************)
(* Type correctness of RepackChain, for any threads, groups, files and     *)
(* sizes and whatever the clients overlap.  What readers find through the  *)
(* records is the subject of RepackReadProofs.                             *)
(***************************************************************************)
EXTENDS RepackChain, TLAPS

\* A thread in a step of the engine saves a shipped file, a thread in a step
\* of UserGroup a user file, and both only in a mounted process.
Kinds ==
  \A t \in Threads :
    /\ pc[t] \in UserSteps => Group(t) = UserGroup
    /\ pc[t] \in EngineSteps => Group(t) \in Shipped
    /\ pc[t] # "idle" => mounted

TInv == TypeOK /\ Kinds

----------------------------------------------------------------------------
(* The append *)

LEMMA AlignFacts ==
  ASSUME NEW n \in Nat
  PROVE  /\ Align16(n) \in Nat /\ Align16(n) >= n
         /\ Padding(n) \in Nat
  BY SMT DEF Align16, Padding

LEMMA AsU32Fact ==
  ASSUME NEW n \in Nat
  PROVE  AsU32(n) \in Nat
  BY SMT, ConstantsAssumption DEF AsU32

LEMMA NewRecordType ==
  ASSUME NEW s \in Nat, NEW len \in Nat
  PROVE  NewRecord(s, len) \in Record
  BY AlignFacts, AsU32Fact, SMT DEF NewRecord, Record

LEMMA WriteAtType ==
  ASSUME NEW z \in Paz, NEW p \in Nat, NEW n \in Int
  PROVE  WriteAt(z, p, n) \in Paz /\ WriteAt(z, p, n).size >= z.size
  BY SMT DEF WriteAt, Paz, Blob

LEMMA Append16Type ==
  ASSUME NEW z \in Paz, NEW p \in Nat, NEW s \in Nat, NEW f \in Files,
         NEW len \in Nat, NEW ver \in Nat
  PROVE  Append16(z, p, s, f, len, ver) \in Paz
  <1>1. Padding(s) \in Nat
    BY AlignFacts
  <1>2. WriteAt(z, p, Padding(s) + len) \in Paz
    BY <1>1, WriteAtType
  <1>3. [at |-> p + Padding(s), len |-> len, file |-> f, ver |-> ver] \in Blob
    BY <1>1 DEF Blob
  <1> QED
    BY <1>2, <1>3, SMT DEF Append16, Paz

LEMMA CutType ==
  ASSUME NEW s \in Nat, NEW len \in Nat, NEW n \in Cut(s, len)
  PROVE  n \in Int
  BY AlignFacts, SMT DEF Cut

\* At the end of the file nothing is lost, and the blob is inside.
LEMMA WriteAtEnd ==
  ASSUME NEW z \in Paz, NEW n \in Int,
         \A b \in z.blobs : b.at + b.len <= z.size
  PROVE  /\ WriteAt(z, z.size, n).blobs = z.blobs
         /\ WriteAt(z, z.size, n).size >= z.size
         /\ WriteAt(z, z.size, n).size >= z.size + n
         /\ WriteAt(z, z.size, n).size \in Nat
  BY SMT DEF WriteAt, Paz, Blob

----------------------------------------------------------------------------
(* Types *)

LEMMA PamtTypes ==
  /\ NoFiles \in Recs /\ EmptyPaz \in Paz /\ NoPamt \in Pamt
  /\ \A g \in Shipped : ShippedPamt(g) \in Pamt
  /\ \A p \in Pamt : p.recs \in Recs
  /\ \A r \in Recs, z \in Paz : [recs |-> r, pazCrc |-> z] \in Pamt
  BY ShippedAssumption, SMT
     DEF NoFiles, Recs, EmptyPaz, Paz, NoPamt, Pamt, ShippedPamt

LEMMA SerializedType ==
  ASSUME NEW files \in Recs
  PROVE  Serialized(files) \in Recs
  <1>1. ASSUME NEW f \in Files, files[f] # NoRec
        PROVE  [at |-> AsU32(files[f].at), len |-> files[f].len] \in Record
    <2>1. files[f] \in Record
      BY <1>1 DEF Recs
    <2> QED
      BY <2>1, AsU32Fact, SMT DEF Record
  <1> QED
    BY <1>1, SMT DEF Serialized, Recs

LEMMA TypeInit == ASSUME Init PROVE TInv
  <1> USE ConstantsAssumption, ShippedAssumption, PamtTypes
  <1>1. Init
    OBVIOUS
  <1>2. paz \in [Groups -> Paz]
    BY <1>1, SMT DEF Init, Groups
  <1>3. cur[Root] \in Papgt /\ cur[UserGroup] = Absent /\ \A g \in Shipped : cur[g] \in Pamt
    BY <1>1, SMT DEF Init, Groups, Slotted, Papgt
  <1>4. (CHOOSE f \in Files : TRUE) \in Files
    OBVIOUS
  <1>5. DiskOK
    <2>1. DOMAIN cur = Groups \cup {Root} /\ DOMAIN tmp = Shipped \cup {Root}
      BY <1>1, SMT DEF Init
    <2>2. \A x \in Shipped \cup {Root} : tmp[x] = Absent
      BY <1>1, SMT DEF Init
    <2>3. mounted = FALSE
      BY <1>1 DEF Init
    <2> QED
      BY <1>2, <1>3, <2>1, <2>2, <2>3, Zenon DEF DiskOK
  <1>6. ProcessOK
    <2>1. index \in [Shipped -> Pamt \cup {Absent}] /\ userFiles \in Recs
      BY <1>1, SMT DEF Init
    <2> QED
      BY <1>1, <2>1, Zenon DEF Init, ProcessOK
  <1>7. LocalsOK
    <2>1. /\ file \in [Threads -> Files]
          /\ save \in [Threads -> [len : Nat, ver : Nat]]
      BY <1>1, <1>4, SMT DEF Init, NoSave
    <2>2. pc \in [Threads -> Steps]
      BY <1>1, SMT DEF Init, Steps
    <2>3. raw \in [Threads -> Pamt] /\ root \in [Threads -> Papgt]
      <3>1. /\ raw = [t \in Threads |-> NoPamt]
            /\ root = [t \in Threads |-> cur[Root]]
        BY <1>1 DEF Init
      <3> QED
        BY <3>1, <1>3
    <2>4. /\ stat \in [Threads -> Nat] /\ pos \in [Threads -> Nat]
          /\ fd \in [Threads -> {"none", "tmp", "target", "gone"}]
      BY <1>1, SMT DEF Init
    <2>5. errors \in [Threads -> Nat]
      BY <1>1, SMT DEF Init
    <2> QED
      BY <2>1, <2>2, <2>3, <2>4, <2>5, Zenon DEF LocalsOK
  <1>8. GhostsOK
    BY <1>1, SMT DEF Init, GhostsOK
  <1>9. Kinds
    BY <1>1, SMT DEF Init, Kinds, EngineSteps, UserSteps
  <1> QED
    BY <1>5, <1>6, <1>7, <1>8, <1>9 DEF TInv, TypeOK

(* What an action leaves alone keeps its type. *)

LEMMA DiskFrame == ASSUME DiskOK, UNCHANGED <<disk, mounted>> PROVE DiskOK'
  BY DEF DiskOK, disk

LEMMA ProcessFrame == ASSUME ProcessOK, UNCHANGED process PROVE ProcessOK'
  BY DEF ProcessOK, process

LEMMA GhostsFrame == ASSUME GhostsOK, UNCHANGED ghosts PROVE GhostsOK'
  BY DEF GhostsOK, ghosts

\* A step of a running thread stays within its kind, or ends.
LEMMA Advance ==
  ASSUME LocalsOK, Kinds, NEW t \in Threads,
         pc' = [pc EXCEPT ![t] = pc'[t]],
         \/ pc[t] \in EngineSteps /\ pc'[t] \in EngineSteps \cup {"idle"}
         \/ pc[t] \in UserSteps /\ pc'[t] \in UserSteps \cup {"idle"},
         UNCHANGED <<file, mounted>>
  PROVE  Kinds' /\ pc' \in [Threads -> Steps] /\ file' \in [Threads -> Files]
  <1>1. pc' \in [Threads -> Steps]
    BY SMT DEF LocalsOK, Steps
  <1>2. \A s \in Threads : s # t => pc'[s] = pc[s]
    BY SMT DEF LocalsOK
  <1>3. file' \in [Threads -> Files]
    BY DEF LocalsOK
  <1> QED
    BY <1>1, <1>2, <1>3, SMT DEF Kinds, Group, EngineSteps, UserSteps

\* A thread may start in the group of the file it takes up.
LEMMA Begin ==
  ASSUME LocalsOK, Kinds, mounted, NEW t \in Threads, NEW f \in Files, pc[t] = "idle",
         file' = [file EXCEPT ![t] = f], UNCHANGED mounted,
         pc' = [pc EXCEPT ![t] = pc'[t]], pc'[t] \in Steps,
         pc'[t] \in EngineSteps => GroupOf[f] \in Shipped,
         pc'[t] \in UserSteps => GroupOf[f] = UserGroup
  PROVE  Kinds' /\ pc' \in [Threads -> Steps] /\ file' \in [Threads -> Files]
  <1>1. pc' \in [Threads -> Steps] /\ file' \in [Threads -> Files]
    BY SMT DEF LocalsOK
  <1>2. \A s \in Threads : s # t => pc'[s] = pc[s] /\ file'[s] = file[s]
    BY SMT DEF LocalsOK
  <1>3. file'[t] = f
    BY SMT DEF LocalsOK
  <1> QED
    BY <1>1, <1>2, <1>3, SMT DEF Kinds, Group, EngineSteps, UserSteps

LEMMA GroupFacts ==
  ASSUME LocalsOK, NEW t \in Threads
  PROVE  file[t] \in Files /\ Group(t) \in Groups
  BY ConstantsAssumption DEF LocalsOK, Group

LEMMA PazSize ==
  ASSUME DiskOK, NEW g \in Groups
  PROVE  paz[g] \in Paz /\ paz[g].size \in Nat
  BY DEF DiskOK, Paz

LEMMA RootEdit ==
  ASSUME NEW r \in Papgt, NEW g, NEW m \in Pamt
  PROVE  [r EXCEPT ![g] = m] \in Papgt
  BY DEF Papgt

LEMMA UserPamtThere ==
  ASSUME DiskOK, Kinds, NEW t \in Threads, pc[t] \in UserSteps
  PROVE  cur[UserGroup] \in Pamt
  BY DEF DiskOK, Kinds, UserSteps

LEMMA UpdatedPamt ==
  ASSUME DiskOK, LocalsOK, NEW t \in Threads
  PROVE  [recs   |-> [raw[t].recs EXCEPT ![file[t]] = NewRecord(stat[t], save[t].len)],
          pazCrc |-> paz[Group(t)]] \in Pamt
  <1>1. /\ raw[t].recs \in Recs /\ file[t] \in Files
        /\ stat[t] \in Nat /\ save[t].len \in Nat
    BY PamtTypes DEF LocalsOK
  <1>2. NewRecord(stat[t], save[t].len) \in Record
    BY <1>1, NewRecordType
  <1>3. [raw[t].recs EXCEPT ![file[t]] = NewRecord(stat[t], save[t].len)] \in Recs
    BY <1>1, <1>2 DEF Recs
  <1> QED
    BY <1>3, GroupFacts, PazSize, PamtTypes

LEMMA TypeNext == ASSUME TInv, [Next]_vars PROVE TInv'
  <1> USE ConstantsAssumption DEF TInv, TypeOK
  <1>1. ASSUME NEW t \in Threads, ReadPapgt(t) PROVE TInv'
    <2>1. Kinds' /\ pc' \in [Threads -> Steps] /\ file' \in [Threads -> Files]
      <3>1. pc[t] \in EngineSteps /\ pc'[t] \in EngineSteps \cup {"idle"}
        BY <1>1, SMT DEF ReadPapgt, Go, LocalsOK, EngineSteps
      <3>2. pc' = [pc EXCEPT ![t] = pc'[t]] /\ UNCHANGED <<file, mounted>>
        BY <1>1, SMT DEF ReadPapgt, Go, LocalsOK, process
      <3> QED
        BY <3>1, <3>2, Advance
    <2>2. DiskOK'
      BY <1>1, DiskFrame DEF ReadPapgt, process
    <2>3. ProcessOK'
      BY <1>1, ProcessFrame DEF ReadPapgt
    <2>4. LocalsOK'
      <3>1. root' \in [Threads -> Papgt]
        BY <1>1, SMT DEF ReadPapgt, LocalsOK, DiskOK
      <3> QED
        BY <1>1, <2>1, <3>1 DEF ReadPapgt, LocalsOK
    <2>5. GhostsOK'
      BY <1>1, GhostsFrame DEF ReadPapgt
    <2> QED
      BY <2>1, <2>2, <2>3, <2>4, <2>5
  <1>2. ASSUME NEW t \in Threads, StatPaz(t) PROVE TInv'
    <2>1. Kinds' /\ pc' \in [Threads -> Steps] /\ file' \in [Threads -> Files]
      <3>1. pc[t] \in EngineSteps /\ pc'[t] \in EngineSteps \cup {"idle"}
        BY <1>2, SMT DEF StatPaz, Go, LocalsOK, EngineSteps
      <3>2. pc' = [pc EXCEPT ![t] = pc'[t]] /\ UNCHANGED <<file, mounted>>
        BY <1>2, SMT DEF StatPaz, Go, LocalsOK, process
      <3> QED
        BY <3>1, <3>2, Advance
    <2>2. DiskOK'
      BY <1>2, DiskFrame DEF StatPaz, process
    <2>3. ProcessOK'
      BY <1>2, ProcessFrame DEF StatPaz
    <2>4. LocalsOK'
      <3>1. stat' \in [Threads -> Nat]
        BY <1>2, GroupFacts, PazSize, SMT DEF StatPaz, LocalsOK
      <3> QED
        BY <1>2, <2>1, <3>1 DEF StatPaz, LocalsOK
    <2>5. GhostsOK'
      BY <1>2, GhostsFrame DEF StatPaz
    <2> QED
      BY <2>1, <2>2, <2>3, <2>4, <2>5
  <1>3. ASSUME NEW t \in Threads, SeekPaz(t) PROVE TInv'
    <2>1. Kinds' /\ pc' \in [Threads -> Steps] /\ file' \in [Threads -> Files]
      <3>1. pc[t] \in EngineSteps /\ pc'[t] \in EngineSteps \cup {"idle"}
        BY <1>3, SMT DEF SeekPaz, Go, LocalsOK, EngineSteps
      <3>2. pc' = [pc EXCEPT ![t] = pc'[t]] /\ UNCHANGED <<file, mounted>>
        BY <1>3, SMT DEF SeekPaz, Go, LocalsOK, process
      <3> QED
        BY <3>1, <3>2, Advance
    <2>2. DiskOK'
      BY <1>3, DiskFrame DEF SeekPaz, process
    <2>3. ProcessOK'
      BY <1>3, ProcessFrame DEF SeekPaz
    <2>4. LocalsOK'
      <3>1. pos' \in [Threads -> Nat]
        BY <1>3, GroupFacts, PazSize, SMT DEF SeekPaz, LocalsOK
      <3> QED
        BY <1>3, <2>1, <3>1 DEF SeekPaz, LocalsOK
    <2>5. GhostsOK'
      BY <1>3, GhostsFrame DEF SeekPaz
    <2> QED
      BY <2>1, <2>2, <2>3, <2>4, <2>5
  <1>4. ASSUME NEW t \in Threads, WritePaz(t) PROVE TInv'
    <2>1. Kinds' /\ pc' \in [Threads -> Steps] /\ file' \in [Threads -> Files]
      <3>1. pc[t] \in EngineSteps /\ pc'[t] \in EngineSteps \cup {"idle"}
        BY <1>4, SMT DEF WritePaz, Go, LocalsOK, EngineSteps
      <3>2. pc' = [pc EXCEPT ![t] = pc'[t]] /\ UNCHANGED <<file, mounted>>
        BY <1>4, SMT DEF WritePaz, Go, LocalsOK, process
      <3> QED
        BY <3>1, <3>2, Advance
    <2>2. DiskOK'
      <3>1. /\ stat[t] \in Nat /\ pos[t] \in Nat /\ file[t] \in Files
            /\ save[t].len \in Nat /\ save[t].ver \in Nat
        BY DEF LocalsOK
      <3>2. Append16(paz[Group(t)], pos[t], stat[t], file[t], save[t].len, save[t].ver) \in Paz
        BY <3>1, GroupFacts, PazSize, Append16Type
      <3>3. paz' \in [Groups -> Paz]
        BY <1>4, <3>2 DEF WritePaz, DiskOK
      <3> QED
        BY <1>4, <3>3 DEF WritePaz, DiskOK, process
    <2>3. ProcessOK'
      BY <1>4, ProcessFrame DEF WritePaz
    <2>4. LocalsOK'
      BY <1>4, <2>1 DEF WritePaz, LocalsOK
    <2>5. GhostsOK'
      BY <1>4, GroupFacts DEF WritePaz, GhostsOK
    <2> QED
      BY <2>1, <2>2, <2>3, <2>4, <2>5
  <1>5. ASSUME NEW t \in Threads, WritePazFails(t) PROVE TInv'
    <2>1. Kinds' /\ pc' \in [Threads -> Steps] /\ file' \in [Threads -> Files]
      <3>1. pc[t] \in EngineSteps /\ pc'[t] \in EngineSteps \cup {"idle"}
        BY <1>5, SMT DEF WritePazFails, Go, LocalsOK, EngineSteps
      <3>2. pc' = [pc EXCEPT ![t] = pc'[t]] /\ UNCHANGED <<file, mounted>>
        BY <1>5, SMT DEF WritePazFails, Go, LocalsOK, process
      <3> QED
        BY <3>1, <3>2, Advance
    <2>2. DiskOK'
      <3>1. stat[t] \in Nat /\ pos[t] \in Nat /\ save[t].len \in Nat
        BY DEF LocalsOK
      <3>2. \A n \in Cut(stat[t], save[t].len) : WriteAt(paz[Group(t)], pos[t], n) \in Paz
        BY <3>1, GroupFacts, PazSize, WriteAtType, CutType
      <3>3. PICK n \in Cut(stat[t], save[t].len) :
              paz' = [paz EXCEPT ![Group(t)] = WriteAt(@, pos[t], n)]
        BY <1>5, Zenon DEF WritePazFails
      <3>4. paz' \in [Groups -> Paz]
        BY <3>2, <3>3 DEF DiskOK
      <3> QED
        BY <1>5, <3>4 DEF WritePazFails, DiskOK, process
    <2>3. ProcessOK'
      BY <1>5, ProcessFrame DEF WritePazFails
    <2>4. LocalsOK'
      <3>1. errors' \in [Threads -> Nat]
        BY <1>5, SMT DEF WritePazFails, LocalsOK
      <3> QED
        BY <1>5, <2>1, <3>1 DEF WritePazFails, LocalsOK
    <2>5. GhostsOK'
      BY <1>5, GroupFacts DEF WritePazFails, GhostsOK
    <2> QED
      BY <2>1, <2>2, <2>3, <2>4, <2>5
  <1>6. ASSUME NEW t \in Threads, UpdateRecord(t) PROVE TInv'
    <2>1. Kinds' /\ pc' \in [Threads -> Steps] /\ file' \in [Threads -> Files]
      <3>1. pc[t] \in EngineSteps /\ pc'[t] \in EngineSteps \cup {"idle"}
        BY <1>6, SMT DEF UpdateRecord, Go, LocalsOK, EngineSteps
      <3>2. pc' = [pc EXCEPT ![t] = pc'[t]] /\ UNCHANGED <<file, mounted>>
        BY <1>6, SMT DEF UpdateRecord, Go, LocalsOK, process
      <3> QED
        BY <3>1, <3>2, Advance
    <2>2. DiskOK'
      BY <1>6, DiskFrame DEF UpdateRecord, process
    <2>3. ProcessOK'
      BY <1>6, ProcessFrame DEF UpdateRecord
    <2>4. LocalsOK'
      <3>1. raw' \in [Threads -> Pamt]
        BY <1>6, UpdatedPamt DEF UpdateRecord, LocalsOK
      <3> QED
        BY <1>6, <2>1, <3>1 DEF UpdateRecord, LocalsOK
    <2>5. GhostsOK'
      BY <1>6, GhostsFrame DEF UpdateRecord
    <2> QED
      BY <2>1, <2>2, <2>3, <2>4, <2>5
  <1>7. ASSUME NEW t \in Threads, CreateTmp(t) PROVE TInv'
    <2>1. Kinds' /\ pc' \in [Threads -> Steps] /\ file' \in [Threads -> Files]
      <3>1. pc[t] \in EngineSteps /\ pc'[t] \in EngineSteps \cup {"idle"}
        BY <1>7, SMT DEF CreateTmp, Go, LocalsOK, EngineSteps
      <3>2. pc' = [pc EXCEPT ![t] = pc'[t]] /\ UNCHANGED <<file, mounted>>
        BY <1>7, SMT DEF CreateTmp, Go, LocalsOK, process
      <3> QED
        BY <3>1, <3>2, Advance
    <2>2. DiskOK'
      <3>1. Target(t) \in Shipped \cup {Root}
        BY <1>7 DEF CreateTmp, Target, AtPamt, Kinds, EngineSteps
      <3> QED
        BY <1>7, <3>1, SMT DEF CreateTmp, DiskOK, process
    <2>3. ProcessOK'
      BY <1>7, ProcessFrame DEF CreateTmp
    <2>4. LocalsOK'
      <3>1. fd' \in [Threads -> {"none", "tmp", "target", "gone"}]
        BY <1>7, SMT DEF CreateTmp, LocalsOK
      <3> QED
        BY <1>7, <2>1, <3>1 DEF CreateTmp, LocalsOK
    <2>5. GhostsOK'
      BY <1>7, GhostsFrame DEF CreateTmp
    <2> QED
      BY <2>1, <2>2, <2>3, <2>4, <2>5
  <1>8. ASSUME NEW t \in Threads, WriteTmp(t) PROVE TInv'
    <2>1. Kinds' /\ pc' \in [Threads -> Steps] /\ file' \in [Threads -> Files]
      <3>1. pc[t] \in EngineSteps /\ pc'[t] \in EngineSteps \cup {"idle"}
        BY <1>8, SMT DEF WriteTmp, Go, LocalsOK, EngineSteps
      <3>2. pc' = [pc EXCEPT ![t] = pc'[t]] /\ UNCHANGED <<file, mounted>>
        BY <1>8, SMT DEF WriteTmp, Go, LocalsOK, process
      <3> QED
        BY <3>1, <3>2, Advance
    <2>2. DiskOK'
      <3>1. \/ Target(t) \in Shipped /\ Content(t) \in Pamt
            \/ Target(t) = Root /\ Content(t) \in Papgt
        BY <1>8 DEF WriteTmp, Target, Content, AtPamt, Kinds, LocalsOK, EngineSteps
      <3>2. \/ tmp' = [tmp EXCEPT ![Target(t)] = Content(t)] \/ tmp' = tmp
        BY <1>8 DEF WriteTmp
      <3>3. \/ cur' = [cur EXCEPT ![Target(t)] = Content(t)] \/ cur' = cur
        BY <1>8 DEF WriteTmp
      <3>4. UNCHANGED <<paz, mounted>>
        BY <1>8 DEF WriteTmp, process
      <3> QED
        BY <3>1, <3>2, <3>3, <3>4, SMT DEF DiskOK, Groups
    <2>3. ProcessOK'
      BY <1>8, ProcessFrame DEF WriteTmp
    <2>4. LocalsOK'
      <3>1. fd' \in [Threads -> {"none", "tmp", "target", "gone"}]
        BY <1>8, SMT DEF WriteTmp, LocalsOK
      <3> QED
        BY <1>8, <2>1, <3>1 DEF WriteTmp, LocalsOK
    <2>5. GhostsOK'
      BY <1>8, GhostsFrame DEF WriteTmp
    <2> QED
      BY <2>1, <2>2, <2>3, <2>4, <2>5
  <1>9. ASSUME NEW t \in Threads, RenamePamt(t) PROVE TInv'
    <2>1. Kinds' /\ pc' \in [Threads -> Steps] /\ file' \in [Threads -> Files]
      <3>1. pc[t] \in EngineSteps /\ pc'[t] \in EngineSteps \cup {"idle"}
        BY <1>9, SMT DEF RenamePamt, Go, LocalsOK, EngineSteps
      <3>2. pc' = [pc EXCEPT ![t] = pc'[t]] /\ UNCHANGED <<file, mounted>>
        BY <1>9, SMT DEF RenamePamt, Go, LocalsOK, process
      <3> QED
        BY <3>1, <3>2, Advance
    <2>2. DiskOK'
      <3>1. Group(t) \in Shipped
        BY <1>9 DEF RenamePamt, Kinds, EngineSteps
      <3> QED
        BY <1>9, <3>1, SMT DEF RenamePamt, DiskOK, Groups, process
    <2>3. ProcessOK'
      BY <1>9, ProcessFrame DEF RenamePamt
    <2>4. LocalsOK'
      <3>1. root' \in [Threads -> Papgt]
        BY <1>9, RootEdit DEF RenamePamt, LocalsOK
      <3>2. fd' \in [Threads -> {"none", "tmp", "target", "gone"}]
        BY <1>9, SMT DEF RenamePamt, Replaced, LocalsOK
      <3> QED
        BY <1>9, <2>1, <3>1, <3>2 DEF RenamePamt, LocalsOK
    <2>5. GhostsOK'
      BY <1>9, GroupFacts, SMT DEF RenamePamt, GhostsOK
    <2> QED
      BY <2>1, <2>2, <2>3, <2>4, <2>5
  <1>10. ASSUME NEW t \in Threads, RenamePapgt(t) PROVE TInv'
    <2>1. Kinds' /\ pc' \in [Threads -> Steps] /\ file' \in [Threads -> Files]
      <3>1. pc[t] \in EngineSteps /\ pc'[t] \in EngineSteps \cup {"idle"}
        BY <1>10, SMT DEF RenamePapgt, Go, LocalsOK, EngineSteps
      <3>2. pc' = [pc EXCEPT ![t] = pc'[t]] /\ UNCHANGED <<file, mounted>>
        BY <1>10, SMT DEF RenamePapgt, Go, LocalsOK, process
      <3> QED
        BY <3>1, <3>2, Advance
    <2>2. DiskOK'
      BY <1>10, SMT DEF RenamePapgt, DiskOK, Groups, process
    <2>3. ProcessOK'
      BY <1>10, ProcessFrame DEF RenamePapgt
    <2>4. LocalsOK'
      <3>1. fd' \in [Threads -> {"none", "tmp", "target", "gone"}]
        BY <1>10, SMT DEF RenamePapgt, Replaced, LocalsOK
      <3> QED
        BY <1>10, <2>1, <3>1 DEF RenamePapgt, LocalsOK
    <2>5. GhostsOK'
      BY <1>10, SMT DEF RenamePapgt, GhostsOK, LocalsOK
    <2> QED
      BY <2>1, <2>2, <2>3, <2>4, <2>5
  <1>11. ASSUME NEW t \in Threads, AtomicWriteFails(t) PROVE TInv'
    <2>1. Kinds' /\ pc' \in [Threads -> Steps] /\ file' \in [Threads -> Files]
      <3>1. pc[t] \in EngineSteps /\ pc'[t] \in EngineSteps \cup {"idle"}
        BY <1>11, SMT DEF AtomicWriteFails, Go, LocalsOK, EngineSteps
      <3>2. pc' = [pc EXCEPT ![t] = pc'[t]] /\ UNCHANGED <<file, mounted>>
        BY <1>11, SMT DEF AtomicWriteFails, Go, LocalsOK, process
      <3> QED
        BY <3>1, <3>2, Advance
    <2>2. DiskOK'
      BY <1>11, DiskFrame DEF AtomicWriteFails, process
    <2>3. ProcessOK'
      BY <1>11, ProcessFrame DEF AtomicWriteFails
    <2>4. LocalsOK'
      <3>1. fd' \in [Threads -> {"none", "tmp", "target", "gone"}]
        BY <1>11, SMT DEF AtomicWriteFails, LocalsOK
      <3> QED
        BY <1>11, <2>1, <3>1 DEF AtomicWriteFails, LocalsOK
    <2>5. GhostsOK'
      BY <1>11, GhostsFrame DEF AtomicWriteFails
    <2> QED
      BY <2>1, <2>2, <2>3, <2>4, <2>5
  <1>12. ASSUME NEW t \in Threads, ReloadParse(t) PROVE TInv'
    <2>1. Kinds' /\ pc' \in [Threads -> Steps] /\ file' \in [Threads -> Files]
      <3>1. pc[t] \in EngineSteps /\ pc'[t] \in EngineSteps \cup {"idle"}
        BY <1>12, SMT DEF ReloadParse, Go, LocalsOK, EngineSteps
      <3>2. pc' = [pc EXCEPT ![t] = pc'[t]] /\ UNCHANGED <<file, mounted>>
        BY <1>12, SMT DEF ReloadParse, Go, LocalsOK, process
      <3> QED
        BY <3>1, <3>2, Advance
    <2>2. DiskOK'
      BY <1>12, DiskFrame DEF ReloadParse, process
    <2>3. ProcessOK'
      BY <1>12, ProcessFrame DEF ReloadParse
    <2>4. LocalsOK'
      <3>1. raw' \in [Threads -> Pamt]
        BY <1>12, SMT DEF ReloadParse, LocalsOK, DiskOK, Kinds, EngineSteps
      <3> QED
        BY <1>12, <2>1, <3>1 DEF ReloadParse, LocalsOK
    <2>5. GhostsOK'
      BY <1>12, GhostsFrame DEF ReloadParse
    <2> QED
      BY <2>1, <2>2, <2>3, <2>4, <2>5
  <1>13. ASSUME NEW t \in Threads, ReloadInstall(t) PROVE TInv'
    <2>1. Kinds' /\ pc' \in [Threads -> Steps] /\ file' \in [Threads -> Files]
      <3>1. pc[t] \in EngineSteps /\ pc'[t] \in EngineSteps \cup {"idle"}
        BY <1>13, SMT DEF ReloadInstall, Go, LocalsOK, EngineSteps
      <3>2. pc' = [pc EXCEPT ![t] = pc'[t]] /\ UNCHANGED <<file, mounted>>
        BY <1>13, SMT DEF ReloadInstall, Go, LocalsOK, process
      <3> QED
        BY <3>1, <3>2, Advance
    <2>2. DiskOK'
      BY <1>13, DiskFrame DEF ReloadInstall
    <2>3. ProcessOK'
      BY <1>13, SMT DEF ReloadInstall, ProcessOK, LocalsOK, Kinds, EngineSteps
    <2>4. LocalsOK'
      BY <1>13, <2>1 DEF ReloadInstall, LocalsOK
    <2>5. GhostsOK'
      BY <1>13, GhostsFrame DEF ReloadInstall
    <2> QED
      BY <2>1, <2>2, <2>3, <2>4, <2>5
  <1>14. ASSUME NEW t \in Threads, UserFlushPamt(t) PROVE TInv'
    <2>1. Kinds' /\ pc' \in [Threads -> Steps] /\ file' \in [Threads -> Files]
      <3>1. pc[t] \in UserSteps /\ pc'[t] \in UserSteps \cup {"idle"}
        BY <1>14, SMT DEF UserFlushPamt, Go, LocalsOK, UserSteps
      <3>2. pc' = [pc EXCEPT ![t] = pc'[t]] /\ UNCHANGED <<file, mounted>>
        BY <1>14, SMT DEF UserFlushPamt, Go, LocalsOK, process
      <3> QED
        BY <3>1, <3>2, Advance
    <2>2. DiskOK'
      <3>1. UserPamt \in Pamt
        BY PazSize, SerializedType, PamtTypes DEF UserPamt, Groups, ProcessOK
      <3> QED
        BY <1>14, <3>1, SMT DEF UserFlushPamt, DiskOK, Groups, process
    <2>3. ProcessOK'
      BY <1>14, ProcessFrame DEF UserFlushPamt
    <2>4. LocalsOK'
      BY <1>14, <2>1 DEF UserFlushPamt, LocalsOK
    <2>5. GhostsOK'
      BY <1>14, SMT DEF UserFlushPamt, GhostsOK, Groups
    <2> QED
      BY <2>1, <2>2, <2>3, <2>4, <2>5
  <1>15. ASSUME NEW t \in Threads, UserReadPapgt(t) PROVE TInv'
    <2>1. Kinds' /\ pc' \in [Threads -> Steps] /\ file' \in [Threads -> Files]
      <3>1. pc[t] \in UserSteps /\ pc'[t] \in UserSteps \cup {"idle"}
        BY <1>15, SMT DEF UserReadPapgt, Go, LocalsOK, UserSteps, Return
      <3>2. pc' = [pc EXCEPT ![t] = pc'[t]] /\ UNCHANGED <<file, mounted>>
        BY <1>15, SMT DEF UserReadPapgt, Go, LocalsOK, process, Return
      <3> QED
        BY <3>1, <3>2, Advance
    <2>2. DiskOK'
      BY <1>15, DiskFrame DEF UserReadPapgt
    <2>3. ProcessOK'
      BY <1>15, SMT DEF UserReadPapgt, ProcessOK, Return
    <2>4. LocalsOK'
      <3>1. root' \in [Threads -> Papgt]
        <4>1. \/ root' = root
              \/ /\ cur[Root] # Torn
                 /\ root' = [root EXCEPT ![t] = [cur[Root] EXCEPT ![UserGroup] = cur[UserGroup]]]
          BY <1>15 DEF UserReadPapgt
        <4>2. cur[UserGroup] \in Pamt
          BY <1>15, UserPamtThere DEF UserReadPapgt, UserSteps
        <4>3. cur[Root] # Torn => [cur[Root] EXCEPT ![UserGroup] = cur[UserGroup]] \in Papgt
          BY <4>2, RootEdit DEF DiskOK
        <4> QED
          BY <4>1, <4>3 DEF LocalsOK
      <3> QED
        BY <1>15, <2>1, <3>1 DEF UserReadPapgt, LocalsOK, Return
    <2>5. GhostsOK'
      BY <1>15, SMT DEF UserReadPapgt, GhostsOK, LocalsOK
    <2> QED
      BY <2>1, <2>2, <2>3, <2>4, <2>5
  <1>16. ASSUME NEW t \in Threads, UserWritePapgt(t) PROVE TInv'
    <2>1. Kinds' /\ pc' \in [Threads -> Steps] /\ file' \in [Threads -> Files]
      <3>1. pc[t] \in UserSteps /\ pc'[t] \in UserSteps \cup {"idle"}
        BY <1>16, SMT DEF UserWritePapgt, Go, LocalsOK, UserSteps, Return
      <3>2. pc' = [pc EXCEPT ![t] = pc'[t]] /\ UNCHANGED <<file, mounted>>
        BY <1>16, SMT DEF UserWritePapgt, Go, LocalsOK, process, Return
      <3> QED
        BY <3>1, <3>2, Advance
    <2>2. DiskOK'
      BY <1>16, SMT DEF UserWritePapgt, DiskOK, LocalsOK, Groups
    <2>3. ProcessOK'
      BY <1>16 DEF UserWritePapgt, ProcessOK, Return
    <2>4. LocalsOK'
      <3>1. fd' \in [Threads -> {"none", "tmp", "target", "gone"}]
        BY <1>16, SMT DEF UserWritePapgt, Replaced, LocalsOK
      <3> QED
        BY <1>16, <2>1, <3>1 DEF UserWritePapgt, LocalsOK, Return
    <2>5. GhostsOK'
      BY <1>16, SMT DEF UserWritePapgt, GhostsOK, LocalsOK
    <2> QED
      BY <2>1, <2>2, <2>3, <2>4, <2>5
  <1>17. ASSUME NEW t \in Threads, UserWriteFails(t) PROVE TInv'
    <2>1. Kinds' /\ pc' \in [Threads -> Steps] /\ file' \in [Threads -> Files]
      <3>1. pc[t] \in UserSteps /\ pc'[t] \in UserSteps \cup {"idle"}
        BY <1>17, SMT DEF UserWriteFails, Go, LocalsOK, UserSteps, Return
      <3>2. pc' = [pc EXCEPT ![t] = pc'[t]] /\ UNCHANGED <<file, mounted>>
        BY <1>17, SMT DEF UserWriteFails, Go, LocalsOK, process, Return
      <3> QED
        BY <3>1, <3>2, Advance
    <2>2. DiskOK'
      BY <1>17, DiskFrame DEF UserWriteFails
    <2>3. ProcessOK'
      BY <1>17 DEF UserWriteFails, ProcessOK, Return
    <2>4. LocalsOK'
      BY <1>17, <2>1 DEF UserWriteFails, LocalsOK, Return
    <2>5. GhostsOK'
      BY <1>17, GhostsFrame DEF UserWriteFails
    <2> QED
      BY <2>1, <2>2, <2>3, <2>4, <2>5
  <1>18. ASSUME NEW t \in Threads, NEW f \in Files, NEW len \in Sizes, StartRepack(t, f, len) PROVE TInv'
    <2>1. Kinds' /\ pc' \in [Threads -> Steps] /\ file' \in [Threads -> Files]
      <3>1. mounted /\ pc[t] = "idle" /\ file' = [file EXCEPT ![t] = f] /\ UNCHANGED mounted
        BY <1>18, Zenon DEF StartRepack, Active, process
      <3>2. pc' = [pc EXCEPT ![t] = pc'[t]] /\ pc'[t] = "read_papgt" /\ GroupOf[f] \in Shipped
        BY <1>18, <3>1, SMT DEF StartRepack, Go, LocalsOK
      <3>3. pc'[t] \in Steps
        BY <3>2 DEF Steps, EngineSteps, UserSteps
      <3>4. /\ pc'[t] \in EngineSteps => GroupOf[f] \in Shipped
            /\ pc'[t] \in UserSteps => GroupOf[f] = UserGroup
        BY <3>2 DEF EngineSteps, UserSteps
      <3> QED
        BY <3>1, <3>2, <3>3, <3>4, Begin
    <2>2. DiskOK'
      BY <1>18, DiskFrame DEF StartRepack, process
    <2>3. ProcessOK'
      BY <1>18, ProcessFrame DEF StartRepack
    <2>4. LocalsOK'
      <3>1. save' \in [Threads -> [len : Nat, ver : Nat]]
        BY <1>18, SMT DEF StartRepack, LocalsOK, GhostsOK
      <3>2. raw' \in [Threads -> Pamt]
        BY <1>18, SMT DEF StartRepack, LocalsOK, ProcessOK
      <3>3. errors' \in [Threads -> Nat]
        BY <1>18, SMT DEF StartRepack, LocalsOK
      <3> QED
        BY <1>18, <2>1, <3>1, <3>2, <3>3 DEF StartRepack, LocalsOK
    <2>5. GhostsOK'
      BY <1>18, SMT DEF StartRepack, GhostsOK
    <2> QED
      BY <2>1, <2>2, <2>3, <2>4, <2>5
  <1>19. ASSUME NEW t \in Threads, NEW f \in Files, NEW len \in Sizes, UserAdd(t, f, len) PROVE TInv'
    <2>1. Kinds' /\ pc' \in [Threads -> Steps] /\ file' \in [Threads -> Files]
      <3>1. mounted /\ pc[t] = "idle" /\ file' = [file EXCEPT ![t] = f] /\ UNCHANGED mounted
        BY <1>19, Zenon DEF UserAdd, Active, process, Lock
      <3>2. pc' = [pc EXCEPT ![t] = pc'[t]] /\ pc'[t] = "u_pamt" /\ GroupOf[f] = UserGroup
        BY <1>19, <3>1, SMT DEF UserAdd, Go, LocalsOK, Lock
      <3>3. pc'[t] \in Steps
        BY <3>2 DEF Steps, EngineSteps, UserSteps
      <3>4. /\ pc'[t] \in EngineSteps => GroupOf[f] \in Shipped
            /\ pc'[t] \in UserSteps => GroupOf[f] = UserGroup
        BY <3>2 DEF EngineSteps, UserSteps
      <3> QED
        BY <3>1, <3>2, <3>3, <3>4, Begin
    <2>2. DiskOK'
      <3>1. UserGroup \in Groups /\ len \in Nat /\ nextVer \in Nat
        BY DEF Groups, GhostsOK
      <3>2. Append16(paz[UserGroup], paz[UserGroup].size, paz[UserGroup].size, f, len, nextVer) \in Paz
        BY <3>1, PazSize, Append16Type
      <3>3. paz' \in [Groups -> Paz]
        BY <1>19, <3>1, <3>2 DEF UserAdd, DiskOK
      <3> QED
        BY <1>19, <3>3 DEF UserAdd, DiskOK
    <2>3. ProcessOK'
      BY <1>19, AlignFacts, PazSize, SMT DEF UserAdd, Groups, ProcessOK, Recs, Record
    <2>4. LocalsOK'
      <3>1. save' \in [Threads -> [len : Nat, ver : Nat]]
        BY <1>19, SMT DEF UserAdd, LocalsOK, GhostsOK
      <3> QED
        BY <1>19, <2>1, <3>1 DEF UserAdd, LocalsOK, Lock
    <2>5. GhostsOK'
      <3>1. nextVer' \in Nat
        BY <1>19, SMT DEF UserAdd, GhostsOK
      <3> QED
        BY <1>19, <3>1 DEF UserAdd, GhostsOK, Groups
    <2> QED
      BY <2>1, <2>2, <2>3, <2>4, <2>5
  <1>20. ASSUME NEW t \in Threads, NEW f \in Files, NEW len \in Sizes, UserAddFails(t, f, len) PROVE TInv'
    <2>1. Kinds' /\ pc' \in [Threads -> Steps] /\ file' \in [Threads -> Files]
      <3>1. mounted /\ pc[t] = "idle" /\ file' = [file EXCEPT ![t] = f] /\ UNCHANGED mounted
        BY <1>20, Zenon DEF UserAddFails, Active, process, Lock
      <3>2. pc' = [pc EXCEPT ![t] = pc'[t]] /\ pc'[t] = "idle"
        BY <1>20, <3>1, SMT DEF UserAddFails, Go, LocalsOK, Lock
      <3>3. pc'[t] \in Steps
        BY <3>2 DEF Steps, EngineSteps, UserSteps
      <3>4. /\ pc'[t] \in EngineSteps => GroupOf[f] \in Shipped
            /\ pc'[t] \in UserSteps => GroupOf[f] = UserGroup
        BY <3>2 DEF EngineSteps, UserSteps
      <3> QED
        BY <3>1, <3>2, <3>3, <3>4, Begin
    <2>2. DiskOK'
      <3>1. UserGroup \in Groups /\ len \in Nat
        BY DEF Groups
      <3>2. \A n \in Cut(paz[UserGroup].size, len) : WriteAt(paz[UserGroup], paz[UserGroup].size, n) \in Paz
        BY <3>1, PazSize, WriteAtType, CutType
      <3>3. paz' \in [Groups -> Paz]
        BY <1>20, <3>1, <3>2 DEF UserAddFails, DiskOK
      <3> QED
        BY <1>20, <3>3 DEF UserAddFails, DiskOK, process
    <2>3. ProcessOK'
      BY <1>20, ProcessFrame DEF UserAddFails
    <2>4. LocalsOK'
      BY <1>20, <2>1 DEF UserAddFails, LocalsOK, Lock
    <2>5. GhostsOK'
      <3>1. nextVer' \in Nat
        BY <1>20, SMT DEF UserAddFails, GhostsOK
      <3> QED
        BY <1>20, <3>1 DEF UserAddFails, GhostsOK, Groups
    <2> QED
      BY <2>1, <2>2, <2>3, <2>4, <2>5
  <1>21. ASSUME NEW t \in Threads, NEW f \in Files, UserRemove(t, f) PROVE TInv'
    <2>1. Kinds' /\ pc' \in [Threads -> Steps] /\ file' \in [Threads -> Files]
      <3>1. mounted /\ pc[t] = "idle" /\ file' = [file EXCEPT ![t] = f] /\ UNCHANGED mounted
        BY <1>21, Zenon DEF UserRemove, Active, process, Lock
      <3>2. pc' = [pc EXCEPT ![t] = pc'[t]] /\ pc'[t] = "u_pamt" /\ GroupOf[f] = UserGroup
        BY <1>21, <3>1, SMT DEF UserRemove, Go, LocalsOK, Lock
      <3>3. pc'[t] \in Steps
        BY <3>2 DEF Steps, EngineSteps, UserSteps
      <3>4. /\ pc'[t] \in EngineSteps => GroupOf[f] \in Shipped
            /\ pc'[t] \in UserSteps => GroupOf[f] = UserGroup
        BY <3>2 DEF EngineSteps, UserSteps
      <3> QED
        BY <3>1, <3>2, <3>3, <3>4, Begin
    <2>2. DiskOK'
      BY <1>21, DiskFrame DEF UserRemove
    <2>3. ProcessOK'
      BY <1>21, SMT DEF UserRemove, ProcessOK, Recs
    <2>4. LocalsOK'
      <3>1. save' \in [Threads -> [len : Nat, ver : Nat]]
        BY <1>21, SMT DEF UserRemove, LocalsOK, NoSave
      <3> QED
        BY <1>21, <2>1, <3>1 DEF UserRemove, LocalsOK, Lock
    <2>5. GhostsOK'
      BY <1>21, SMT DEF UserRemove, GhostsOK
    <2> QED
      BY <2>1, <2>2, <2>3, <2>4, <2>5
  <1>22. ASSUME Crash PROVE TInv'
    <2>1. pc' \in [Threads -> Steps] /\ \A s \in Threads : pc'[s] = "idle"
      BY <1>22, SMT DEF Crash, Steps
    <2>2. fd' \in [Threads -> {"none", "tmp", "target", "gone"}]
      BY <1>22, SMT DEF Crash
    <2>3. LocalsOK' /\ Kinds'
      BY <1>22, <2>1, <2>2 DEF Crash, LocalsOK, Kinds, EngineSteps, UserSteps
    <2>4. ProcessOK'
      BY <1>22, PamtTypes DEF Crash, ProcessOK
    <2>5. DiskOK' /\ GhostsOK'
      BY <1>22 DEF Crash, DiskOK, GhostsOK, disk, ghosts
    <2> QED
      BY <2>3, <2>4, <2>5
  <1>23. ASSUME Mount PROVE TInv'
    <2>1. DiskOK'
      BY <1>23, PamtTypes, PazSize, SMT DEF Mount, DiskOK, Groups, Papgt, Slotted
    <2>2. ProcessOK'
      BY <1>23, PamtTypes, SMT DEF Mount, DiskOK, ProcessOK
    <2>3. LocalsOK' /\ Kinds'
      BY <1>23 DEF Mount, LocalsOK, Kinds, Group
    <2>4. GhostsOK'
      BY <1>23, SMT DEF Mount, GhostsOK
    <2> QED
      BY <2>1, <2>2, <2>3, <2>4
  <1>24. ASSUME UNCHANGED vars PROVE TInv'
    <2>1. DiskOK' /\ ProcessOK' /\ GhostsOK'
      BY <1>24, DiskFrame, ProcessFrame, GhostsFrame DEF vars, disk, process, ghosts
    <2>2. LocalsOK' /\ Kinds'
      BY <1>24 DEF vars, LocalsOK, Kinds, Group
    <2> QED
      BY <2>1, <2>2
  <1> QED
    BY <1>1, <1>2, <1>3, <1>4, <1>5, <1>6, <1>7, <1>8, <1>9, <1>10, <1>11, <1>12, <1>13,
       <1>14, <1>15, <1>16, <1>17, <1>18, <1>19, <1>20, <1>21, <1>22, <1>23, <1>24
       DEF Next, Repack, UserOp

\* TypeOK, for every interleaving, failure and crash.
THEOREM TypeCorrect == Spec => []TypeOK
  <1>1. Init => TInv
    BY TypeInit
  <1>2. TInv /\ [Next]_vars => TInv'
    BY TypeNext
  <1>3. TInv => TypeOK
    BY DEF TInv
  <1> QED
    BY <1>1, <1>2, <1>3, PTL DEF Spec

=============================================================================
