-------------------------- MODULE RepackReadProofs --------------------------
(***************************************************************************)
(* Readability, for any threads, groups, files and sizes, when no two      *)
(* saves of one group overlap.  A thread that has computed an offset       *)
(* (stat) is then the only one that appends to its PAZ until its blob is   *)
(* written, so the file still ends where stat and the cursor say.  No blob *)
(* is ever overwritten, and every record table in use anywhere (on disk,   *)
(* in a temp file, in the index, in a saver's buffer) names only blobs of  *)
(* its own files.                                                          *)
(***************************************************************************)
EXTENDS RepackChainProofs

Apart ==
  \A s, t \in Threads :
    s # t /\ pc[s] # "idle" /\ pc[t] # "idle" => Group(s) # Group(t)

Inside == \A g \in Groups : \A b \in paz[g].blobs : b.at + b.len <= paz[g].size

CursorOK(t) ==
  /\ pc[t] \in {"seek_paz", "write_paz"} => stat[t] = paz[Group(t)].size
  /\ pc[t] = "write_paz" => pos[t] = paz[Group(t)].size
  /\ pc[t] = "update_record" =>
       Names(paz[Group(t)], [at |-> Align16(stat[t]), len |-> save[t].len], file[t])

Cursor == \A t \in Threads : CursorOK(t)

\* The table r is in use for the group g.
InUse(r, g) ==
  \/ cur[g] \notin {Torn, Absent} /\ r = cur[g].recs
  \/ g \in Shipped /\ tmp[g] \notin {Torn, Absent} /\ r = tmp[g].recs
  \/ g \in Shipped /\ index[g] # Absent /\ r = index[g].recs
  \/ g = UserGroup /\ r = userFiles
  \/ \E t \in Threads : pc[t] \in EngineSteps /\ Group(t) = g /\ r = raw[t].recs

Good(z, r, g) == z.size < PazLimit => OwnData(z, r, g)

Readable == \A g \in Groups : \A r \in Recs : InUse(r, g) => Good(paz[g], r, g)

RInv == TInv /\ Apart /\ Inside /\ Cursor /\ Readable

(* The file only grows, and a table that is good stays good. *)

Grows(z, y) == z.blobs \subseteq y.blobs /\ z.size <= y.size

LEMMA GoodGrows ==
  ASSUME NEW z \in Paz, NEW y \in Paz, Grows(z, y), NEW r \in Recs, NEW g, Good(z, r, g)
  PROVE  Good(y, r, g)
  <1>1. y.size < PazLimit => z.size < PazLimit
    BY ConstantsAssumption, SMT DEF Grows, Paz
  <1>2. \A f \in Files : r[f] # NoRec /\ Names(z, r[f], f) => Names(y, r[f], f)
    BY DEF Grows, Names
  <1> QED
    BY <1>1, <1>2 DEF Good, OwnData

LEMMA GoodNoFiles == ASSUME NEW z, NEW g PROVE Good(z, NoFiles, g)
  BY DEF Good, OwnData, NoFiles

\* Offsets inside a file shorter than PazLimit survive the cast to u32.
LEMMA GoodSerialized ==
  ASSUME NEW z \in Paz, \A b \in z.blobs : b.at + b.len <= z.size,
         NEW r \in Recs, NEW g, Good(z, r, g)
  PROVE  Good(z, Serialized(r), g)
  <1>1. SUFFICES ASSUME z.size < PazLimit, NEW f \in Files, GroupOf[f] = g, r[f] # NoRec
                 PROVE  Names(z, Serialized(r)[f], f)
    BY DEF Good, OwnData, Serialized
  <1>2. Names(z, r[f], f)
    BY <1>1 DEF Good, OwnData
  <1>3. PICK b \in z.blobs : b.at = r[f].at /\ b.len = r[f].len /\ b.file = f
    BY <1>2 DEF Names
  <1>4. r[f].at < PazLimit
    <2>1. b.at \in Nat /\ b.len \in Nat /\ z.size \in Nat
      BY DEF Paz, Blob
    <2> QED
      BY <1>1, <1>3, <2>1, ConstantsAssumption, SMT
  <1>5. Serialized(r)[f].at = r[f].at /\ Serialized(r)[f].len = r[f].len
    BY <1>1, <1>4 DEF Serialized, AsU32
  <1> QED
    BY <1>3, <1>5 DEF Names

\* The record of a blob that is there.
LEMMA GoodNewRecord ==
  ASSUME NEW z \in Paz, \A b \in z.blobs : b.at + b.len <= z.size,
         NEW r \in Recs, NEW g, Good(z, r, g), NEW f \in Files,
         NEW s \in Nat, NEW len \in Nat,
         Names(z, [at |-> Align16(s), len |-> len], f)
  PROVE  Good(z, [r EXCEPT ![f] = NewRecord(s, len)], g)
  <1>1. SUFFICES ASSUME z.size < PazLimit
                 PROVE  Names(z, NewRecord(s, len), f)
    BY DEF Good, OwnData, Recs
  <1>2. PICK b \in z.blobs : b.at = Align16(s) /\ b.len = len /\ b.file = f
    BY DEF Names
  <1>3. Align16(s) < PazLimit
    <2>1. b.at \in Nat /\ b.len \in Nat /\ z.size \in Nat
      BY DEF Paz, Blob
    <2> QED
      BY <1>1, <1>2, <2>1, ConstantsAssumption, SMT
  <1> QED
    BY <1>2, <1>3 DEF Names, NewRecord, AsU32

\* An append at the end of the file.
LEMMA AppendAtEnd ==
  ASSUME NEW z \in Paz, \A b \in z.blobs : b.at + b.len <= z.size,
         NEW f \in Files, NEW len \in Nat, NEW ver \in Nat
  PROVE  LET y == Append16(z, z.size, z.size, f, len, ver)
         IN  /\ y \in Paz /\ Grows(z, y)
             /\ \A b \in y.blobs : b.at + b.len <= y.size
             /\ Names(y, [at |-> Align16(z.size), len |-> len], f)
  <1> DEFINE new == [at |-> z.size + Padding(z.size), len |-> len, file |-> f, ver |-> ver]
             w   == WriteAt(z, z.size, Padding(z.size) + len)
             y   == Append16(z, z.size, z.size, f, len, ver)
  <1>1. z.size \in Nat /\ Padding(z.size) \in Nat /\ Align16(z.size) = z.size + Padding(z.size)
    BY AlignFacts, SMT DEF Paz, Padding, Align16
  <1>2. /\ w.blobs = z.blobs /\ w.size >= z.size /\ w.size \in Nat
        /\ w.size >= z.size + Padding(z.size) + len
    BY <1>1, WriteAtEnd, SMT
  <1>3. y.size = w.size /\ y.blobs = z.blobs \cup {new}
    BY <1>2 DEF Append16
  <1>4. y \in Paz
    BY <1>1, Append16Type
  <1>5. \A b \in z.blobs : b.at \in Nat /\ b.len \in Nat
    BY DEF Paz, Blob
  <1>6. \A b \in y.blobs : b.at + b.len <= y.size
    BY <1>1, <1>2, <1>3, <1>5, SMT
  <1>7. Grows(z, y)
    BY <1>1, <1>2, <1>3, SMT DEF Grows
  <1>8. Names(y, [at |-> Align16(z.size), len |-> len], f)
    <2>1. new \in y.blobs
      BY <1>3
    <2>2. new.at = Align16(z.size) /\ new.len = len /\ new.file = f
      BY <1>1
    <2> HIDE DEF new, y
    <2> QED
      BY <2>1, <2>2 DEF Names
  <1> QED
    BY <1>4, <1>6, <1>7, <1>8

\* What a failed append leaves behind.
LEMMA CutAtEnd ==
  ASSUME NEW z \in Paz, \A b \in z.blobs : b.at + b.len <= z.size, NEW n \in Int
  PROVE  LET y == WriteAt(z, z.size, n)
         IN  /\ y \in Paz /\ Grows(z, y)
             /\ \A b \in y.blobs : b.at + b.len <= y.size
  <1> DEFINE y == WriteAt(z, z.size, n)
  <1>1. z.size \in Nat /\ \A b \in z.blobs : b.at \in Nat /\ b.len \in Nat
    BY DEF Paz, Blob
  <1>2. y.blobs = z.blobs /\ y.size >= z.size /\ y.size \in Nat
    BY WriteAtEnd
  <1>3. y \in Paz
    BY <1>1, WriteAtType
  <1> QED
    BY <1>1, <1>2, <1>3, SMT DEF Grows

----------------------------------------------------------------------------
(* What a step of the thread t does to the others and to the PAZ files *)

Step(t) == Repack(t) \/ UserOp(t)

\* Every other thread stays where it is, with its own file and buffers.
Only(t) ==
  \A s \in Threads : s # t =>
    /\ pc'[s] = pc[s] /\ file'[s] = file[s] /\ save'[s] = save[s]
    /\ stat'[s] = stat[s] /\ pos'[s] = pos[s] /\ raw'[s] = raw[s]

LEMMA StepOnly ==
  ASSUME LocalsOK, NEW t \in Threads, Step(t)
  PROVE  Only(t)
  <1>1. CASE \E f \in Files, len \in Sizes : StartRepack(t, f, len)
    BY <1>1 DEF StartRepack, Go, Only, LocalsOK
  <1>2. CASE ReadPapgt(t)
    BY <1>2 DEF ReadPapgt, Go, Only, LocalsOK
  <1>3. CASE StatPaz(t)
    BY <1>3 DEF StatPaz, Go, Only, LocalsOK
  <1>4. CASE SeekPaz(t)
    BY <1>4 DEF SeekPaz, Go, Only, LocalsOK
  <1>5. CASE WritePaz(t)
    BY <1>5 DEF WritePaz, Go, Only, LocalsOK
  <1>6. CASE WritePazFails(t)
    BY <1>6 DEF WritePazFails, Go, Only, LocalsOK
  <1>7. CASE UpdateRecord(t)
    BY <1>7 DEF UpdateRecord, Go, Only, LocalsOK
  <1>8. CASE CreateTmp(t)
    BY <1>8 DEF CreateTmp, Go, Only, LocalsOK
  <1>9. CASE WriteTmp(t)
    BY <1>9 DEF WriteTmp, Go, Only, LocalsOK
  <1>10. CASE RenamePamt(t)
    BY <1>10 DEF RenamePamt, Go, Only, LocalsOK
  <1>11. CASE RenamePapgt(t)
    BY <1>11 DEF RenamePapgt, Go, Only, LocalsOK
  <1>12. CASE AtomicWriteFails(t)
    BY <1>12 DEF AtomicWriteFails, Go, Only, LocalsOK
  <1>13. CASE ReloadParse(t)
    BY <1>13 DEF ReloadParse, Go, Only, LocalsOK
  <1>14. CASE ReloadInstall(t)
    BY <1>14 DEF ReloadInstall, Go, Only, LocalsOK
  <1>15. CASE \E f \in Files, len \in Sizes : UserAdd(t, f, len)
    BY <1>15 DEF UserAdd, Lock, Return, Go, Only, LocalsOK
  <1>16. CASE \E f \in Files, len \in Sizes : UserAddFails(t, f, len)
    BY <1>16 DEF UserAddFails, Lock, Return, Go, Only, LocalsOK
  <1>17. CASE \E f \in Files : UserRemove(t, f)
    BY <1>17 DEF UserRemove, Lock, Return, Go, Only, LocalsOK
  <1>18. CASE UserFlushPamt(t)
    BY <1>18 DEF UserFlushPamt, Lock, Return, Go, Only, LocalsOK
  <1>19. CASE UserReadPapgt(t)
    BY <1>19 DEF UserReadPapgt, Lock, Return, Go, Only, LocalsOK
  <1>20. CASE UserWritePapgt(t)
    BY <1>20 DEF UserWritePapgt, Lock, Return, Go, Only, LocalsOK
  <1>21. CASE UserWriteFails(t)
    BY <1>21 DEF UserWriteFails, Lock, Return, Go, Only, LocalsOK
  <1> QED
    BY <1>1, <1>2, <1>3, <1>4, <1>5, <1>6, <1>7, <1>8, <1>9, <1>10, <1>11, <1>12, <1>13, <1>14, <1>15, <1>16, <1>17, <1>18, <1>19, <1>20, <1>21
       DEF Step, Repack, UserOp

\* A thread that becomes active was let in by the clients.
LEMMA ApartStep ==
  ASSUME TInv, Apart, Overlap # "any", NEW t \in Threads, Step(t)
  PROVE  Apart'
  <1> DEFINE Alone == \A s \in Threads : s # t /\ pc[s] # "idle" => Group(s) # GroupOf[file'[t]]
             Goal  == pc'[t] = "idle" \/ (pc[t] # "idle" /\ file'[t] = file[t]) \/ Alone
  <1> USE DEF TInv, TypeOK, LocalsOK
  <1>1. \A g \in Groups : ClientsAllow(g) => \A s \in Threads : Active(s) => Group(s) # g
    BY ConstantsAssumption DEF ClientsAllow
  <1>2. \A f \in Files : GroupOf[f] \in Groups
    BY ConstantsAssumption
  <1>3. ASSUME \E f \in Files, len \in Sizes : StartRepack(t, f, len) PROVE Goal
    <2>1. PICK f \in Files, len \in Sizes : StartRepack(t, f, len)
      BY <1>3
    <2>2. ClientsAllow(GroupOf[f]) /\ file'[t] = f
      BY <2>1 DEF StartRepack
    <2>3. Alone
      BY <1>1, <1>2, <2>2 DEF Active
    <2> QED
      BY <2>3
  <1>4. ASSUME \E f \in Files : UserRemove(t, f) \/ \E len \in Sizes : UserAdd(t, f, len) PROVE Goal
    <2>1. PICK f \in Files : UserRemove(t, f) \/ \E len \in Sizes : UserAdd(t, f, len)
      BY <1>4
    <2>2. ClientsAllow(GroupOf[f]) /\ file'[t] = f
      BY <2>1 DEF UserRemove, UserAdd, Lock
    <2>3. Alone
      BY <1>1, <1>2, <2>2 DEF Active
    <2> QED
      BY <2>3
  <1>5. ASSUME \E f \in Files, len \in Sizes : UserAddFails(t, f, len) PROVE Goal
    BY <1>5 DEF UserAddFails, Lock, Active
  <1>6. ASSUME ReadPapgt(t) PROVE Goal
    BY <1>6 DEF ReadPapgt
  <1>7. ASSUME StatPaz(t) PROVE Goal
    BY <1>7 DEF StatPaz
  <1>8. ASSUME SeekPaz(t) PROVE Goal
    BY <1>8 DEF SeekPaz
  <1>9. ASSUME WritePaz(t) PROVE Goal
    BY <1>9 DEF WritePaz
  <1>10. ASSUME WritePazFails(t) PROVE Goal
    BY <1>10 DEF WritePazFails
  <1>11. ASSUME UpdateRecord(t) PROVE Goal
    BY <1>11 DEF UpdateRecord
  <1>12. ASSUME CreateTmp(t) PROVE Goal
    BY <1>12 DEF CreateTmp
  <1>13. ASSUME WriteTmp(t) PROVE Goal
    BY <1>13 DEF WriteTmp
  <1>14. ASSUME RenamePamt(t) PROVE Goal
    BY <1>14 DEF RenamePamt
  <1>15. ASSUME RenamePapgt(t) PROVE Goal
    BY <1>15 DEF RenamePapgt
  <1>16. ASSUME AtomicWriteFails(t) PROVE Goal
    BY <1>16 DEF AtomicWriteFails
  <1>17. ASSUME ReloadParse(t) PROVE Goal
    BY <1>17 DEF ReloadParse
  <1>18. ASSUME ReloadInstall(t) PROVE Goal
    BY <1>18 DEF ReloadInstall
  <1>19. ASSUME UserFlushPamt(t) PROVE Goal
    BY <1>19 DEF UserFlushPamt
  <1>20. ASSUME UserReadPapgt(t) PROVE Goal
    BY <1>20 DEF UserReadPapgt
  <1>21. ASSUME UserWritePapgt(t) PROVE Goal
    BY <1>21 DEF UserWritePapgt
  <1>22. ASSUME UserWriteFails(t) PROVE Goal
    BY <1>22 DEF UserWriteFails
  <1>23. Goal
    BY Step(t), <1>3, <1>4, <1>5, <1>6, <1>7, <1>8, <1>9, <1>10, <1>11, <1>12, <1>13, <1>14, <1>15, <1>16, <1>17, <1>18, <1>19, <1>20, <1>21, <1>22
       DEF Step, Repack, UserOp
  <1> QED
    BY <1>23, StepOnly DEF Apart, Only, Group

\* The PAZ of at most one group grows, and nobody else saves in that group.
LEMMA PazStep ==
  ASSUME TInv, Apart, Inside, Cursor, Overlap # "any", NEW t \in Threads, Step(t)
  PROVE  /\ Inside' /\ \A g \in Groups : Grows(paz[g], paz'[g])
         /\ \A s \in Threads : s # t /\ pc[s] # "idle" => paz'[Group(s)] = paz[Group(s)]
  <1> DEFINE Put(g, y) ==
               /\ paz' = [paz EXCEPT ![g] = y]
               /\ y \in Paz /\ Grows(paz[g], y) /\ \A b \in y.blobs : b.at + b.len <= y.size
               /\ \A s \in Threads : s # t /\ pc[s] # "idle" => Group(s) # g
             Goal == UNCHANGED paz \/ \E g \in Groups, y \in Paz : Put(g, y)
  <1>1. paz \in [Groups -> Paz] /\ file \in [Threads -> Files] /\ UserGroup \in Groups
    BY DEF TInv, TypeOK, DiskOK, LocalsOK, Groups
  <1>2. /\ Group(t) \in Groups /\ paz[Group(t)] \in Paz /\ save[t].len \in Nat
        /\ save[t].ver \in Nat /\ nextVer \in Nat
    BY <1>1, GroupFacts DEF TInv, TypeOK, LocalsOK, GhostsOK
  <1>3. \A f, len : Lock(t, f) => \A s \in Threads : s # t /\ pc[s] # "idle" => Group(s) # UserGroup
    BY ConstantsAssumption DEF Lock, ClientsAllow, Active
  <1>4. ASSUME WritePaz(t) PROVE Goal
    <2> DEFINE z == paz[Group(t)]
               y == Append16(z, z.size, z.size, file[t], save[t].len, save[t].ver)
    <2>1. stat[t] = z.size /\ pos[t] = z.size
      BY <1>4 DEF WritePaz, Cursor, CursorOK
    <2>2. paz' = [paz EXCEPT ![Group(t)] = y]
      BY <1>4, <2>1 DEF WritePaz
    <2>3. y \in Paz /\ Grows(z, y) /\ \A b \in y.blobs : b.at + b.len <= y.size
      BY <1>1, <1>2, AppendAtEnd DEF Inside
    <2>4. \A s \in Threads : s # t /\ pc[s] # "idle" => Group(s) # Group(t)
      BY <1>4 DEF WritePaz, Apart
    <2>5. Put(Group(t), y)
      BY <2>2, <2>3, <2>4
    <2> QED
      BY <1>2, <2>3, <2>5
  <1>5. ASSUME WritePazFails(t) PROVE Goal
    <2> DEFINE z == paz[Group(t)]
    <2>1. PICK n \in Cut(stat[t], save[t].len) :
            paz' = [paz EXCEPT ![Group(t)] = WriteAt(@, pos[t], n)]
      BY <1>5, Zenon DEF WritePazFails
    <2>2. pos[t] = z.size /\ n \in Int
      <3>1. stat[t] \in Nat
        BY DEF TInv, TypeOK, LocalsOK
      <3> QED
        BY <1>2, <1>5, <3>1, CutType DEF WritePazFails, Cursor, CursorOK
    <2> DEFINE y == WriteAt(z, z.size, n)
    <2>3. y \in Paz /\ Grows(z, y) /\ \A b \in y.blobs : b.at + b.len <= y.size
      BY <1>2, <2>2, CutAtEnd DEF Inside
    <2>4. \A s \in Threads : s # t /\ pc[s] # "idle" => Group(s) # Group(t)
      BY <1>5 DEF WritePazFails, Apart
    <2>5. Put(Group(t), y)
      BY <2>1, <2>2, <2>3, <2>4
    <2> QED
      BY <1>2, <2>3, <2>5
  <1>6. ASSUME \E f \in Files, len \in Sizes : UserAdd(t, f, len) PROVE Goal
    <2>1. PICK f \in Files, len \in Sizes : UserAdd(t, f, len)
      BY <1>6
    <2> DEFINE z == paz[UserGroup]
               y == Append16(z, z.size, z.size, f, len, nextVer)
    <2>2. paz' = [paz EXCEPT ![UserGroup] = y] /\ Lock(t, f)
      BY <2>1 DEF UserAdd
    <2>3. y \in Paz /\ Grows(z, y) /\ \A b \in y.blobs : b.at + b.len <= y.size
      BY <1>1, <1>2, AppendAtEnd, ConstantsAssumption DEF Inside
    <2>4. Put(UserGroup, y)
      BY <1>3, <2>2, <2>3
    <2> QED
      BY <1>1, <2>3, <2>4
  <1>7. ASSUME \E f \in Files, len \in Sizes : UserAddFails(t, f, len) PROVE Goal
    <2>1. PICK f \in Files, len \in Sizes : UserAddFails(t, f, len)
      BY <1>7
    <2> DEFINE z == paz[UserGroup]
    <2>2. Lock(t, f) /\ z \in Paz /\ z.size \in Nat
      BY <1>1, <2>1 DEF UserAddFails, Paz
    <2>3. PICK n \in Cut(z.size, len) : paz' = [paz EXCEPT ![UserGroup] = WriteAt(@, z.size, n)]
      BY <2>1, Zenon DEF UserAddFails
    <2> DEFINE y == WriteAt(z, z.size, n)
    <2>4. n \in Int
      BY <2>2, CutType, ConstantsAssumption
    <2>5. y \in Paz /\ Grows(z, y) /\ \A b \in y.blobs : b.at + b.len <= y.size
      BY <1>1, <2>2, <2>4, CutAtEnd DEF Inside
    <2>6. Put(UserGroup, y)
      BY <1>3, <2>2, <2>3, <2>5
    <2> QED
      BY <1>1, <2>5, <2>6
  <1>8. ASSUME \E f \in Files, len \in Sizes : StartRepack(t, f, len) PROVE Goal
    BY <1>8 DEF StartRepack, disk
  <1>9. ASSUME \E f \in Files : UserRemove(t, f) PROVE Goal
    BY <1>9 DEF UserRemove, disk
  <1>10. ASSUME ReadPapgt(t) PROVE Goal
    BY <1>10 DEF ReadPapgt, disk
  <1>11. ASSUME StatPaz(t) PROVE Goal
    BY <1>11 DEF StatPaz, disk
  <1>12. ASSUME SeekPaz(t) PROVE Goal
    BY <1>12 DEF SeekPaz, disk
  <1>13. ASSUME UpdateRecord(t) PROVE Goal
    BY <1>13 DEF UpdateRecord, disk
  <1>14. ASSUME CreateTmp(t) PROVE Goal
    BY <1>14 DEF CreateTmp, disk
  <1>15. ASSUME WriteTmp(t) PROVE Goal
    BY <1>15 DEF WriteTmp, disk
  <1>16. ASSUME RenamePamt(t) PROVE Goal
    BY <1>16 DEF RenamePamt, disk
  <1>17. ASSUME RenamePapgt(t) PROVE Goal
    BY <1>17 DEF RenamePapgt, disk
  <1>18. ASSUME AtomicWriteFails(t) PROVE Goal
    BY <1>18 DEF AtomicWriteFails, disk
  <1>19. ASSUME ReloadParse(t) PROVE Goal
    BY <1>19 DEF ReloadParse, disk
  <1>20. ASSUME ReloadInstall(t) PROVE Goal
    BY <1>20 DEF ReloadInstall, disk
  <1>21. ASSUME UserFlushPamt(t) PROVE Goal
    BY <1>21 DEF UserFlushPamt, disk
  <1>22. ASSUME UserReadPapgt(t) PROVE Goal
    BY <1>22 DEF UserReadPapgt, disk
  <1>23. ASSUME UserWritePapgt(t) PROVE Goal
    BY <1>23 DEF UserWritePapgt, disk
  <1>24. ASSUME UserWriteFails(t) PROVE Goal
    BY <1>24 DEF UserWriteFails, disk
  <1>25. Goal
    BY Step(t), <1>4, <1>5, <1>6, <1>7, <1>8, <1>9, <1>10, <1>11, <1>12, <1>13, <1>14, <1>15, <1>16, <1>17, <1>18, <1>19, <1>20, <1>21, <1>22, <1>23, <1>24
       DEF Step, Repack, UserOp
  <1>26. CASE UNCHANGED paz
    <2>1. \A g \in Groups : Grows(paz[g], paz'[g])
      BY <1>1, <1>26, SMT DEF Grows, Paz
    <2> QED
      BY <1>26, <2>1 DEF Inside
  <1>27. ASSUME NEW g \in Groups, NEW y \in Paz, Put(g, y)
        PROVE  /\ Inside' /\ \A h \in Groups : Grows(paz[h], paz'[h])
               /\ \A s \in Threads : s # t /\ pc[s] # "idle" => paz'[Group(s)] = paz[Group(s)]
    <2>1. \A h \in Groups : paz'[h] = IF h = g THEN y ELSE paz[h]
      BY <1>1, <1>27
    <2>2. \A h \in Groups : Grows(paz[h], paz[h])
      BY <1>1, SMT DEF Grows, Paz
    <2>3. \A s \in Threads : Group(s) \in Groups
      BY <1>1, ConstantsAssumption DEF Group
    <2> QED
      BY <1>27, <2>1, <2>2, <2>3 DEF Inside
  <1> QED
    BY <1>25, <1>26, <1>27

\* Between stat and write the file still ends where stat says.
LEMMA CursorStep ==
  ASSUME TInv, Apart, Inside, Cursor, Overlap # "any", NEW t \in Threads, Step(t)
  PROVE  Cursor'
  <1> USE DEF TInv, TypeOK, LocalsOK
  <1>1. ASSUME NEW s \in Threads, s # t PROVE CursorOK(s)'
    <2>1. pc[s] # "idle" => paz'[Group(s)] = paz[Group(s)]
      BY <1>1, PazStep
    <2>2. pc'[s] = pc[s] /\ file'[s] = file[s] /\ save'[s] = save[s] /\ stat'[s] = stat[s] /\ pos'[s] = pos[s]
      BY <1>1, StepOnly DEF Only
    <2> QED
      BY <2>1, <2>2 DEF Cursor, CursorOK, Group
  <1>2. ASSUME StatPaz(t) PROVE CursorOK(t)'
    BY <1>2 DEF StatPaz, Go, disk, CursorOK, Group
  <1>3. ASSUME SeekPaz(t) PROVE CursorOK(t)'
    BY <1>3 DEF SeekPaz, Go, disk, Cursor, CursorOK, Group
  <1>4. ASSUME WritePaz(t) PROVE CursorOK(t)'
    <2> DEFINE z == paz[Group(t)]
               y == Append16(z, z.size, z.size, file[t], save[t].len, save[t].ver)
    <2>1. stat[t] = z.size /\ pos[t] = z.size
      BY <1>4 DEF WritePaz, Cursor, CursorOK
    <2>2. Group(t) \in Groups /\ z \in Paz /\ save[t].len \in Nat /\ save[t].ver \in Nat
      BY GroupFacts, PazSize DEF DiskOK
    <2>3. Names(y, [at |-> Align16(z.size), len |-> save[t].len], file[t])
      BY <2>2, AppendAtEnd DEF Inside
    <2>4. paz'[Group(t)] = y
      BY <1>4, <2>1, <2>2 DEF WritePaz, DiskOK
    <2>5. pc'[t] = "update_record" /\ UNCHANGED <<file, save, stat>>
      BY <1>4 DEF WritePaz, Go
    <2> QED
      BY <2>1, <2>3, <2>4, <2>5 DEF CursorOK, Group
  <1>5. ASSUME pc'[t] \notin {"seek_paz", "write_paz", "update_record"} PROVE CursorOK(t)'
    BY <1>5 DEF CursorOK
  <1> DEFINE Elsewhere == pc'[t] \notin {"seek_paz", "write_paz", "update_record"}
  <1>6. ASSUME \E f \in Files, len \in Sizes : StartRepack(t, f, len) PROVE Elsewhere
    BY <1>6 DEF StartRepack, Go
  <1>7. ASSUME \E f \in Files, len \in Sizes : UserAdd(t, f, len) PROVE Elsewhere
    BY <1>7 DEF UserAdd, Go
  <1>8. ASSUME \E f \in Files, len \in Sizes : UserAddFails(t, f, len) PROVE Elsewhere
    BY <1>8 DEF UserAddFails, Lock, Active
  <1>9. ASSUME \E f \in Files : UserRemove(t, f) PROVE Elsewhere
    BY <1>9 DEF UserRemove, Go
  <1>10. ASSUME ReadPapgt(t) PROVE Elsewhere
    BY <1>10 DEF ReadPapgt, Go, Return
  <1>11. ASSUME WritePazFails(t) PROVE Elsewhere
    BY <1>11 DEF WritePazFails, Go, Return
  <1>12. ASSUME UpdateRecord(t) PROVE Elsewhere
    BY <1>12 DEF UpdateRecord, Go, Return
  <1>13. ASSUME CreateTmp(t) PROVE Elsewhere
    BY <1>13 DEF CreateTmp, Go, Return
  <1>14. ASSUME WriteTmp(t) PROVE Elsewhere
    BY <1>14 DEF WriteTmp, Go, Return
  <1>15. ASSUME RenamePamt(t) PROVE Elsewhere
    BY <1>15 DEF RenamePamt, Go, Return
  <1>16. ASSUME RenamePapgt(t) PROVE Elsewhere
    BY <1>16 DEF RenamePapgt, Go, Return
  <1>17. ASSUME AtomicWriteFails(t) PROVE Elsewhere
    BY <1>17 DEF AtomicWriteFails, Go, Return
  <1>18. ASSUME ReloadParse(t) PROVE Elsewhere
    BY <1>18 DEF ReloadParse, Go, Return
  <1>19. ASSUME ReloadInstall(t) PROVE Elsewhere
    BY <1>19 DEF ReloadInstall, Go, Return
  <1>20. ASSUME UserFlushPamt(t) PROVE Elsewhere
    BY <1>20 DEF UserFlushPamt, Go, Return
  <1>21. ASSUME UserReadPapgt(t) PROVE Elsewhere
    BY <1>21 DEF UserReadPapgt, Go, Return
  <1>22. ASSUME UserWritePapgt(t) PROVE Elsewhere
    BY <1>22 DEF UserWritePapgt, Go, Return
  <1>23. ASSUME UserWriteFails(t) PROVE Elsewhere
    BY <1>23 DEF UserWriteFails, Go, Return
  <1>24. CursorOK(t)'
    BY Step(t), <1>2, <1>3, <1>4, <1>5, <1>6, <1>7, <1>8, <1>9, <1>10, <1>11, <1>12, <1>13, <1>14, <1>15, <1>16, <1>17, <1>18, <1>19, <1>20, <1>21, <1>22, <1>23
       DEF Step, Repack, UserOp
  <1> QED
    BY <1>1, <1>24 DEF Cursor

----------------------------------------------------------------------------
(* Which tables a step puts in use *)

\* Every table in use after the step was in use before it, or is good.
Kept == \A g \in Groups : \A r \in Recs : InUse(r, g)' => InUse(r, g) \/ Good(paz'[g], r, g)

\* The tables on disk, in the index and in UserGroup.files.
Held(r, g) ==
  \/ cur[g] \notin {Torn, Absent} /\ r = cur[g].recs
  \/ g \in Shipped /\ tmp[g] \notin {Torn, Absent} /\ r = tmp[g].recs
  \/ g \in Shipped /\ index[g] # Absent /\ r = index[g].recs
  \/ g = UserGroup /\ r = userFiles

HeldKept == \A g \in Groups : \A r \in Recs : Held(r, g)' => InUse(r, g) \/ Good(paz'[g], r, g)

\* The buffer of the stepping thread is all that has to be looked at.
LEMMA MyBuffer ==
  ASSUME LocalsOK, NEW t \in Threads, Step(t), HeldKept,
         pc'[t] \in EngineSteps => InUse(raw'[t].recs, GroupOf[file'[t]])
                                   \/ Good(paz'[GroupOf[file'[t]]], raw'[t].recs, GroupOf[file'[t]])
  PROVE  Kept
  <1>1. SUFFICES ASSUME NEW g \in Groups, NEW r \in Recs, InUse(r, g)'
                 PROVE  InUse(r, g) \/ Good(paz'[g], r, g)
    BY DEF Kept
  <1>2. CASE Held(r, g)'
    BY <1>2 DEF HeldKept
  <1>3. ASSUME NEW s \in Threads, pc'[s] \in EngineSteps, GroupOf[file'[s]] = g, r = raw'[s].recs
        PROVE  InUse(r, g) \/ Good(paz'[g], r, g)
    <2>1. CASE s = t
      BY <1>3, <2>1
    <2>2. CASE s # t
      <3>1. pc'[s] = pc[s] /\ file'[s] = file[s] /\ raw'[s] = raw[s]
        BY <2>2, StepOnly DEF Only
      <3> QED
        BY <1>3, <3>1 DEF InUse, Group
    <2> QED
      BY <2>1, <2>2
  <1> QED
    BY <1>1, <1>2, <1>3 DEF InUse, Held, Group

Buffered(t) ==
  pc'[t] \in EngineSteps =>
    LET g == GroupOf[file'[t]]
    IN  InUse(raw'[t].recs, g) \/ Good(paz'[g], raw'[t].recs, g)

LEMMA Quiet == ASSUME UNCHANGED <<cur, tmp, index, userFiles>> PROVE HeldKept
  BY DEF HeldKept, Held, InUse

LEMMA SameBuffer ==
  ASSUME NEW t \in Threads, pc[t] \in EngineSteps, UNCHANGED <<file, raw>>
  PROVE  Buffered(t)
  BY DEF Buffered, InUse, Group

\* WriteTmp writes the PAMT buffer of t to a file of t's group, or PAPGT.
LEMMA WriteTmpKept ==
  ASSUME TInv, NEW t \in Threads, WriteTmp(t)
  PROVE  HeldKept
  <1> USE DEF TInv, TypeOK
  <1>1. pc[t] \in EngineSteps /\ UNCHANGED <<index, userFiles>>
    BY DEF WriteTmp, EngineSteps, process
  <1>2. /\ cur' = cur \/ cur' = [cur EXCEPT ![Target(t)] = Content(t)]
        /\ tmp' = tmp \/ tmp' = [tmp EXCEPT ![Target(t)] = Content(t)]
    BY DEF WriteTmp
  <1>3. SUFFICES ASSUME NEW g \in Groups, NEW r \in Recs, Held(r, g)' PROVE InUse(r, g)
    BY DEF HeldKept
  <1>4. CASE Target(t) = g
    <2>1. Content(t) = raw[t] /\ Group(t) = g
      BY <1>4, ConstantsAssumption DEF Target, Content
    <2>2. \/ r = raw[t].recs \/ Held(r, g)
      BY <1>1, <1>2, <1>3, <1>4, <2>1 DEF Held, DiskOK
    <2> QED
      BY <1>1, <2>1, <2>2 DEF InUse, Held
  <1>5. CASE Target(t) # g
    <2>1. cur'[g] = cur[g] /\ (g \in Shipped => tmp'[g] = tmp[g])
      BY <1>2, <1>5 DEF DiskOK
    <2> QED
      BY <1>1, <1>3, <2>1 DEF InUse, Held
  <1> QED
    BY <1>4, <1>5

\* A rename puts the temp file of the same group in place.
LEMMA RenameKept ==
  ASSUME TInv, NEW t \in Threads, RenamePamt(t) \/ RenamePapgt(t)
  PROVE  HeldKept
  <1> USE DEF TInv, TypeOK
  <1>1. UNCHANGED <<index, userFiles>>
    BY DEF RenamePamt, RenamePapgt, process
  <1>2. PICK x \in Shipped \cup {Root} :
          cur' = [cur EXCEPT ![x] = tmp[x]] /\ tmp' = [tmp EXCEPT ![x] = Absent]
    <2>1. pc[t] \in EngineSteps => Group(t) \in Shipped
      BY DEF Kinds
    <2> QED
      BY <2>1 DEF RenamePamt, RenamePapgt, EngineSteps
  <1>3. SUFFICES ASSUME NEW g \in Groups, NEW r \in Recs, Held(r, g)' PROVE InUse(r, g)
    BY DEF HeldKept
  <1>4. cur'[g] = cur[g] \/ (g \in Shipped /\ cur'[g] = tmp[g])
    BY <1>2, ConstantsAssumption DEF DiskOK
  <1>5. g \in Shipped => tmp'[g] = tmp[g] \/ tmp'[g] = Absent
    BY <1>2 DEF DiskOK
  <1> QED
    BY <1>1, <1>3, <1>4, <1>5 DEF InUse, Held

LEMMA UpdateRecordKept ==
  ASSUME RInv, NEW t \in Threads, UpdateRecord(t)
  PROVE  Buffered(t)
  <1> USE DEF RInv, TInv, TypeOK, LocalsOK
  <1> DEFINE z == paz[Group(t)]
  <1>1. /\ z \in Paz /\ Group(t) \in Groups /\ raw[t].recs \in Recs
        /\ stat[t] \in Nat /\ save[t].len \in Nat /\ file[t] \in Files
    BY GroupFacts, PazSize, PamtTypes
  <1>2. Good(z, raw[t].recs, Group(t))
    <2>1. InUse(raw[t].recs, Group(t))
      BY DEF UpdateRecord, InUse, EngineSteps
    <2> QED
      BY <1>1, <2>1 DEF Readable
  <1>3. Names(z, [at |-> Align16(stat[t]), len |-> save[t].len], file[t])
    BY DEF UpdateRecord, Cursor, CursorOK
  <1>4. Good(z, [raw[t].recs EXCEPT ![file[t]] = NewRecord(stat[t], save[t].len)], Group(t))
    BY <1>1, <1>2, <1>3, GoodNewRecord DEF Inside
  <1>5. raw'[t].recs = [raw[t].recs EXCEPT ![file[t]] = NewRecord(stat[t], save[t].len)]
    BY DEF UpdateRecord
  <1>6. UNCHANGED <<paz, file>>
    BY DEF UpdateRecord, disk
  <1> QED
    BY <1>4, <1>5, <1>6 DEF Buffered, Group

\* Tables of the user group.
LEMMA UserAddKept ==
  ASSUME RInv, NEW t \in Threads, NEW f \in Files, NEW len \in Sizes, UserAdd(t, f, len)
  PROVE  HeldKept
  <1> USE DEF RInv, TInv, TypeOK
  <1> DEFINE z == paz[UserGroup]
             y == Append16(z, z.size, z.size, f, len, nextVer)
             rec == [at |-> Align16(z.size), len |-> len]
  <1>1. z \in Paz /\ UserGroup \in Groups /\ len \in Nat /\ nextVer \in Nat /\ userFiles \in Recs
    BY ConstantsAssumption DEF DiskOK, ProcessOK, GhostsOK, Groups
  <1>2. y \in Paz /\ Grows(z, y) /\ Names(y, rec, f)
    BY <1>1, AppendAtEnd DEF Inside
  <1>3. /\ paz'[UserGroup] = y /\ userFiles' = [userFiles EXCEPT ![f] = rec]
        /\ UNCHANGED <<cur, tmp, index>>
    BY <1>1 DEF UserAdd, DiskOK
  <1>4. Good(z, userFiles, UserGroup)
    BY <1>1 DEF Readable, InUse
  <1>5. Good(y, userFiles, UserGroup)
    BY <1>1, <1>2, <1>4, GoodGrows
  <1>6. Good(y, userFiles', UserGroup)
    BY <1>1, <1>2, <1>3, <1>5 DEF Good, OwnData, Recs
  <1> QED
    BY <1>3, <1>6 DEF HeldKept, Held, InUse

LEMMA UserRemoveKept ==
  ASSUME RInv, NEW t \in Threads, NEW f \in Files, UserRemove(t, f)
  PROVE  HeldKept
  <1> USE DEF RInv, TInv, TypeOK
  <1>1. UserGroup \in Groups /\ userFiles \in Recs
    BY DEF ProcessOK, Groups
  <1>2. userFiles' = [userFiles EXCEPT ![f] = NoRec] /\ UNCHANGED <<paz, cur, tmp, index>>
    BY DEF UserRemove, disk
  <1>3. Good(paz[UserGroup], userFiles, UserGroup)
    BY <1>1 DEF Readable, InUse
  <1>4. Good(paz[UserGroup], userFiles', UserGroup)
    BY <1>1, <1>2, <1>3 DEF Good, OwnData, Recs
  <1> QED
    BY <1>2, <1>4 DEF HeldKept, Held, InUse

LEMMA UserFlushKept ==
  ASSUME RInv, NEW t \in Threads, UserFlushPamt(t)
  PROVE  HeldKept
  <1> USE DEF RInv, TInv, TypeOK
  <1>1. UserGroup \in Groups /\ userFiles \in Recs /\ paz[UserGroup] \in Paz
    BY DEF ProcessOK, DiskOK, Groups
  <1>2. cur' = [cur EXCEPT ![UserGroup] = UserPamt] /\ UNCHANGED <<paz, tmp, index, userFiles>>
    BY DEF UserFlushPamt, process
  <1>3. Good(paz[UserGroup], userFiles, UserGroup)
    BY <1>1 DEF Readable, InUse
  <1>4. Good(paz[UserGroup], Serialized(userFiles), UserGroup)
    BY <1>1, <1>3, GoodSerialized DEF Inside
  <1>5. UserPamt.recs = Serialized(userFiles)
    BY DEF UserPamt
  <1>6. \A g \in Groups : cur'[g] = IF g = UserGroup THEN UserPamt ELSE cur[g]
    BY <1>2 DEF DiskOK
  <1> QED
    BY <1>2, <1>4, <1>5, <1>6 DEF HeldKept, Held, InUse

LEMMA KeptStep ==
  ASSUME RInv, NEW t \in Threads, Step(t)
  PROVE  Kept
  <1> USE DEF RInv, TInv, TypeOK, LocalsOK
  <1> DEFINE Goal == HeldKept /\ Buffered(t)
  <1>1. ASSUME ReadPapgt(t) PROVE Goal
    <2>1. pc[t] \in EngineSteps /\ UNCHANGED <<file, raw, cur, tmp, index, userFiles>>
      BY <1>1 DEF ReadPapgt, EngineSteps, disk, process
    <2> QED
      BY <2>1, Quiet, SameBuffer
  <1>2. ASSUME StatPaz(t) PROVE Goal
    <2>1. pc[t] \in EngineSteps /\ UNCHANGED <<file, raw, cur, tmp, index, userFiles>>
      BY <1>2 DEF StatPaz, EngineSteps, disk, process
    <2> QED
      BY <2>1, Quiet, SameBuffer
  <1>3. ASSUME SeekPaz(t) PROVE Goal
    <2>1. pc[t] \in EngineSteps /\ UNCHANGED <<file, raw, cur, tmp, index, userFiles>>
      BY <1>3 DEF SeekPaz, EngineSteps, disk, process
    <2> QED
      BY <2>1, Quiet, SameBuffer
  <1>4. ASSUME WritePaz(t) PROVE Goal
    <2>1. pc[t] \in EngineSteps /\ UNCHANGED <<file, raw, cur, tmp, index, userFiles>>
      BY <1>4 DEF WritePaz, EngineSteps, disk, process
    <2> QED
      BY <2>1, Quiet, SameBuffer
  <1>5. ASSUME WritePazFails(t) PROVE Goal
    <2>1. pc[t] \in EngineSteps /\ UNCHANGED <<file, raw, cur, tmp, index, userFiles>>
      BY <1>5 DEF WritePazFails, EngineSteps, disk, process
    <2> QED
      BY <2>1, Quiet, SameBuffer
  <1>6. ASSUME AtomicWriteFails(t) PROVE Goal
    <2>1. pc[t] \in EngineSteps /\ UNCHANGED <<file, raw, cur, tmp, index, userFiles>>
      BY <1>6 DEF AtomicWriteFails, EngineSteps, disk, process
    <2> QED
      BY <2>1, Quiet, SameBuffer
  <1>7. ASSUME \E f \in Files, len \in Sizes : StartRepack(t, f, len) PROVE Goal
    <2>1. PICK f \in Files, len \in Sizes : StartRepack(t, f, len)
      BY <1>7
    <2>2. UNCHANGED <<cur, tmp, index, userFiles>>
      BY <2>1 DEF StartRepack, disk, process
    <2>3. file'[t] = f /\ raw'[t] = index[GroupOf[f]] /\ GroupOf[f] \in Shipped /\ index[GroupOf[f]] # Absent
      BY <2>1 DEF StartRepack
    <2> QED
      BY <2>2, <2>3, Quiet DEF Buffered, InUse
  <1>8. ASSUME UpdateRecord(t) PROVE Goal
    <2>1. UNCHANGED <<cur, tmp, index, userFiles>>
      BY <1>8 DEF UpdateRecord, disk, process
    <2> QED
      BY <1>8, <2>1, Quiet, UpdateRecordKept
  <1>9. ASSUME CreateTmp(t) PROVE Goal
    <2>1. pc[t] \in EngineSteps /\ UNCHANGED <<file, raw, cur, index, userFiles>>
      BY <1>9 DEF CreateTmp, EngineSteps, process
    <2>2. \A g \in Shipped : tmp'[g] \in {tmp[g], Torn}
      BY <1>9 DEF CreateTmp, DiskOK
    <2>3. HeldKept
      BY <2>1, <2>2 DEF HeldKept, Held, InUse
    <2> QED
      BY <2>1, <2>3, SameBuffer
  <1>10. ASSUME WriteTmp(t) PROVE Goal
    <2>1. pc[t] \in EngineSteps /\ UNCHANGED <<file, raw>>
      BY <1>10 DEF WriteTmp, EngineSteps
    <2> QED
      BY <1>10, <2>1, WriteTmpKept, SameBuffer
  <1>11. ASSUME RenamePamt(t) PROVE Goal
    <2>1. pc[t] \in EngineSteps /\ UNCHANGED <<file, raw>>
      BY <1>11 DEF RenamePamt, EngineSteps
    <2> QED
      BY <1>11, <2>1, RenameKept, SameBuffer
  <1>12. ASSUME RenamePapgt(t) PROVE Goal
    <2>1. pc[t] \in EngineSteps /\ UNCHANGED <<file, raw>>
      BY <1>12 DEF RenamePapgt, EngineSteps
    <2> QED
      BY <1>12, <2>1, RenameKept, SameBuffer
  <1>13. ASSUME ReloadParse(t) PROVE Goal
    <2>1. /\ UNCHANGED <<file, cur, tmp, index, userFiles>>
          /\ pc[t] \in EngineSteps /\ Group(t) \in Shipped
      BY <1>13 DEF ReloadParse, EngineSteps, disk, process, Kinds
    <2>2. raw'[t] = raw[t] \/ (raw'[t] = cur[Group(t)] /\ cur[Group(t)] # Torn)
      BY <1>13 DEF ReloadParse
    <2>3. cur[Group(t)] # Torn => cur[Group(t)] \notin {Torn, Absent}
      BY <2>1, ConstantsAssumption DEF DiskOK
    <2>4. Buffered(t)
      BY <2>1, <2>2, <2>3 DEF Buffered, InUse, Group
    <2> QED
      BY <2>1, <2>4, Quiet
  <1>14. ASSUME ReloadInstall(t) PROVE Goal
    <2>1. /\ pc[t] \in EngineSteps /\ pc'[t] = "idle" /\ UNCHANGED <<cur, tmp, userFiles>>
          /\ index' = [index EXCEPT ![Group(t)] = raw[t]]
      BY <1>14 DEF ReloadInstall, EngineSteps, Go, disk
    <2>2. \A g \in Shipped : index'[g] = index[g] \/ (g = Group(t) /\ index'[g] = raw[t])
      BY <2>1 DEF ProcessOK
    <2>3. HeldKept
      BY <2>1, <2>2 DEF HeldKept, Held, InUse
    <2> QED
      BY <2>1, <2>3 DEF Buffered, EngineSteps
  <1>15. ASSUME \E f \in Files, len \in Sizes : UserAdd(t, f, len) PROVE Goal
    <2>1. pc'[t] \notin EngineSteps
      BY <1>15 DEF UserAdd, Go, EngineSteps
    <2> QED
      BY <1>15, <2>1, UserAddKept DEF Buffered
  <1>16. ASSUME \E f \in Files, len \in Sizes : UserAddFails(t, f, len) PROVE Goal
    <2>1. pc'[t] \notin EngineSteps /\ UNCHANGED <<cur, tmp, index, userFiles>>
      BY <1>16 DEF UserAddFails, Lock, Active, EngineSteps, process
    <2> QED
      BY <2>1, Quiet DEF Buffered
  <1>17. ASSUME \E f \in Files : UserRemove(t, f) PROVE Goal
    <2>1. pc'[t] \notin EngineSteps
      BY <1>17 DEF UserRemove, Go, EngineSteps
    <2> QED
      BY <1>17, <2>1, UserRemoveKept DEF Buffered
  <1>18. ASSUME UserFlushPamt(t) PROVE Goal
    <2>1. pc'[t] \notin EngineSteps
      BY <1>18 DEF UserFlushPamt, Go, EngineSteps
    <2> QED
      BY <1>18, <2>1, UserFlushKept DEF Buffered
  <1>19. ASSUME UserReadPapgt(t) PROVE Goal
    <2>1. pc'[t] \notin EngineSteps /\ UNCHANGED <<cur, tmp, index, userFiles>>
      BY <1>19 DEF UserReadPapgt, Return, Go, EngineSteps, disk
    <2> QED
      BY <2>1, Quiet DEF Buffered
  <1>20. ASSUME UserWriteFails(t) PROVE Goal
    <2>1. pc'[t] \notin EngineSteps /\ UNCHANGED <<cur, tmp, index, userFiles>>
      BY <1>20 DEF UserWriteFails, Return, Go, EngineSteps, disk
    <2> QED
      BY <2>1, Quiet DEF Buffered
  <1>21. ASSUME UserWritePapgt(t) PROVE Goal
    <2>1. pc'[t] \notin EngineSteps /\ UNCHANGED <<tmp, index, userFiles>>
      BY <1>21 DEF UserWritePapgt, Return, Go, EngineSteps
    <2>2. \A g \in Groups : cur'[g] = cur[g]
      BY <1>21, ConstantsAssumption DEF UserWritePapgt
    <2> QED
      BY <2>1, <2>2 DEF Buffered, HeldKept, Held, InUse
  <1>22. Goal
    BY Step(t), <1>1, <1>2, <1>3, <1>4, <1>5, <1>6, <1>7, <1>8, <1>9, <1>10, <1>11, <1>12, <1>13, <1>14, <1>15, <1>16, <1>17, <1>18, <1>19, <1>20, <1>21
       DEF Step, Repack, UserOp
  <1> QED
    BY <1>22, MyBuffer DEF Buffered

\* A crash forgets, a mount reads what is on disk.
LEMMA RestartKept ==
  ASSUME RInv, Crash \/ Mount
  PROVE  Kept /\ Apart' /\ Cursor' /\ UNCHANGED paz
  <1> USE DEF RInv, TInv, TypeOK
  <1>1. CASE Crash
    <2>1. /\ UNCHANGED <<paz, cur, tmp>> /\ userFiles' = NoFiles
          /\ index' = [g \in Shipped |-> Absent] /\ pc' = [t \in Threads |-> "idle"]
      BY <1>1 DEF Crash, disk
    <2>2. \A t \in Threads : pc'[t] = "idle" /\ pc'[t] \notin EngineSteps
      BY <2>1 DEF EngineSteps
    <2>3. Kept
      BY <2>1, <2>2, GoodNoFiles DEF Kept, InUse
    <2> QED
      BY <2>1, <2>2, <2>3 DEF Apart, Cursor, CursorOK
  <1>2. CASE Mount
    <2> DEFINE m == IF cur[UserGroup] = Absent
                    THEN [recs |-> NoFiles, pazCrc |-> paz[UserGroup]] ELSE cur[UserGroup]
    <2>1. /\ UNCHANGED <<paz, tmp, pc, file, save, stat, pos, raw>> /\ userFiles' = m.recs
          /\ index' = [g \in Shipped |-> IF cur[g] = Torn THEN Absent ELSE cur[g]]
      BY <1>2 DEF Mount
    <2>2. \A g \in Groups : cur'[g] = IF g = UserGroup THEN m ELSE cur[g]
      BY <1>2, ConstantsAssumption DEF Mount, DiskOK
    <2>3. cur[UserGroup] = Absent \/ (cur[UserGroup] \in Pamt /\ m = cur[UserGroup])
      BY DEF DiskOK
    <2>4. \A r \in Recs : r = m.recs => InUse(r, UserGroup) \/ Good(paz[UserGroup], r, UserGroup)
      <3>1. CASE cur[UserGroup] = Absent
        BY <3>1, GoodNoFiles
      <3>2. CASE cur[UserGroup] # Absent /\ cur[UserGroup] # Torn
        BY <2>3, <3>2 DEF InUse
      <3>3. CASE cur[UserGroup] # Absent /\ cur[UserGroup] = Torn
        BY <2>3, <3>3, ConstantsAssumption DEF InUse
      <3> QED
        BY <3>1, <3>2, <3>3
    <2>5. Kept
      <3>1. SUFFICES ASSUME NEW g \in Groups, NEW r \in Recs, InUse(r, g)'
                     PROVE  InUse(r, g) \/ Good(paz[g], r, g)
        BY <2>1 DEF Kept
      <3>2. CASE g = UserGroup /\ r = m.recs
        BY <2>4, <3>2
      <3>3. CASE ~(g = UserGroup /\ r = m.recs)
        <4>1. g \in Shipped => index'[g] = Absent \/ (index'[g] = cur[g] /\ cur[g] # Torn)
          BY <2>1
        <4>2. g \in Shipped /\ cur[g] # Torn => cur[g] \notin {Torn, Absent}
          BY ConstantsAssumption DEF DiskOK
        <4> QED
          BY <2>1, <2>2, <3>1, <3>3, <4>1, <4>2, ConstantsAssumption DEF InUse, Group
      <3> QED
        BY <3>2, <3>3
    <2> QED
      BY <2>1, <2>5 DEF Apart, Cursor, CursorOK, Group
  <1> QED
    BY <1>1, <1>2

----------------------------------------------------------------------------
(* The inductive invariant *)

LEMMA ReadInit == ASSUME Init PROVE RInv
  <1>1. TInv
    BY TypeInit
  <1>2. \A t \in Threads : pc[t] = "idle" /\ pc[t] \notin EngineSteps
    BY DEF Init, EngineSteps
  <1>3. Apart /\ Cursor
    BY <1>2 DEF Apart, Cursor, CursorOK
  <1>4. \A g \in Groups : paz[g] = IF g \in Shipped THEN ShippedPaz[g] ELSE EmptyPaz
    BY DEF Init
  <1>5. Inside
    BY <1>4, ShippedAssumption DEF Inside, EmptyPaz
  <1>6. /\ \A g \in Shipped : cur[g] = ShippedPamt(g) /\ tmp[g] = Absent /\ index[g] = Absent
        /\ cur[UserGroup] = Absent /\ userFiles = NoFiles
    BY ConstantsAssumption DEF Init, Groups
  <1>7. \A g \in Groups : \A r \in Recs :
          InUse(r, g) => (g \in Shipped /\ r = ShippedRecs[g]) \/ r = NoFiles
    <2>1. ASSUME NEW g \in Shipped, NEW r \in Recs, InUse(r, g) PROVE r = ShippedRecs[g]
      <3>1. ShippedPamt(g).recs = ShippedRecs[g] /\ g # UserGroup
        BY ConstantsAssumption DEF ShippedPamt
      <3> QED
        BY <1>2, <1>6, <2>1, <3>1 DEF InUse
    <2>2. ASSUME NEW r \in Recs, InUse(r, UserGroup) PROVE r = NoFiles
      BY <1>2, <1>6, <2>2, ConstantsAssumption DEF InUse
    <2> QED
      BY <2>1, <2>2 DEF Groups
  <1>8. \A g \in Shipped : Good(paz[g], ShippedRecs[g], g)
    BY <1>4, ShippedAssumption DEF Good, Groups
  <1>9. Readable
    BY <1>7, <1>8, GoodNoFiles DEF Readable
  <1> QED
    BY <1>1, <1>3, <1>5, <1>9 DEF RInv

LEMMA ReadNext ==
  ASSUME RInv, Overlap # "any", [Next]_vars
  PROVE  RInv' /\ \A g \in Groups : Grows(paz[g], paz'[g])
  <1> DEFINE Goal == /\ Apart' /\ Inside' /\ Cursor' /\ Kept
                     /\ \A g \in Groups : Grows(paz[g], paz'[g])
  <1>1. TInv'
    BY TypeNext DEF RInv
  <1>2. (\A g \in Groups : paz[g] \in Paz) /\ (\A g \in Groups : paz'[g] \in Paz)
    BY <1>1 DEF RInv, TInv, TypeOK, DiskOK
  <1>3. ASSUME NEW t \in Threads, Step(t) PROVE Goal
    BY <1>3, ApartStep, PazStep, CursorStep, KeptStep DEF RInv
  <1>4. ASSUME UNCHANGED paz PROVE Inside' /\ \A g \in Groups : Grows(paz[g], paz'[g])
    <2>1. \A g \in Groups : Grows(paz[g], paz[g])
      BY <1>2, SMT DEF Grows, Paz
    <2> QED
      BY <1>4, <2>1 DEF RInv, Inside
  <1>5. ASSUME Crash \/ Mount PROVE Goal
    BY <1>4, <1>5, RestartKept
  <1>6. ASSUME UNCHANGED vars PROVE Goal
    <2>1. Apart' /\ Cursor' /\ Kept
      BY <1>6 DEF vars, RInv, Apart, Cursor, CursorOK, Group, Kept, InUse
    <2> QED
      BY <1>4, <1>6, <2>1 DEF vars
  <1>7. Goal
    BY <1>3, <1>5, <1>6 DEF Next, Step
  <1>8. Readable'
    <2>1. SUFFICES ASSUME NEW g \in Groups, NEW r \in Recs, InUse(r, g)'
                   PROVE  Good(paz'[g], r, g)
      BY DEF Readable
    <2>2. CASE InUse(r, g)
      BY <1>2, <1>7, <2>2, GoodGrows DEF RInv, Readable
    <2> QED
      BY <1>7, <2>1, <2>2 DEF Kept
  <1> QED
    BY <1>1, <1>7, <1>8 DEF RInv

\* What the invariant says of the tables a reader uses.
LEMMA ReadableTables == ASSUME RInv PROVE RecordsReadable /\ IndexReadable
  <1> USE DEF RInv, TInv, TypeOK
  <1>1. \A g \in Groups : cur[g] \notin {Torn, Absent} => cur[g].recs \in Recs
    BY PamtTypes DEF DiskOK, Groups
  <1>2. \A g \in Shipped : index[g] # Absent => index[g].recs \in Recs
    BY PamtTypes DEF ProcessOK
  <1>3. RecordsReadable
    BY <1>1 DEF RecordsReadable, Readable, InUse, Good
  <1>4. IndexReadable
    BY <1>2 DEF IndexReadable, Readable, InUse, Good, Groups
  <1> QED
    BY <1>3, <1>4

\* As long as no two saves of one group overlap, every record of every PAMT
\* on disk names a complete blob of its own file, through failed writes,
\* crashes at any step and remounts (engine.rs:104-163, user_group.rs:120-191).
THEOREM RecordsAlwaysReadable ==
  ASSUME Overlap # "any"
  PROVE  Spec => []RecordsReadable
  <1>1. Init => RInv
    BY ReadInit
  <1>2. RInv /\ [Next]_vars => RInv'
    BY ReadNext
  <1>3. RInv => RecordsReadable
    BY ReadableTables
  <1> QED
    BY <1>1, <1>2, <1>3, PTL DEF Spec

\* Under the same assumption the index a mounted process reads through never
\* leads it to another file's bytes, however stale it is (manager.rs:493-511).
THEOREM IndexAlwaysReadable ==
  ASSUME Overlap # "any"
  PROVE  Spec => []IndexReadable
  <1>1. Init => RInv
    BY ReadInit
  <1>2. RInv /\ [Next]_vars => RInv'
    BY ReadNext
  <1>3. RInv => IndexReadable
    BY ReadableTables
  <1> QED
    BY <1>1, <1>2, <1>3, PTL DEF Spec

\* Under the same assumption a PAZ is append-only (paz.rs:10): no step
\* overwrites or cuts a blob.
THEOREM AppendOnlyHolds ==
  ASSUME Overlap # "any"
  PROVE  Spec => AppendOnly
  <1>1. Init => RInv
    BY ReadInit
  <1>2. RInv /\ [Next]_vars => RInv'
    BY ReadNext
  <1>3. RInv /\ [Next]_vars => [\A g \in Groups : paz[g].blobs \subseteq paz'[g].blobs]_paz
    BY ReadNext DEF Grows
  <1> QED
    BY <1>1, <1>2, <1>3, PTL DEF Spec, AppendOnly

-----------------------------------------------------------------------------
(***************************************************************************)
(* Whole index files, for any threads, groups, files and sizes, when saves *)
(* come one at a time.  Then whoever is about to rename a temp file has    *)
(* written all of it: nobody truncated it in between, and nobody holds a   *)
(* file open that was renamed under it.                                    *)
(***************************************************************************)

Writing == {"pamt_write", "papgt_write"}

Solo == \A s, t \in Threads : pc[s] # "idle" /\ pc[t] # "idle" => s = t

\* What a thread has open is its temp file, and only between create and write.
OpenTmp(t) == fd[t] = IF pc[t] \in Writing THEN "tmp" ELSE "none"

\* What it is about to rename is written.
WholeTmp(t) ==
  /\ pc[t] = "pamt_rename" => tmp[Group(t)] # Torn
  /\ pc[t] = "papgt_rename" => tmp[Root] # Torn

WInv == TInv /\ Solo /\ IndexesWhole /\ \A t \in Threads : OpenTmp(t) /\ WholeTmp(t)

LEMMA WholeInit == ASSUME Init PROVE WInv
  <1>1. TInv
    BY TypeInit
  <1>2. \A t \in Threads : pc[t] = "idle" /\ fd[t] = "none"
    BY DEF Init
  <1>3. cur[Root] # Torn
    <2>1. cur[Root] \in Papgt
      <3>1. \A g \in Shipped : ShippedPamt(g) \in Pamt
        BY ShippedAssumption DEF ShippedPamt, Pamt
      <3>2. cur[Root] = [g \in Slotted |-> IF g \in Shipped THEN ShippedPamt(g) ELSE NoPamt]
        BY DEF Init
      <3> QED
        BY <3>1, <3>2, PamtTypes DEF Papgt
    <2> QED
      BY <2>1, ConstantsAssumption
  <1>4. \A g \in Shipped : cur[g] = ShippedPamt(g) /\ ShippedPamt(g) \in Pamt
    BY ConstantsAssumption, ShippedAssumption DEF Init, Groups, ShippedPamt, Pamt
  <1>5. cur[UserGroup] = Absent
    BY ConstantsAssumption DEF Init, Groups
  <1>6. IndexesWhole
    BY <1>3, <1>4, <1>5, ConstantsAssumption DEF IndexesWhole, Groups
  <1> QED
    BY <1>1, <1>2, <1>6 DEF WInv, Solo, OpenTmp, WholeTmp, Writing

\* Whoever takes a step is alone: it is the one that was active, or the clients
\* let it in when nobody was.
LEMMA AloneStep ==
  ASSUME Solo, Overlap = "serial", NEW t \in Threads, Step(t)
  PROVE  \A s \in Threads : s # t => pc[s] = "idle"
  <1>1. CASE pc[t] # "idle"
    BY <1>1 DEF Solo
  <1>2. CASE pc[t] = "idle"
    <2>1. \E g : ClientsAllow(g)
      BY <1>2 DEF Step, Repack, UserOp, StartRepack, UserAdd, UserAddFails, UserRemove, Lock, ReadPapgt,
         StatPaz, SeekPaz, WritePaz, WritePazFails, UpdateRecord, CreateTmp, WriteTmp, RenamePamt,
         RenamePapgt, AtomicWriteFails, ReloadParse, ReloadInstall, UserFlushPamt, UserReadPapgt,
         UserWritePapgt, UserWriteFails
    <2> QED
      BY <2>1 DEF ClientsAllow, Active
  <1> QED
    BY <1>1, <1>2

\* What a rename leaves open, when nobody has anything open.
LEMMA NothingReplaced ==
  ASSUME \A s \in Threads : fd[s] = "none", NEW x, NEW o
  PROVE  \A s \in Threads : Replaced(x, o)[s] = "none"
  BY DEF Replaced

LEMMA WholeStep ==
  ASSUME WInv, Overlap = "serial", NEW t \in Threads, Step(t)
  PROVE  WInv'
  <1> DEFINE Others == \A s \in Threads : s # t => fd'[s] = "none"
             Goal   == Others /\ OpenTmp(t)' /\ WholeTmp(t)' /\ IndexesWhole'
  <1> USE DEF WInv, TInv, TypeOK
  <1>1. \A s \in Threads : s # t => pc[s] = "idle" /\ fd[s] = "none"
    BY AloneStep DEF OpenTmp, Writing
  <1>2. TInv'
    BY TypeNext, Step(t) DEF Step, Next
  <1>3. Group(t) \in Groups /\ Root \notin Groups
    BY GroupFacts, ConstantsAssumption
  <1>4. /\ fd' = [fd EXCEPT ![t] = fd'[t]] => Others
        /\ \A x, o : fd' = Replaced(x, o) /\ fd[t] = "none" => Others /\ fd'[t] = "none"
    BY <1>1, NothingReplaced DEF LocalsOK
  <1>5. UNCHANGED cur => IndexesWhole'
    BY DEF IndexesWhole
  <1>6. ASSUME \E f \in Files, len \in Sizes : StartRepack(t, f, len) PROVE Goal
    <2>1. pc'[t] = "read_papgt" /\ pc[t] = "idle" /\ UNCHANGED <<fd, cur>>
      BY <1>6 DEF StartRepack, Go, Active, LocalsOK, disk
    <2> QED
      BY <1>1, <1>5, <2>1 DEF OpenTmp, WholeTmp, Writing
  <1>7. ASSUME \E f \in Files : UserRemove(t, f) \/ \E len \in Sizes : UserAdd(t, f, len) PROVE Goal
    <2>1. pc'[t] = "u_pamt" /\ pc[t] = "idle" /\ UNCHANGED <<fd, cur>>
      BY <1>7 DEF UserAdd, UserRemove, Lock, Go, Active, LocalsOK, disk
    <2> QED
      BY <1>1, <1>5, <2>1 DEF OpenTmp, WholeTmp, Writing
  <1>8. ASSUME \E f \in Files, len \in Sizes : UserAddFails(t, f, len) PROVE Goal
    <2>1. pc'[t] = "idle" /\ pc[t] = "idle" /\ UNCHANGED <<fd, cur>>
      BY <1>8 DEF UserAddFails, Lock, Active
    <2> QED
      BY <1>1, <1>5, <2>1 DEF OpenTmp, WholeTmp, Writing
  <1>9. ASSUME ReadPapgt(t) PROVE Goal
    <2>1. /\ pc[t] \notin Writing /\ UNCHANGED <<fd, cur>>
          /\ pc'[t] \notin Writing \cup {"pamt_rename", "papgt_rename"}
      BY <1>9 DEF ReadPapgt, Go, LocalsOK, disk, Writing
    <2> QED
      BY <1>1, <1>5, <2>1 DEF OpenTmp, WholeTmp
  <1>10. ASSUME StatPaz(t) PROVE Goal
    <2>1. /\ pc[t] \notin Writing /\ UNCHANGED <<fd, cur>>
          /\ pc'[t] \notin Writing \cup {"pamt_rename", "papgt_rename"}
      BY <1>10 DEF StatPaz, Go, LocalsOK, disk, Writing
    <2> QED
      BY <1>1, <1>5, <2>1 DEF OpenTmp, WholeTmp
  <1>11. ASSUME SeekPaz(t) PROVE Goal
    <2>1. /\ pc[t] \notin Writing /\ UNCHANGED <<fd, cur>>
          /\ pc'[t] \notin Writing \cup {"pamt_rename", "papgt_rename"}
      BY <1>11 DEF SeekPaz, Go, LocalsOK, disk, Writing
    <2> QED
      BY <1>1, <1>5, <2>1 DEF OpenTmp, WholeTmp
  <1>12. ASSUME WritePaz(t) PROVE Goal
    <2>1. /\ pc[t] \notin Writing /\ UNCHANGED <<fd, cur>>
          /\ pc'[t] \notin Writing \cup {"pamt_rename", "papgt_rename"}
      BY <1>12 DEF WritePaz, Go, LocalsOK, disk, Writing
    <2> QED
      BY <1>1, <1>5, <2>1 DEF OpenTmp, WholeTmp
  <1>13. ASSUME WritePazFails(t) PROVE Goal
    <2>1. /\ pc[t] \notin Writing /\ UNCHANGED <<fd, cur>>
          /\ pc'[t] \notin Writing \cup {"pamt_rename", "papgt_rename"}
      BY <1>13 DEF WritePazFails, Go, LocalsOK, disk, Writing
    <2> QED
      BY <1>1, <1>5, <2>1 DEF OpenTmp, WholeTmp
  <1>14. ASSUME UpdateRecord(t) PROVE Goal
    <2>1. /\ pc[t] \notin Writing /\ UNCHANGED <<fd, cur>>
          /\ pc'[t] \notin Writing \cup {"pamt_rename", "papgt_rename"}
      BY <1>14 DEF UpdateRecord, Go, LocalsOK, disk, Writing
    <2> QED
      BY <1>1, <1>5, <2>1 DEF OpenTmp, WholeTmp
  <1>15. ASSUME ReloadParse(t) PROVE Goal
    <2>1. /\ pc[t] \notin Writing /\ UNCHANGED <<fd, cur>>
          /\ pc'[t] \notin Writing \cup {"pamt_rename", "papgt_rename"}
      BY <1>15 DEF ReloadParse, Go, LocalsOK, disk, Writing
    <2> QED
      BY <1>1, <1>5, <2>1 DEF OpenTmp, WholeTmp
  <1>16. ASSUME ReloadInstall(t) PROVE Goal
    <2>1. /\ pc[t] \notin Writing /\ UNCHANGED <<fd, cur>>
          /\ pc'[t] \notin Writing \cup {"pamt_rename", "papgt_rename"}
      BY <1>16 DEF ReloadInstall, Go, LocalsOK, disk, Writing
    <2> QED
      BY <1>1, <1>5, <2>1 DEF OpenTmp, WholeTmp
  <1>17. ASSUME UserReadPapgt(t) PROVE Goal
    <2>1. /\ pc[t] \notin Writing /\ UNCHANGED <<fd, cur>>
          /\ pc'[t] \notin Writing \cup {"pamt_rename", "papgt_rename"}
      BY <1>17 DEF UserReadPapgt, Return, Go, LocalsOK, disk, Writing
    <2> QED
      BY <1>1, <1>5, <2>1 DEF OpenTmp, WholeTmp
  <1>18. ASSUME UserWriteFails(t) PROVE Goal
    <2>1. /\ pc[t] \notin Writing /\ UNCHANGED <<fd, cur>>
          /\ pc'[t] \notin Writing \cup {"pamt_rename", "papgt_rename"}
      BY <1>18 DEF UserWriteFails, Return, Go, LocalsOK, disk, Writing
    <2> QED
      BY <1>1, <1>5, <2>1 DEF OpenTmp, WholeTmp
  <1>19. ASSUME AtomicWriteFails(t) PROVE Goal
    <2>1. /\ pc'[t] = "idle" /\ fd'[t] = "none" /\ UNCHANGED cur
          /\ fd' = [fd EXCEPT ![t] = fd'[t]]
      BY <1>19 DEF AtomicWriteFails, Go, LocalsOK, disk
    <2> QED
      BY <1>4, <1>5, <2>1 DEF OpenTmp, WholeTmp, Writing
  <1>20. ASSUME CreateTmp(t) PROVE Goal
    <2>1. /\ pc'[t] \in Writing /\ fd'[t] = "tmp" /\ UNCHANGED cur
          /\ fd' = [fd EXCEPT ![t] = fd'[t]]
      BY <1>20 DEF CreateTmp, Go, LocalsOK, Writing
    <2> QED
      BY <1>4, <1>5, <2>1 DEF OpenTmp, WholeTmp, Writing
  <1>21. ASSUME WriteTmp(t) PROVE Goal
    <2>1. /\ fd'[t] = "none" /\ fd' = [fd EXCEPT ![t] = fd'[t]]
          /\ \/ pc[t] = "pamt_write" /\ pc'[t] = "pamt_rename"
             \/ pc[t] = "papgt_write" /\ pc'[t] = "papgt_rename"
      BY <1>21 DEF WriteTmp, Go, LocalsOK, AtPamt
    <2>2. UNCHANGED cur /\ tmp' = [tmp EXCEPT ![Target(t)] = Content(t)]
      BY <1>21, fd[t] = "tmp" DEF WriteTmp, OpenTmp, Writing
    <2>3. Content(t) # Torn
      BY ConstantsAssumption DEF Content, LocalsOK
    <2>4. pc[t] = "pamt_write" => Target(t) = Group(t) /\ Group(t) \in DOMAIN tmp
      BY DEF Target, AtPamt, DiskOK, Kinds, EngineSteps
    <2>5. pc[t] = "papgt_write" => Target(t) = Root /\ Root \in DOMAIN tmp
      BY DEF Target, AtPamt, DiskOK
    <2>6. UNCHANGED file
      BY <1>21 DEF WriteTmp
    <2>7. WholeTmp(t)'
      BY <2>1, <2>2, <2>3, <2>4, <2>5, <2>6 DEF WholeTmp, Group
    <2> QED
      BY <1>4, <1>5, <2>1, <2>2, <2>7 DEF OpenTmp, Writing
  <1>22. ASSUME RenamePamt(t) PROVE Goal
    <2>1. /\ pc[t] = "pamt_rename" /\ pc'[t] = "papgt_create" /\ fd' = Replaced(Group(t), "tmp")
          /\ cur' = [cur EXCEPT ![Group(t)] = tmp[Group(t)]]
      BY <1>22 DEF RenamePamt, Go, LocalsOK
    <2>2. fd[t] = "none" /\ tmp[Group(t)] # Torn
      BY <2>1 DEF OpenTmp, WholeTmp, Writing
    <2>3. IndexesWhole'
      BY <1>3, <2>1, <2>2 DEF IndexesWhole, DiskOK
    <2> QED
      BY <1>4, <2>1, <2>2, <2>3 DEF OpenTmp, WholeTmp, Writing
  <1>23. ASSUME RenamePapgt(t) PROVE Goal
    <2>1. /\ pc[t] = "papgt_rename" /\ pc'[t] \in {"reload_parse", "idle"} /\ fd' = Replaced(Root, "tmp")
          /\ cur' = [cur EXCEPT ![Root] = tmp[Root]]
      BY <1>23 DEF RenamePapgt, Go, LocalsOK
    <2>2. fd[t] = "none" /\ tmp[Root] # Torn
      BY <2>1 DEF OpenTmp, WholeTmp, Writing
    <2>3. IndexesWhole'
      BY <1>3, <2>1, <2>2 DEF IndexesWhole, DiskOK
    <2> QED
      BY <1>4, <2>1, <2>2, <2>3 DEF OpenTmp, WholeTmp, Writing
  <1>24. ASSUME UserFlushPamt(t) PROVE Goal
    <2>1. /\ pc[t] = "u_pamt" /\ pc'[t] = "u_papgt_read" /\ UNCHANGED fd
          /\ cur' = [cur EXCEPT ![UserGroup] = UserPamt] /\ UNCHANGED mounted /\ mounted
      BY <1>24 DEF UserFlushPamt, Go, LocalsOK, process, Kinds
    <2>2. cur'[UserGroup] # Torn
      BY <1>2, <2>1, ConstantsAssumption DEF DiskOK
    <2>3. IndexesWhole'
      BY <1>3, <2>1, <2>2 DEF IndexesWhole, DiskOK
    <2> QED
      BY <1>1, <2>1, <2>3 DEF OpenTmp, WholeTmp, Writing
  <1>25. ASSUME UserWritePapgt(t) PROVE Goal
    <2>1. /\ pc[t] = "u_papgt_write" /\ pc'[t] = "idle" /\ fd' = Replaced(Root, "other")
          /\ cur' = [cur EXCEPT ![Root] = root[t]]
      BY <1>25 DEF UserWritePapgt, Return, Go, LocalsOK
    <2>2. fd[t] = "none" /\ root[t] # Torn
      BY <2>1, ConstantsAssumption DEF OpenTmp, Writing, LocalsOK
    <2>3. IndexesWhole'
      BY <1>3, <2>1, <2>2 DEF IndexesWhole, DiskOK
    <2> QED
      BY <1>4, <2>1, <2>2, <2>3 DEF OpenTmp, WholeTmp, Writing
  <1>26. Goal
    BY Step(t), <1>6, <1>7, <1>8, <1>9, <1>10, <1>11, <1>12, <1>13, <1>14, <1>15, <1>16, <1>17, <1>18, <1>19, <1>20, <1>21, <1>22, <1>23, <1>24, <1>25
       DEF Step, Repack, UserOp
  <1>27. \A s \in Threads : s # t => pc'[s] = "idle"
    BY <1>1, StepOnly DEF Only
  <1> QED
    BY <1>2, <1>26, <1>27 DEF Solo, OpenTmp, WholeTmp, Writing

LEMMA WholeNext == ASSUME WInv, Overlap = "serial", [Next]_vars PROVE WInv'
  <1> USE DEF WInv
  <1>1. ASSUME NEW t \in Threads, Step(t) PROVE WInv'
    BY <1>1, WholeStep
  <1>2. TInv'
    BY TypeNext
  <1>3. CASE Crash
    <2>1. \A t \in Threads : pc'[t] = "idle" /\ fd'[t] = "none"
      BY <1>3 DEF Crash
    <2>2. IndexesWhole'
      BY <1>3 DEF Crash, disk, IndexesWhole
    <2> QED
      BY <1>2, <2>1, <2>2 DEF Solo, OpenTmp, WholeTmp, Writing
  <1>4. CASE Mount
    <2>1. UNCHANGED <<pc, fd, tmp, file>>
      BY <1>4 DEF Mount
    <2>2. mounted' /\ \A g \in Shipped : cur'[g] = cur[g]
      BY <1>4, ConstantsAssumption DEF Mount, TInv, TypeOK, DiskOK, Groups
    <2>3. cur'[UserGroup] # Torn
      BY <1>2, <2>2, ConstantsAssumption DEF TInv, TypeOK, DiskOK
    <2>4. cur'[Root] # Torn
      <3>1. cur[Root] \in Papgt
        BY DEF IndexesWhole, TInv, TypeOK, DiskOK
      <3>2. PICK m : cur' = IF UserSlot THEN [cur EXCEPT ![UserGroup] = m, ![Root][UserGroup] = m]
                            ELSE [cur EXCEPT ![UserGroup] = m]
        BY <1>4 DEF Mount, IndexesWhole
      <3>3. cur'[UserGroup] = m /\ m \in Pamt
        BY <1>2, <2>2, <3>2, ConstantsAssumption DEF TInv, TypeOK, DiskOK, Groups
      <3>4. cur'[Root] = cur[Root] \/ cur'[Root] = [cur[Root] EXCEPT ![UserGroup] = m]
        BY <3>2, ConstantsAssumption DEF TInv, TypeOK, DiskOK, Groups
      <3>5. [cur[Root] EXCEPT ![UserGroup] = m] \in Papgt
        BY <3>1, <3>3, RootEdit
      <3>6. \A r \in Papgt : r # Torn
        BY ConstantsAssumption
      <3> QED
        BY <3>1, <3>4, <3>5, <3>6
    <2> QED
      BY <1>2, <2>1, <2>2, <2>3, <2>4 DEF IndexesWhole, Groups, Solo, OpenTmp, WholeTmp, Group
  <1>5. CASE UNCHANGED vars
    BY <1>2, <1>5 DEF vars, IndexesWhole, Solo, OpenTmp, WholeTmp, Group
  <1> QED
    BY <1>1, <1>3, <1>4, <1>5 DEF Next, Step

\* With saves one at a time no index file on disk is ever a torn one, whatever
\* fails and wherever the process dies (engine.rs:165-181).
THEOREM IndexesAlwaysWhole ==
  ASSUME Overlap = "serial"
  PROVE  Spec => []IndexesWhole
  <1>1. Init => WInv
    BY WholeInit
  <1>2. WInv /\ [Next]_vars => WInv'
    BY WholeNext
  <1>3. WInv => IndexesWhole
    BY DEF WInv
  <1> QED
    BY <1>1, <1>2, <1>3, PTL DEF Spec

----------------------------------------------------------------------------
(* The CRC chain                                                           *)

RootCopied == {"stat_paz", "seek_paz", "write_paz", "update_record",
               "pamt_create", "pamt_write", "pamt_rename"}
RootEdited == {"papgt_create", "papgt_write", "papgt_rename"}

\* The PAPGT copy of a thread is the one on disk, from the rename of the PAMT on
\* with that PAMT entered; what is about to be renamed is the thread's own.
CopyOK(t) ==
  /\ pc[t] \in RootCopied => root[t] = cur[Root]
  /\ pc[t] = "pamt_rename" => tmp[Group(t)] = raw[t]
  /\ pc[t] \in RootEdited => root[t] = [cur[Root] EXCEPT ![Group(t)] = cur[Group(t)]]
  /\ pc[t] = "papgt_rename" => tmp[Root] = root[t]
  /\ pc[t] = "u_papgt_write" => root[t] = [cur[Root] EXCEPT ![UserGroup] = cur[UserGroup]]

\* The user group has no PAMT before the first mount; a dead process leaves
\* the chain as it was.
Chained == \A g \in Slotted : g \notin unrooted /\ cur[g] # Absent => cur[Root][g] = cur[g]

CInv == WInv /\ Chained /\ \A t \in Threads : CopyOK(t)

LEMMA ChainInit == ASSUME Init PROVE CInv
  <1>1. WInv
    BY WholeInit
  <1>2. \A t \in Threads : CopyOK(t)
    BY DEF Init, CopyOK, RootCopied, RootEdited
  <1>3. ASSUME NEW g \in Slotted, cur[g] # Absent PROVE cur[Root][g] = cur[g]
    <2>1. g \in Shipped /\ g # Root
      BY <1>3, ConstantsAssumption DEF Init, Slotted, Groups
    <2> QED
      BY <1>3, <2>1, ConstantsAssumption DEF Init, Groups
  <1> QED
    BY <1>1, <1>2, <1>3 DEF CInv, Chained

LEMMA ChainStep ==
  ASSUME CInv, Overlap = "serial", NEW t \in Threads, Step(t)
  PROVE  CInv'
  <1> DEFINE Goal == CopyOK(t)' /\ Chained'
             g == Group(t)
  <1> USE DEF CInv, WInv, TInv, TypeOK
  <1>1. WInv'
    BY WholeStep
  <1>2. \A s \in Threads : s # t => CopyOK(s)'
    BY AloneStep, StepOnly DEF Only, CopyOK, RootCopied, RootEdited
  <1>3. g \in Groups /\ Root \notin Groups /\ Slotted \subseteq Groups /\ cur[Root] \in Papgt
    <2>1. cur[Root] \in Papgt
      BY DEF DiskOK, IndexesWhole
    <2> QED
      BY <2>1, GroupFacts, ConstantsAssumption DEF Slotted, Groups
  <1>4. CopyOK(t)
    OBVIOUS
  <1>5. UNCHANGED <<cur, unrooted>> => Chained'
    BY DEF Chained
  <1>6. ASSUME pc'[t] \notin RootCopied \cup RootEdited \cup {"u_papgt_write"}
        PROVE  CopyOK(t)'
    BY <1>6 DEF CopyOK, RootCopied, RootEdited
  <1>7. ASSUME \/ \E f \in Files, len \in Sizes : StartRepack(t, f, len) \/ UserAdd(t, f, len) \/ UserAddFails(t, f, len)
               \/ \E f \in Files : UserRemove(t, f)
               \/ AtomicWriteFails(t) \/ UserWriteFails(t) \/ ReloadParse(t) \/ ReloadInstall(t)
        PROVE  Goal
    <2>1. /\ UNCHANGED <<cur, unrooted>>
          /\ pc'[t] \in {"read_papgt", "u_pamt", "idle", "reload_install"}
      BY <1>7 DEF StartRepack, UserAdd, UserAddFails, UserRemove, AtomicWriteFails, UserWriteFails,
         ReloadParse, ReloadInstall, Lock, Active, Go, Return, LocalsOK, disk, ghosts
    <2> QED
      BY <1>5, <1>6, <2>1 DEF RootCopied, RootEdited
  <1>8. ASSUME ReadPapgt(t) PROVE Goal
    <2>1. /\ UNCHANGED <<cur, unrooted>>
          /\ pc'[t] = "stat_paz" /\ root'[t] = cur[Root]
      BY <1>8 DEF ReadPapgt, Go, LocalsOK, disk, ghosts, IndexesWhole
    <2> QED
      BY <1>5, <2>1 DEF CopyOK, RootCopied, RootEdited
  <1>9. ASSUME StatPaz(t) \/ SeekPaz(t) \/ WritePaz(t) \/ WritePazFails(t) \/ UpdateRecord(t)
        PROVE  Goal
    <2>1. /\ UNCHANGED <<cur, root, unrooted>> /\ pc[t] \in RootCopied
          /\ pc'[t] \in {"seek_paz", "write_paz", "update_record", "pamt_create"}
      BY <1>9 DEF StatPaz, SeekPaz, WritePaz, WritePazFails, UpdateRecord, Go, LocalsOK, disk, ghosts, RootCopied
    <2> QED
      BY <1>4, <1>5, <2>1 DEF CopyOK, RootCopied, RootEdited
  <1>10. ASSUME CreateTmp(t) PROVE Goal
    <2>1. /\ UNCHANGED <<cur, root, file, unrooted>>
          /\ \/ pc[t] = "pamt_create" /\ pc'[t] = "pamt_write"
             \/ pc[t] = "papgt_create" /\ pc'[t] = "papgt_write"
      BY <1>10 DEF CreateTmp, Go, LocalsOK, ghosts, AtPamt
    <2> QED
      BY <1>4, <1>5, <2>1 DEF CopyOK, RootCopied, RootEdited, Group
  <1>11. ASSUME WriteTmp(t) PROVE Goal
    <2>1. /\ UNCHANGED <<root, raw, file, unrooted>> /\ fd[t] = "tmp"
          /\ \/ pc[t] = "pamt_write" /\ pc'[t] = "pamt_rename"
             \/ pc[t] = "papgt_write" /\ pc'[t] = "papgt_rename"
      BY <1>11 DEF WriteTmp, Go, LocalsOK, ghosts, AtPamt, OpenTmp, Writing
    <2>2. UNCHANGED cur /\ tmp' = [tmp EXCEPT ![Target(t)] = Content(t)]
      BY <1>11, <2>1 DEF WriteTmp
    <2>3. CASE pc[t] = "pamt_write"
      <3>1. tmp'[g] = raw[t]
        BY <2>2, <2>3 DEF Target, Content, AtPamt, DiskOK, Kinds, EngineSteps
      <3> QED
        BY <1>4, <1>5, <2>1, <2>2, <2>3, <3>1 DEF CopyOK, RootCopied, RootEdited, Group
    <2>4. CASE pc[t] = "papgt_write"
      <3>1. tmp'[Root] = root[t]
        BY <2>2, <2>4 DEF Target, Content, AtPamt, DiskOK
      <3> QED
        BY <1>4, <1>5, <2>1, <2>2, <2>4, <3>1 DEF CopyOK, RootCopied, RootEdited, Group
    <2> QED
      BY <2>1, <2>3, <2>4
  <1>12. ASSUME RenamePamt(t) PROVE Goal
    <2>1. /\ pc[t] = "pamt_rename" /\ pc'[t] = "papgt_create" /\ UNCHANGED <<raw, file>>
          /\ cur' = [cur EXCEPT ![g] = tmp[g]] /\ unrooted' = unrooted \cup {g}
          /\ root' = [root EXCEPT ![t][g] = raw[t]]
      BY <1>12 DEF RenamePamt, Go, LocalsOK
    <2>2. tmp[g] = raw[t] /\ root[t] = cur[Root]
      BY <1>4, <2>1 DEF CopyOK, RootCopied
    <2>3. /\ cur'[Root] = cur[Root] /\ cur'[g] = raw[t]
          /\ \A h \in Groups : h # g => cur'[h] = cur[h]
      BY <1>3, <2>1, <2>2 DEF DiskOK
    <2>4. root'[t] = [cur[Root] EXCEPT ![g] = raw[t]]
      BY <2>1, <2>2 DEF LocalsOK
    <2>5. CopyOK(t)'
      BY <2>1, <2>3, <2>4 DEF CopyOK, RootCopied, RootEdited, Group
    <2>6. Chained'
      BY <1>3, <2>1, <2>3 DEF Chained
    <2> QED
      BY <2>5, <2>6
  <1>13. ASSUME RenamePapgt(t) PROVE Goal
    <2>1. /\ pc[t] = "papgt_rename" /\ pc'[t] \in {"reload_parse", "idle"}
          /\ cur' = [cur EXCEPT ![Root] = tmp[Root]] /\ unrooted' = unrooted \ {g}
      BY <1>13 DEF RenamePapgt, Go, LocalsOK
    <2>2. tmp[Root] = [cur[Root] EXCEPT ![g] = cur[g]]
      BY <1>4, <2>1 DEF CopyOK, RootEdited
    <2>3. cur'[Root] = [cur[Root] EXCEPT ![g] = cur[g]] /\ \A h \in Groups : cur'[h] = cur[h]
      BY <1>3, <2>1, <2>2 DEF DiskOK
    <2>4. Chained'
      BY <1>3, <2>1, <2>3 DEF Chained, Papgt
    <2> QED
      BY <1>6, <2>1, <2>4 DEF RootCopied, RootEdited
  <1>14. ASSUME UserFlushPamt(t) PROVE Goal
    <2>1. /\ pc'[t] = "u_papgt_read" /\ cur' = [cur EXCEPT ![UserGroup] = UserPamt]
          /\ unrooted' = unrooted \cup {UserGroup}
      BY <1>14 DEF UserFlushPamt, Go, LocalsOK
    <2>2. cur'[Root] = cur[Root] /\ \A h \in Groups : h # UserGroup => cur'[h] = cur[h]
      BY <1>3, <2>1, ConstantsAssumption DEF DiskOK, Groups
    <2>3. Chained'
      BY <1>3, <2>1, <2>2 DEF Chained
    <2> QED
      BY <1>6, <2>1, <2>3 DEF RootCopied, RootEdited
  <1>15. ASSUME UserReadPapgt(t) PROVE Goal
    <2>1. CASE UserSlot
      <3>1. /\ UNCHANGED <<cur, unrooted>> /\ pc'[t] = "u_papgt_write"
            /\ root'[t] = [cur[Root] EXCEPT ![UserGroup] = cur[UserGroup]]
        BY <1>15, <2>1 DEF UserReadPapgt, Go, LocalsOK, disk, IndexesWhole
      <3> QED
        BY <1>5, <3>1 DEF CopyOK, RootCopied, RootEdited
    <2>2. CASE ~UserSlot
      <3>1. /\ UNCHANGED cur /\ pc'[t] = "idle" /\ unrooted' = unrooted \ {UserGroup}
        BY <1>15, <2>2 DEF UserReadPapgt, Return, Go, LocalsOK, disk, IndexesWhole
      <3>2. UserGroup \notin Slotted
        BY <2>2, ConstantsAssumption DEF Slotted
      <3>3. Chained'
        BY <3>1, <3>2 DEF Chained
      <3> QED
        BY <1>6, <3>1, <3>3 DEF RootCopied, RootEdited
    <2> QED
      BY <2>1, <2>2
  <1>16. ASSUME UserWritePapgt(t) PROVE Goal
    <2>1. /\ pc[t] = "u_papgt_write" /\ pc'[t] = "idle"
          /\ cur' = [cur EXCEPT ![Root] = root[t]] /\ unrooted' = unrooted \ {UserGroup}
      BY <1>16 DEF UserWritePapgt, Return, Go, LocalsOK
    <2>2. root[t] = [cur[Root] EXCEPT ![UserGroup] = cur[UserGroup]]
      BY <1>4, <2>1 DEF CopyOK
    <2>3. cur'[Root] = root[t] /\ \A h \in Groups : cur'[h] = cur[h]
      BY <1>3, <2>1 DEF DiskOK
    <2>4. Chained'
      BY <1>3, <2>1, <2>2, <2>3 DEF Chained, Papgt
    <2> QED
      BY <1>6, <2>1, <2>4 DEF RootCopied, RootEdited
  <1>17. Goal
    BY Step(t), <1>7, <1>8, <1>9, <1>10, <1>11, <1>12, <1>13, <1>14, <1>15, <1>16 DEF Step, Repack, UserOp
  <1> QED
    BY <1>1, <1>2, <1>17

LEMMA ChainNext == ASSUME CInv, Overlap = "serial", [Next]_vars PROVE CInv'
  <1> USE DEF CInv
  <1>1. WInv'
    BY WholeNext
  <1>2. ASSUME NEW t \in Threads, Step(t) PROVE CInv'
    BY <1>2, ChainStep
  <1>3. CASE Crash
    <2>1. UNCHANGED <<cur, unrooted>> /\ \A t \in Threads : pc'[t] = "idle"
      BY <1>3 DEF Crash, disk, ghosts
    <2> QED
      BY <1>1, <2>1 DEF Chained, CopyOK, RootCopied, RootEdited
  <1>4. CASE Mount
    <2> DEFINE m == IF cur[UserGroup] = Absent
                    THEN [recs |-> NoFiles, pazCrc |-> paz[UserGroup]] ELSE cur[UserGroup]
    <2>1. UNCHANGED pc /\ \A t \in Threads : pc[t] = "idle"
      BY <1>4 DEF Mount, WInv, TInv, TypeOK, Kinds, LocalsOK, Steps
    <2>2. cur[Root] \in Papgt /\ unrooted' = unrooted \ {UserGroup} /\ Root \notin Groups
      BY <1>4, ConstantsAssumption DEF Mount, WInv, IndexesWhole, TInv, TypeOK, DiskOK
    <2>3. /\ \A g \in Groups : cur'[g] = IF g = UserGroup THEN m ELSE cur[g]
          /\ UserSlot => cur'[Root] = [cur[Root] EXCEPT ![UserGroup] = m]
          /\ ~UserSlot => cur'[Root] = cur[Root]
      BY <1>4, ConstantsAssumption DEF Mount, WInv, IndexesWhole, TInv, TypeOK, DiskOK, Groups
    <2>4. Chained'
      <3> HIDE DEF m
      <3>1. ASSUME NEW g \in Slotted, g \notin unrooted', cur'[g] # Absent PROVE cur'[Root][g] = cur'[g]
        <4>1. CASE g = UserGroup
          BY <2>2, <2>3, <4>1, ConstantsAssumption DEF Slotted, Groups, Papgt
        <4>2. CASE g # UserGroup
          BY <2>2, <2>3, <3>1, <4>2 DEF Slotted, Groups, Papgt, Chained
        <4> QED
          BY <4>1, <4>2
      <3> QED
        BY <3>1 DEF Chained
    <2> QED
      BY <1>1, <2>1, <2>4 DEF CopyOK, RootCopied, RootEdited
  <1>5. CASE UNCHANGED vars
    BY <1>1, <1>5 DEF vars, Chained, CopyOK, Group
  <1> QED
    BY <1>2, <1>3, <1>4, <1>5 DEF Next, Step

\* What a thread is about to put in place has the CRC of the PAZ, unless its
\* append failed; and what is in place has it, where every append was entered.
Entered(t) ==
  pc[t] \in {"pamt_create", "pamt_write", "pamt_rename"} /\ errors[t] = 0
    => raw[t].pazCrc = paz[Group(t)]

\* A thread whose append failed, or is not entered yet, has left its group unsealed.
Spoilt(t) ==
  /\ pc[t] = "update_record" => Group(t) \in unsealed
  /\ pc[t] \in {"pamt_create", "pamt_write", "pamt_rename"} /\ errors[t] # 0 => Group(t) \in unsealed

AllSealed == \A g \in Groups : g \notin unsealed /\ cur[g] # Absent => cur[g].pazCrc = paz[g]

LInv == CInv /\ AllSealed /\ \A t \in Threads : Entered(t) /\ Spoilt(t)

LEMMA SealInit == ASSUME Init PROVE LInv
  <1>1. CInv
    BY ChainInit
  <1>2. \A t \in Threads : Entered(t) /\ Spoilt(t)
    BY DEF Init, Entered, Spoilt
  <1>3. ASSUME NEW g \in Groups, cur[g] # Absent PROVE cur[g].pazCrc = paz[g]
    <2>1. g \in Shipped /\ g # Root
      BY <1>3, ConstantsAssumption DEF Init, Groups
    <2>2. cur[g] = ShippedPamt(g) /\ paz[g] = ShippedPaz[g]
      BY <2>1 DEF Init, Groups
    <2> QED
      BY <2>2 DEF ShippedPamt
  <1> QED
    BY <1>1, <1>2, <1>3 DEF LInv, AllSealed

LEMMA SealStep ==
  ASSUME LInv, Overlap = "serial", NEW t \in Threads, Step(t)
  PROVE  LInv'
  <1> DEFINE Goal == Entered(t)' /\ Spoilt(t)' /\ AllSealed'
             g == Group(t)
  <1> USE DEF LInv, CInv, WInv, TInv, TypeOK
  <1>1. CInv'
    BY ChainStep
  <1>2. \A s \in Threads : s # t => Entered(s)' /\ Spoilt(s)'
    BY AloneStep, StepOnly DEF Only, Entered, Spoilt
  <1>3. g \in Groups /\ UserGroup \in Groups /\ Root \notin Groups
    BY GroupFacts, ConstantsAssumption DEF Groups
  <1>4. UNCHANGED <<cur, paz, unsealed>> => AllSealed'
    BY DEF AllSealed
  <1>5. ASSUME pc'[t] \notin {"update_record", "pamt_create", "pamt_write", "pamt_rename"}
        PROVE  Entered(t)' /\ Spoilt(t)'
    BY <1>5 DEF Entered, Spoilt
  <1>6. ASSUME \/ \E f \in Files, len \in Sizes : StartRepack(t, f, len)
               \/ \E f \in Files : UserRemove(t, f)
               \/ ReadPapgt(t) \/ StatPaz(t) \/ SeekPaz(t)
               \/ AtomicWriteFails(t) \/ UserWriteFails(t) \/ ReloadParse(t) \/ ReloadInstall(t)
               \/ UserReadPapgt(t)
        PROVE  Goal
    <2>1. /\ UNCHANGED <<cur, paz, unsealed>>
          /\ pc'[t] \notin {"update_record", "pamt_create", "pamt_write", "pamt_rename"}
      BY <1>6 DEF StartRepack, UserRemove, ReadPapgt, StatPaz, SeekPaz, AtomicWriteFails, UserWriteFails,
         ReloadParse, ReloadInstall, UserReadPapgt, Lock, Active, Go, Return, LocalsOK, disk, ghosts
    <2> QED
      BY <1>4, <1>5, <2>1
  <1>7. ASSUME NEW h \in Groups, UNCHANGED cur, unsealed' = unsealed \cup {h},
               \A k \in Groups : k # h => paz'[k] = paz[k]
        PROVE  AllSealed'
    BY <1>7 DEF AllSealed
  <1>8. ASSUME WritePaz(t) PROVE Goal
    <2>1. /\ UNCHANGED <<cur, file>> /\ unsealed' = unsealed \cup {g} /\ pc'[t] = "update_record"
          /\ \A k \in Groups : k # g => paz'[k] = paz[k]
      BY <1>8 DEF WritePaz, Go, LocalsOK, DiskOK
    <2> QED
      BY <1>3, <1>7, <2>1 DEF Entered, Spoilt, Group
  <1>9. ASSUME WritePazFails(t) PROVE Goal
    <2>1. /\ UNCHANGED <<cur, file>> /\ unsealed' = unsealed \cup {g} /\ errors'[t] = 1
          /\ \A k \in Groups : k # g => paz'[k] = paz[k]
      BY <1>9 DEF WritePazFails, LocalsOK, DiskOK
    <2> QED
      BY <1>3, <1>7, <2>1 DEF Entered, Spoilt, Group
  <1>10. ASSUME UpdateRecord(t) PROVE Goal
    <2>1. UNCHANGED <<cur, paz, unsealed, file, errors>> /\ raw'[t].pazCrc = paz[g] /\ pc[t] = "update_record"
            /\ pc'[t] = "pamt_create"
      BY <1>10 DEF UpdateRecord, Go, LocalsOK, disk, ghosts
    <2> QED
      BY <1>4, <2>1 DEF Entered, Spoilt, Group
  <1>11. ASSUME CreateTmp(t) PROVE Goal
    <2>1. /\ UNCHANGED <<cur, paz, unsealed, file, raw, errors>>
          /\ \/ pc[t] = "pamt_create" /\ pc'[t] = "pamt_write"
             \/ pc'[t] = "papgt_write"
      BY <1>11 DEF CreateTmp, Go, LocalsOK, ghosts, AtPamt
    <2> QED
      BY <1>4, <2>1 DEF Entered, Spoilt, Group
  <1>12. ASSUME WriteTmp(t) PROVE Goal
    <2>1. /\ UNCHANGED <<paz, unsealed, file, raw, errors>> /\ fd[t] = "tmp"
          /\ \/ pc[t] = "pamt_write" /\ pc'[t] = "pamt_rename"
             \/ pc'[t] = "papgt_rename"
      BY <1>12 DEF WriteTmp, Go, LocalsOK, ghosts, AtPamt, OpenTmp, Writing
    <2>2. UNCHANGED cur
      BY <1>12, <2>1 DEF WriteTmp
    <2> QED
      BY <1>4, <2>1, <2>2 DEF Entered, Spoilt, Group
  <1>13. ASSUME RenamePamt(t) PROVE Goal
    <2>1. /\ pc[t] = "pamt_rename" /\ pc'[t] = "papgt_create" /\ UNCHANGED paz
          /\ cur' = [cur EXCEPT ![g] = tmp[g]]
          /\ unsealed' = IF errors[t] = 0 THEN unsealed \ {g} ELSE unsealed
      BY <1>13 DEF RenamePamt, Go, LocalsOK
    <2>2. cur'[g] = raw[t] /\ \A h \in Groups : h # g => cur'[h] = cur[h]
      BY <1>3, <2>1 DEF DiskOK, CopyOK
    <2>3. CASE errors[t] = 0
      <3>1. raw[t].pazCrc = paz[g]
        BY <2>1, <2>3 DEF Entered
      <3> QED
        BY <1>5, <2>1, <2>2, <2>3, <3>1 DEF AllSealed
    <2>4. CASE errors[t] # 0
      <3>1. g \in unsealed
        BY <2>1, <2>4 DEF Spoilt
      <3> QED
        BY <1>5, <2>1, <2>2, <2>4, <3>1 DEF AllSealed
    <2> QED
      BY <2>3, <2>4
  <1>14. ASSUME RenamePapgt(t) \/ UserWritePapgt(t) PROVE Goal
    <2>1. /\ UNCHANGED <<paz, unsealed>> /\ pc'[t] \in {"reload_parse", "idle"}
          /\ \A h \in Groups : cur'[h] = cur[h]
      BY <1>3, <1>14 DEF RenamePapgt, UserWritePapgt, Go, Return, LocalsOK, DiskOK
    <2> QED
      BY <1>5, <2>1 DEF AllSealed
  <1>15. ASSUME UserFlushPamt(t) PROVE Goal
    <2>1. /\ pc'[t] = "u_papgt_read" /\ cur' = [cur EXCEPT ![UserGroup] = UserPamt]
          /\ UNCHANGED paz /\ unsealed' = unsealed \ {UserGroup}
      BY <1>15 DEF UserFlushPamt, Go, LocalsOK
    <2>2. cur'[UserGroup].pazCrc = paz[UserGroup] /\ \A h \in Groups : h # UserGroup => cur'[h] = cur[h]
      BY <1>3, <2>1 DEF DiskOK, UserPamt
    <2> QED
      BY <1>5, <2>1, <2>2 DEF AllSealed
  <1>16. ASSUME \E f \in Files, len \in Sizes : UserAdd(t, f, len) \/ UserAddFails(t, f, len) PROVE Goal
    <2>1. /\ UNCHANGED cur /\ unsealed' = unsealed \cup {UserGroup}
          /\ \A k \in Groups : k # UserGroup => paz'[k] = paz[k]
          /\ pc'[t] \in {"u_pamt", "idle"}
      BY <1>16 DEF UserAdd, UserAddFails, Lock, Active, Go, LocalsOK, DiskOK
    <2> QED
      BY <1>3, <1>5, <1>7, <2>1
  <1>17. Goal
    BY Step(t), <1>6, <1>8, <1>9, <1>10, <1>11, <1>12, <1>13, <1>14, <1>15, <1>16 DEF Step, Repack, UserOp
  <1> QED
    BY <1>1, <1>2, <1>17

LEMMA SealNext == ASSUME LInv, Overlap = "serial", [Next]_vars PROVE LInv'
  <1> USE DEF LInv
  <1>1. CInv'
    BY ChainNext
  <1>2. ASSUME NEW t \in Threads, Step(t) PROVE LInv'
    BY <1>2, SealStep
  <1>3. CASE Crash
    <2>1. UNCHANGED <<cur, paz, unsealed>> /\ \A t \in Threads : pc'[t] = "idle"
      BY <1>3 DEF Crash, disk, ghosts
    <2> QED
      BY <1>1, <2>1 DEF AllSealed, Entered, Spoilt
  <1>4. CASE Mount
    <2> DEFINE m == IF cur[UserGroup] = Absent
                    THEN [recs |-> NoFiles, pazCrc |-> paz[UserGroup]] ELSE cur[UserGroup]
    <2>1. UNCHANGED <<paz, unsealed, pc, errors, raw, file>>
      BY <1>4 DEF Mount
    <2>2. \A g \in Groups : cur'[g] = IF g = UserGroup THEN m ELSE cur[g]
      BY <1>4, ConstantsAssumption DEF Mount, CInv, WInv, IndexesWhole, TInv, TypeOK, DiskOK, Groups
    <2> QED
      BY <1>1, <2>1, <2>2 DEF AllSealed, Entered, Spoilt, Group
  <1>5. CASE UNCHANGED vars
    BY <1>1, <1>5 DEF vars, AllSealed, Entered, Spoilt, Group
  <1> QED
    BY <1>2, <1>3, <1>4, <1>5 DEF Next, Step

\* With saves one at a time both links of the chain hold: the CRC of every
\* group in PAPGT is that of the PAMT on disk, and the CRC of the PAZ in every
\* PAMT is that of the PAZ, except between a step of a save and the next that
\* enters it, or after a failure in between, in the group of that save
\* (engine.rs:126-181, user_group.rs:264-307).
THEOREM ChainAlwaysHolds ==
  ASSUME Overlap = "serial"
  PROVE  Spec => []ChainUnlessCut
  <1>1. Init => LInv
    BY SealInit
  <1>2. LInv /\ [Next]_vars => LInv'
    BY SealNext
  <1>3. LInv => ChainUnlessCut
    <2>1. ASSUME LInv, mounted PROVE cur[Root] # Torn /\ \A g \in Groups : cur[g] \notin {Torn, Absent}
      BY <2>1, ConstantsAssumption DEF LInv, CInv, WInv, IndexesWhole, TInv, TypeOK, DiskOK, Groups
    <2>2. Slotted \subseteq Groups
      BY DEF Slotted, Groups
    <2> QED
      BY <2>1, <2>2 DEF ChainUnlessCut, Rooted, Sealed, LInv, CInv, Chained, AllSealed
  <1> QED
    BY <1>1, <1>2, <1>3, PTL DEF Spec

=============================================================================
