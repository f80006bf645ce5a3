-------------------------- MODULE RepackSaveProofs --------------------------
(***************************************************************************)
(* What was reported as saved stays on disk, and every step of a save is a *)
(* step of SaveStore or invisible there, for any threads, groups, files    *)
(* and sizes, when no two saves of one group overlap.  A saver starts from *)
(* an index that has every reported version of its group, and nobody else  *)
(* reports in that group until it is done; so the PAMT it puts in place    *)
(* has them too, plus its own.                                             *)
(***************************************************************************)
EXTENDS RepackReadProofs

\* Through the table r of the PAZ z the path f reads as version v.
Shows(z, r, f, v) ==
  IF r[f] = NoRec THEN v = 0
  ELSE \E b \in z.blobs : b.at = r[f].at /\ b.len = r[f].len /\ b.file = f /\ b.ver = v

\* Through r every path of g reads as its version in a or as a later one.
Keeps(z, r, g, a) ==
  z.size < PazLimit =>
    \A f \in Files : GroupOf[f] = g => \E v \in Nat : v >= a[f] /\ Shows(z, r, f, v)

\* A record is not ambiguous.
Distinct(z) ==
  \A b, c \in z.blobs : b.at = c.at /\ b.len = c.len /\ b.file = c.file => b = c

Reloading  == {"reload_parse", "reload_install"}
Unreported == EngineSteps \ Reloading
Recorded   == {"pamt_create", "pamt_write", "pamt_rename",
               "papgt_create", "papgt_write", "papgt_rename"}
Renamed    == {"papgt_create", "papgt_write", "papgt_rename"} \cup Reloading

\* The disk, the index and the user group have what was reported.
StoreOK(g) ==
  /\ Distinct(paz[g]) /\ \A b \in paz[g].blobs : b.ver < nextVer
  /\ cur[g] # Torn
  /\ cur[g] = Absent => \A f \in Files : GroupOf[f] = g => acked[f] = 0
  /\ cur[g] # Absent => Keeps(paz[g], cur[g].recs, g, acked)
  /\ g \in Shipped /\ index[g] # Absent
       /\ (\A t \in Threads : Group(t) = g => pc[t] \notin Reloading)
       => Keeps(paz[g], index[g].recs, g, acked)
  /\ g = UserGroup /\ mounted => Keeps(paz[g], userFiles, g, acked)

\* A saver in the engine works on a table that has what was reported; ...
EngineOK(t) ==
  LET g == Group(t) IN
  /\ pc[t] \in EngineSteps => save[t].len > 0
  /\ pc[t] \in Unreported => Keeps(paz[g], raw[t].recs, g, acked) /\ acked[file[t]] <= save[t].ver
  /\ pc[t] = "update_record" =>
       [at |-> Align16(stat[t]), len |-> save[t].len, file |-> file[t], ver |-> save[t].ver]
         \in paz[g].blobs
  /\ pc[t] \in Recorded /\ errors[t] = 0 /\ paz[g].size < PazLimit =>
       Shows(paz[g], raw[t].recs, file[t], save[t].ver)
  /\ pc[t] = "pamt_write" => fd[t] = "tmp"
  /\ pc[t] = "pamt_rename" => tmp[g] = raw[t]
  /\ pc[t] \in Renamed => cur[g] = raw[t]

\* ... one in the user group has changed the table in memory.
UserOK(t) ==
  /\ pc[t] \in UserSteps /\ paz[UserGroup].size < PazLimit =>
       Shows(paz[UserGroup], userFiles, file[t], save[t].ver)
  /\ pc[t] \in {"u_papgt_read", "u_papgt_write"} => cur[UserGroup].recs = Serialized(userFiles)

SaverOK(t) == EngineOK(t) /\ UserOK(t)

\* Versions are handed out once.
Fresh ==
  /\ nextVer \in 1..(MaxSaves + 1)
  /\ \A f \in Files : acked[f] < nextVer
  /\ \A t \in Threads : save[t].ver < nextVer

SInv ==
  /\ RInv /\ Fresh
  /\ \A g \in Groups : StoreOK(g)
  /\ \A t \in Threads : SaverOK(t)

----------------------------------------------------------------------------
(* Tables and blobs *)

LEMMA ShowsGrows ==
  ASSUME NEW z, NEW y, z.blobs \subseteq y.blobs, NEW r, NEW f, NEW v, Shows(z, r, f, v)
  PROVE  Shows(y, r, f, v)
  BY DEF Shows

LEMMA ShowsOnce ==
  ASSUME NEW z, Distinct(z), NEW r, NEW f, NEW v, NEW w, Shows(z, r, f, v), Shows(z, r, f, w)
  PROVE  v = w
  BY DEF Shows, Distinct

\* What a table showed it shows in the grown file; promises may be withdrawn.
LEMMA KeepsGrows ==
  ASSUME NEW z \in Paz, NEW y \in Paz, Grows(z, y), NEW r, NEW g,
         NEW a \in [Files -> Nat], NEW b \in [Files -> Nat],
         \A f \in Files : GroupOf[f] = g => b[f] <= a[f],
         Keeps(z, r, g, a)
  PROVE  Keeps(y, r, g, b)
  <1>1. SUFFICES ASSUME y.size < PazLimit, NEW f \in Files, GroupOf[f] = g
                 PROVE  \E v \in Nat : v >= b[f] /\ Shows(y, r, f, v)
    BY DEF Keeps
  <1>2. z.size < PazLimit
    BY <1>1, ConstantsAssumption, SMT DEF Grows, Paz
  <1>3. PICK v \in Nat : v >= a[f] /\ Shows(z, r, f, v)
    BY <1>1, <1>2 DEF Keeps
  <1>4. v >= b[f]
    BY <1>1, <1>3, SMT
  <1> QED
    BY <1>3, <1>4, ShowsGrows DEF Grows

\* One entry is replaced, by one that shows what was promised for its path.
LEMMA KeepsEdit ==
  ASSUME NEW z, NEW r \in Recs, NEW g, NEW a, NEW f \in Files, NEW rec, NEW v \in Nat,
         Keeps(z, r, g, a), v >= a[f],
         z.size < PazLimit => Shows(z, [r EXCEPT ![f] = rec], f, v)
  PROVE  Keeps(z, [r EXCEPT ![f] = rec], g, a)
  <1> DEFINE new == [r EXCEPT ![f] = rec]
  <1>1. SUFFICES ASSUME z.size < PazLimit, NEW h \in Files, GroupOf[h] = g
                 PROVE  \E w \in Nat : w >= a[h] /\ Shows(z, new, h, w)
    BY DEF Keeps
  <1>2. CASE h = f
    BY <1>1, <1>2
  <1>3. CASE h # f
    <2>1. PICK w \in Nat : w >= a[h] /\ Shows(z, r, h, w)
      BY <1>1 DEF Keeps
    <2>2. new[h] = r[h]
      BY <1>3 DEF Recs
    <2>3. Shows(z, new, h, w)
      BY <2>1, <2>2 DEF Shows
    <2> QED
      BY <2>1, <2>3
  <1> QED
    BY <1>2, <1>3

\* A version the table shows is reported.
LEMMA KeepsReported ==
  ASSUME NEW z, NEW r, NEW g, NEW a \in [Files -> Nat], NEW f \in Files, NEW v \in Nat,
         Keeps(z, r, g, a), z.size < PazLimit => Shows(z, r, f, v)
  PROVE  Keeps(z, r, g, [a EXCEPT ![f] = v])
  <1>1. SUFFICES ASSUME z.size < PazLimit, NEW h \in Files, GroupOf[h] = g
                 PROVE  \E w \in Nat : w >= [a EXCEPT ![f] = v][h] /\ Shows(z, r, h, w)
    BY DEF Keeps
  <1>2. CASE h = f
    <2>1. v >= [a EXCEPT ![f] = v][h]
      BY <1>2, SMT
    <2> QED
      BY <1>1, <1>2, <2>1
  <1>3. CASE h # f
    BY <1>1, <1>3 DEF Keeps
  <1> QED
    BY <1>2, <1>3

LEMMA ShowsSerialized ==
  ASSUME NEW z \in Paz, \A b \in z.blobs : b.at + b.len <= z.size, z.size < PazLimit,
         NEW r \in Recs, NEW f \in Files, NEW v, Shows(z, r, f, v)
  PROVE  Shows(z, Serialized(r), f, v)
  <1>1. CASE r[f] = NoRec
    BY <1>1 DEF Serialized, Shows
  <1>2. CASE r[f] # NoRec
    <2>1. PICK b \in z.blobs : b.at = r[f].at /\ b.len = r[f].len /\ b.file = f /\ b.ver = v
      BY <1>2 DEF Shows
    <2>2. r[f].at < PazLimit
      <3>1. b.at \in Nat /\ b.len \in Nat /\ z.size \in Nat
        BY DEF Paz, Blob
      <3> QED
        BY <2>1, <3>1, ConstantsAssumption, SMT
    <2>3. Serialized(r)[f] = [at |-> r[f].at, len |-> r[f].len]
      BY <1>2, <2>2 DEF Serialized, AsU32
    <2>4. r[f] \in Record /\ Serialized(r)[f] # NoRec
      BY <1>2, <2>3, ConstantsAssumption DEF Recs, Record
    <2> QED
      BY <2>1, <2>3, <2>4 DEF Shows
  <1> QED
    BY <1>1, <1>2

LEMMA KeepsSerialized ==
  ASSUME NEW z \in Paz, \A b \in z.blobs : b.at + b.len <= z.size,
         NEW r \in Recs, NEW g, NEW a, Keeps(z, r, g, a)
  PROVE  Keeps(z, Serialized(r), g, a)
  BY ShowsSerialized DEF Keeps

\* A reader of the table finds the version shown.
LEMMA VersionShown ==
  ASSUME NEW z, Distinct(z), NEW r, NEW f, NEW v, r[f] # NoRec, Shows(z, r, f, v)
  PROVE  VersionAt(z, r[f], f) = v
  <1> DEFINE P(b) == b.at = r[f].at /\ b.len = r[f].len /\ b.file = f
             c == CHOOSE b \in z.blobs : P(b)
  <1>1. PICK b \in z.blobs : P(b) /\ b.ver = v
    BY DEF Shows
  <1>2. c \in z.blobs /\ P(c)
    BY <1>1
  <1>3. c = b
    BY <1>1, <1>2 DEF Distinct
  <1>4. Names(z, r[f], f)
    BY <1>1 DEF Names
  <1> QED
    BY <1>1, <1>3, <1>4 DEF VersionAt

\* A blob that is not empty starts where none starts.
LEMMA AppendDistinct ==
  ASSUME NEW z \in Paz, \A b \in z.blobs : b.at + b.len <= z.size, Distinct(z),
         NEW f \in Files, NEW len \in Nat, len > 0, NEW ver \in Nat
  PROVE  LET y   == Append16(z, z.size, z.size, f, len, ver)
             new == [at |-> Align16(z.size), len |-> len, file |-> f, ver |-> ver]
         IN  Distinct(y) /\ y.blobs = z.blobs \cup {new}
  <1> DEFINE y   == Append16(z, z.size, z.size, f, len, ver)
             new == [at |-> Align16(z.size), len |-> len, file |-> f, ver |-> ver]
  <1>1. z.size \in Nat /\ Padding(z.size) \in Nat /\ Align16(z.size) = z.size + Padding(z.size)
    BY AlignFacts, SMT DEF Paz, Padding, Align16
  <1>2. y.blobs = z.blobs \cup {new}
    BY <1>1, WriteAtEnd DEF Append16
  <1>3. \A b \in z.blobs : b.at = new.at => b.len # new.len
    <2>1. \A b \in z.blobs : b.at \in Nat /\ b.len \in Nat
      BY DEF Paz, Blob
    <2> QED
      BY <1>1, <2>1, SMT
  <1>4. Distinct(y)
    BY <1>2, <1>3 DEF Distinct
  <1> QED
    BY <1>2, <1>4

----------------------------------------------------------------------------
(* What a step of the thread t leaves alone: every other group, and the     *)
(* threads at work there                                                    *)

\* The group the thread is in after the step.
Home(t) == GroupOf[file'[t]]

LEMMA AloneAtHome ==
  ASSUME TInv, Apart, Overlap # "any", NEW t \in Threads, Step(t)
  PROVE  /\ \A s \in Threads : s # t /\ pc[s] # "idle" => Group(s) # Home(t)
         /\ pc[t] # "idle" => file'[t] = file[t]
  <1> DEFINE Goal == \/ pc[t] # "idle" /\ file'[t] = file[t]
                     \/ pc[t] = "idle" /\ \A s \in Threads : s # t /\ pc[s] # "idle" => Group(s) # Home(t)
  <1> USE DEF TInv, TypeOK, LocalsOK
  <1>1. \A g \in Groups : ClientsAllow(g) => \A s \in Threads : Active(s) => Group(s) # g
    BY ConstantsAssumption DEF ClientsAllow
  <1>2. \A f \in Files : GroupOf[f] \in Groups
    BY ConstantsAssumption
  <1>3. CASE pc[t] = "idle"
    <2>1. \E f \in Files : ClientsAllow(GroupOf[f]) /\ file'[t] = f
      <3>1. CASE \E f \in Files, len \in Sizes : StartRepack(t, f, len)
        BY <3>1 DEF StartRepack
      <3>2. CASE \E f \in Files : UserRemove(t, f)
        BY <3>2 DEF UserRemove, Lock
      <3>3. CASE \E f \in Files, len \in Sizes : UserAdd(t, f, len)
        BY <3>3 DEF UserAdd, Lock
      <3>4. CASE \E f \in Files, len \in Sizes : UserAddFails(t, f, len)
        BY <3>4 DEF UserAddFails, Lock
      <3> QED
        BY Step(t), <1>3, <3>1, <3>2, <3>3, <3>4 DEF Step, Repack, UserOp, ReadPapgt, StatPaz, SeekPaz, WritePaz,
           WritePazFails, UpdateRecord, CreateTmp, WriteTmp, RenamePamt, RenamePapgt, AtomicWriteFails,
           ReloadParse, ReloadInstall, UserFlushPamt, UserReadPapgt, UserWritePapgt, UserWriteFails
    <2> QED
      BY <1>1, <1>2, <1>3, <2>1 DEF Active, Home
  <1>4. CASE pc[t] # "idle"
    <2>1. UNCHANGED file
      BY Step(t), <1>4 DEF Step, Repack, UserOp, StartRepack, UserAdd, UserAddFails, UserRemove, Lock, Active,
         ReadPapgt, StatPaz, SeekPaz, WritePaz, WritePazFails, UpdateRecord, CreateTmp, WriteTmp, RenamePamt,
         RenamePapgt, AtomicWriteFails, ReloadParse, ReloadInstall, UserFlushPamt, UserReadPapgt,
         UserWritePapgt, UserWriteFails
    <2> QED
      BY <1>4, <2>1 DEF Apart, Home, Group
  <1> QED
    BY <1>3, <1>4

Away(t) ==
  /\ \A g \in Groups : g # Home(t) =>
       /\ paz'[g] = paz[g] /\ cur'[g] = cur[g]
       /\ g \in Shipped => tmp'[g] = tmp[g] /\ index'[g] = index[g]
       /\ g = UserGroup => UNCHANGED userFiles
       /\ \A f \in Files : GroupOf[f] = g => acked'[f] = acked[f]
  /\ \A s \in Threads : s # t =>
       errors'[s] = errors[s] /\ (pc[s] = "pamt_write" /\ Group(s) # Home(t) => fd'[s] = fd[s])
  /\ nextVer' >= nextVer /\ UNCHANGED mounted

LEMMA StepAway ==
  ASSUME TInv, NEW t \in Threads, Step(t)
  PROVE  Away(t)
  <1> USE DEF TInv, TypeOK, LocalsOK, DiskOK, ProcessOK, GhostsOK
  <1>0. /\ \A s \in Threads : Group(s) \in Groups
        /\ Group(t) \in Groups /\ nextVer >= nextVer /\ nextVer + 1 >= nextVer
        /\ Root \notin Groups /\ UserGroup \in Groups
        /\ pc[t] \in EngineSteps => Group(t) \in Shipped
        /\ pc[t] \in UserSteps => Group(t) = UserGroup
    BY GroupFacts, ConstantsAssumption, SMT DEF Kinds, Groups
  <1>1. ASSUME ReadPapgt(t) PROVE Away(t)
    <2>1. UNCHANGED file
      BY <1>1 DEF ReadPapgt
    <2> QED
      BY <1>0, <1>1, <2>1 DEF ReadPapgt, Away, Home, Group, disk, process, ghosts, EngineSteps, UserSteps
  <1>2. ASSUME StatPaz(t) PROVE Away(t)
    <2>1. UNCHANGED file
      BY <1>2 DEF StatPaz
    <2> QED
      BY <1>0, <1>2, <2>1 DEF StatPaz, Away, Home, Group, disk, process, ghosts, EngineSteps, UserSteps
  <1>3. ASSUME SeekPaz(t) PROVE Away(t)
    <2>1. UNCHANGED file
      BY <1>3 DEF SeekPaz
    <2> QED
      BY <1>0, <1>3, <2>1 DEF SeekPaz, Away, Home, Group, disk, process, ghosts, EngineSteps, UserSteps
  <1>4. ASSUME WritePaz(t) PROVE Away(t)
    <2>1. UNCHANGED file
      BY <1>4 DEF WritePaz
    <2> QED
      BY <1>0, <1>4, <2>1 DEF WritePaz, Away, Home, Group, process, ghosts, EngineSteps, UserSteps
  <1>5. ASSUME WritePazFails(t) PROVE Away(t)
    <2>1. UNCHANGED file
      BY <1>5 DEF WritePazFails
    <2> QED
      BY <1>0, <1>5, <2>1 DEF WritePazFails, Away, Home, Group, process, ghosts, EngineSteps, UserSteps
  <1>6. ASSUME UpdateRecord(t) PROVE Away(t)
    <2>1. UNCHANGED file
      BY <1>6 DEF UpdateRecord
    <2> QED
      BY <1>0, <1>6, <2>1 DEF UpdateRecord, Away, Home, Group, disk, process, ghosts, EngineSteps, UserSteps
  <1>7. ASSUME CreateTmp(t) PROVE Away(t)
    <2>1. UNCHANGED file
      BY <1>7 DEF CreateTmp
    <2> QED
      BY <1>0, <1>7, <2>1 DEF CreateTmp, Away, Home, Group, process, ghosts, Target, AtPamt, EngineSteps, UserSteps
  <1>8. ASSUME WriteTmp(t) PROVE Away(t)
    <2>1. UNCHANGED file
      BY <1>8 DEF WriteTmp
    <2> QED
      BY <1>0, <1>8, <2>1 DEF WriteTmp, Away, Home, Group, process, ghosts, Target, AtPamt, EngineSteps, UserSteps
  <1>9. ASSUME RenamePamt(t) PROVE Away(t)
    <2>1. UNCHANGED file
      BY <1>9 DEF RenamePamt
    <2>2. \A s \in Threads : s # t /\ pc[s] = "pamt_write" /\ Group(s) # Home(t) => fd'[s] = fd[s]
      BY <1>0, <1>9, <2>1 DEF RenamePamt, Replaced, Target, AtPamt, Home, Group
    <2> QED
      BY <1>0, <1>9, <2>1, <2>2 DEF RenamePamt, Away, Home, Group, EngineSteps, process
  <1>10. ASSUME RenamePapgt(t) PROVE Away(t)
    <2>1. UNCHANGED file
      BY <1>10 DEF RenamePapgt
    <2>2. \A s \in Threads : s # t /\ pc[s] = "pamt_write" /\ Group(s) # Home(t) => fd'[s] = fd[s]
      BY <1>0, <1>10, <2>1 DEF RenamePapgt, Replaced, Target, AtPamt, Home, Group
    <2>3. \A f \in Files : GroupOf[f] # Home(t) => acked'[f] = acked[f]
      BY <1>10, <2>1 DEF RenamePapgt, Home
    <2>4. \A g \in Groups : cur'[g] = cur[g]
      BY <1>0, <1>10 DEF RenamePapgt
    <2> QED
      BY <1>0, <1>10, <2>1, <2>2, <2>3, <2>4 DEF RenamePapgt, Away, Home, Group, EngineSteps, process
  <1>11. ASSUME AtomicWriteFails(t) PROVE Away(t)
    <2>1. UNCHANGED file
      BY <1>11 DEF AtomicWriteFails
    <2> QED
      BY <1>0, <1>11, <2>1 DEF AtomicWriteFails, Away, Home, Group, disk, process, ghosts, EngineSteps, UserSteps
  <1>12. ASSUME ReloadParse(t) PROVE Away(t)
    <2>1. UNCHANGED file
      BY <1>12 DEF ReloadParse
    <2> QED
      BY <1>0, <1>12, <2>1 DEF ReloadParse, Away, Home, Group, disk, process, ghosts, EngineSteps, UserSteps
  <1>13. ASSUME ReloadInstall(t) PROVE Away(t)
    <2>1. UNCHANGED file
      BY <1>13 DEF ReloadInstall
    <2> QED
      BY <1>0, <1>13, <2>1 DEF ReloadInstall, Away, Home, Group, disk, ghosts, EngineSteps, UserSteps
  <1>14. ASSUME UserFlushPamt(t) PROVE Away(t)
    <2>1. UNCHANGED file
      BY <1>14 DEF UserFlushPamt
    <2> QED
      BY <1>0, <1>14, <2>1 DEF UserFlushPamt, Away, Home, Group, process, EngineSteps, UserSteps
  <1>15. ASSUME UserReadPapgt(t) PROVE Away(t)
    <2>1. UNCHANGED file
      BY <1>15 DEF UserReadPapgt
    <2> QED
      BY <1>0, <1>15, <2>1 DEF UserReadPapgt, Away, Home, Group, disk, Return, EngineSteps, UserSteps
  <1>16. ASSUME UserWritePapgt(t) PROVE Away(t)
    <2>1. UNCHANGED file
      BY <1>16 DEF UserWritePapgt
    <2>2. \A s \in Threads : s # t /\ pc[s] = "pamt_write" /\ Group(s) # Home(t) => fd'[s] = fd[s]
      BY <1>0, <1>16, <2>1 DEF UserWritePapgt, Replaced, Target, AtPamt, Home, Group
    <2>3. \A f \in Files : GroupOf[f] # Home(t) => acked'[f] = acked[f]
      BY <1>16, <2>1 DEF UserWritePapgt, Home
    <2>4. \A g \in Groups : cur'[g] = cur[g]
      BY <1>0, <1>16 DEF UserWritePapgt
    <2> QED
      BY <1>0, <1>16, <2>1, <2>2, <2>3, <2>4 DEF UserWritePapgt, Away, Home, Group, EngineSteps, process, UserSteps
  <1>17. ASSUME UserWriteFails(t) PROVE Away(t)
    <2>1. UNCHANGED file
      BY <1>17 DEF UserWriteFails
    <2> QED
      BY <1>0, <1>17, <2>1 DEF UserWriteFails, Away, Home, Group, disk, ghosts, Return, EngineSteps, UserSteps
  <1>18. ASSUME NEW f \in Files, NEW len \in Sizes, StartRepack(t, f, len) PROVE Away(t)
    <2>1. file' = [file EXCEPT ![t] = f] /\ Home(t) = GroupOf[f]
      BY <1>18 DEF StartRepack, Lock, Home
    <2> QED
      BY <1>0, <1>18, <2>1 DEF StartRepack, Lock, Away, disk, process, ghosts
  <1>19. ASSUME NEW f \in Files, NEW len \in Sizes, UserAdd(t, f, len) PROVE Away(t)
    <2>1. file' = [file EXCEPT ![t] = f] /\ Home(t) = GroupOf[f]
      BY <1>19 DEF UserAdd, Lock, Home
    <2> QED
      BY <1>0, <1>19, <2>1 DEF UserAdd, Lock, Away, disk, process, ghosts
  <1>20. ASSUME NEW f \in Files, NEW len \in Sizes, UserAddFails(t, f, len) PROVE Away(t)
    <2>1. file' = [file EXCEPT ![t] = f] /\ Home(t) = GroupOf[f]
      BY <1>20 DEF UserAddFails, Lock, Home
    <2> QED
      BY <1>0, <1>20, <2>1 DEF UserAddFails, Lock, Away, disk, process, ghosts
  <1>21. ASSUME NEW f \in Files, UserRemove(t, f) PROVE Away(t)
    <2>1. file' = [file EXCEPT ![t] = f] /\ Home(t) = GroupOf[f]
      BY <1>21 DEF UserRemove, Lock, Home
    <2> QED
      BY <1>0, <1>21, <2>1 DEF UserRemove, Lock, Away, disk, process, ghosts
  <1> QED
    BY Step(t), <1>1, <1>2, <1>3, <1>4, <1>5, <1>6, <1>7, <1>8, <1>9, <1>10, <1>11, <1>12, <1>13, <1>14, <1>15, <1>16, <1>17, <1>18, <1>19, <1>20, <1>21 DEF Step, Repack, UserOp

\* The promises kept depend on the acked versions of the group only.
LEMMA KeepsSame ==
  ASSUME NEW z, NEW r, NEW g, NEW a, NEW b,
         \A f \in Files : GroupOf[f] = g => b[f] = a[f], Keeps(z, r, g, a)
  PROVE  Keeps(z, r, g, b)
  BY DEF Keeps

LEMMA OthersKept ==
  ASSUME SInv, Overlap # "any", NEW t \in Threads, Step(t)
  PROVE  /\ \A g \in Groups : g # Home(t) => StoreOK(g)'
         /\ \A s \in Threads : s # t => SaverOK(s)'
  <1> USE DEF SInv, RInv
  <1>1. Away(t) /\ Only(t)
    BY StepAway, StepOnly DEF TInv, TypeOK
  <1>2. /\ \A s \in Threads : s # t /\ pc[s] # "idle" => Group(s) # Home(t)
        /\ pc[t] # "idle" => file'[t] = file[t]
    BY AloneAtHome
  <1>3. TInv'
    BY TypeNext DEF Next, Step
  <1>4. ASSUME NEW g \in Groups, g # Home(t) PROVE StoreOK(g)'
    <2>1. /\ paz'[g] = paz[g] /\ cur'[g] = cur[g] /\ (g \in Shipped => index'[g] = index[g])
          /\ (g = UserGroup => UNCHANGED userFiles) /\ nextVer' >= nextVer /\ UNCHANGED mounted
          /\ \A f \in Files : GroupOf[f] = g => acked'[f] = acked[f]
      BY <1>1, <1>4 DEF Away
    <2>2. Distinct(paz'[g]) /\ \A b \in paz'[g].blobs : b.ver < nextVer'
      <3>1. \A b \in paz[g].blobs : b.ver \in Nat
        BY PazSize DEF TInv, TypeOK, DiskOK, Paz, Blob
      <3>2. nextVer \in Nat /\ nextVer' \in Nat
        BY <1>3 DEF TInv, TypeOK, GhostsOK
      <3>3. Distinct(paz[g]) /\ \A b \in paz[g].blobs : b.ver < nextVer
        BY DEF StoreOK
      <3> QED
        BY <2>1, <3>1, <3>2, <3>3, SMT
    <2>3. (\A s \in Threads : Group(s)' = g => pc'[s] \notin Reloading)
          => (\A s \in Threads : Group(s) = g => pc[s] \notin Reloading)
      <3>1. \A s \in Threads : s # t => Group(s)' = Group(s) /\ pc'[s] = pc[s]
        BY <1>1 DEF Only, Group
      <3>2. Group(t) = g => pc[t] = "idle"
        BY <1>2, <1>4 DEF Home, Group
      <3> QED
        BY <3>1, <3>2 DEF Reloading
    <2>4. \A r : Keeps(paz[g], r, g, acked) => Keeps(paz'[g], r, g, acked')
      BY <2>1, KeepsSame
    <2>5. StoreOK(g)
      OBVIOUS
    <2> QED
      BY <2>1, <2>2, <2>3, <2>4, <2>5 DEF StoreOK
  <1>5. ASSUME NEW s \in Threads, s # t PROVE SaverOK(s)'
    <2>1. /\ pc'[s] = pc[s] /\ file'[s] = file[s] /\ save'[s] = save[s]
          /\ stat'[s] = stat[s] /\ raw'[s] = raw[s] /\ errors'[s] = errors[s]
      BY <1>1, <1>5 DEF Only, Away
    <2>2. CASE pc[s] = "idle"
      BY <2>1, <2>2 DEF SaverOK, EngineOK, UserOK, EngineSteps, UserSteps, Unreported, Recorded, Renamed, Reloading
    <2>3. CASE pc[s] # "idle"
      <3>1. Group(s) # Home(t) /\ Group(s) \in Groups /\ file[s] \in Files
        BY <1>2, <1>5, <2>3, GroupFacts DEF TInv, TypeOK
      <3>2. /\ pc[s] \in EngineSteps => Group(s) \in Shipped
            /\ pc[s] \in UserSteps => Group(s) = UserGroup
        BY DEF TInv, Kinds
      <3>3. /\ paz'[Group(s)] = paz[Group(s)] /\ cur'[Group(s)] = cur[Group(s)]
            /\ Group(s) \in Shipped => tmp'[Group(s)] = tmp[Group(s)]
            /\ Group(s) = UserGroup => UNCHANGED userFiles
            /\ acked'[file[s]] = acked[file[s]]
            /\ \A f \in Files : GroupOf[f] = Group(s) => acked'[f] = acked[f]
            /\ pc[s] = "pamt_write" => fd'[s] = fd[s]
        BY <1>1, <1>5, <3>1 DEF Away, Group
      <3>4. Group(s)' = Group(s)
        BY <2>1 DEF Group
      <3>5. \A r : Keeps(paz[Group(s)], r, Group(s), acked) => Keeps(paz'[Group(s)], r, Group(s), acked')
        BY <3>3, KeepsSame
      <3>6. SaverOK(s)
        OBVIOUS
      <3>7. EngineOK(s)'
        BY <2>1, <3>2, <3>3, <3>4, <3>5, <3>6 DEF SaverOK, EngineOK, EngineSteps
      <3>8. UserOK(s)'
        BY <2>1, <3>2, <3>3, <3>6 DEF SaverOK, UserOK, UserSteps
      <3> QED
        BY <3>7, <3>8 DEF SaverOK
    <2> QED
      BY <2>2, <2>3
  <1> QED
    BY <1>4, <1>5

----------------------------------------------------------------------------
(* What a step of t does at home *)

Own(t) == (\A g \in Groups : g = Home(t) => StoreOK(g)') /\ SaverOK(t)' /\ Fresh'

\* Nobody else is reloading there.
LEMMA NotReloading ==
  ASSUME SInv, Overlap # "any", NEW t \in Threads, Step(t), pc[t] \notin Reloading
  PROVE  \A s \in Threads : Group(s) = Home(t) => pc[s] \notin Reloading
  BY AloneAtHome DEF SInv, RInv, Reloading

\* A step that touches neither PAMT, index nor user table of its group.
LEMMA HomeKept ==
  ASSUME SInv, Overlap # "any", NEW t \in Threads, Step(t), pc[t] \notin Reloading,
         NEW g \in Groups, g = Home(t),
         Grows(paz[g], paz'[g]), Distinct(paz'[g]), \A b \in paz'[g].blobs : b.ver < nextVer',
         cur'[g] = cur[g], UNCHANGED <<index, userFiles, mounted, acked>>
  PROVE  StoreOK(g)'
  <1> USE DEF SInv, RInv
  <1>1. TInv'
    BY TypeNext DEF Next, Step
  <1>2. paz[g] \in Paz /\ paz'[g] \in Paz /\ acked \in [Files -> Nat]
    BY <1>1 DEF TInv, TypeOK, DiskOK, GhostsOK
  <1>3. \A f \in Files : acked[f] <= acked[f]
    BY <1>2, SMT
  <1>4. \A r : Keeps(paz[g], r, g, acked) => Keeps(paz'[g], r, g, acked)
    BY <1>2, <1>3, KeepsGrows
  <1>5. StoreOK(g) /\ \A s \in Threads : Group(s) = g => pc[s] \notin Reloading
    BY NotReloading
  <1> QED
    BY <1>4, <1>5 DEF StoreOK

\* The same for a step that leaves the PAZ alone too.
LEMMA HomeSame ==
  ASSUME SInv, Overlap # "any", NEW t \in Threads, Step(t), pc[t] \notin Reloading,
         NEW g \in Groups, g = Home(t),
         paz'[g] = paz[g], cur'[g] = cur[g], nextVer' \in {nextVer, nextVer + 1},
         UNCHANGED <<index, userFiles, mounted, acked>>
  PROVE  StoreOK(g)'
  <1>1. paz[g] \in Paz /\ nextVer \in Nat
    BY DEF SInv, RInv, TInv, TypeOK, DiskOK, GhostsOK
  <1>2. Grows(paz[g], paz'[g])
    BY <1>1, SMT DEF Grows, Paz
  <1>3. \A b \in paz[g].blobs : b.ver \in Nat
    BY <1>1 DEF Paz, Blob
  <1>4. StoreOK(g)
    BY DEF SInv
  <1>5. Distinct(paz'[g]) /\ \A b \in paz'[g].blobs : b.ver < nextVer'
    <2>1. \A b \in paz[g].blobs : b.ver < nextVer
      BY <1>4 DEF StoreOK
    <2>2. \A b \in paz[g].blobs : b.ver < nextVer'
      BY <1>1, <1>3, <2>1, SMT
    <2> QED
      BY <1>4, <2>2 DEF StoreOK
  <1> QED
    BY <1>2, <1>5, HomeKept

LEMMA FreshSame == ASSUME Fresh, UNCHANGED <<nextVer, acked, save>> PROVE Fresh'
  BY DEF Fresh

\* Steps that read, or change what only the thread sees.
LEMMA QuietOwn ==
  ASSUME SInv, Overlap # "any", NEW t \in Threads,
         ReadPapgt(t) \/ StatPaz(t) \/ SeekPaz(t) \/ UpdateRecord(t) \/ CreateTmp(t)
         \/ AtomicWriteFails(t) \/ UserWriteFails(t)
  PROVE  Own(t)
  <1> USE DEF SInv, RInv, TInv, TypeOK, LocalsOK
  <1>1. Step(t)
    BY DEF Step, Repack, UserOp
  <1>2. /\ pc[t] \notin Reloading /\ UNCHANGED <<file, paz, cur, index, userFiles, mounted, acked, nextVer, save, errors>>
    BY DEF ReadPapgt, StatPaz, SeekPaz, UpdateRecord, CreateTmp, AtomicWriteFails, UserWriteFails,
           Reloading, disk, process, ghosts
  <1>3. \A g \in Groups : g = Home(t) => StoreOK(g)'
    BY <1>1, <1>2, HomeSame
  <1>4. SaverOK(t)
    OBVIOUS
  <1>5. Group(t)' = Group(t) /\ Group(t) \in Groups /\ file[t] \in Files
    BY <1>2, GroupFacts DEF Group
  <1> USE DEF SaverOK, EngineOK, UserOK
  <1>6. SaverOK(t)'
    <2>1. CASE ReadPapgt(t)
      <3>1. pc[t] = "read_papgt" /\ pc'[t] \in {"stat_paz", "idle"} /\ UNCHANGED raw
        BY <2>1 DEF ReadPapgt, Go
      <3> QED
        BY <1>2, <1>4, <1>5, <3>1 DEF EngineSteps, UserSteps, Unreported, Recorded, Renamed, Reloading
    <2>2. CASE StatPaz(t)
      <3>1. pc[t] = "stat_paz" /\ pc'[t] = "seek_paz" /\ UNCHANGED raw
        BY <2>2 DEF StatPaz, Go
      <3> QED
        BY <1>2, <1>4, <1>5, <3>1 DEF EngineSteps, UserSteps, Unreported, Recorded, Renamed, Reloading
    <2>3. CASE SeekPaz(t)
      <3>1. pc[t] = "seek_paz" /\ pc'[t] = "write_paz" /\ UNCHANGED raw
        BY <2>3 DEF SeekPaz, Go
      <3> QED
        BY <1>2, <1>4, <1>5, <3>1 DEF EngineSteps, UserSteps, Unreported, Recorded, Renamed, Reloading
    <2>4. CASE CreateTmp(t)
      <3>1. /\ UNCHANGED raw
            /\ \/ pc[t] = "pamt_create" /\ pc'[t] = "pamt_write" /\ fd'[t] = "tmp"
               \/ pc[t] = "papgt_create" /\ pc'[t] = "papgt_write"
        BY <2>4 DEF CreateTmp, Go, AtPamt
      <3> QED
        BY <1>2, <1>4, <1>5, <3>1 DEF EngineSteps, UserSteps, Unreported, Recorded, Renamed, Reloading
    <2>5. CASE AtomicWriteFails(t) \/ UserWriteFails(t)
      <3>1. pc'[t] = "idle"
        BY <2>5 DEF AtomicWriteFails, UserWriteFails, Go, Return
      <3> QED
        BY <3>1 DEF EngineSteps, UserSteps, Unreported, Recorded, Renamed, Reloading
    <2>6. CASE UpdateRecord(t)
      <3> DEFINE z == paz[Group(t)]
                 old == raw[t].recs
                 new == [old EXCEPT ![file[t]] = NewRecord(stat[t], save[t].len)]
                 blob == [at |-> Align16(stat[t]), len |-> save[t].len, file |-> file[t], ver |-> save[t].ver]
      <3>1. pc[t] = "update_record" /\ pc'[t] = "pamt_create" /\ raw'[t].recs = new
        BY <2>6 DEF UpdateRecord, Go
      <3>2. blob \in z.blobs /\ Keeps(z, old, Group(t), acked) /\ acked[file[t]] <= save[t].ver /\ save[t].len > 0
        BY <1>4, <3>1 DEF Unreported, EngineSteps, Reloading
      <3>3. old \in Recs /\ z \in Paz /\ save[t].ver \in Nat /\ save[t].len \in Nat /\ stat[t] \in Nat
        BY <1>5, PamtTypes, PazSize
      <3>4. z.size < PazLimit => Shows(z, new, file[t], save[t].ver)
        <4>1. SUFFICES ASSUME z.size < PazLimit PROVE Shows(z, new, file[t], save[t].ver)
          OBVIOUS
        <4>2. Align16(stat[t]) < PazLimit
          <5>1. blob.at + blob.len <= z.size /\ blob.at \in Nat /\ z.size \in Nat
            BY <1>5, <3>2, <3>3, PazSize DEF Inside, Paz, Blob
          <5> QED
            BY <3>3, <4>1, <5>1, ConstantsAssumption, SMT
        <4>3. NewRecord(stat[t], save[t].len) = [at |-> Align16(stat[t]), len |-> save[t].len]
          BY <4>2 DEF NewRecord, AsU32
        <4>4. new[file[t]] = NewRecord(stat[t], save[t].len) /\ new[file[t]] # NoRec
          BY <1>5, <3>3, NewRecordType, ConstantsAssumption DEF Recs
        <4> QED
          BY <3>2, <4>3, <4>4 DEF Shows
      <3>5. Keeps(z, new, Group(t), acked)
        BY <1>5, <3>2, <3>3, <3>4, KeepsEdit
      <3> QED
        BY <1>2, <1>4, <1>5, <3>1, <3>2, <3>4, <3>5 DEF EngineSteps, UserSteps, Unreported, Recorded, Renamed, Reloading
    <2> QED
      BY <2>1, <2>2, <2>3, <2>4, <2>5, <2>6
  <1>7. Fresh'
    BY <1>2, FreshSame
  <1> QED
    BY <1>3, <1>6, <1>7 DEF Own

\* Nothing is asked of a thread that is done.
LEMMA IdleOwn == ASSUME NEW t \in Threads, pc[t] = "idle" PROVE SaverOK(t)
  BY DEF SaverOK, EngineOK, UserOK, EngineSteps, UserSteps, Unreported, Recorded, Renamed, Reloading

LEMMA StartOwn ==
  ASSUME SInv, Overlap # "any", NEW t \in Threads, NEW f \in Files, NEW len \in Sizes,
         StartRepack(t, f, len)
  PROVE  Own(t)
  <1> USE DEF SInv, RInv, TInv, TypeOK, LocalsOK, GhostsOK
  <1>1. Step(t)
    BY DEF Step, Repack
  <1>2. /\ pc[t] = "idle" /\ pc'[t] = "read_papgt" /\ file' = [file EXCEPT ![t] = f]
        /\ save' = [save EXCEPT ![t] = [len |-> len, ver |-> nextVer]] /\ raw'[t] = index[GroupOf[f]]
        /\ nextVer' = nextVer + 1 /\ nextVer <= MaxSaves
        /\ GroupOf[f] \in Shipped /\ index[GroupOf[f]] # Absent
        /\ UNCHANGED <<paz, cur, tmp, index, userFiles, mounted, acked>>
    BY DEF StartRepack, Go, Active, disk, process
  <1>3. Home(t) = GroupOf[f] /\ Group(t)' = GroupOf[f] /\ file'[t] = f /\ save'[t] = [len |-> len, ver |-> nextVer]
    BY <1>2 DEF Home, Group
  <1>4. \A g \in Groups : g = Home(t) => StoreOK(g)'
    BY <1>1, <1>2, HomeSame DEF Reloading
  <1>5. \A s \in Threads : Group(s) = GroupOf[f] => pc[s] \notin Reloading
    BY <1>1, <1>2, <1>3, NotReloading DEF Reloading
  <1>6. Keeps(paz[GroupOf[f]], index[GroupOf[f]].recs, GroupOf[f], acked)
    BY <1>2, <1>5 DEF StoreOK, Groups
  <1>7. len > 0 /\ len \in Nat /\ acked[f] <= nextVer
    <2>1. acked[f] < nextVer /\ acked[f] \in Nat
      BY DEF Fresh
    <2> QED
      BY <2>1, ConstantsAssumption, SMT
  <1>8. SaverOK(t)'
    BY <1>2, <1>3, <1>6, <1>7 DEF SaverOK, EngineOK, UserOK, EngineSteps, UserSteps, Unreported, Recorded,
       Renamed, Reloading
  <1>9. Fresh'
    <2>1. nextVer' \in 1..(MaxSaves + 1)
      BY <1>2, ConstantsAssumption, SMT DEF Fresh
    <2>2. \A h \in Files : acked'[h] < nextVer'
      BY <1>2, SMT DEF Fresh
    <2>3. \A s \in Threads : save'[s].ver < nextVer'
      BY <1>2, SMT DEF Fresh
    <2> QED
      BY <2>1, <2>2, <2>3 DEF Fresh
  <1> QED
    BY <1>4, <1>8, <1>9 DEF Own

\* An append at the end of the PAZ of the thread's group.
LEMMA WriteOwn ==
  ASSUME SInv, Overlap # "any", NEW t \in Threads, WritePaz(t) \/ WritePazFails(t)
  PROVE  Own(t)
  <1> DEFINE z == paz[Group(t)]
             y == paz'[Group(t)]
             new == [at |-> Align16(z.size), len |-> save[t].len, file |-> file[t], ver |-> save[t].ver]
  <1> USE DEF SInv, RInv, TInv, TypeOK, LocalsOK, GhostsOK
  <1>1. Step(t)
    BY DEF Step, Repack
  <1>2. /\ pc[t] = "write_paz" /\ Home(t) = Group(t) /\ Group(t)' = Group(t)
        /\ UNCHANGED <<cur, tmp, index, userFiles, mounted, acked, nextVer, file, save, stat, raw>>
    BY DEF WritePaz, WritePazFails, process, ghosts, Home, Group
  <1>3. stat[t] = z.size /\ pos[t] = z.size
    BY <1>2 DEF Cursor, CursorOK
  <1>4. /\ Group(t) \in Groups /\ z \in Paz /\ file[t] \in Files /\ save[t].ver \in Nat
        /\ save[t].len \in Nat /\ z.size \in Nat
    BY GroupFacts, PazSize
  <1>5. RInv' /\ Grows(z, y)
    BY <1>1, <1>4, ReadNext DEF Next, Step
  <1>6. SaverOK(t) /\ StoreOK(Group(t))
    BY <1>4
  <1>7. save[t].len > 0 /\ Keeps(z, raw[t].recs, Group(t), acked) /\ acked[file[t]] <= save[t].ver
    BY <1>2, <1>6 DEF SaverOK, EngineOK, EngineSteps, Unreported, Reloading
  <1>8. Distinct(z) /\ \A b \in z.blobs : b.at + b.len <= z.size
    BY <1>4, <1>6 DEF StoreOK, Inside
  <1>9. /\ Distinct(y)
        /\ \/ pc'[t] = "update_record" /\ y.blobs = z.blobs \cup {new}
           \/ pc'[t] = "pamt_create" /\ y.blobs = z.blobs /\ errors'[t] # 0
    <2>1. CASE WritePaz(t)
      <3>1. y = Append16(z, z.size, z.size, file[t], save[t].len, save[t].ver)
        BY <1>3, <1>4, <2>1 DEF WritePaz, DiskOK
      <3>2. pc'[t] = "update_record"
        BY <2>1 DEF WritePaz, Go
      <3> QED
        BY <1>4, <1>7, <1>8, <3>1, <3>2, AppendDistinct
    <2>2. CASE WritePazFails(t)
      <3>1. PICK n \in Cut(stat[t], save[t].len) :
              paz' = [paz EXCEPT ![Group(t)] = WriteAt(@, pos[t], n)]
        BY <2>2, Zenon DEF WritePazFails
      <3>2. y = WriteAt(z, z.size, n) /\ n \in Int
        BY <1>3, <1>4, <3>1, CutType DEF DiskOK
      <3>3. y.blobs = z.blobs
        BY <1>4, <1>8, <3>2, WriteAtEnd
      <3>4. pc'[t] = "pamt_create" /\ errors'[t] # 0
        BY <2>2 DEF WritePazFails, Go
      <3> QED
        BY <1>8, <3>3, <3>4 DEF Distinct
    <2> QED
      BY <2>1, <2>2
  <1>10. \A b \in y.blobs : b.ver < nextVer'
    BY <1>2, <1>4, <1>6, <1>9 DEF StoreOK, Fresh
  <1>11. \A g \in Groups : g = Home(t) => StoreOK(g)'
    BY <1>1, <1>2, <1>5, <1>9, <1>10, HomeKept DEF Reloading
  <1>12. Keeps(y, raw'[t].recs, Group(t), acked')
    <2>1. y \in Paz
      BY <1>4, <1>5 DEF DiskOK
    <2>2. \A h \in Files : acked[h] <= acked[h]
      BY SMT
    <2>3. acked \in [Files -> Nat] /\ Grows(z, y)
      BY <1>5
    <2> HIDE DEF y, z
    <2>4. Keeps(y, raw[t].recs, Group(t), acked)
      BY <1>4, <1>7, <2>1, <2>2, <2>3, KeepsGrows
    <2> QED
      BY <1>2, <2>4
  <1>13. SaverOK(t)'
    BY <1>2, <1>3, <1>7, <1>9, <1>12 DEF SaverOK, EngineOK, UserOK, EngineSteps, UserSteps, Unreported, Recorded,
       Renamed, Reloading
  <1>14. Fresh'
    BY <1>2, FreshSame
  <1> QED
    BY <1>11, <1>13, <1>14 DEF Own

\* WriteTmp writes the buffer to the temp file the thread has opened.
LEMMA WriteTmpOwn ==
  ASSUME SInv, Overlap # "any", NEW t \in Threads, WriteTmp(t)
  PROVE  Own(t)
  <1> USE DEF SInv, RInv, TInv, TypeOK, LocalsOK
  <1>1. Step(t)
    BY DEF Step, Repack
  <1>2. /\ pc[t] \in {"pamt_write", "papgt_write"}
        /\ Home(t) = Group(t) /\ Group(t)' = Group(t) /\ Group(t) \in Shipped
        /\ UNCHANGED <<paz, index, userFiles, mounted, acked, nextVer, file, save, raw, errors>>
    BY DEF WriteTmp, process, ghosts, Home, Group, Kinds, EngineSteps
  <1>3. SaverOK(t)
    OBVIOUS
  <1>4. \A g \in Groups : cur'[g] = cur[g]
    <2>1. CASE pc[t] = "pamt_write"
      BY <1>3, <2>1 DEF WriteTmp, SaverOK, EngineOK
    <2>2. CASE pc[t] = "papgt_write"
      BY <2>2, ConstantsAssumption DEF WriteTmp, Target, AtPamt
    <2> QED
      BY <1>2, <2>1, <2>2
  <1>5. \A g \in Groups : g = Home(t) => StoreOK(g)'
    BY <1>1, <1>2, <1>4, HomeSame DEF Reloading
  <1>6. /\ pc[t] = "pamt_write" => pc'[t] = "pamt_rename" /\ tmp'[Group(t)] = raw[t]
        /\ pc[t] = "papgt_write" => pc'[t] = "papgt_rename"
    <2>1. pc[t] = "pamt_write" => fd[t] = "tmp"
      BY <1>3 DEF SaverOK, EngineOK
    <2> QED
      BY <1>2, <2>1 DEF WriteTmp, Go, AtPamt, Target, Content, DiskOK
  <1>7. Group(t) \in Groups
    BY <1>2 DEF Groups
  <1>8. SaverOK(t)'
    BY <1>2, <1>3, <1>4, <1>6, <1>7 DEF SaverOK, EngineOK, UserOK, EngineSteps, UserSteps, Unreported, Recorded,
       Renamed, Reloading
  <1>9. Fresh'
    BY <1>2, FreshSame
  <1> QED
    BY <1>5, <1>8, <1>9 DEF Own

LEMMA RenamePamtOwn ==
  ASSUME SInv, Overlap # "any", NEW t \in Threads, RenamePamt(t)
  PROVE  Own(t)
  <1> USE DEF SInv, RInv, TInv, TypeOK, LocalsOK
  <1> DEFINE g == Group(t)
  <1>1. Step(t)
    BY DEF Step, Repack
  <1>2. /\ pc[t] = "pamt_rename" /\ pc'[t] = "papgt_create"
        /\ Home(t) = g /\ Group(t)' = g /\ g \in Shipped /\ g \in Groups /\ g # UserGroup
        /\ cur' = [cur EXCEPT ![g] = tmp[g]]
        /\ UNCHANGED <<paz, index, userFiles, mounted, acked, nextVer, file, save, raw, errors>>
    BY ConstantsAssumption DEF RenamePamt, Go, process, Home, Group, Kinds, EngineSteps, Groups
  <1>3. SaverOK(t) /\ StoreOK(g)
    BY <1>2
  <1>4. tmp[g] = raw[t] /\ Keeps(paz[g], raw[t].recs, g, acked)
    BY <1>2, <1>3 DEF SaverOK, EngineOK, Unreported, EngineSteps, Reloading
  <1>5. cur'[g] = raw[t] /\ raw[t] \notin {Torn, Absent}
    BY <1>2, <1>4, ConstantsAssumption DEF DiskOK
  <1>6. \A s \in Threads : Group(s) = g => pc[s] \notin Reloading
    BY <1>1, <1>2, NotReloading DEF Reloading
  <1>7. StoreOK(g)'
    BY <1>2, <1>3, <1>4, <1>5, <1>6 DEF StoreOK
  <1>8. SaverOK(t)'
    BY <1>2, <1>3, <1>5 DEF SaverOK, EngineOK, UserOK, EngineSteps, UserSteps, Unreported, Recorded,
       Renamed, Reloading
  <1>9. Fresh'
    BY <1>2, FreshSame
  <1> QED
    BY <1>2, <1>7, <1>8, <1>9 DEF Own

\* A report hands out a version that is older than the next.
LEMMA FreshReport ==
  ASSUME Fresh, GhostsOK, NEW t \in Threads, UNCHANGED <<nextVer, save>>,
         acked' = [acked EXCEPT ![file[t]] = save[t].ver] \/ UNCHANGED acked
  PROVE  Fresh'
  BY DEF Fresh, GhostsOK

LEMMA RenamePapgtOwn ==
  ASSUME SInv, Overlap # "any", NEW t \in Threads, RenamePapgt(t)
  PROVE  Own(t)
  <1> USE DEF SInv, RInv, TInv, TypeOK, LocalsOK, GhostsOK
  <1> DEFINE g == Group(t)
  <1>1. Step(t)
    BY DEF Step, Repack
  <1>2. /\ pc[t] = "papgt_rename" /\ Home(t) = g /\ Group(t)' = g
        /\ g \in Shipped /\ g \in Groups /\ g # UserGroup /\ file[t] \in Files
        /\ UNCHANGED <<paz, index, userFiles, mounted, nextVer, file, save, raw, errors>>
    BY ConstantsAssumption DEF RenamePapgt, process, Home, Group, Kinds, EngineSteps, Groups
  <1>3. cur'[g] = cur[g]
    BY <1>2, ConstantsAssumption DEF RenamePapgt
  <1>4. SaverOK(t) /\ StoreOK(g)
    BY <1>2
  <1>5. /\ cur[g] = raw[t] /\ save[t].len > 0
        /\ errors[t] = 0 /\ paz[g].size < PazLimit => Shows(paz[g], raw[t].recs, file[t], save[t].ver)
    BY <1>2, <1>4 DEF SaverOK, EngineOK, Renamed, Recorded, EngineSteps
  <1>6. CASE errors[t] = 0
    <2>1. acked' = [acked EXCEPT ![file[t]] = save[t].ver] /\ pc'[t] = "reload_parse"
      BY <1>6 DEF RenamePapgt, Go
    <2>2. cur[g] # Absent /\ Keeps(paz[g], cur[g].recs, g, acked)
      BY <1>4, <1>5, ConstantsAssumption DEF StoreOK
    <2>3. Keeps(paz[g], cur[g].recs, g, acked')
      BY <1>2, <1>5, <1>6, <2>1, <2>2, KeepsReported
    <2>4. StoreOK(g)'
      BY <1>2, <1>3, <1>4, <2>1, <2>2, <2>3 DEF StoreOK, Reloading
    <2>5. SaverOK(t)'
      BY <1>2, <1>3, <1>5, <2>1 DEF SaverOK, EngineOK, UserOK, EngineSteps, UserSteps, Unreported, Recorded,
         Renamed, Reloading
    <2> QED
      BY <1>2, <2>1, <2>4, <2>5, FreshReport DEF Own
  <1>7. CASE errors[t] # 0
    <2>1. UNCHANGED acked /\ pc'[t] = "idle"
      BY <1>7 DEF RenamePapgt, Go
    <2>2. StoreOK(g)'
      BY <1>1, <1>2, <1>3, <2>1, HomeSame DEF Reloading
    <2>3. SaverOK(t)'
      BY <2>1, IdleOwn DEF SaverOK, EngineOK, UserOK, EngineSteps, UserSteps, Unreported, Recorded,
         Renamed, Reloading
    <2> QED
      BY <1>2, <2>1, <2>2, <2>3, FreshSame DEF Own
  <1> QED
    BY <1>6, <1>7

LEMMA ReloadOwn ==
  ASSUME SInv, Overlap # "any", NEW t \in Threads, ReloadParse(t) \/ ReloadInstall(t)
  PROVE  Own(t)
  <1> USE DEF SInv, RInv, TInv, TypeOK, LocalsOK
  <1> DEFINE g == Group(t)
  <1>1. /\ pc[t] \in Reloading /\ Home(t) = g /\ Group(t)' = g
        /\ g \in Shipped /\ g \in Groups /\ g # UserGroup
        /\ UNCHANGED <<paz, cur, userFiles, mounted, acked, nextVer, file, save, errors>>
    BY ConstantsAssumption DEF ReloadParse, ReloadInstall, disk, process, ghosts, Home, Group, Kinds,
       EngineSteps, Groups, Reloading
  <1>2. SaverOK(t) /\ StoreOK(g)
    BY <1>1
  <1>3. cur[g] = raw[t] /\ raw[t] \notin {Torn, Absent} /\ save[t].len > 0
    BY <1>1, <1>2, ConstantsAssumption DEF SaverOK, EngineOK, Renamed, Reloading, EngineSteps
  <1>4. CASE ReloadParse(t)
    <2>1. pc'[t] = "reload_install" /\ raw'[t] = raw[t] /\ UNCHANGED index
      BY <1>3, <1>4 DEF ReloadParse, Go, process
    <2>2. StoreOK(g)'
      BY <1>1, <1>2, <2>1 DEF StoreOK, Reloading
    <2>3. SaverOK(t)'
      BY <1>1, <1>3, <2>1 DEF SaverOK, EngineOK, UserOK, EngineSteps, UserSteps, Unreported, Recorded,
         Renamed, Reloading
    <2> QED
      BY <1>1, <2>2, <2>3, FreshSame DEF Own
  <1>5. CASE ReloadInstall(t)
    <2>1. pc'[t] = "idle" /\ index'[g] = cur[g]
      BY <1>1, <1>3, <1>5 DEF ReloadInstall, Go, ProcessOK
    <2>2. StoreOK(g)'
      BY <1>1, <1>2, <2>1 DEF StoreOK
    <2>3. SaverOK(t)'
      BY <2>1 DEF SaverOK, EngineOK, UserOK, EngineSteps, UserSteps, Unreported, Recorded, Renamed, Reloading
    <2> QED
      BY <1>1, <2>2, <2>3, FreshSame DEF Own
  <1> QED
    BY <1>4, <1>5

----------------------------------------------------------------------------
(* The user group *)

LEMMA UserFacts ==
  ASSUME SInv
  PROVE  /\ UserGroup \in Groups /\ UserGroup \notin Shipped /\ userFiles \in Recs
         /\ paz[UserGroup] \in Paz /\ paz[UserGroup].size \in Nat
         /\ \A b \in paz[UserGroup].blobs : b.at + b.len <= paz[UserGroup].size
         /\ acked \in [Files -> Nat] /\ nextVer \in Nat
         /\ \A t \in Threads : pc[t] \in UserSteps => mounted /\ Group(t) = UserGroup
         /\ \A t \in Threads : file[t] \in Files /\ save[t].ver \in Nat
         /\ mounted => cur[UserGroup] \in Pamt /\ cur[UserGroup] \notin {Torn, Absent}
  <1> USE DEF SInv, RInv, TInv, TypeOK
  <1>1. UserGroup \in Groups /\ UserGroup \notin Shipped
    BY ConstantsAssumption DEF Groups
  <1>2. paz[UserGroup] \in Paz /\ paz[UserGroup].size \in Nat
    BY <1>1, PazSize
  <1>3. \A t \in Threads : pc[t] \in UserSteps => mounted /\ Group(t) = UserGroup
    BY DEF Kinds, UserSteps
  <1>4. \A t \in Threads : file[t] \in Files /\ save[t].ver \in Nat
    BY DEF LocalsOK
  <1>5. mounted => cur[UserGroup] \in Pamt /\ cur[UserGroup] \notin {Torn, Absent}
    BY ConstantsAssumption DEF DiskOK
  <1> QED
    BY <1>1, <1>2, <1>3, <1>4, <1>5 DEF ProcessOK, GhostsOK, Inside

LEMMA UserAddOwn ==
  ASSUME SInv, Overlap # "any", NEW t \in Threads, NEW f \in Files, NEW len \in Sizes,
         UserAdd(t, f, len)
  PROVE  Own(t)
  <1> DEFINE z == paz[UserGroup]
             y == Append16(z, z.size, z.size, f, len, nextVer)
             rec == [at |-> Align16(z.size), len |-> len]
             new == [at |-> Align16(z.size), len |-> len, file |-> f, ver |-> nextVer]
  <1> USE DEF SInv
  <1>1. Step(t) /\ nextVer <= MaxSaves /\ mounted /\ GroupOf[f] = UserGroup
    BY DEF UserAdd, Lock, Step, UserOp
  <1>2. /\ pc[t] = "idle" /\ pc'[t] = "u_pamt" /\ file'[t] = f /\ Home(t) = UserGroup
        /\ paz'[UserGroup] = y /\ userFiles' = [userFiles EXCEPT ![f] = rec]
        /\ save' = [save EXCEPT ![t] = [len |-> len, ver |-> nextVer]]
        /\ save'[t] = [len |-> len, ver |-> nextVer]
        /\ nextVer' = nextVer + 1 /\ UNCHANGED <<cur, mounted, acked>>
    BY UserFacts DEF UserAdd, Lock, Go, Active, Home, RInv, TInv, TypeOK, DiskOK, LocalsOK
  <1>3. len \in Nat /\ len > 0
    BY ConstantsAssumption, SMT
  <1>4. StoreOK(UserGroup)
    BY UserFacts
  <1>5. y \in Paz /\ Grows(z, y)
    BY <1>3, UserFacts, AppendAtEnd
  <1>6. Distinct(y) /\ y.blobs = z.blobs \cup {new}
    BY <1>3, <1>4, UserFacts, AppendDistinct DEF StoreOK
  <1>7. \A b \in y.blobs : b.ver < nextVer'
    <2>1. \A b \in z.blobs : b.ver \in Nat /\ b.ver < nextVer
      BY <1>4, UserFacts DEF StoreOK, Paz, Blob
    <2>2. \A b \in z.blobs : b.ver < nextVer + 1
      BY <2>1, UserFacts, SMT
    <2>3. new.ver < nextVer + 1
      BY UserFacts, SMT
    <2> QED
      BY <1>2, <1>6, <2>2, <2>3
  <1>8. \A r : Keeps(z, r, UserGroup, acked) => Keeps(y, r, UserGroup, acked)
    <2>1. \A h \in Files : acked[h] <= acked[h]
      BY UserFacts, SMT
    <2> HIDE DEF y, z
    <2> QED
      BY <1>5, <2>1, UserFacts, KeepsGrows DEF z
  <1>9. Shows(y, userFiles', f, nextVer)
    <2>1. userFiles'[f] = rec /\ rec # NoRec /\ new \in y.blobs
      <3>1. rec \in Record
        BY <1>3, UserFacts, AlignFacts DEF Record
      <3> QED
        BY <1>2, <1>6, <3>1, UserFacts, ConstantsAssumption DEF Recs
    <2> HIDE DEF y
    <2> QED
      BY <2>1 DEF Shows
  <1>10. Keeps(y, userFiles', UserGroup, acked)
    <2>1. Keeps(y, userFiles, UserGroup, acked)
      BY <1>1, <1>4, <1>8 DEF StoreOK
    <2>2. nextVer >= acked[f]
      <3>1. acked[f] < nextVer /\ acked[f] \in Nat
        BY UserFacts DEF Fresh
      <3> QED
        BY <3>1, UserFacts, SMT
    <2> HIDE DEF y, rec
    <2> QED
      BY <1>2, <1>9, <2>1, <2>2, UserFacts, KeepsEdit
  <1>11. StoreOK(UserGroup)'
    BY <1>2, <1>4, <1>6, <1>7, <1>8, <1>10, UserFacts DEF StoreOK
  <1>12. SaverOK(t)'
    BY <1>2, <1>9 DEF SaverOK, EngineOK, UserOK, EngineSteps, UserSteps, Unreported, Recorded, Renamed, Reloading
  <1>13. Fresh'
    <2>1. nextVer' \in 1..(MaxSaves + 1)
      BY <1>1, <1>2, UserFacts, ConstantsAssumption, SMT DEF Fresh
    <2>2. \A h \in Files : acked'[h] < nextVer'
      BY <1>2, UserFacts, SMT DEF Fresh
    <2>3. \A s \in Threads : save'[s].ver < nextVer'
      BY <1>2, UserFacts, SMT DEF Fresh, RInv, TInv, TypeOK, LocalsOK
    <2> QED
      BY <2>1, <2>2, <2>3 DEF Fresh
  <1> QED
    BY <1>2, <1>11, <1>12, <1>13 DEF Own

LEMMA UserAddFailsOwn ==
  ASSUME SInv, Overlap # "any", NEW t \in Threads, NEW f \in Files, NEW len \in Sizes,
         UserAddFails(t, f, len)
  PROVE  Own(t)
  <1> DEFINE z == paz[UserGroup]
  <1> USE DEF SInv
  <1>1. Step(t) /\ nextVer <= MaxSaves
    BY DEF UserAddFails, Lock, Step, UserOp
  <1>2. /\ pc[t] = "idle" /\ pc'[t] = "idle" /\ Home(t) = UserGroup
        /\ nextVer' = nextVer + 1 /\ UNCHANGED <<cur, index, userFiles, mounted, acked, save>>
    BY DEF UserAddFails, Lock, Active, Home, RInv, TInv, TypeOK, LocalsOK, process
  <1>3. PICK n \in Cut(z.size, len) : paz' = [paz EXCEPT ![UserGroup] = WriteAt(@, z.size, n)]
    BY Zenon DEF UserAddFails
  <1>4. paz'[UserGroup] = WriteAt(z, z.size, n) /\ n \in Int
    BY <1>3, UserFacts, CutType, ConstantsAssumption DEF RInv, TInv, TypeOK, DiskOK
  <1>5. paz'[UserGroup].blobs = z.blobs /\ Grows(z, paz'[UserGroup])
    BY <1>4, UserFacts, WriteAtEnd DEF Grows
  <1>6. StoreOK(UserGroup)
    BY UserFacts
  <1>7. Distinct(paz'[UserGroup]) /\ \A b \in z.blobs : b.ver < nextVer'
    <2>1. \A b \in z.blobs : b.ver \in Nat /\ b.ver < nextVer
      BY <1>6, UserFacts DEF StoreOK, Paz, Blob
    <2>2. \A b \in z.blobs : b.ver < nextVer'
      BY <1>2, <2>1, UserFacts, SMT
    <2> QED
      BY <1>5, <1>6, <2>2 DEF StoreOK, Distinct
  <1>8. \A g \in Groups : g = Home(t) => StoreOK(g)'
    BY <1>1, <1>2, <1>5, <1>7, HomeKept DEF Reloading
  <1>9. SaverOK(t)'
    BY <1>2 DEF SaverOK, EngineOK, UserOK, EngineSteps, UserSteps, Unreported, Recorded, Renamed, Reloading
  <1>10. Fresh'
    <2>1. nextVer' \in 1..(MaxSaves + 1)
      BY <1>1, <1>2, UserFacts, ConstantsAssumption, SMT DEF Fresh
    <2>2. \A h \in Files : acked'[h] < nextVer'
      BY <1>2, UserFacts, SMT DEF Fresh
    <2>3. \A s \in Threads : save'[s].ver < nextVer'
      BY <1>2, UserFacts, SMT DEF Fresh
    <2> QED
      BY <2>1, <2>2, <2>3 DEF Fresh
  <1> QED
    BY <1>8, <1>9, <1>10 DEF Own

\* The promise is withdrawn together with the record.
LEMMA UserRemoveOwn ==
  ASSUME SInv, Overlap # "any", NEW t \in Threads, NEW f \in Files, UserRemove(t, f)
  PROVE  Own(t)
  <1> DEFINE z == paz[UserGroup]
  <1> USE DEF SInv
  <1>1. /\ pc'[t] = "u_pamt" /\ file'[t] = f /\ Home(t) = UserGroup /\ mounted
        /\ userFiles' = [userFiles EXCEPT ![f] = NoRec] /\ acked' = [acked EXCEPT ![f] = 0]
        /\ save' = [save EXCEPT ![t] = NoSave] /\ save'[t] = NoSave
        /\ UNCHANGED <<paz, cur, mounted, nextVer>>
    BY DEF UserRemove, Lock, Go, Home, RInv, TInv, TypeOK, LocalsOK, disk
  <1>2. StoreOK(UserGroup)
    BY UserFacts
  <1>3. \A r : Keeps(z, r, UserGroup, acked) => Keeps(z, r, UserGroup, acked')
    <2>1. \A h \in Files : acked'[h] <= acked[h]
      BY <1>1, UserFacts, SMT
    <2>2. Grows(z, z) /\ acked' \in [Files -> Nat]
      BY <1>1, UserFacts, SMT DEF Grows
    <2> HIDE DEF z
    <2> QED
      BY <2>1, <2>2, UserFacts, KeepsGrows DEF z
  <1>4. Shows(z, userFiles', f, 0)
    BY <1>1, UserFacts DEF Shows, Recs
  <1>5. Keeps(z, userFiles', UserGroup, acked')
    <2>1. Keeps(z, userFiles, UserGroup, acked')
      BY <1>1, <1>2, <1>3 DEF StoreOK
    <2>2. 0 \in Nat /\ 0 >= acked'[f]
      BY <1>1, UserFacts, SMT
    <2> HIDE DEF z
    <2> QED
      BY <1>1, <1>4, <2>1, <2>2, UserFacts, KeepsEdit
  <1>6. StoreOK(UserGroup)'
    BY <1>1, <1>2, <1>3, <1>5, UserFacts DEF StoreOK
  <1>7. SaverOK(t)'
    BY <1>1, <1>4 DEF NoSave, SaverOK, EngineOK, UserOK, EngineSteps, UserSteps, Unreported, Recorded, Renamed, Reloading
  <1>8. Fresh'
    <2>1. \A h \in Files : acked'[h] < nextVer'
      BY <1>1, UserFacts, SMT DEF Fresh
    <2>2. \A s \in Threads : save'[s].ver < nextVer'
      BY <1>1, UserFacts, SMT DEF Fresh, NoSave, RInv, TInv, TypeOK, LocalsOK
    <2> QED
      BY <1>1, <2>1, <2>2 DEF Fresh
  <1> QED
    BY <1>1, <1>6, <1>7, <1>8 DEF Own

LEMMA UserFlushOwn ==
  ASSUME SInv, Overlap # "any", NEW t \in Threads, UserFlushPamt(t)
  PROVE  Own(t)
  <1> DEFINE z == paz[UserGroup]
  <1> USE DEF SInv
  <1>1. /\ pc[t] = "u_pamt" /\ pc'[t] = "u_papgt_read" /\ cur'[UserGroup] = UserPamt
        /\ UNCHANGED <<paz, index, userFiles, mounted, acked, nextVer, file, save>>
    BY UserFacts DEF UserFlushPamt, Go, RInv, TInv, TypeOK, DiskOK, LocalsOK, process
  <1>2. mounted /\ Home(t) = UserGroup /\ Group(t)' = UserGroup
    BY <1>1, UserFacts DEF Home, Group, UserSteps
  <1>3. StoreOK(UserGroup) /\ SaverOK(t)
    BY UserFacts
  <1>4. UserPamt.recs = Serialized(userFiles) /\ UserPamt \notin {Torn, Absent}
    <2>1. UserPamt \in Pamt
      BY UserFacts, SerializedType, PamtTypes DEF UserPamt
    <2> QED
      BY <2>1, ConstantsAssumption DEF UserPamt
  <1>5. Keeps(z, Serialized(userFiles), UserGroup, acked)
    <2>1. Keeps(z, userFiles, UserGroup, acked)
      BY <1>2, <1>3 DEF StoreOK
    <2> QED
      BY <2>1, UserFacts, KeepsSerialized
  <1>6. StoreOK(UserGroup)'
    BY <1>1, <1>2, <1>3, <1>4, <1>5, UserFacts DEF StoreOK
  <1>7. SaverOK(t)'
    BY <1>1, <1>3, <1>4 DEF SaverOK, EngineOK, UserOK, EngineSteps, UserSteps, Unreported, Recorded, Renamed, Reloading
  <1>8. Fresh'
    BY <1>1, FreshSame
  <1> QED
    BY <1>2, <1>6, <1>7, <1>8 DEF Own

\* The PAMT on disk shows what is about to be reported.
LEMMA UserShown ==
  ASSUME SInv, NEW t \in Threads, pc[t] \in {"u_papgt_read", "u_papgt_write"}
  PROVE  paz[UserGroup].size < PazLimit => Shows(paz[UserGroup], cur[UserGroup].recs, file[t], save[t].ver)
  <1>1. SaverOK(t)
    BY DEF SInv
  <1>2. /\ paz[UserGroup].size < PazLimit => Shows(paz[UserGroup], userFiles, file[t], save[t].ver)
        /\ cur[UserGroup].recs = Serialized(userFiles)
    BY <1>1 DEF SaverOK, UserOK, UserSteps
  <1> QED
    BY <1>2, UserFacts, ShowsSerialized

LEMMA UserReportOwn ==
  ASSUME SInv, Overlap # "any", NEW t \in Threads, UserReadPapgt(t) \/ UserWritePapgt(t)
  PROVE  Own(t)
  <1> DEFINE z == paz[UserGroup]
  <1> USE DEF SInv
  <1>1. /\ pc[t] \in {"u_papgt_read", "u_papgt_write"} /\ pc'[t] \in {"u_papgt_write", "idle"}
        /\ acked' = [acked EXCEPT ![file[t]] = save[t].ver] \/ UNCHANGED acked
        /\ UNCHANGED <<paz, index, userFiles, mounted, nextVer, file, save>>
    BY DEF UserReadPapgt, UserWritePapgt, Go, Return, RInv, TInv, TypeOK, LocalsOK, disk
  <1>2. mounted /\ Home(t) = UserGroup
    BY <1>1, UserFacts DEF Home, Group, UserSteps
  <1>3. cur'[UserGroup] = cur[UserGroup]
    BY UserFacts, ConstantsAssumption DEF UserReadPapgt, UserWritePapgt, disk, RInv, TInv, TypeOK, DiskOK
  <1>4. StoreOK(UserGroup) /\ SaverOK(t)
    BY UserFacts
  <1>5. z.size < PazLimit => Shows(z, cur[UserGroup].recs, file[t], save[t].ver)
    BY <1>1, UserShown
  <1>6. z.size < PazLimit => Shows(z, userFiles, file[t], save[t].ver)
    BY <1>1, <1>4 DEF SaverOK, UserOK, UserSteps
  <1>7. Keeps(z, cur[UserGroup].recs, UserGroup, acked) /\ Keeps(z, userFiles, UserGroup, acked)
    BY <1>2, <1>4, UserFacts DEF StoreOK
  <1>8. Keeps(z, cur[UserGroup].recs, UserGroup, acked') /\ Keeps(z, userFiles, UserGroup, acked')
    BY <1>1, <1>5, <1>6, <1>7, UserFacts, KeepsReported
  <1>9. StoreOK(UserGroup)'
    BY <1>1, <1>2, <1>3, <1>4, <1>8, UserFacts DEF StoreOK
  <1>10. SaverOK(t)'
    BY <1>1, <1>3, <1>4 DEF SaverOK, EngineOK, UserOK, EngineSteps, UserSteps, Unreported, Recorded, Renamed, Reloading
  <1>11. Fresh'
    BY <1>1, FreshReport DEF RInv, TInv, TypeOK
  <1> QED
    BY <1>2, <1>9, <1>10, <1>11 DEF Own

----------------------------------------------------------------------------
(* The inductive invariant *)

LEMMA OwnStep == ASSUME SInv, Overlap # "any", NEW t \in Threads, Step(t) PROVE Own(t)
  BY QuietOwn, StartOwn, WriteOwn, WriteTmpOwn, RenamePamtOwn, RenamePapgtOwn, ReloadOwn, UserAddOwn,
     UserAddFailsOwn, UserRemoveOwn, UserFlushOwn, UserReportOwn
  DEF Step, Repack, UserOp

LEMMA SaveInit == ASSUME Init PROVE SInv
  <1>1. RInv
    BY ReadInit
  <1>2. /\ nextVer = 1 /\ acked = [f \in Files |-> 0] /\ \A t \in Threads : pc[t] = "idle" /\ save[t].ver = 0
        /\ ~mounted
    BY DEF Init, NoSave
  <1>3. Fresh
    BY <1>2, ConstantsAssumption, SMT DEF Fresh
  <1>4. \A t \in Threads : SaverOK(t)
    BY <1>2, IdleOwn
  <1>5. ASSUME NEW g \in Groups PROVE StoreOK(g)
    <2>1. /\ g \in Shipped => cur[g] = ShippedPamt(g) /\ paz[g] = ShippedPaz[g] /\ index[g] = Absent
          /\ g \notin Shipped => cur[g] = Absent /\ paz[g] = EmptyPaz
      BY <1>5, ConstantsAssumption DEF Init, Groups
    <2>2. CASE g \in Shipped
      <3>1. /\ \A b \in paz[g].blobs : b \in Blob /\ b.ver = 0
            /\ OwnData(paz[g], cur[g].recs, g) /\ cur[g] \in Pamt
        BY <2>1, <2>2, ShippedAssumption, PamtTypes DEF ShippedPamt, Paz
      <3>2. Distinct(paz[g])
        BY <3>1 DEF Distinct, Blob
      <3>3. \A f \in Files : GroupOf[f] = g => Shows(paz[g], cur[g].recs, f, 0)
        BY <3>1 DEF OwnData, Names, Shows
      <3>4. Keeps(paz[g], cur[g].recs, g, acked)
        BY <1>2, <3>3 DEF Keeps
      <3> QED
        BY <1>2, <2>1, <2>2, <3>1, <3>2, <3>4, ConstantsAssumption DEF StoreOK
    <2>3. CASE g \notin Shipped
      BY <1>2, <2>1, <2>3, ConstantsAssumption DEF StoreOK, EmptyPaz, Distinct
    <2> QED
      BY <2>2, <2>3
  <1> QED
    BY <1>1, <1>3, <1>4, <1>5 DEF SInv

\* A crash forgets the process only, a mount reads what is on disk.
LEMMA RestartSaved ==
  ASSUME SInv, Overlap # "any", Crash \/ Mount
  PROVE  SInv'
  <1> USE DEF SInv
  <1>1. RInv'
    BY ReadNext DEF Next
  <1>2. UNCHANGED <<paz, nextVer, acked, save>>
    BY DEF Crash, Mount, disk, ghosts
  <1>3. Fresh'
    BY <1>2, FreshSame
  <1>4. CASE Crash
    <2>1. /\ UNCHANGED cur /\ ~mounted' /\ index' = [g \in Shipped |-> Absent]
          /\ \A t \in Threads : pc'[t] = "idle"
      BY <1>4 DEF Crash, disk
    <2>2. \A g \in Groups : StoreOK(g)'
      BY <1>2, <2>1 DEF StoreOK
    <2>3. \A t \in Threads : SaverOK(t)'
      BY <2>1 DEF SaverOK, EngineOK, UserOK, EngineSteps, UserSteps, Unreported, Recorded, Renamed, Reloading
    <2> QED
      BY <1>1, <1>3, <2>2, <2>3
  <1>5. CASE Mount
    <2> DEFINE m == IF cur[UserGroup] = Absent
                    THEN [recs |-> NoFiles, pazCrc |-> paz[UserGroup]] ELSE cur[UserGroup]
    <2>1. /\ UNCHANGED pc /\ userFiles' = m.recs /\ mounted'
          /\ index' = [g \in Shipped |-> IF cur[g] = Torn THEN Absent ELSE cur[g]]
      BY <1>5 DEF Mount
    <2>2. \A g \in Groups : cur'[g] = IF g = UserGroup THEN m ELSE cur[g]
      BY <1>5, ConstantsAssumption DEF Mount, RInv, TInv, TypeOK, DiskOK
    <2>3. \A t \in Threads : pc[t] = "idle"
      BY <1>5 DEF Mount, RInv, TInv, TypeOK, Kinds, LocalsOK, Steps
    <2>4. \A t \in Threads : SaverOK(t)'
      BY <2>1, <2>3 DEF SaverOK, EngineOK, UserOK, EngineSteps, UserSteps, Unreported, Recorded, Renamed, Reloading
    <2>5. ASSUME NEW g \in Shipped PROVE StoreOK(g)'
      <3>1. g \in Groups /\ g # UserGroup /\ cur'[g] = cur[g] /\ index'[g] = cur[g]
        BY <2>1, <2>2, ConstantsAssumption DEF Groups, StoreOK
      <3>2. StoreOK(g) /\ cur[g] # Absent
        BY <3>1, ConstantsAssumption DEF StoreOK, RInv, TInv, TypeOK, DiskOK
      <3> QED
        BY <1>2, <3>1, <3>2 DEF StoreOK
    <2>6. StoreOK(UserGroup)'
      <3>1. StoreOK(UserGroup) /\ cur'[UserGroup] = m
        BY <2>2, UserFacts
      <3>2. Keeps(paz[UserGroup], m.recs, UserGroup, acked)
        <4>1. CASE cur[UserGroup] = Absent
          <5>1. \A f \in Files : GroupOf[f] = UserGroup => acked[f] = 0 /\ m.recs[f] = NoRec
            BY <3>1, <4>1 DEF StoreOK, NoFiles
          <5>2. \A f \in Files : GroupOf[f] = UserGroup => Shows(paz[UserGroup], m.recs, f, 0) /\ 0 >= acked[f]
            BY <5>1, SMT DEF Shows
          <5> HIDE DEF m
          <5> QED
            BY <5>2 DEF Keeps
        <4>2. CASE cur[UserGroup] # Absent
          BY <3>1, <4>2 DEF StoreOK
        <4> QED
          BY <4>1, <4>2
      <3>3. m \notin {Torn, Absent}
        <4>1. m \in Pamt
          BY UserFacts, PamtTypes DEF RInv, TInv, TypeOK, DiskOK
        <4> QED
          BY <4>1, ConstantsAssumption
      <3> QED
        BY <1>2, <2>1, <3>1, <3>2, <3>3, UserFacts DEF StoreOK
    <2> QED
      BY <1>1, <1>3, <2>4, <2>5, <2>6 DEF Groups
  <1> QED
    BY <1>4, <1>5

LEMMA SaveNext == ASSUME SInv, Overlap # "any", [Next]_vars PROVE SInv'
  <1>1. RInv'
    BY ReadNext DEF SInv
  <1>2. ASSUME NEW t \in Threads, Step(t) PROVE SInv'
    BY <1>1, <1>2, OthersKept, OwnStep DEF SInv, Own
  <1>3. CASE Crash \/ Mount
    BY <1>3, RestartSaved
  <1>4. CASE UNCHANGED vars
    <2>1. Fresh'
      BY <1>4, FreshSame DEF vars, SInv
    <2>2. \A g \in Groups : StoreOK(g)'
      BY <1>4 DEF vars, SInv, StoreOK, Group
    <2>3. \A t \in Threads : SaverOK(t)'
      BY <1>4 DEF vars, SInv, SaverOK, EngineOK, UserOK, Group
    <2> QED
      BY <1>1, <2>1, <2>2, <2>3 DEF SInv
  <1> QED
    BY <1>2, <1>3, <1>4 DEF Next, Step

\* What a fresh mount reads for a path: the version the PAMT on disk shows.
LEMMA DiskShows ==
  ASSUME SInv, NEW f \in Files, paz[GroupOf[f]].size < PazLimit
  PROVE  /\ DiskVersion(f) \in Nat /\ DiskVersion(f) >= acked[f] /\ DiskVersion(f) < nextVer
         /\ cur[GroupOf[f]] # Absent => Shows(paz[GroupOf[f]], cur[GroupOf[f]].recs, f, DiskVersion(f))
         /\ cur[GroupOf[f]] = Absent => DiskVersion(f) = 0
  <1> DEFINE g == GroupOf[f]
  <1>1. g \in Groups /\ StoreOK(g) /\ nextVer \in Nat /\ acked[f] \in Nat /\ 0 < nextVer /\ 0 >= 0
    BY ConstantsAssumption, SMT DEF SInv, Fresh, RInv, TInv, TypeOK, GhostsOK
  <1>2. CASE cur[g] = Absent
    <2>1. g = UserGroup /\ acked[f] = 0
      BY <1>1, <1>2, ConstantsAssumption DEF StoreOK, SInv, RInv, TInv, TypeOK, DiskOK, Groups
    <2> QED
      BY <1>1, <1>2, <2>1 DEF DiskVersion
  <1>3. CASE cur[g] # Absent
    <2>1. PICK v \in Nat : v >= acked[f] /\ Shows(paz[g], cur[g].recs, f, v)
      BY <1>1, <1>3 DEF StoreOK, Keeps
    <2>2. DiskVersion(f) = v
      <3>1. CASE cur[g].recs[f] = NoRec
        BY <1>1, <1>3, <2>1, <3>1 DEF DiskVersion, Shows, StoreOK
      <3>2. CASE cur[g].recs[f] # NoRec
        BY <1>1, <1>3, <2>1, <3>2, VersionShown DEF DiskVersion, StoreOK
      <3> QED
        BY <3>1, <3>2
    <2>3. v < nextVer
      BY <1>1, <2>1 DEF Shows, StoreOK
    <2> QED
      BY <1>3, <2>1, <2>2, <2>3
  <1> QED
    BY <1>2, <1>3

\* As long as no two saves of one group overlap and its PAZ is below 4 GiB, a
\* save that was reported is what a fresh mount reads, or a later one is:
\* through failures, process deaths and remounts, and whatever other files of
\* the group are saved from an index read before (engine.rs:104-181,
\* manager.rs:493-511, user_group.rs:120-191).
THEOREM AckedAlwaysSurvives ==
  ASSUME Overlap # "any"
  PROVE  Spec => []AckedSurvives
  <1>1. Init => SInv
    BY SaveInit
  <1>2. SInv /\ [Next]_vars => SInv'
    BY SaveNext
  <1>3. SInv => AckedSurvives
    BY DiskShows DEF AckedSurvives
  <1> QED
    BY <1>1, <1>2, <1>3, PTL DEF Spec

----------------------------------------------------------------------------
(* The refinement of SaveStore                                              *)

\* No PAZ has reached 4 GiB, beyond which a record cannot say where a blob is.
WithinLimit == \A g \in Groups : paz[g].size < PazLimit

Durable == [f \in Files |-> DiskVersion(f)]

\* What DiskShows says of every path.
DiskSaved ==
  \A f \in Files :
    /\ DiskVersion(f) \in 0..MaxSaves /\ DiskVersion(f) >= acked[f]
    /\ cur[GroupOf[f]] # Absent => Shows(paz[GroupOf[f]], cur[GroupOf[f]].recs, f, DiskVersion(f))
    /\ cur[GroupOf[f]] = Absent => DiskVersion(f) = 0

LEMMA DiskSavedNow == SInv /\ WithinLimit => DiskSaved
  <1>1. SUFFICES ASSUME SInv, WithinLimit, NEW f \in Files
                 PROVE  /\ DiskVersion(f) \in 0..MaxSaves /\ DiskVersion(f) >= acked[f]
                        /\ cur[GroupOf[f]] # Absent =>
                             Shows(paz[GroupOf[f]], cur[GroupOf[f]].recs, f, DiskVersion(f))
                        /\ cur[GroupOf[f]] = Absent => DiskVersion(f) = 0
    BY DEF DiskSaved
  <1>2. paz[GroupOf[f]].size < PazLimit
    BY <1>1, ConstantsAssumption DEF WithinLimit
  <1>3. DiskVersion(f) \in Nat /\ DiskVersion(f) < nextVer
    BY <1>1, <1>2, DiskShows
  <1>4. nextVer \in 1..(MaxSaves + 1) /\ MaxSaves \in Nat
    BY <1>1, ConstantsAssumption DEF SInv, Fresh
  <1>5. DiskVersion(f) \in 0..MaxSaves
    BY <1>3, <1>4, SMT
  <1> QED
    BY <1>1, <1>2, <1>5, DiskShows

LEMMA DiskSavedNext == SInv' /\ WithinLimit' => DiskSaved'
  BY DiskSavedNow, PTL

\* The same PAMT shows the same versions.
LEMMA VersionKept ==
  ASSUME DiskSaved, DiskSaved', NEW f \in Files, Distinct(paz'[GroupOf[f]]),
         paz[GroupOf[f]].blobs \subseteq paz'[GroupOf[f]].blobs, cur'[GroupOf[f]] = cur[GroupOf[f]]
  PROVE  Durable'[f] = Durable[f]
  <1> DEFINE g == GroupOf[f]
  <1>1. Durable[f] = DiskVersion(f) /\ Durable'[f] = DiskVersion(f)'
    BY DEF Durable
  <1>2. CASE cur[g] = Absent
    BY <1>1, <1>2 DEF DiskSaved
  <1>3. CASE cur[g] # Absent
    <2>1. Shows(paz[g], cur[g].recs, f, Durable[f]) /\ Shows(paz'[g], cur[g].recs, f, Durable'[f])
      BY <1>1, <1>3 DEF DiskSaved
    <2>2. Shows(paz'[g], cur[g].recs, f, Durable[f])
      BY <2>1, ShowsGrows
    <2> QED
      BY <2>1, <2>2, ShowsOnce
  <1> QED
    BY <1>2, <1>3

\* Only the group the thread is in changes.
LEMMA StepDurable ==
  ASSUME SInv, WithinLimit, WithinLimit', Overlap # "any", NEW t \in Threads, Step(t)
  PROVE  /\ DiskSaved /\ DiskSaved'
         /\ Durable' \in [Files -> 0..MaxSaves]
         /\ \A f \in Files : Durable'[f] # Durable[f] => GroupOf[f] = Home(t)
         /\ \A f \in Files : cur'[GroupOf[f]] = cur[GroupOf[f]] => Durable'[f] = Durable[f]
  <1>1. SInv'
    BY SaveNext DEF Next, Step
  <1>2. DiskSaved /\ DiskSaved'
    BY <1>1, DiskSavedNow, DiskSavedNext
  <1>3. \A f \in Files : GroupOf[f] \in Groups
    BY ConstantsAssumption
  <1>4. \A g \in Groups : Distinct(paz'[g])
    BY <1>1 DEF SInv, StoreOK
  <1>5. \A g \in Groups : paz[g].blobs \subseteq paz'[g].blobs
    BY PazStep DEF SInv, RInv, Grows
  <1>6. \A f \in Files : cur'[GroupOf[f]] = cur[GroupOf[f]] => Durable'[f] = Durable[f]
    BY <1>2, <1>3, <1>4, <1>5, VersionKept
  <1>7. \A f \in Files : GroupOf[f] # Home(t) => cur'[GroupOf[f]] = cur[GroupOf[f]]
    BY <1>3, StepAway DEF Away, SInv, RInv
  <1>8. Durable' \in [Files -> 0..MaxSaves]
    BY <1>2 DEF Durable, DiskSaved
  <1> QED
    BY <1>2, <1>6, <1>7, <1>8

\* A step that reports nothing publishes one group, or shows nothing new.
LEMMA PublishStep ==
  ASSUME SInv, WithinLimit, WithinLimit', Overlap # "any", NEW t \in Threads, Step(t),
         UNCHANGED acked
  PROVE  Store!Publish
  <1>1. /\ Durable' \in [Files -> 0..MaxSaves]
        /\ \A f \in Files : Durable'[f] # Durable[f] => GroupOf[f] = Home(t)
        /\ DiskSaved'
    BY StepDurable
  <1>2. \A f \in Files : Durable'[f] >= acked[f]
    BY <1>1 DEF DiskSaved, Durable
  <1> QED
    BY <1>1, <1>2 DEF Store!Publish, Durable

\* A report is made of what the PAMT on disk shows.
LEMMA ConfirmStep ==
  ASSUME SInv, WithinLimit, WithinLimit', Overlap # "any", NEW t \in Threads,
         RenamePapgt(t) \/ UserReadPapgt(t) \/ UserWritePapgt(t),
         acked' # acked
  PROVE  \E f \in Files : Store!Confirm(f)
  <1> DEFINE g == Group(t)
  <1> USE DEF SInv, RInv, TInv, TypeOK
  <1>1. Step(t)
    BY DEF Step, Repack, UserOp
  <1>2. \A f \in Files : cur'[GroupOf[f]] = cur[GroupOf[f]]
    BY ConstantsAssumption DEF RenamePapgt, UserReadPapgt, UserWritePapgt, disk, DiskOK
  <1>3. Durable' = Durable
    BY <1>1, <1>2, StepDurable DEF Durable
  <1>4. file[t] \in Files /\ g \in Groups /\ paz[g].size < PazLimit
    BY GroupFacts DEF LocalsOK, WithinLimit
  <1>5. cur[g] # Absent /\ Shows(paz[g], cur[g].recs, file[t], save[t].ver)
    <2>1. CASE RenamePapgt(t) /\ errors[t] = 0
      <3>1. SaverOK(t) /\ pc[t] = "papgt_rename" /\ g \in Shipped
        BY <2>1 DEF RenamePapgt, Kinds, EngineSteps
      <3>2. cur[g] = raw[t] /\ Shows(paz[g], raw[t].recs, file[t], save[t].ver)
        BY <1>4, <2>1, <3>1 DEF SaverOK, EngineOK, Renamed, Recorded
      <3>3. cur[g] # Absent
        BY <3>1, ConstantsAssumption DEF DiskOK
      <3> QED
        BY <3>2, <3>3
    <2>2. CASE UserReadPapgt(t) \/ UserWritePapgt(t)
      <3>1. pc[t] \in {"u_papgt_read", "u_papgt_write"}
        BY <2>2 DEF UserReadPapgt, UserWritePapgt
      <3>2. g = UserGroup /\ cur[g] # Absent
        BY <3>1, UserFacts DEF UserSteps
      <3> QED
        BY <1>4, <3>1, <3>2, UserShown
    <2> QED
      BY <2>1, <2>2 DEF RenamePapgt
  <1>6. Durable[file[t]] = save[t].ver
    <2>1. Shows(paz[g], cur[g].recs, file[t], Durable[file[t]])
      BY <1>1, <1>4, <1>5, StepDurable DEF DiskSaved, Durable, Group
    <2> QED
      BY <1>4, <1>5, <2>1, ShowsOnce DEF StoreOK
  <1>7. acked' = [acked EXCEPT ![file[t]] = Durable[file[t]]]
    BY <1>6 DEF RenamePapgt, UserReadPapgt, UserWritePapgt
  <1> QED
    BY <1>3, <1>4, <1>7 DEF Store!Confirm, Durable

LEMMA StoreStep ==
  ASSUME SInv, WithinLimit, WithinLimit', Overlap # "any", [Next]_vars
  PROVE  Store!Next \/ UNCHANGED <<Durable, acked>>
  <1>1. ASSUME NEW t \in Threads, Step(t) PROVE Store!Next
    <2>1. CASE UNCHANGED acked
      BY <1>1, <2>1, PublishStep DEF Store!Next
    <2>2. CASE acked' # acked /\ (RenamePapgt(t) \/ UserReadPapgt(t) \/ UserWritePapgt(t))
      BY <1>1, <2>2, ConfirmStep DEF Store!Next
    <2>3. ASSUME NEW f \in Files, UserRemove(t, f) PROVE Store!Next
      <3>1. UNCHANGED cur /\ acked' = [acked EXCEPT ![f] = 0]
        BY <2>3 DEF UserRemove, disk
      <3>2. Durable' = Durable
        BY <1>1, <3>1, StepDurable DEF Durable
      <3> QED
        BY <3>1, <3>2 DEF Store!Next, Store!Withdraw, Durable
    <2>4. UNCHANGED acked \/ RenamePapgt(t) \/ UserReadPapgt(t) \/ UserWritePapgt(t) \/ \E f \in Files : UserRemove(t, f)
      BY <1>1 DEF Step, Repack, UserOp, StartRepack, ReadPapgt, StatPaz, SeekPaz, WritePaz, WritePazFails,
         UpdateRecord, CreateTmp, WriteTmp, RenamePamt, AtomicWriteFails, ReloadParse, ReloadInstall,
         UserAdd, UserAddFails, UserFlushPamt, UserWriteFails, ghosts
    <2> QED
      BY <2>1, <2>2, <2>3, <2>4
  <1>2. CASE Crash \/ Mount
    <2>1. SInv'
      BY <1>2, SaveNext
    <2>2. DiskSaved /\ DiskSaved'
      BY <2>1, DiskSavedNow, DiskSavedNext
    <2>3. UNCHANGED <<paz, acked>>
      BY <1>2 DEF Crash, Mount, disk, ghosts
    <2>4. ASSUME NEW f \in Files PROVE Durable'[f] = Durable[f]
      <3>1. GroupOf[f] \in Groups /\ Distinct(paz[GroupOf[f]])
        BY ConstantsAssumption DEF SInv, StoreOK
      <3>2. CASE cur'[GroupOf[f]] = cur[GroupOf[f]]
        BY <2>2, <2>3, <3>1, <3>2, VersionKept
      <3>3. CASE cur'[GroupOf[f]] # cur[GroupOf[f]]
        <4>1. cur[GroupOf[f]] = Absent /\ cur'[GroupOf[f]].recs = NoFiles /\ cur'[GroupOf[f]] # Absent
          <5> DEFINE m == IF cur[UserGroup] = Absent
                          THEN [recs |-> NoFiles, pazCrc |-> paz[UserGroup]] ELSE cur[UserGroup]
          <5>1. Mount
            BY <1>2, <3>3 DEF Crash, disk
          <5>2. \A g \in Groups : cur'[g] = IF g = UserGroup THEN m ELSE cur[g]
            BY <5>1, ConstantsAssumption DEF Mount, SInv, RInv, TInv, TypeOK, DiskOK
          <5>3. paz[UserGroup] \in Paz
            BY UserFacts
          <5>4. [recs |-> NoFiles, pazCrc |-> paz[UserGroup]] \in Pamt
            BY <5>3, PamtTypes
          <5> QED
            BY <3>1, <3>3, <5>2, <5>4, ConstantsAssumption
        <4>2. Durable[f] = 0
          BY <2>2, <4>1 DEF DiskSaved, Durable
        <4>3. Shows(paz'[GroupOf[f]], cur'[GroupOf[f]].recs, f, Durable'[f])
          BY <2>2, <4>1 DEF DiskSaved, Durable
        <4> QED
          BY <4>1, <4>2, <4>3 DEF Shows, NoFiles
      <3> QED
        BY <3>2, <3>3
    <2>5. Durable' = Durable
      BY <2>4 DEF Durable
    <2> QED
      BY <2>3, <2>5
  <1>3. CASE UNCHANGED vars
    BY <1>3 DEF vars, Durable, DiskVersion
  <1> QED
    BY <1>1, <1>2, <1>3 DEF Next, Step

\* As long as no PAZ reaches 4 GiB and no two saves of one group overlap, what
\* is on disk behaves as SaveStore does: every step of a save, of a failure,
\* of a process death or of a remount publishes one group as a whole, reports
\* what a fresh mount already reads, withdraws a promise, or is invisible.
THEOREM SaveStoreImplemented ==
  ASSUME Overlap # "any"
  PROVE  Spec /\ []WithinLimit => ImplementsSaveStore
  <1>1. Init => SInv
    BY SaveInit
  <1>2. SInv /\ [Next]_vars => SInv'
    BY SaveNext
  <1>3. Init /\ WithinLimit => Store!Init
    <2>1. SUFFICES ASSUME Init, WithinLimit PROVE Store!Init
      OBVIOUS
    <2>2. DiskSaved
      BY <1>1, <2>1, DiskSavedNow
    <2> QED
      BY <2>1, <2>2 DEF Init, Store!Init, DiskSaved
  <1>4. SInv /\ WithinLimit /\ WithinLimit' /\ [Next]_vars
          => [Store!Next]_<<[f \in Files |-> DiskVersion(f)], acked>>
    BY StoreStep DEF Durable
  <1> QED
    BY <1>1, <1>2, <1>3, <1>4, PTL DEF Spec, ImplementsSaveStore, Store!Spec

=============================================================================
