---------------------------- MODULE RepackChain ----------------------------
(***************************************************************************)
(* The on-disk side of a save.  A package group is a pair of files: a PAZ  *)
(* of blobs and a PAMT whose records say where each file's blob lies, with *)
(* a CRC of the PAZ.  The root index PAPGT holds one CRC per PAMT.  This   *)
(* module models                                                           *)
(*   - RepackEngine::repack (repack/engine.rs): the pipeline a flush of a  *)
(*     shipped file runs, from the caller's cached PAMT to the reload;     *)
(*   - UserGroup (archive/user_group.rs): add, remove, bootstrap and the   *)
(*     healing of the group's PAPGT slot at mount;                         *)
(*   - paz::append_entry, the append both of them use;                     *)
(*   - a process that dies between any two of these steps, and a remount.  *)
(* Threads share nothing but the files, the index of VfsManager and the    *)
(* user-group mutex: the engine takes no lock.                             *)
(*                                                                         *)
(* A CRC is modelled by the value it is computed from (no collisions).     *)
(* Offsets are bytes; a blob is [at, len, file, ver], where ver names the  *)
(* save that produced it (0: shipped with the game).                       *)
(***************************************************************************)
EXTENDS Integers, FiniteSets

CONSTANTS
  Threads,      \* flush workers, the session thread, the TUI's save thread
  Shipped,      \* shipped package groups
  UserGroup,    \* the package group of user-created files
  Files,        \* paths of all the groups
  GroupOf,      \* the group a path belongs to
  ShippedPaz,   \* the PAZ of each group as shipped
  ShippedRecs,  \* the PAMT records as shipped
  UserSlot,     \* whether PAPGT has an entry for the user group
  Sizes,        \* stored sizes a save may produce
  PazLimit,     \* offsets are stored as u32: 2^32 in the code
  MaxSaves,     \* bound: saves started in a behaviour
  Overlap,      \* which saves the clients let overlap
  Root,         \* the PAPGT file
  Torn,         \* content of a file created and not written yet
  Absent,       \* no such file
  NoRec,        \* the PAMT has no record for the path
  NoThread

Groups  == Shipped \cup {UserGroup}
Slotted == IF UserSlot THEN Groups ELSE Shipped

Blob   == [at : Nat, len : Nat, file : Files, ver : Nat]
Paz    == [size : Nat, blobs : SUBSET Blob]
Record == [at : Nat, len : Nat]
Recs   == [Files -> Record \cup {NoRec}]
Pamt   == [recs : Recs, pazCrc : Paz]
Papgt  == [Slotted -> Pamt]

\* What a record r of file f in the PAZ z must name for f to be readable.
Names(z, r, f) == \E b \in z.blobs : b.at = r.at /\ b.len = r.len /\ b.file = f

OwnData(z, recs, g) ==
  \A f \in Files : GroupOf[f] = g /\ recs[f] # NoRec => Names(z, recs[f], f)

ASSUME ConstantsAssumption ==
  /\ UserGroup \notin Shipped
  /\ Root \notin Groups
  /\ NoThread \notin Threads
  /\ Files # {} /\ GroupOf \in [Files -> Groups]
  /\ UserSlot \in BOOLEAN
  /\ Sizes \subseteq Nat \ {0}
  /\ PazLimit \in Nat \ {0}
  /\ MaxSaves \in Nat
  /\ Overlap \in {"serial", "groups", "any"}
  /\ NoRec \notin Record /\ Absent \notin Pamt /\ Torn \notin Pamt \cup Papgt \cup {Absent}

ASSUME ShippedAssumption ==
  /\ ShippedPaz \in [Shipped -> Paz]
  /\ ShippedRecs \in [Shipped -> Recs]
  /\ \A g \in Shipped :
       /\ \A b \in ShippedPaz[g].blobs : b.at + b.len <= ShippedPaz[g].size /\ b.ver = 0
       /\ OwnData(ShippedPaz[g], ShippedRecs[g], g)

VARIABLES
  \* the disk
  paz,        \* group -> its PAZ
  cur,        \* group or Root -> the PAMT / PAPGT in place
  tmp,        \* shipped group or Root -> the engine's `<path>.tmp`
  \* the process
  mounted,
  index,      \* VfsManager: group -> parsed PAMT (tree entries and pamt_cache)
  userFiles,  \* UserGroup.files: path -> record
  ugReady,    \* init_user_group succeeded
  ugLock,     \* holder of the user-group mutex
  pc,         \* thread -> next step
  file,       \* thread -> the path it saves
  save,       \* thread -> [len, ver] of the blob it saves
  stat,       \* thread -> PAZ size append_entry computed the offset from
  pos,        \* thread -> where its file cursor stands after seek(End)
  raw,        \* thread -> PAMT bytes being edited (pamt_raw)
  root,       \* thread -> PAPGT bytes being edited (papgt_raw)
  fd,         \* thread -> what its open temp file is linked as now
  errors,     \* thread -> append errors collected by its repack
  \* observation
  nextVer,
  acked,      \* path -> version of the last save reported as successful
  unrooted,   \* groups whose PAMT was replaced and not yet entered in PAPGT
  unsealed    \* groups whose PAZ was written to and whose PAMT does not say so yet

disk    == <<paz, cur, tmp>>
process == <<mounted, index, userFiles, ugReady, ugLock>>
ghosts  == <<nextVer, acked, unrooted, unsealed>>
vars    == <<paz, cur, tmp, mounted, index, userFiles, ugReady, ugLock, pc,
             file, save, stat, pos, raw, root, fd, errors, nextVer, acked, unrooted,
             unsealed>>

Group(t)  == GroupOf[file[t]]
Active(t) == pc[t] # "idle"

----------------------------------------------------------------------------
(* paz.rs *)

Align16(n) == ((n + 15) \div 16) * 16
Padding(n) == Align16(n) - n

\* n bytes written at p: blobs they overlap are lost, the file may grow.
WriteAt(z, p, n) ==
  [size  |-> IF p + n > z.size THEN p + n ELSE z.size,
   blobs |-> {b \in z.blobs : b.at + b.len <= p \/ p + n <= b.at}]

\* Padding and then the blob, at the cursor.  The padding was computed from
\* the size stat saw, the cursor is wherever seek(End) put it.
Append16(z, p, s, f, len, ver) ==
  LET w == WriteAt(z, p, Padding(s) + len)
  IN  [size  |-> w.size,
       blobs |-> w.blobs \cup
         {[at |-> p + Padding(s), len |-> len, file |-> f, ver |-> ver]}]

\* (Slip: the offset goes through i32.)
AsI32(n) == IF n < PazLimit \div 2 THEN n ELSE n - PazLimit

\* `off as u32`
AsU32(n) == IF n < PazLimit THEN n ELSE n % PazLimit

\* (Slip: the offset of the padding is returned, not that of the data.)
UnpaddedRecord(s, len) == [at |-> AsU32(s), len |-> len]

\* The record written for a blob whose offset was computed from size s.
NewRecord(s, len) == [at |-> AsU32(Align16(s)), len |-> len]

----------------------------------------------------------------------------
(* What is on disk *)

Garbled == -1

VersionAt(z, r, f) ==
  IF Names(z, r, f)
  THEN (CHOOSE b \in z.blobs : b.at = r.at /\ b.len = r.len /\ b.file = f).ver
  ELSE Garbled

\* The save a fresh mount would read for f; 0 if f is not there.
DiskVersion(f) ==
  LET m == cur[GroupOf[f]] IN
  IF m \in {Torn, Absent} THEN IF GroupOf[f] = UserGroup THEN 0 ELSE Garbled
  ELSE IF m.recs[f] = NoRec THEN 0
  ELSE VersionAt(paz[GroupOf[f]], m.recs[f], f)

\* The two links of the chain: PAPGT has the CRC of the PAMT, and the PAMT
\* has the CRC and the size of the PAZ.
Rooted(g) ==
  /\ cur[Root] # Torn
  /\ cur[g] \notin {Torn, Absent}
  /\ cur[Root][g] = cur[g]

Sealed(g) == cur[g] \notin {Torn, Absent} /\ cur[g].pazCrc = paz[g]

----------------------------------------------------------------------------
NoSave     == [len |-> 0, ver |-> 0]
NoFiles    == [f \in Files |-> NoRec]
EmptyPaz   == [size |-> 0, blobs |-> {}]
NoPamt     == [recs |-> NoFiles, pazCrc |-> EmptyPaz]
ShippedPamt(g) == [recs |-> ShippedRecs[g], pazCrc |-> ShippedPaz[g]]

\* The game as installed; no cdfuse has run yet.
Init ==
  /\ paz = [g \in Groups |-> IF g \in Shipped THEN ShippedPaz[g] ELSE EmptyPaz]
  /\ cur = [x \in Groups \cup {Root} |->
              IF x = Root
              THEN [g \in Slotted |-> IF g \in Shipped THEN ShippedPamt(g) ELSE NoPamt]
              ELSE IF x \in Shipped THEN ShippedPamt(x) ELSE Absent]
  /\ tmp = [x \in Shipped \cup {Root} |-> Absent]
  /\ mounted = FALSE
  /\ index = [g \in Shipped |-> Absent]
  /\ userFiles = NoFiles
  /\ ugReady = FALSE
  /\ ugLock = NoThread
  /\ pc = [t \in Threads |-> "idle"]
  /\ file = [t \in Threads |-> CHOOSE f \in Files : TRUE]
  /\ save = [t \in Threads |-> NoSave]
  /\ stat = [t \in Threads |-> 0]
  /\ pos  = [t \in Threads |-> 0]
  /\ raw  = [t \in Threads |-> NoPamt]
  /\ root = [t \in Threads |-> cur[Root]]
  /\ fd   = [t \in Threads |-> "none"]
  /\ errors = [t \in Threads |-> 0]
  /\ nextVer = 1
  /\ acked = [f \in Files |-> 0]
  /\ unrooted = {}
  /\ unsealed = {}

----------------------------------------------------------------------------
(* RepackEngine::repack, one ModifiedFile per call, as both mounts call it *)

Go(t, step) == pc' = [pc EXCEPT ![t] = step]

\* The environment: which saves are in progress at the same time.
ClientsAllow(g) ==
  /\ Overlap = "serial" => \A s \in Threads : ~Active(s)
  /\ Overlap = "groups" => \A s \in Threads : Active(s) => Group(s) # g

\* flush_path_sync hands the cached PAMT of the group to repack.
StartRepack(t, f, len) ==
  /\ mounted /\ ~Active(t) /\ nextVer <= MaxSaves
  /\ GroupOf[f] \in Shipped /\ index[GroupOf[f]] # Absent
  /\ index[GroupOf[f]].recs[f] # NoRec
  /\ ClientsAllow(GroupOf[f])
  /\ file' = [file EXCEPT ![t] = f]
  /\ save' = [save EXCEPT ![t] = [len |-> len, ver |-> nextVer]]
  /\ raw'  = [raw EXCEPT ![t] = index[GroupOf[f]]]
  /\ errors' = [errors EXCEPT ![t] = 0]
  /\ nextVer' = nextVer + 1
  /\ Go(t, "read_papgt")
  /\ UNCHANGED <<disk, process, stat, pos, root, fd, acked, unrooted, unsealed>>

\* fs::read + parse_papgt; an empty file does not parse and repack fails.
ReadPapgt(t) ==
  /\ pc[t] = "read_papgt"
  /\ IF cur[Root] = Torn
     THEN Go(t, "idle") /\ UNCHANGED root
     ELSE Go(t, "stat_paz") /\ root' = [root EXCEPT ![t] = cur[Root]]
  /\ UNCHANGED <<disk, process, ghosts, file, save, stat, pos, raw, fd, errors>>

StatPaz(t) ==
  /\ pc[t] = "stat_paz"
  /\ stat' = [stat EXCEPT ![t] = paz[Group(t)].size]
  /\ Go(t, "seek_paz")
  /\ UNCHANGED <<disk, process, ghosts, file, save, pos, raw, root, fd, errors>>

\* (Slip: the cursor is placed on the last aligned offset inside the file.)
SeekAlignedDown(t) ==
  /\ pc[t] = "seek_paz"
  /\ pos' = [pos EXCEPT ![t] = (paz[Group(t)].size \div 16) * 16]
  /\ Go(t, "write_paz")
  /\ UNCHANGED <<disk, process, ghosts, file, save, stat, raw, root, fd, errors>>

SeekPaz(t) ==
  /\ pc[t] = "seek_paz"
  /\ pos' = [pos EXCEPT ![t] = paz[Group(t)].size]
  /\ Go(t, "write_paz")
  /\ UNCHANGED <<disk, process, ghosts, file, save, stat, raw, root, fd, errors>>

WritePaz(t) ==
  /\ pc[t] = "write_paz"
  /\ paz' = [paz EXCEPT ![Group(t)] =
                Append16(@, pos[t], stat[t], file[t], save[t].len, save[t].ver)]
  /\ unsealed' = unsealed \cup {Group(t)}
  /\ Go(t, "update_record")
  /\ UNCHANGED <<cur, tmp, process, file, save, stat, pos, raw, root, fd, errors,
                 nextVer, acked, unrooted>>

\* A failed append leaves nothing, the padding, or all but the last byte.
Cut(s, len) == {0, Padding(s), Padding(s) + len - 1}

\* (Slip: the `continue` after a failed append is lost.)
WritePazFailsOn(t) ==
  /\ pc[t] = "write_paz"
  /\ \E n \in Cut(stat[t], save[t].len) :
       paz' = [paz EXCEPT ![Group(t)] = WriteAt(@, pos[t], n)]
  /\ errors' = [errors EXCEPT ![t] = 1]
  /\ unsealed' = unsealed \cup {Group(t)}
  /\ Go(t, "update_record")
  /\ UNCHANGED <<cur, tmp, process, file, save, stat, pos, raw, root, fd,
                 nextVer, acked, unrooted>>

\* The loop goes on after a failed append: the PAMT is still rewritten, from
\* the unmodified snapshot, whose CRC of the PAZ is out of date.
WritePazFails(t) ==
  /\ pc[t] = "write_paz"
  /\ \E n \in Cut(stat[t], save[t].len) :
       paz' = [paz EXCEPT ![Group(t)] = WriteAt(@, pos[t], n)]
  /\ errors' = [errors EXCEPT ![t] = 1]
  /\ unsealed' = unsealed \cup {Group(t)}
  /\ Go(t, "pamt_create")
  /\ UNCHANGED <<cur, tmp, process, file, save, stat, pos, raw, root, fd,
                 nextVer, acked, unrooted>>

\* (Slip: the entry of the PAZ table keeps its CRC.)
UpdateRecordOnly(t) ==
  /\ pc[t] = "update_record"
  /\ raw' = [raw EXCEPT ![t].recs[file[t]] = NewRecord(stat[t], save[t].len)]
  /\ Go(t, "pamt_create")
  /\ UNCHANGED <<disk, process, ghosts, file, save, stat, pos, root, fd, errors>>

\* update_file_record, update_paz_entry with the PAZ as it is now.
UpdateRecord(t) ==
  /\ pc[t] = "update_record"
  /\ raw' = [raw EXCEPT ![t] =
       [recs   |-> [raw[t].recs EXCEPT ![file[t]] = NewRecord(stat[t], save[t].len)],
        pazCrc |-> paz[Group(t)]]]
  /\ Go(t, "pamt_create")
  /\ UNCHANGED <<disk, process, ghosts, file, save, stat, pos, root, fd, errors>>

(* atomic_write(path): create and truncate `<path>.tmp`, write, rename.  The *)
(* name of the temp file is the same for every caller.                       *)

AtPamt(t)  == pc[t] \in {"pamt_create", "pamt_write", "pamt_rename"}
Target(t)  == IF AtPamt(t) THEN Group(t) ELSE Root
Content(t) == IF AtPamt(t) THEN raw[t] ELSE root[t]

\* (Slip: the file is opened in place, without a temp file.)
CreateInPlace(t) ==
  /\ pc[t] \in {"pamt_create", "papgt_create"}
  /\ cur' = [cur EXCEPT ![Target(t)] = Torn]
  /\ tmp' = [tmp EXCEPT ![Target(t)] = Torn]
  /\ fd'  = [fd EXCEPT ![t] = "tmp"]
  /\ Go(t, IF AtPamt(t) THEN "pamt_write" ELSE "papgt_write")
  /\ UNCHANGED <<paz, process, ghosts, file, save, stat, pos, raw, root, errors>>

CreateTmp(t) ==
  /\ pc[t] \in {"pamt_create", "papgt_create"}
  /\ tmp' = [tmp EXCEPT ![Target(t)] = Torn]
  /\ fd'  = [fd EXCEPT ![t] = "tmp"]
  /\ Go(t, IF AtPamt(t) THEN "pamt_write" ELSE "papgt_write")
  /\ UNCHANGED <<paz, cur, process, ghosts, file, save, stat, pos, raw, root, errors>>

\* The bytes go to the file that was opened, under whatever name it has now.
WriteTmp(t) ==
  /\ pc[t] \in {"pamt_write", "papgt_write"}
  /\ tmp' = IF fd[t] = "tmp" THEN [tmp EXCEPT ![Target(t)] = Content(t)] ELSE tmp
  /\ cur' = IF fd[t] = "target" THEN [cur EXCEPT ![Target(t)] = Content(t)] ELSE cur
  /\ fd'  = [fd EXCEPT ![t] = "none"]
  /\ Go(t, IF AtPamt(t) THEN "pamt_rename" ELSE "papgt_rename")
  /\ UNCHANGED <<paz, process, ghosts, file, save, stat, pos, raw, root, errors>>

\* Open files keep pointing at what was renamed or replaced under them.
Replaced(x, o) == [s \in Threads |->
  IF fd[s] = "none" \/ Target(s) # x THEN fd[s]
  ELSE IF fd[s] = o THEN "target" ELSE "gone"]

\* (Slip: the new CRC is not entered in the PAPGT copy.)
RenamePamtOnly(t) ==
  /\ pc[t] = "pamt_rename" /\ tmp[Group(t)] # Absent
  /\ cur' = [cur EXCEPT ![Group(t)] = tmp[Group(t)]]
  /\ tmp' = [tmp EXCEPT ![Group(t)] = Absent]
  /\ fd'  = Replaced(Group(t), "tmp")
  /\ unrooted' = unrooted \cup {Group(t)}
  /\ unsealed' = IF errors[t] = 0 THEN unsealed \ {Group(t)} ELSE unsealed
  /\ Go(t, "papgt_create")
  /\ UNCHANGED <<paz, process, file, save, stat, pos, raw, root, errors, nextVer, acked>>

RenamePamt(t) ==
  /\ pc[t] = "pamt_rename" /\ tmp[Group(t)] # Absent
  /\ cur' = [cur EXCEPT ![Group(t)] = tmp[Group(t)]]
  /\ tmp' = [tmp EXCEPT ![Group(t)] = Absent]
  /\ fd'  = Replaced(Group(t), "tmp")
  /\ root' = [root EXCEPT ![t][Group(t)] = raw[t]]
  /\ unrooted' = unrooted \cup {Group(t)}
  /\ unsealed' = IF errors[t] = 0 THEN unsealed \ {Group(t)} ELSE unsealed
  /\ Go(t, "papgt_create")
  /\ UNCHANGED <<paz, process, file, save, stat, pos, raw, errors, nextVer, acked>>

\* (Slip: the append errors are not looked at.)
RenamePapgtReported(t) ==
  /\ pc[t] = "papgt_rename" /\ tmp[Root] # Absent
  /\ cur' = [cur EXCEPT ![Root] = tmp[Root]]
  /\ tmp' = [tmp EXCEPT ![Root] = Absent]
  /\ fd'  = Replaced(Root, "tmp")
  /\ unrooted' = unrooted \ {Group(t)}
  /\ acked' = [acked EXCEPT ![file[t]] = save[t].ver] /\ Go(t, "reload_parse")
  /\ UNCHANGED <<paz, process, file, save, stat, pos, raw, root, errors, nextVer, unsealed>>

\* Repack returns.  Only a fully successful one is reported and reloaded.
RenamePapgt(t) ==
  /\ pc[t] = "papgt_rename" /\ tmp[Root] # Absent
  /\ cur' = [cur EXCEPT ![Root] = tmp[Root]]
  /\ tmp' = [tmp EXCEPT ![Root] = Absent]
  /\ fd'  = Replaced(Root, "tmp")
  /\ unrooted' = unrooted \ {Group(t)}
  /\ IF errors[t] = 0
     THEN acked' = [acked EXCEPT ![file[t]] = save[t].ver] /\ Go(t, "reload_parse")
     ELSE UNCHANGED acked /\ Go(t, "idle")
  /\ UNCHANGED <<paz, process, file, save, stat, pos, raw, root, errors, nextVer, unsealed>>

\* A step of atomic_write fails and repack returns the error.
AtomicWriteFails(t) ==
  /\ pc[t] \in {"pamt_create", "pamt_write", "pamt_rename",
                "papgt_create", "papgt_write", "papgt_rename"}
  /\ fd' = [fd EXCEPT ![t] = "none"]
  /\ Go(t, "idle")
  /\ UNCHANGED <<disk, process, ghosts, file, save, stat, pos, raw, root, errors>>

(* VfsManager::reload_group: parse without a lock, then install *)

ReloadParse(t) ==
  /\ pc[t] = "reload_parse"
  /\ IF cur[Group(t)] = Torn
     THEN Go(t, "idle") /\ UNCHANGED raw
     ELSE Go(t, "reload_install") /\ raw' = [raw EXCEPT ![t] = cur[Group(t)]]
  /\ UNCHANGED <<disk, process, ghosts, file, save, stat, pos, root, fd, errors>>

\* (Slip: the new PAMT is parsed and not put in pamt_cache.)
ReloadDropped(t) ==
  /\ pc[t] = "reload_install"
  /\ Go(t, "idle")
  /\ UNCHANGED <<disk, process, ghosts, file, save, stat, pos, raw, root, fd, errors>>

ReloadInstall(t) ==
  /\ pc[t] = "reload_install"
  /\ index' = [index EXCEPT ![Group(t)] = raw[t]]
  /\ Go(t, "idle")
  /\ UNCHANGED <<disk, mounted, userFiles, ugReady, ugLock, ghosts,
                 file, save, stat, pos, raw, root, fd, errors>>

----------------------------------------------------------------------------
(* UserGroup: every operation runs under the user-group mutex *)

Lock(t, f) ==
  /\ mounted /\ ugReady /\ ~Active(t) /\ ugLock = NoThread
  /\ GroupOf[f] = UserGroup /\ ClientsAllow(UserGroup)
  /\ file' = [file EXCEPT ![t] = f]

\* The record keeps a 64-bit offset in memory and loses it when written out.
Serialized(files) ==
  [f \in Files |-> IF files[f] = NoRec THEN NoRec
                   ELSE [at |-> AsU32(files[f].at), len |-> files[f].len]]

\* add: append the blob, replace the record in memory.
UserAdd(t, f, len) ==
  /\ Lock(t, f) /\ nextVer <= MaxSaves
  /\ LET size == paz[UserGroup].size IN
     /\ paz' = [paz EXCEPT ![UserGroup] = Append16(@, size, size, f, len, nextVer)]
     /\ userFiles' = [userFiles EXCEPT ![f] = [at |-> Align16(size), len |-> len]]
  /\ save' = [save EXCEPT ![t] = [len |-> len, ver |-> nextVer]]
  /\ nextVer' = nextVer + 1
  /\ unsealed' = unsealed \cup {UserGroup}
  /\ ugLock' = t
  /\ Go(t, "u_pamt")
  /\ UNCHANGED <<cur, tmp, mounted, index, ugReady, stat, pos, raw, root, fd, errors,
                 acked, unrooted>>

\* The append fails: add returns before it touches the records.
UserAddFails(t, f, len) ==
  /\ Lock(t, f) /\ nextVer <= MaxSaves
  /\ LET size == paz[UserGroup].size IN
     \E n \in Cut(size, len) :
       paz' = [paz EXCEPT ![UserGroup] = WriteAt(@, size, n)]
  /\ nextVer' = nextVer + 1
  /\ unsealed' = unsealed \cup {UserGroup}
  /\ UNCHANGED <<cur, tmp, process, pc, save, stat, pos, raw, root, fd, errors,
                 acked, unrooted>>

\* remove: the record goes, the blob stays orphaned.
UserRemove(t, f) ==
  /\ Lock(t, f) /\ userFiles[f] # NoRec
  /\ userFiles' = [userFiles EXCEPT ![f] = NoRec]
  /\ acked' = [acked EXCEPT ![f] = 0]
  /\ save' = [save EXCEPT ![t] = NoSave]
  /\ ugLock' = t
  /\ Go(t, "u_pamt")
  /\ UNCHANGED <<disk, mounted, index, ugReady, stat, pos, raw, root, fd, errors,
                 nextVer, unrooted, unsealed>>

UserPamt == [recs |-> Serialized(userFiles), pazCrc |-> paz[UserGroup]]

\* flush_pamt: its temp file `0.tmp` is written under the mutex only.
UserFlushPamt(t) ==
  /\ pc[t] = "u_pamt"
  /\ cur' = [cur EXCEPT ![UserGroup] = UserPamt]
  /\ unrooted' = unrooted \cup {UserGroup}
  /\ unsealed' = unsealed \ {UserGroup}
  /\ Go(t, "u_papgt_read")
  /\ UNCHANGED <<paz, tmp, process, file, save, stat, pos, raw, root, fd, errors,
                 nextVer, acked>>

Return(t) == ugLock' = NoThread /\ Go(t, "idle")

\* ensure_papgt_entry: unparsable, no slot to update, or a copy to edit.
UserReadPapgt(t) ==
  /\ pc[t] = "u_papgt_read"
  /\ \/ /\ cur[Root] = Torn
        /\ Return(t) /\ UNCHANGED <<root, acked, unrooted>>
     \/ /\ cur[Root] # Torn /\ ~UserSlot
        /\ acked' = [acked EXCEPT ![file[t]] = save[t].ver]
        /\ unrooted' = unrooted \ {UserGroup}
        /\ Return(t) /\ UNCHANGED root
     \/ /\ cur[Root] # Torn /\ UserSlot
        /\ root' = [root EXCEPT ![t] = [cur[Root] EXCEPT ![UserGroup] = cur[UserGroup]]]
        /\ Go(t, "u_papgt_write") /\ UNCHANGED <<ugLock, acked, unrooted>>
  /\ UNCHANGED <<disk, mounted, index, userFiles, ugReady, file, save, stat, pos, raw,
                 fd, errors, nextVer, unsealed>>

\* The temp file is `meta/0.tmp` here, not the engine's `meta/0.papgt.tmp`.
UserWritePapgt(t) ==
  /\ pc[t] = "u_papgt_write"
  /\ cur' = [cur EXCEPT ![Root] = root[t]]
  /\ fd' = Replaced(Root, "other")
  /\ acked' = [acked EXCEPT ![file[t]] = save[t].ver]
  /\ unrooted' = unrooted \ {UserGroup}
  /\ Return(t)
  /\ UNCHANGED <<paz, tmp, mounted, index, userFiles, ugReady, file, save, stat, pos,
                 raw, root, errors, nextVer, unsealed>>

UserWriteFails(t) ==
  /\ pc[t] \in {"u_pamt", "u_papgt_write"}
  /\ Return(t)
  /\ UNCHANGED <<disk, mounted, index, userFiles, ugReady, file, save, stat, pos, raw,
                 root, fd, errors, ghosts>>

----------------------------------------------------------------------------
(* The process dies, or is unmounted with flushes in flight; a new mount *)

Crash ==
  /\ mounted
  /\ mounted' = FALSE /\ ugReady' = FALSE /\ ugLock' = NoThread
  /\ index' = [g \in Shipped |-> Absent]
  /\ userFiles' = NoFiles
  /\ pc' = [t \in Threads |-> "idle"]
  /\ fd' = [t \in Threads |-> "none"]
  /\ UNCHANGED <<disk, ghosts, file, save, stat, pos, raw, root, errors>>

\* load_group of every group, then init_user_group: bootstrap or load the
\* PAMT of the user group and bring its PAPGT slot up to date.
Mount ==
  /\ ~mounted /\ mounted' = TRUE
  /\ index' = [g \in Shipped |-> IF cur[g] = Torn THEN Absent ELSE cur[g]]
  /\ LET m == IF cur[UserGroup] = Absent
              THEN [recs |-> NoFiles, pazCrc |-> paz[UserGroup]] ELSE cur[UserGroup]
     IN  /\ userFiles' = m.recs
         /\ cur' = IF UserSlot /\ cur[Root] # Torn
                   THEN [cur EXCEPT ![UserGroup] = m, ![Root][UserGroup] = m]
                   ELSE [cur EXCEPT ![UserGroup] = m]
  /\ ugReady' = (cur[Root] # Torn)
  /\ unrooted' = IF cur[Root] = Torn THEN unrooted ELSE unrooted \ {UserGroup}
  /\ UNCHANGED <<paz, tmp, ugLock, pc, file, save, stat, pos, raw, root, fd, errors,
                 nextVer, acked, unsealed>>

----------------------------------------------------------------------------
Repack(t) ==
  \/ \E f \in Files, len \in Sizes : StartRepack(t, f, len)
  \/ ReadPapgt(t) \/ StatPaz(t) \/ SeekPaz(t) \/ WritePaz(t) \/ WritePazFails(t)
  \/ UpdateRecord(t)
  \/ CreateTmp(t) \/ WriteTmp(t) \/ RenamePamt(t) \/ RenamePapgt(t)
  \/ AtomicWriteFails(t)
  \/ ReloadParse(t) \/ ReloadInstall(t)

UserOp(t) ==
  \/ \E f \in Files, len \in Sizes : UserAdd(t, f, len) \/ UserAddFails(t, f, len)
  \/ \E f \in Files : UserRemove(t, f)
  \/ UserFlushPamt(t) \/ UserReadPapgt(t) \/ UserWritePapgt(t) \/ UserWriteFails(t)

Next == Mount \/ Crash \/ \E t \in Threads : Repack(t) \/ UserOp(t)

Spec == Init /\ [][Next]_vars

----------------------------------------------------------------------------
(* Properties *)

EngineSteps == {"read_papgt", "stat_paz", "seek_paz", "write_paz", "update_record",
                "pamt_create", "pamt_write", "pamt_rename",
                "papgt_create", "papgt_write", "papgt_rename",
                "reload_parse", "reload_install"}
UserSteps   == {"u_pamt", "u_papgt_read", "u_papgt_write"}
Steps       == EngineSteps \cup UserSteps \cup {"idle"}

\* A torn file can come only from the engine's shared temp files; the user
\* group's PAMT is written under a mutex and is there once mounted.
DiskOK ==
  /\ paz \in [Groups -> Paz]
  /\ DOMAIN cur = Groups \cup {Root} /\ DOMAIN tmp = Shipped \cup {Root}
  /\ \A g \in Shipped : cur[g] \in Pamt \cup {Torn} /\ tmp[g] \in Pamt \cup {Torn, Absent}
  /\ cur[UserGroup] \in Pamt \cup {Absent}
  /\ mounted => cur[UserGroup] \in Pamt
  /\ cur[Root] \in Papgt \cup {Torn} /\ tmp[Root] \in Papgt \cup {Torn, Absent}

ProcessOK ==
  /\ mounted \in BOOLEAN /\ ugReady \in BOOLEAN /\ ugLock \in Threads \cup {NoThread}
  /\ index \in [Shipped -> Pamt \cup {Absent}] /\ userFiles \in Recs

LocalsOK ==
  /\ pc \in [Threads -> Steps] /\ file \in [Threads -> Files]
  /\ save \in [Threads -> [len : Nat, ver : Nat]]
  /\ stat \in [Threads -> Nat] /\ pos \in [Threads -> Nat]
  /\ raw \in [Threads -> Pamt] /\ root \in [Threads -> Papgt]
  /\ fd \in [Threads -> {"none", "tmp", "target", "gone"}] /\ errors \in [Threads -> Nat]

GhostsOK ==
  /\ nextVer \in Nat /\ acked \in [Files -> Nat]
  /\ unrooted \subseteq Groups /\ unsealed \subseteq Groups

TypeOK == DiskOK /\ ProcessOK /\ LocalsOK /\ GhostsOK

\* A PAMT on disk never sends a reader to another file's bytes: each record
\* of each group names a blob of its own file that is completely written,
\* through crashes, failed writes and remounts, as long as no two saves of a
\* shipped group overlap.  (append_entry before update_file_record before
\* atomic_write; nothing rewrites a PAZ below its end.)
RecordsReadable ==
  \A g \in Groups :
    paz[g].size < PazLimit /\ cur[g] \notin {Torn, Absent}
      => OwnData(paz[g], cur[g].recs, g)

\* The process may keep reading through an index that is older than the PAMT
\* on disk (a save in progress, a failed reload): its offsets stay good.
IndexReadable ==
  \A g \in Shipped :
    paz[g].size < PazLimit /\ index[g] # Absent => OwnData(paz[g], index[g].recs, g)

\* paz.rs:10: the PAZ is append-only.  No step removes a blob, so a reader
\* holding an old mmap or an old record never sees bytes change.
AppendOnly == [][\A g \in Groups : paz[g].blobs \subseteq paz'[g].blobs]_paz

\* A save reported as repacked stays what a fresh mount reads, until a newer
\* save of the same file replaces it.
AckedSurvives ==
  \A f \in Files : paz[GroupOf[f]].size < PazLimit => DiskVersion(f) >= acked[f]

\* A save that was reported and not torn since is not reverted to an older one.
AckedNotReverted ==
  \A f \in Files : DiskVersion(f) # Garbled => DiskVersion(f) >= acked[f]

\* engine.rs:1, an atomic pipeline: whatever fails, and wherever the process
\* dies, the index files on disk are whole ones.
IndexesWhole == cur[Root] # Torn /\ \A g \in Groups : cur[g] # Torn

\* With saves one at a time the CRC chain is open only between a PAMT and a
\* PAPGT that does not have it yet, and between a PAZ and a PAMT when an append
\* was made that no successful save has entered: while the save is under way,
\* or from an append or a PAMT write that failed until the group's next save.
ChainUnlessCut ==
  /\ \A g \in Slotted : mounted /\ g \notin unrooted => Rooted(g)
  /\ \A g \in Groups  : mounted /\ g \notin unsealed => Sealed(g)

----------------------------------------------------------------------------
(* What a client of the mount is promised, see SaveStore.                   *)

Store == INSTANCE SaveStore WITH
           Versions <- 0..MaxSaves,
           durable  <- [f \in Files |-> DiskVersion(f)]

\* Every step of the save path, a crash or a failure at any point of it
\* included, is a step of SaveStore or invisible there: no torn or foreign
\* content appears, a group changes atomically, and what was reported as saved
\* is never undone.
ImplementsSaveStore == Store!Spec

=============================================================================
