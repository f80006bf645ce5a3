------------------------------ MODULE VfsIndex ------------------------------
\* The in-memory index of a mount (cdcore::vfs::manager) and the user group
\* behind it (cdcore::archive::user_group), used by several threads: flushes
\* that create user files or repack and reload a group, renames and unlinks.
\*
\* A PAMT is a function from paths to record versions.  A save of a shipped
\* file gives its record a new version in a copy of the cached PAMT; how that
\* copy gets to disk is RepackChain's subject and one step here.
EXTENDS VfsTree

CONSTANTS
  Groups,       \* shipped group numbers
  UserGroup,    \* the number of the user group, after every shipped one
  Shipped,      \* [Groups -> sets of paths]
  UserPaths,    \* paths clients ask for that no group ships, aliases included
  VirtualTops,  \* names of the virtual roots
  Legacy,       \* what an older build may have left in the user group
  Threads,
  Overlap,      \* TRUE: two threads may work on one file or group at a time
  MaxChanges    \* bound on saves and creates

AllGroups == Groups \cup {UserGroup}

UserAliases(p) == IF InDir(p) THEN {AliasOf(p, UserGroup)} ELSE {}

\* Groups have numbers, the user group the highest; no shipped name has an '@'.
ASSUME IndexAssumption ==
  /\ AllGroups \subseteq Nat /\ None \notin AllGroups
  /\ \A g \in Groups : g < UserGroup
  /\ \A g \in Groups : \A p \in Shipped[g] : IsPath(p) /\ ~HasAt(p)
  /\ MaxChanges \in Nat
  /\ Overlap \in BOOLEAN

\* What an older build left: one record for a file, under its name or its alias in
\* the user group, and none for a shipped file (migrate_aliased_paths would keep one).
ASSUME LegacyAssumption ==
  \A recs \in Legacy :
    /\ \A r \in recs :
         /\ r.v = 0
         /\ r.path = Canonical(r.path) \/ r.path \in UserAliases(r.path)
         /\ \A g \in Groups : Canonical(r.path) \notin Shipped[g]
    /\ \A r, s \in recs : Canonical(r.path) = Canonical(s.path) => r = s

VARIABLES
  disk,      \* the shipped PAMTs on disk
  userDisk,  \* the records of the user group's PAMT on disk
  up,        \* mounted
  tree,      \* VfsManager::tree
  cache,     \* VfsManager::pamt_cache (its keys are those of `loaded`)
  files,     \* UserGroup::files
  th,        \* what each thread is doing, with its locals
  changes,   \* versions handed out
  failedFiles,  \* user files whose last change was reported failed
  failedGroups  \* groups whose last save or reload was

vars == <<disk, userDisk, up, tree, cache, files, th, changes,
          failedFiles, failedGroups>>

Idle == [pc |-> "idle", path |-> None, g |-> None, v |-> 0, got |-> None]

PathsOf(recs) == {r.path : r \in recs}

Holds(recs, p) == p \in PathsOf(recs)

\* UserGroup::entry_for; a path has one record.
VersionIn(recs, p) == (CHOOSE r \in recs : r.path = p).v

Dropped(recs, p) == {r \in recs : r.path # p}

\* UserGroup::add: the records in memory, before anything is written.
Added(recs, p, v) == Dropped(recs, p) \cup {[path |-> p, v |-> v]}

\* migrate_aliased_paths
Migrated(recs) == {[path |-> Canonical(r.path), v |-> r.v] : r \in recs}

AsPamt(recs) == [p \in PathsOf(recs) |-> VersionIn(recs, p)]

Init ==
  /\ disk = [g \in Groups |-> [p \in Shipped[g] |-> 0]]
  /\ userDisk \in Legacy
  /\ up = FALSE
  /\ tree = [p \in {} |-> None]
  /\ cache = [g \in {} |-> None]
  /\ files = {}
  /\ th = [t \in Threads |-> Idle]
  /\ changes = 0
  /\ failedFiles = {}
  /\ failedGroups = {}

\* The pruning of SharedFs::new_inner: what lies under a virtual root goes.
Stale(recs) == {p \in PathsOf(recs) : p.segs[1] \in VirtualTops}

Pruned(recs) == {r \in recs : r.path \notin Stale(recs)}

\* load_all_groups (the user group has a PAMT like any other), expose, then
\* init_user_group with its migration, then the pruning.
MountedTree(recs, shipped) ==
  LET migrated == Migrated(recs)
      pamts    == [g \in AllGroups |-> IF g = UserGroup THEN AsPamt(recs) ELSE shipped[g]]
      withUser == Upsert(Expose(LoadAll(pamts)), EntriesOf(UserGroup, AsPamt(migrated)))
      dead     == Stale(migrated) \cup UNION {UserAliases(p) : p \in Stale(migrated)}
  IN Keep(withUser, LAMBDA p : p \notin dead)

Mount ==
  /\ ~up
  /\ files' = Pruned(Migrated(userDisk))
  /\ userDisk' = files'
  /\ tree' = MountedTree(userDisk, disk)
  /\ cache' = disk
  /\ up' = TRUE
  /\ UNCHANGED <<disk, th, changes, failedFiles, failedGroups>>

\* Unmounting, or the death of the process, at any point.
Stop ==
  /\ up
  /\ up' = FALSE
  /\ tree' = [p \in {} |-> None]
  /\ cache' = [g \in {} |-> None]
  /\ files' = {}
  /\ th' = [t \in Threads |-> Idle]
  /\ failedFiles' = {}
  /\ failedGroups' = {}
  /\ UNCHANGED <<disk, userDisk, changes>>

AtFile(t, p) == th[t].path = p
AtGroup(t, g) == th[t].g = g

\* A thread begins on a file or a group nobody else is at, unless Overlap.
Free(t, At(_)) == Overlap \/ \A u \in Threads \ {t} : ~At(u)
FreeFile(t, p) == Free(t, LAMBDA u : AtFile(u, p))
FreeGroup(t, g) == Free(t, LAMBDA u : AtGroup(u, g))

Begin(t, rec) == th' = [th EXCEPT ![t] = rec]

Done(t) == th' = [th EXCEPT ![t] = Idle]

\* create_user_file: the check under the tree's read lock.  A path of a shipped
\* group is refused and nothing happens.
CreateCheck(t, p) ==
  LET c == Canonical(p) IN
  /\ up
  /\ th[t].pc = "idle"
  /\ FreeFile(t, c)
  /\ changes < MaxChanges
  /\ c \in DOMAIN tree => tree[c].g = UserGroup
  /\ changes' = changes + 1
  /\ Begin(t, [Idle EXCEPT !.pc = "add", !.path = c, !.v = changes + 1])
  /\ UNCHANGED <<disk, userDisk, up, tree, cache, files, failedFiles, failedGroups>>

\* UserGroup::add under the mutex, then entry_for.
CreateAdd(t) ==
  /\ th[t].pc = "add"
  /\ files' = Added(files, th[t].path, th[t].v)
  /\ userDisk' = files'
  /\ Begin(t, [th[t] EXCEPT !.pc = "insert"])
  /\ UNCHANGED <<disk, up, tree, cache, changes, failedFiles, failedGroups>>

\* add returns early: the append failed, or the PAMT or the PAPGT could not be
\* written after the records in memory were changed.
CreateAddFails(t) ==
  /\ th[t].pc = "add"
  /\ \E wrote \in {"nothing", "memory", "pamt"} :
       /\ files' = IF wrote = "nothing" THEN files
                   ELSE Added(files, th[t].path, th[t].v)
       /\ userDisk' = IF wrote = "pamt" THEN files' ELSE userDisk
  /\ failedFiles' = failedFiles \cup {th[t].path}
  /\ Done(t)
  /\ UNCHANGED <<disk, up, tree, cache, changes, failedGroups>>

CreateInsert(t) ==
  /\ th[t].pc = "insert"
  /\ LET c   == th[t].path
         new == [p \in {c} \cup UserAliases(c) |-> [g |-> UserGroup, v |-> th[t].v]]
     IN /\ tree' = Upsert(tree, new)
        /\ failedFiles' = failedFiles \ {c}
  /\ Done(t)
  /\ UNCHANGED <<disk, userDisk, up, cache, files, changes, failedGroups>>

\* remove_user_file, for a path that is a record; otherwise nothing happens.
RemoveDrop(t, p) ==
  LET c == Canonical(p) IN
  /\ up
  /\ th[t].pc = "idle"
  /\ FreeFile(t, c)
  /\ Holds(files, c)
  /\ files' = Dropped(files, c)
  /\ userDisk' = files'
  /\ Begin(t, [Idle EXCEPT !.pc = "forget", !.path = c])
  /\ UNCHANGED <<disk, up, tree, cache, changes, failedFiles, failedGroups>>

\* UserGroup::remove could not write the PAMT, or the PAPGT after it.
RemoveDropFails(t, p) ==
  LET c == Canonical(p) IN
  /\ up
  /\ th[t].pc = "idle"
  /\ FreeFile(t, c)
  /\ Holds(files, c)
  /\ files' = Dropped(files, c)
  /\ \E written \in BOOLEAN : userDisk' = IF written THEN files' ELSE userDisk
  /\ failedFiles' = failedFiles \cup {c}
  /\ UNCHANGED <<disk, up, tree, cache, th, changes, failedGroups>>

\* (Slip: the alias stays.)
RemoveForgetOne(t) ==
  /\ th[t].pc = "forget"
  /\ tree' = Keep(tree, LAMBDA p : p # th[t].path)
  /\ Done(t)
  /\ UNCHANGED <<disk, userDisk, up, cache, files, changes, failedFiles, failedGroups>>

RemoveForget(t) ==
  /\ th[t].pc = "forget"
  /\ LET dead == {th[t].path} \cup UserAliases(th[t].path)
     IN tree' = Keep(tree, LAMBDA p : p \notin dead)
  /\ Done(t)
  /\ UNCHANGED <<disk, userDisk, up, cache, files, changes, failedFiles, failedGroups>>

\* (Slip: the record is looked for under the name the client used.)
SaveByName(t, p) ==
  LET g == tree[p].g IN
  /\ up
  /\ th[t].pc = "idle"
  /\ p \in DOMAIN tree
  /\ g \in Groups
  /\ FreeGroup(t, g)
  /\ changes < MaxChanges
  /\ changes' = changes + 1
  /\ disk' = [disk EXCEPT ![g] = Upsert(cache[g], [q \in {p} |-> changes + 1])]
  /\ Begin(t, [Idle EXCEPT !.pc = "parse", !.g = g])
  /\ UNCHANGED <<userDisk, up, tree, cache, files, failedFiles, failedGroups>>

\* flush_path_sync of a shipped file, canonical or alias: lookup, get_pamt, repack
\* from the cached PAMT.
Save(t, p) ==
  LET g == tree[p].g IN
  /\ up
  /\ th[t].pc = "idle"
  /\ p \in DOMAIN tree
  /\ g \in Groups
  /\ FreeGroup(t, g)
  /\ changes < MaxChanges
  /\ changes' = changes + 1
  /\ disk' = [disk EXCEPT ![g] = [cache[g] EXCEPT ![Canonical(p)] = changes + 1]]
  /\ Begin(t, [Idle EXCEPT !.pc = "parse", !.g = g])
  /\ UNCHANGED <<userDisk, up, tree, cache, files, failedFiles, failedGroups>>

\* repack reports an error: the PAMT is in place or not, nothing is reloaded.
SaveFails(t, p) ==
  LET g == tree[p].g IN
  /\ up
  /\ th[t].pc = "idle"
  /\ p \in DOMAIN tree
  /\ g \in Groups
  /\ FreeGroup(t, g)
  /\ changes < MaxChanges
  /\ changes' = changes + 1
  /\ \E written \in BOOLEAN :
       disk' = IF written
               THEN [disk EXCEPT ![g] = [cache[g] EXCEPT ![Canonical(p)] = changes + 1]]
               ELSE disk
  /\ failedGroups' = failedGroups \cup {g}
  /\ UNCHANGED <<userDisk, up, tree, cache, files, th, failedFiles>>

\* (Slip: the old entries leave the tree before the new ones are there.)
ReloadParseFirst(t) ==
  /\ th[t].pc = "parse"
  /\ tree' = WithoutGroup(tree, th[t].g)
  /\ Begin(t, [th[t] EXCEPT !.pc = "install", !.got = disk[th[t].g]])
  /\ UNCHANGED <<disk, userDisk, up, cache, files, changes, failedFiles, failedGroups>>

\* reload_group: the PAMT is parsed while no lock is held ...
ReloadParse(t) ==
  /\ th[t].pc = "parse"
  /\ Begin(t, [th[t] EXCEPT !.pc = "install", !.got = disk[th[t].g]])
  /\ UNCHANGED <<disk, userDisk, up, tree, cache, files, changes, failedFiles, failedGroups>>

\* (Slip: the tree is renewed, the cached PAMT is not.)
ReloadInstallTree(t) ==
  LET g == th[t].g IN
  /\ th[t].pc = "install"
  /\ tree' = Reinstall(tree, g, th[t].got)
  /\ failedGroups' = failedGroups \ {g}
  /\ Done(t)
  /\ UNCHANGED <<disk, userDisk, up, cache, files, changes, failedFiles>>

\* ... and swapped in under the write lock.
ReloadInstall(t) ==
  LET g == th[t].g IN
  /\ th[t].pc = "install"
  /\ tree' = Reinstall(tree, g, th[t].got)
  /\ cache' = [cache EXCEPT ![g] = th[t].got]
  /\ failedGroups' = failedGroups \ {g}
  /\ Done(t)
  /\ UNCHANGED <<disk, userDisk, up, files, changes, failedFiles>>

\* "reload_group failed" is logged and the flush goes on.
ReloadFails(t) ==
  /\ th[t].pc = "parse"
  /\ failedGroups' = failedGroups \cup {th[t].g}
  /\ Done(t)
  /\ UNCHANGED <<disk, userDisk, up, tree, cache, files, changes, failedFiles>>

AskedFor == UserPaths \cup UNION {Shipped[g] : g \in Groups}

Next ==
  \/ Mount
  \/ Stop
  \/ \E t \in Threads :
       \/ \E p \in AskedFor :
            \/ CreateCheck(t, p)
            \/ RemoveDrop(t, p)
            \/ RemoveDropFails(t, p)
       \/ CreateAdd(t)
       \/ CreateAddFails(t)
       \/ CreateInsert(t)
       \/ RemoveForget(t)
       \/ \E p \in DOMAIN tree : Save(t, p) \/ SaveFails(t, p)
       \/ ReloadParse(t)
       \/ ReloadInstall(t)
       \/ ReloadFails(t)

Spec == Init /\ [][Next]_vars

-----------------------------------------------------------------------------
\* Properties

\* Every map has its shape, and the tree names known groups only.
TypeOK ==
  /\ up \in BOOLEAN
  /\ changes \in 0 .. MaxChanges
  /\ DOMAIN disk = Groups
  /\ \A g \in Groups : DOMAIN disk[g] = Shipped[g]
  /\ DOMAIN cache = IF up THEN Groups ELSE {}
  /\ \A p \in DOMAIN tree : tree[p].g \in AllGroups /\ tree[p].v \in 0 .. MaxChanges
  /\ \A t \in Threads : th[t].pc \in {"idle", "add", "insert", "forget", "parse", "install"}
  /\ ~up => DOMAIN tree = {} /\ files = {} /\ \A t \in Threads : th[t] = Idle

\* "The user group never shadows shipped data": whatever reloads go on between
\* create_user_file's check and its insertion, and whichever alias or '@' name
\* was asked for, no record of the user group has the path of a shipped file.
NoShadow ==
  \A g \in Groups : PathsOf(files) \cap Shipped[g] = {}

\* When nobody is at a user file and its last change was not reported failed,
\* the tree and the user group tell the same story about it: each record is found
\* under its path, and what the tree finds, by either name, is that record.  A
\* removed file is gone under both names, a migrated one can be removed.
UserTreeAgrees ==
  up => /\ \A p \in PathsOf(files) :
             (\A t \in Threads : ~AtFile(t, p)) /\ p \notin failedFiles =>
               p \in DOMAIN tree /\ tree[p] = [g |-> UserGroup, v |-> VersionIn(files, p)]
        /\ \A p \in DOMAIN tree :
             LET c == Canonical(p) IN
             tree[p].g = UserGroup /\ (\A t \in Threads : ~AtFile(t, c)) /\ c \notin failedFiles =>
               Holds(files, c) /\ tree[p].v = VersionIn(files, c)

\* When no save of a group is under way or failed, every name of the tree that
\* leads into the group leads to the record on disk, every file of the group is
\* found, and the PAMT the next repack edits is the one on disk.
IndexFresh ==
  up => \A g \in Groups :
          (\A t \in Threads : ~AtGroup(t, g)) /\ g \notin failedGroups =>
            /\ cache[g] = disk[g]
            /\ Shipped[g] \subseteq DOMAIN tree
            /\ \A p \in DOMAIN tree :
                 tree[p].g = g => tree[p].v = disk[g][Canonical(p)]

\* No save takes back an earlier save of another file of its group, unless a save
\* or reload of the group was reported failed.
NotUndone ==
  [][\A g \in Groups : g \notin failedGroups => 
       \A p \in Shipped[g] : disk'[g][p] >= disk[g][p]]_vars
=============================================================================
