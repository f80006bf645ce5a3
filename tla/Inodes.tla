------------------------------- MODULE Inodes -------------------------------
\* Names, inodes and listings of the Linux mount: the session thread's inode map,
\* the queue through which directory builders on the pool feed it, the directory
\* cache, and what the kernel was told.  (cdfuse/src/fs.rs: CdFs)
\*
\* An inode number is a hash of the path it was made for; here it is that path.
\* The kernel keeps a directory locked while it is read, and while a name in it is
\* made or removed.
EXTENDS SynthPaths

CONSTANTS
  Shipped,     \* paths of the shipped files
  Writable,    \* paths that clients create, rename and remove
  Makeable,    \* paths that clients mkdir
  LookedUp,    \* paths that clients look up
  Listed,      \* directories that clients read
  Pool,        \* builders
  MaxChanges   \* bound on what clients change

Files == Shipped \cup Writable

RootDir == Plain(<<>>)
Parent(p) == Plain(Front(p.segs))

IsName(p) == p = Plain(p.segs) /\ p.segs # <<>> /\ p.segs \in Seq(ToSet(p.segs))

\* Clients use a name for files or for directories, never for both, and the game
\* ships nothing where the mount invents paths.
ASSUME NamesAssumption ==
  /\ \A p \in Files \cup Makeable \cup LookedUp : IsName(p)
  /\ \A d \in Listed : d = RootDir \/ IsName(d)
  /\ \A p, q \in Files : ~IsStrictPrefix(p.segs, q.segs)
  /\ Makeable \cap Files = {}
  /\ \A p \in Shipped : ~Synthetic(p)

VARIABLES
  tree,      \* the index: [path -> [g, v]]
  synth,     \* synth_dirs
  overlay,   \* paths with bytes in write_overlay, not yet in the tree
  paths,     \* CdFs::paths: [inode -> [path, isDir]]
  queue,     \* path_queue: batches of entries
  listing,   \* dir_cache: [directory -> its slot]
  job,       \* builders: [Pool -> what they do]
  known,     \* the kernel's names: [path -> inode]
  gone,      \* names removed, or renamed away, and not made again
  changes

vars == <<tree, synth, overlay, paths, queue, listing, job, known, gone, changes>>

NoSlot == [by |-> None, done |-> FALSE, entries |-> {}]
NoJob  == [pc |-> "idle", dir |-> None, entries |-> {}]

Init ==
  /\ tree = [p \in Shipped |-> [g |-> "shipped", v |-> 0]]
  /\ synth = {}
  /\ overlay = {}
  /\ paths = [i \in {RootDir} |-> Entry(RootDir, TRUE)]
  /\ queue = <<>>
  /\ listing = [d \in Listed |-> NoSlot]
  /\ job = [t \in Pool |-> NoJob]
  /\ known = [p \in {RootDir} |-> RootDir]
  /\ gone = {}
  /\ changes = 0

-----------------------------------------------------------------------------
\* The inode map

\* drain: batches in order; an inode that is there keeps its entry.
Merged(map, batches) ==
  LET batched(p) == {i \in DOMAIN batches : \E e \in batches[i] : e.path = p}
      new == {e.path : e \in UNION ToSet(batches)}
  IN [p \in DOMAIN map \cup new |->
        IF p \in DOMAIN map THEN map[p]
        ELSE CHOOSE e \in batches[Min(batched(p))] : e.path = p]

Drained == Merged(paths, queue)

\* ensure_path
Ensured(p, isDir) ==
  [i \in DOMAIN Drained \cup {p} |-> IF i \in DOMAIN Drained THEN Drained[i] ELSE Entry(p, isDir)]

\* Every handler drains the queue first.
Register(m) == paths' = m /\ queue' = <<>>

Knows(p) == p \in DOMAIN known

\* The path a name in a directory stands for: path_of the parent's inode, and the name.
PathOf(p) == Sub(Drained[known[Parent(p)]].path, <<FileName(p)>>)

Reachable(p) == p.segs # <<>> /\ Knows(Parent(p)) /\ known[Parent(p)] \in DOMAIN Drained

NewUser(p) == [f \in {p} |-> [g |-> "user", v |-> 0]]

IsUser(p) == Present(tree, p) /\ tree[p].g = "user"

DirExists(p) == p \in synth \/ HoldsFiles(tree, p)

FlaggedDir(p) == p \in DOMAIN Drained /\ Drained[p].isDir

\* (Slip: a registered file is there whether or not it has bytes.)
LookupGhost(p) ==
  IF Classify(p).kind # "other" THEN LookupPrefab(tree, p)
  ELSE IF Present(tree, p) THEN "file"
  ELSE IF DirExists(p) \/ FlaggedDir(p) THEN "dir"
  ELSE IF LookupSynth(tree, p) # "absent" THEN LookupSynth(tree, p)
  ELSE IF p \in DOMAIN Drained THEN "file"
  ELSE "absent"

\* The order in which lookup() tries.
LookupKind(p) ==
  IF Classify(p).kind # "other" THEN LookupPrefab(tree, p)
  ELSE IF Present(tree, p) THEN "file"
  ELSE IF DirExists(p) \/ FlaggedDir(p) THEN "dir"
  ELSE IF LookupSynth(tree, p) # "absent" THEN LookupSynth(tree, p)
  ELSE IF p \in DOMAIN Drained /\ p \in overlay THEN "file"
  ELSE "absent"

\* What getattr() says of an inode.
GetattrKind(i) ==
  IF i \notin DOMAIN Drained THEN "absent" ELSE IF Drained[i].isDir THEN "dir" ELSE "file"

\* A reply with an entry, or a negative one, to a question about name p.
Learn(p, i) == known' = [q \in DOMAIN known \cup {p} |-> IF q = p THEN i ELSE known[q]]
Forget(p)   == known' = [q \in DOMAIN known \ {p} |-> known[q]]

Lookup(p) ==
  LET c == PathOf(p) IN
  /\ Reachable(p)
  /\ IF LookupKind(c) = "absent" THEN Forget(p) /\ Register(Drained)
     ELSE Learn(p, c) /\ Register(Ensured(c, LookupKind(c) = "dir"))
  /\ UNCHANGED <<tree, synth, overlay, listing, job, gone, changes>>

-----------------------------------------------------------------------------
\* Directories

\* (Slip: the invented roots are listed like files.)
EntriesFlat(d) ==
  IF Synthetic(d) THEN SynthListing(tree, d)
  ELSE Children(tree, d)
       \cup (IF d # RootDir THEN {}
             ELSE {Entry(Plain(<<n>>), FALSE) : n \in {r.name : r \in Roots} \cup {PrefabRoot}})

\* build_dir_entries: children of the tree and, at the root, the invented roots.
\* Directories made by mkdir are in no listing.
EntriesOfDir(d) ==
  IF Synthetic(d) THEN SynthListing(tree, d)
  ELSE Children(tree, d)
       \cup (IF d # RootDir THEN {}
             ELSE {Entry(Plain(<<n>>), TRUE) : n \in {r.name : r \in Roots} \cup {PrefabRoot}})

\* Dirs whose dir_cache slot a handler drops.
Drop(dirs) ==
  listing' = [d \in Listed |-> IF d \in dirs THEN NoSlot ELSE listing[d]]

Unlocked(d) == \A t \in Pool : job[t].dir # d

Told(es) ==
  known' = LET told == {e.path : e \in es}
           IN [p \in DOMAIN known \cup told |-> IF p \in told THEN p ELSE known[p]]

\* readdirplus: serve the listing, or have it built on the pool.
Readdirplus(t, d) ==
  /\ Knows(d) /\ known[d] \in DOMAIN Drained
  /\ job[t].pc = "idle" /\ Unlocked(d)
  /\ Drained[known[d]].path = d
  /\ Register(Drained)
  /\ IF listing[d].done
     THEN Told(listing[d].entries) /\ UNCHANGED <<listing, job>>
     ELSE /\ listing' = [listing EXCEPT ![d] = [NoSlot EXCEPT !.by = t]]
          /\ job' = [job EXCEPT ![t] = [NoJob EXCEPT !.pc = "list", !.dir = d]]
          /\ UNCHANGED known
  /\ UNCHANGED <<tree, synth, overlay, gone, changes>>

BuildList(t) ==
  /\ job[t].pc = "list"
  /\ job' = [job EXCEPT ![t].pc = "queue", ![t].entries = EntriesOfDir(job[t].dir)]
  /\ UNCHANGED <<tree, synth, overlay, paths, queue, listing, known, gone, changes>>

\* (Slip: the batch is not queued.)
BuildUnqueued(t) ==
  /\ job[t].pc = "queue"
  /\ job' = [job EXCEPT ![t].pc = "serve"]
  /\ UNCHANGED <<tree, synth, overlay, paths, queue, listing, known, gone, changes>>

BuildQueue(t) ==
  /\ job[t].pc = "queue"
  /\ queue' = Append(queue, job[t].entries)
  /\ job' = [job EXCEPT ![t].pc = "serve"]
  /\ UNCHANGED <<tree, synth, overlay, paths, listing, known, gone, changes>>

\* The slot gets the entries, whether or not it is still the one in dir_cache.
BuildServe(t) ==
  LET d == job[t].dir IN
  /\ job[t].pc = "serve"
  /\ listing' = IF listing[d].by # t THEN listing
                ELSE [listing EXCEPT ![d] = [by |-> None, done |-> TRUE, entries |-> job[t].entries]]
  /\ Told(job[t].entries)
  /\ job' = [job EXCEPT ![t] = NoJob]
  /\ UNCHANGED <<tree, synth, overlay, paths, queue, gone, changes>>

-----------------------------------------------------------------------------
\* Changes.  A client's call reaches the mount after the kernel looked the name up.

Change(p) ==
  /\ changes < MaxChanges
  /\ changes' = changes + 1
  /\ Reachable(p)
  /\ Unlocked(Parent(p))

\* A new file gets no name that was renamed away (its inode stands for the new
\* name), a new directory none that was a file (its inode keeps that kind).
Create(p) ==
  LET c == PathOf(p) IN
  /\ Change(p)
  /\ LookupKind(c) = "absent"
  /\ c \in DOMAIN Drained => Drained[c] = Entry(c, FALSE)
  /\ Register(Ensured(c, FALSE))
  /\ overlay' = overlay \cup {c}
  /\ Drop({Parent(c)})
  /\ Learn(p, c)
  /\ gone' = gone \ {c}
  /\ UNCHANGED <<tree, synth, job>>

Mkdir(p) ==
  LET c == PathOf(p) IN
  /\ Change(p)
  /\ LookupKind(c) = "absent"
  /\ c \notin DOMAIN Drained
  /\ synth' = synth \cup {c}
  /\ Register(Ensured(c, TRUE))
  /\ Drop({Parent(c)})
  /\ Learn(p, c)
  /\ UNCHANGED <<tree, overlay, job, gone>>

\* Nothing is below it, in the tree or in the overlay.
Rmdir(p) ==
  LET c == PathOf(p) IN
  /\ Change(p)
  /\ ~HoldsFiles(tree, c)
  /\ \A q \in overlay : ~IsStrictPrefix(c.segs, q.segs)
  /\ c \in synth
  /\ synth' = synth \ {c}
  /\ Register(Drained)
  /\ Drop({Parent(c)})
  /\ Forget(p)
  /\ UNCHANGED <<tree, overlay, job, gone>>

Plainly(c) == ~Synthetic(c)

\* Both inodes stand for the new name, the kernel goes on using the old one.
Repointed(src, dst) ==
  [i \in DOMAIN Drained \cup {src, dst} |->
     IF i \in {src, dst} THEN Entry(dst, FALSE) ELSE Drained[i]]

\* (Slip: only the target's listing is dropped.)
RenameDropsTarget(src, dst) == Drop({Parent(dst)})

RenameDrops(src, dst) == Drop({Parent(src), Parent(dst)})

\* The kernel has the file by the inode of its name or of the new one, and no other
\* name by either: what it looked up since the last rename.
OwnInodes(p, q, src, dst) ==
  /\ known[p] \in {src, dst}
  /\ \A n \in DOMAIN known : known[n] \in {src, dst} => n \in {p, q}

\* Clients rename plain files here: a rename of a view, or of a directory, is
\* acknowledged and moves nothing.  A file that is renamed again is looked up first:
\* only the inodes of the two names are repointed.
Rename(p, q) ==
  LET src == PathOf(p)
      dst == PathOf(q)
  IN
  /\ Change(p)
  /\ Reachable(q) /\ Unlocked(Parent(q))
  /\ p # q /\ Knows(p)
  /\ Plainly(src) /\ Plainly(dst)
  /\ LookupKind(src) = "file" /\ LookupKind(dst) # "dir"
  /\ \A f \in {src, dst} : Present(tree, f) => IsUser(f)
  /\ OwnInodes(p, q, src, dst)
  /\ Register(Repointed(src, dst))
  /\ IF IsUser(src)
     THEN tree' = Upsert(Keep(tree, LAMBDA f : f # src), NewUser(dst))
     ELSE UNCHANGED tree
  /\ overlay' = (overlay \ {src}) \cup {dst}
  /\ RenameDrops(src, dst)
  /\ known' = [n \in (DOMAIN known \ {p}) \cup {q} |-> IF n = q THEN known[p] ELSE known[n]]
  /\ gone' = (gone \cup {src}) \ {dst}
  /\ UNCHANGED <<synth, job>>

\* A file of the user group, or one that is only in memory.
Unlink(p) ==
  LET c == PathOf(p) IN
  /\ Change(p)
  /\ Knows(p)
  /\ Plainly(c)
  /\ LookupKind(c) = "file"
  /\ Present(tree, c) => IsUser(c)
  /\ tree' = Keep(tree, LAMBDA f : f # c)
  /\ overlay' = overlay \ {c}
  /\ Register(Drained)
  /\ Drop({Parent(c)})
  /\ Forget(p)
  /\ gone' = gone \cup {c}
  /\ UNCHANGED <<synth, job>>

\* Of a view, only what was written to it goes.
UnlinkView(p) ==
  LET c == PathOf(p) IN
  /\ Change(p)
  /\ Knows(p)
  /\ Resolve(c) # {}
  /\ overlay' = overlay \ {c}
  /\ Register(Drained)
  /\ Drop({Parent(c)})
  /\ Forget(p)
  /\ UNCHANGED <<tree, synth, job, gone>>

\* A flush stores a new file; those of the pool leave the bytes in the overlay.
\* No listing is dropped.
Save(p) ==
  /\ p \in overlay
  /\ ~Present(tree, p)
  /\ Plainly(p)
  /\ tree' = Upsert(tree, NewUser(p))
  /\ \/ UNCHANGED overlay
     \/ overlay' = overlay \ {p}
  /\ UNCHANGED <<synth, paths, queue, listing, job, known, gone, changes>>

Next ==
  \/ \E p \in LookedUp : Lookup(p)
  \/ \E t \in Pool :
       \/ \E d \in Listed : Readdirplus(t, d)
       \/ BuildList(t) \/ BuildQueue(t) \/ BuildServe(t)
  \/ \E p \in Writable : Create(p) \/ Unlink(p) \/ Save(p)
  \/ \E p, q \in Writable : Rename(p, q)
  \/ \E p \in Makeable : Mkdir(p) \/ Rmdir(p)
  \/ \E p \in LookedUp : UnlinkView(p)

Spec == Init /\ [][Next]_vars

-----------------------------------------------------------------------------
\* A name the kernel holds leads to the file of that name: the inode is registered,
\* or is in a batch that the next call drains, and stands for that path, if no file
\* is renamed again before it is looked up; and when the name is no invented one,
\* getattr says of the inode what lookup says of the name.
\* (fs.rs: drain, ensure_path, rename, readdirplus)
NamesReach ==
  \A p \in DOMAIN known :
    /\ known[p] \in DOMAIN Drained
    /\ Drained[known[p]].path = p
    /\ ~Synthetic(p) /\ LookupKind(p) # "absent" => GetattrKind(known[p]) = LookupKind(p)

\* The same of the invented names: what a listing or a lookup registered a view, a
\* bundle or a directory of one as, it still is.
ViewsReach ==
  \A p \in DOMAIN known :
    Synthetic(p) /\ LookupKind(p) # "absent" => GetattrKind(known[p]) = LookupKind(p)

\* A file that was removed or renamed away is found under its old name no more,
\* though its inode stays registered: "so renamed-away paths don't ghost-resolve".
\* (fs.rs: lookup, rename, unlink)
GoneIsGone == \A p \in gone : LookupKind(p) = "absent"

\* The cached listing of a plain directory names no file that is not there: whatever
\* removes a file drops the listing, and a builder that was under way
\* cannot put the old one back.  (Directories that became empty may stay listed.)
\* (fs.rs: dir_slot, rename, unlink)
ListingsExist ==
  \A d \in Listed :
    ~Synthetic(d) => \A e \in listing[d].entries : ~e.isDir => Present(tree, e.path)

\* Listing, lookup and reading agree about views and bundles, whatever user files
\* come and go, and so does what getattr says of those the kernel knows.
\* (fs.rs: lookup, decode, build_virtual_dir_entries,
\* build_prefab_dir_entries; virtual_files.rs; prefab_view.rs)
SynthAgree == SynthAgreeOn(tree, 6) /\ ViewsReach
=============================================================================
